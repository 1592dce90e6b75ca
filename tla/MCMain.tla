----------------------------------- MODULE MCMain -----------------------------------
(***************************************************************************)
(* Small instances of Main.                                                *)
(***************************************************************************)
EXTENDS Main

Simple == [id |-> "cve", severity |-> "critical", tags |-> {"rce"}, parses |-> TRUE,
           selfContained |-> FALSE, blocks |-> TRUE, flow |-> "none", untimed |-> FALSE,
           local |-> FALSE]

MCTemplate ==
    [cve |-> Simple,
     info |-> [Simple EXCEPT !.id = "tech", !.severity = "info", !.tags = {}],
     cloud |-> [Simple EXCEPT !.id = "cloud", !.severity = "low", !.selfContained = TRUE,
                      !.untimed = TRUE, !.local = TRUE],
     script |-> [Simple EXCEPT !.id = "script", !.flow = "script"],
     empty |-> [Simple EXCEPT !.id = "empty", !.blocks = FALSE],
     torn |-> [Simple EXCEPT !.parses = FALSE]]
MCFiles == DOMAIN MCTemplate

\* One host under two keys, because of an explicit port.
MCUrl == [plain |-> [host |-> "h", port |-> ""], path |-> [host |-> "h", port |-> ""],
          port |-> [host |-> "h", port |-> "443"]]
MCTargets == DOMAIN MCUrl

Quiet == [url |-> << "plain" >>, list |-> << >>, uncover |-> << >>, verify |-> FALSE,
          severities |-> {}, ids |-> {}, tags |-> {}, selfContained |-> FALSE,
          cluster |-> FALSE, silent |-> TRUE, jsonl |-> FALSE, output |-> "",
          exporters |-> << >>, tracker |-> "none", detect |-> FALSE, suppress |-> FALSE,
          sarif |-> FALSE, markdown |-> "", mute |-> {}]

MCOptions == {
    [Quiet EXCEPT !.verify = TRUE, !.ids = {"cve", "script"}],
    [Quiet EXCEPT !.list = << "path" >>, !.url = << >>, !.uncover = << "port" >>,
                  !.severities = {"low"}, !.selfContained = TRUE, !.silent = FALSE,
                  !.jsonl = TRUE, !.sarif = TRUE],
    [Quiet EXCEPT !.list = << "path" >>, !.detect = TRUE, !.suppress = TRUE, !.jsonl = TRUE,
                  !.output = "out", !.silent = FALSE, !.markdown = "report.md",
                  !.exporters = << "webhook" >>, !.mute = {"webhook"}],
    [Quiet EXCEPT !.list = << "port" >>, !.detect = TRUE, !.suppress = TRUE, !.silent = FALSE,
                  !.tracker = "configured", !.selfContained = TRUE, !.tags = {"rce"}],
    [Quiet EXCEPT !.cluster = TRUE, !.selfContained = TRUE, !.tracker = "configured",
                  !.exporters = << "elasticsearch", "splunk" >>, !.jsonl = TRUE,
                  !.output = "out", !.sarif = TRUE]}
=====================================================================================
