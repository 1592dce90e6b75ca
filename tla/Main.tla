------------------------------------ MODULE Main ------------------------------------
(***************************************************************************)
(* Runs of the program (src/src/main.rs): any number that sign templates in   *)
(* place (--sign), between them edits by their authors, and then one that     *)
(* scans: it collects targets, loads the templates that the signature policy, *)
(* the -esc gate and the filters let pass, makes the tasks, and reports what   *)
(* the engine finds, to the terminal, a JSONL file, remote receivers awaited  *)
(* one after the other, and at the end SARIF, Markdown and the exit code.     *)
(*                                                                         *)
(* The engine is what its channel of findings shows (ScanEngine has the       *)
(* rest): a task may find something, or not, or never end.  The text of a file *)
(* is a version and whether blank lines end it; a digest remembers both and    *)
(* the key.                                                                *)
(***************************************************************************)
EXTENDS Integers, Sequences, FiniteSets, SequencesExt, FiniteSetsExt

CONSTANTS
    Files,          \* template files, all under the -t directory
    Template,       \* what is in each, see TemplateType
    Targets,        \* names of targets
    Url,            \* of each target: host and explicit port
    Options,        \* command lines of the scan, and the receivers that never answer
    Threshold,      \* --honeypot-threshold
    ChannelCap,     \* capacity of the channel of findings
    MaxChanges      \* bound: signings and edits before the scan

Severities == {"info", "low", "medium", "high", "critical"}
TemplateType == [id : STRING, severity : Severities, tags : SUBSET STRING, parses : BOOLEAN,
                 selfContained : BOOLEAN, blocks : BOOLEAN,
                 flow : {"none", "boolean", "script"},
                 untimed : BOOLEAN,     \* code, javascript or websocket in it
                 local : BOOLEAN]       \* code or file in it: findings may name no host

ReportPaths == {"out", "results.sarif.json", "report.md"}

\* main makes at most one exporter of each kind, and the tracker is not one of them.
ASSUME MainAssumption ==
    /\ Template \in [Files -> TemplateType]
    /\ \A o \in Options :
          /\ {o.url, o.list, o.uncover} \subseteq Seq(Targets)
          /\ o.exporters \in Seq(STRING \ {"tracker"}) /\ IsInjective(o.exporters)
          /\ {o.output, o.markdown} \subseteq {""} \cup ReportPaths
    /\ Threshold \in Nat /\ ChannelCap \in Nat \ {0} /\ MaxChanges \in Nat

VARIABLES
    options,        \* the command line of the scan
    disk,           \* per file: version, blank lines at the end, digest
    key,            \* the signing key: absent, unreadable or ours
    changes,        \* signings and edits so far
    pc,             \* of the scan: targets, uncover, load, report, sarif, markdown, exited
    targets,        \* in order, not deduplicated
    loaded,         \* files whose templates take part
    todo,           \* tasks the engine has yet to begin or to finish
    stuck,          \* those of them that will never end, or never begin
    channel,        \* findings on their way
    closed,         \* the engine has dropped its senders
    detector,       \* honeypot detector: per host, template ids and whether flagged
    current,        \* the finding the report loop is at, << >> if at none
    receiver,       \* the index of the receiver that is awaited
    delivered,      \* per receiver: what it has stored
    printed, jsonl, \* what was written to the terminal, and as JSONL
    all,            \* all_findings
    files,          \* what the report files hold
    exit,           \* the exit code, -1 before
    unwritten,      \* history: a line of JSONL could not be written
    raised          \* history: findings in the order they entered the channel

signVars == <<disk, key, changes>>
reportVars == <<detector, current, receiver, delivered, printed, jsonl, unwritten, all>>
engineVars == <<todo, stuck, closed>>
vars == <<options, signVars, pc, targets, loaded, engineVars, channel, reportVars,
          files, exit, raised>>

NoDigest == [by |-> "nobody", version |-> 0, tail |-> FALSE]
Garbage == [by |-> "somebody", version |-> 0, tail |-> FALSE]

(***************************************************************************)
(* Signing.                                                                *)
(***************************************************************************)
\* sign_file hashes the lines as they are and writes them without the blank ones at
\* the end.
SignFile(f) ==
    [version |-> f.version, tail |-> FALSE,
     digest |-> [by |-> "us", version |-> f.version, tail |-> f.tail]]

\* load_or_create: a key that is there is read, or the run ends.
Sign ==
    /\ pc = "targets" /\ options.verify /\ changes < MaxChanges
    /\ key # "unreadable"
    /\ key' = "ours"
    /\ disk' = [f \in Files |-> SignFile(disk[f])]
    /\ changes' = changes + 1
    /\ UNCHANGED <<options, pc, targets, loaded, engineVars, channel, reportVars,
                   files, exit, raised>>

\* An author changes a file and may leave blank lines.
Edit(f) ==
    /\ pc = "targets" /\ options.verify /\ changes < MaxChanges
    /\ \E tail \in BOOLEAN :
          disk' = [disk EXCEPT ![f] = [version |-> @.version + 1, tail |-> tail,
                                       digest |-> @.digest]]
    /\ changes' = changes + 1
    /\ UNCHANGED <<options, key, pc, targets, loaded, engineVars, channel, reportVars,
                   files, exit, raised>>

Verified(f) == disk[f].digest = [by |-> "us", version |-> disk[f].version, tail |-> disk[f].tail]

(***************************************************************************)
(* Targets and templates.                                                   *)
(***************************************************************************)
Exit(code) == pc' = "exited" /\ exit' = code

\* On with the targets there are; a scan without any is the end.
GoOn == IF targets' = << >> THEN Exit(1) ELSE pc' = "load" /\ UNCHANGED exit

\* A list of targets that cannot be read is a message.
ResolveTargets ==
    /\ pc = "targets"
    /\ \E list \in {options.list, << >>} : targets' = options.url \o list
    /\ IF options.uncover = << >> THEN GoOn ELSE pc' = "uncover" /\ UNCHANGED exit
    /\ UNCHANGED <<options, signVars, loaded, engineVars, channel, reportVars, files, raised>>

\* UncoverClient::query: the service asked knows targets, or none, or there is an
\* error, which is the end.  Nothing limits the time it takes.
Uncover ==
    /\ pc = "uncover"
    /\ \/ /\ \E found \in {options.uncover, << >>} : targets' = targets \o found
          /\ GoOn
       \/ Exit(1) /\ UNCHANGED targets
    /\ UNCHANGED <<options, signVars, loaded, engineVars, channel, reportVars, files, raised>>

SignaturePolicy ==
    CASE ~options.verify -> "AllowAll"
      [] options.verify /\ key = "ours" -> "Verify"
      [] OTHER -> "RequireDigest"

\* Mutant of SignatureAllows: a digest line is enough.
SignatureAllowsAnyDigest(f) == SignaturePolicy # "AllowAll" => disk[f].digest # NoDigest

\* Without a key that can be read any digest line will do.
SignatureAllows(f) ==
    /\ SignaturePolicy = "Verify" => Verified(f)
    /\ SignaturePolicy = "RequireDigest" => disk[f].digest # NoDigest

PassesFilter(t) ==
    /\ options.severities # {} => t.severity \in options.severities
    /\ options.ids # {} => t.id \in options.ids
    /\ options.tags # {} => t.tags \cap options.tags # {}

LoadSingleTemplate(f) ==
    LET t == Template[f]
    IN  CASE ~SignatureAllows(f) -> "filtered"
          [] SignatureAllows(f) /\ ~t.parses -> "parse error"
          [] OTHER -> CASE t.selfContained /\ ~options.selfContained -> "self-contained"
                        [] ~t.blocks /\ t.flow = "none" -> "unsupported"
                        [] t.flow = "script" -> "unsupported"
                        [] ~PassesFilter(t) -> "filtered"
                        [] OTHER -> "loaded"

\* One task per template and target, target 0 (the empty one) for what is
\* self-contained, but not in clusters.
MakeTasks(templates) ==
    {task \in templates \X (0..Len(targets)) :
        task[2] = 0 <=> Template[task[1]].selfContained /\ ~options.cluster}

LoadTemplates ==
    /\ pc = "load"
    /\ loaded' = {f \in Files : LoadSingleTemplate(f) = "loaded"}
    /\ IF loaded' = {} THEN Exit(1) /\ UNCHANGED todo
       ELSE /\ pc' = "report"
            /\ todo' = MakeTasks(loaded')
            /\ UNCHANGED exit
    /\ UNCHANGED <<options, signVars, targets, stuck, channel, closed, reportVars, files, raised>>

(***************************************************************************)
(* The engine, as its channel shows it.                                     *)
(***************************************************************************)
\* matched_url has no host in it when it is the empty target that the code of a
\* self-contained template gets, or the path of a file from the root.
NoUrl == [host |-> "", port |-> ""]

\* The requests of a self-contained template name any host.
MatchedUrls(task) ==
    (IF Template[task[1]].local THEN {NoUrl} ELSE {})
    \cup (IF task[2] = 0 THEN {Url[t] : t \in Targets} ELSE {Url[targets[task[2]]]})

Finding(task, url) ==
    [id |-> Template[task[1]].id, severity |-> Template[task[1]].severity, task |-> task,
     url |-> url]

Find(task) ==
    /\ task \in todo \ stuck
    /\ Len(channel) < ChannelCap
    /\ \E url \in MatchedUrls(task) :
          /\ channel' = Append(channel, Finding(task, url))
          /\ raised' = Append(raised, Finding(task, url))
    /\ todo' = todo \ {task}
    /\ UNCHANGED <<options, signVars, pc, targets, loaded, stuck, closed, reportVars, files, exit>>

Miss(task) ==
    /\ task \in todo \ stuck
    /\ todo' = todo \ {task}
    /\ UNCHANGED <<options, signVars, pc, targets, loaded, stuck, channel, closed, reportVars,
                   files, exit, raised>>

\* A task without a timeout waits for ever, or one behind it for its worker.
Hang(task) ==
    /\ task \in todo \ stuck
    /\ Template[task[1]].untimed \/ stuck # {}
    /\ stuck' = stuck \cup {task}
    /\ UNCHANGED <<options, signVars, pc, targets, loaded, todo, channel, closed, reportVars,
                   files, exit, raised>>

\* Ctrl-C, or the engine panics: nobody looks at the result of scan_handle.  Tasks that
\* are under way may go on.
Stop ==
    /\ pc = "report"
    /\ \E left \in SUBSET todo : stuck \subseteq left /\ todo' = left
    /\ UNCHANGED <<options, signVars, pc, targets, loaded, stuck, channel, closed, reportVars,
                   files, exit, raised>>

Close ==
    /\ pc = "report" /\ todo = {} /\ ~closed
    /\ closed' = TRUE
    /\ UNCHANGED <<options, signVars, pc, targets, loaded, todo, stuck, channel, reportVars,
                   files, exit, raised>>

(***************************************************************************)
(* The report loop.                                                        *)
(***************************************************************************)
\* normalize_host_key: an explicit port stays, the default one too.
HostKey(url) == IF url.port = "" THEN << url.host >> ELSE << url.host, url.port >>

FreshHost == [ids |-> {}, flagged |-> FALSE]
HostState(hosts, url) == IF HostKey(url) \in DOMAIN hosts THEN hosts[HostKey(url)] ELSE FreshHost

\* Without a host or an id a match is not recorded.
Counts(finding) == HostKey(finding.url) # HostKey(NoUrl) /\ finding.id # ""

\* A host is flagged by the template that reaches the threshold, and stays so.
RecordMatch(hosts, finding) ==
    LET old == HostState(hosts, finding.url)
        ids == old.ids \cup {finding.id}
        new == IF old.flagged THEN old
               ELSE IF Cardinality(ids) >= Max({Threshold, 1})
               THEN [ids |-> {}, flagged |-> TRUE] ELSE [old EXCEPT !.ids = ids]
    IN  IF ~Counts(finding) THEN hosts
        ELSE [k \in DOMAIN hosts \cup {HostKey(finding.url)} |->
                 IF k = HostKey(finding.url) THEN new ELSE hosts[k]]

\* JSONL goes to the file of -o, or to the terminal instead of the printed lines.
Printed == ~options.silent /\ ~(options.jsonl /\ options.output = "")
JsonlOpen == options.jsonl /\ (options.output = "" \/ files[options.output].kind = "jsonl")

\* build_tracker_target: a tracker that lacks an option or a token is none.
TrackerTarget == IF options.tracker = "configured" THEN << "tracker" >> ELSE << >>
Receivers == options.exporters \o TrackerTarget

\* Mutant of WritesLine: the line is written before the finding is judged.
WritesLineFirst(suppressed) == JsonlOpen

WritesLine(suppressed) == JsonlOpen /\ ~suppressed

\* An error of write_finding is thrown away.  What could not be flushed may still go out
\* with a later line: here it goes out at once, or never.
WriteFinding(finding) ==
    \/ jsonl' = Append(jsonl, finding) /\ UNCHANGED unwritten
    \/ unwritten' = TRUE /\ UNCHANGED jsonl

\* The finding that has the host flagged is the first one to be suppressed.
Receive ==
    /\ pc = "report" /\ current = << >> /\ channel # << >>
    /\ channel' = Tail(channel)
    /\ LET finding == Head(channel)
           hosts == IF options.detect THEN RecordMatch(detector, finding) ELSE detector
           suppressed == options.suppress /\ HostState(hosts, finding.url).flagged
       IN  /\ detector' = hosts
           /\ IF WritesLine(suppressed) THEN WriteFinding(finding)
              ELSE UNCHANGED <<jsonl, unwritten>>
           /\ IF suppressed THEN UNCHANGED <<current, receiver, printed>>
              ELSE /\ current' = << finding >>
                   /\ receiver' = 1
                   /\ printed' = IF Printed THEN Append(printed, finding) ELSE printed
    /\ UNCHANGED <<options, signVars, pc, targets, loaded, engineVars, delivered, all,
                   files, exit, raised>>

\* Mutant of Returns: clients without a timeout.
ReturnsWithAnswer(name) == name \notin options.mute

\* A receiver that never answers is given ten seconds; an error is a warning.
Returns(name) == TRUE

\* One that is thought to have failed may have stored the finding.
Deliver(name) ==
    /\ Returns(name)
    /\ delivered' \in {delivered, [delivered EXCEPT ![name] = Append(@, current[1])]}
    /\ receiver' = receiver + 1
    /\ UNCHANGED <<options, signVars, pc, targets, loaded, engineVars, channel, detector,
                   current, printed, jsonl, unwritten, all, files, exit, raised>>

Export ==
    /\ current # << >> /\ receiver <= Len(options.exporters)
    /\ Deliver(options.exporters[receiver])

CreateIssue ==
    /\ current # << >> /\ receiver > Len(options.exporters) /\ receiver <= Len(Receivers)
    /\ Deliver("tracker")

Count ==
    /\ current # << >> /\ receiver > Len(Receivers)
    /\ all' = all \o current
    /\ current' = << >>
    /\ UNCHANGED <<options, signVars, pc, targets, loaded, engineVars, channel, detector,
                   receiver, delivered, printed, jsonl, unwritten, files, exit, raised>>

LoopEnds ==
    /\ pc = "report" /\ current = << >> /\ channel = << >> /\ closed
    /\ pc' = "sarif"
    /\ UNCHANGED <<options, signVars, targets, loaded, engineVars, channel, reportVars,
                   files, exit, raised>>

\* File::create empties what is there; the write may fail.
WriteReport(path, kind) ==
    \E ok \in BOOLEAN :
        files' = [files EXCEPT ![path] = [kind |-> kind, findings |-> IF ok THEN all ELSE << >>,
                                          whole |-> ok]]

Sarif ==
    /\ pc = "sarif"
    /\ IF options.sarif
       THEN WriteReport(IF options.output = "" THEN "results.sarif.json" ELSE options.output,
                        "sarif")
       ELSE UNCHANGED files
    /\ pc' = "markdown"
    /\ UNCHANGED <<options, signVars, targets, loaded, engineVars, channel, reportVars,
                   exit, raised>>

Markdown ==
    /\ pc = "markdown"
    /\ IF options.markdown # "" THEN WriteReport(options.markdown, "markdown") ELSE UNCHANGED files
    /\ Exit(IF \E i \in DOMAIN all : all[i].severity \in {"critical", "high"} THEN 1 ELSE 0)
    /\ UNCHANGED <<options, signVars, targets, loaded, engineVars, channel, reportVars, raised>>

(***************************************************************************)
(* The system.                                                             *)
(***************************************************************************)
NoFile == [kind |-> "none", findings |-> << >>, whole |-> FALSE]

\* A file for JSONL that cannot be created is not mentioned to anybody.
Init ==
    /\ options \in Options
    /\ \E digest \in [Files -> {NoDigest, Garbage}] :
          disk = [f \in Files |-> [version |-> 1, tail |-> FALSE, digest |-> digest[f]]]
    /\ ~options.verify => \A f \in Files : disk[f].digest = NoDigest
    /\ key \in IF options.verify THEN {"absent", "unreadable", "ours"} ELSE {"absent"}
    /\ changes = 0
    /\ pc = "targets"
    /\ targets = << >> /\ loaded = {} /\ todo = {} /\ stuck = {}
    /\ channel = << >> /\ closed = FALSE
    /\ detector = << >> /\ current = << >> /\ receiver = 1
    /\ delivered = [r \in ToSet(Receivers) |-> << >>]
    /\ printed = << >> /\ jsonl = << >> /\ unwritten = FALSE /\ all = << >>
    /\ files \in {[p \in ReportPaths |-> NoFile],
                  [p \in ReportPaths |-> IF p = options.output /\ options.jsonl
                                         THEN [NoFile EXCEPT !.kind = "jsonl"] ELSE NoFile]}
    /\ exit = -1
    /\ raised = << >>

Exited == pc = "exited" /\ UNCHANGED vars

Engine == (\E task \in todo : Find(task) \/ Miss(task)) \/ Close
Report == Receive \/ Export \/ CreateIssue \/ Count \/ LoopEnds \/ Sarif \/ Markdown
Load == ResolveTargets \/ LoadTemplates

Next ==
    \/ Sign \/ \E f \in Files : Edit(f)
    \/ Load \/ Uncover
    \/ Engine \/ Stop \/ \E task \in todo : Hang(task)
    \/ Report \/ Exited

\* The engine finishes the tasks that end, a receiver is awaited for ten seconds at
\* most; the query of uncover and the tasks that hang are owed nothing.
Spec == Init /\ [][Next]_vars /\ WF_vars(Load) /\ WF_vars(Engine) /\ WF_vars(Report)

(***************************************************************************)
(* Properties.                                                             *)
(***************************************************************************)
\* What is reported as one list: all_findings and the finding under way.
Reported == all \o current

\* In order, and not all.
Subsequence(s, t) ==
    \E at \in [DOMAIN s -> DOMAIN t] :
        /\ \A i \in DOMAIN s : s[i] = t[at[i]]
        /\ \A i, j \in DOMAIN s : i < j => at[i] < at[j]

\* Findings taken from the channel so far.
Taken == SubSeq(raised, 1, Len(raised) - Len(channel))

\* The host of the i-th finding had matched Threshold templates, that one included.
Concentrated(i) ==
    LET same == {k \in 1..i : Counts(Taken[k]) /\ HostKey(Taken[k].url) = HostKey(Taken[i].url)}
    IN  Cardinality({Taken[j].id : j \in same}) >= Max({Threshold, 1})

\* Those of them that are not suppressed, by their places.
Kept == {i \in DOMAIN Taken : ~(options.detect /\ options.suppress /\ Concentrated(i))}

\* All the reports tell the same story: every finding taken from the channel is
\* reported once and in order, but those of hosts that have matched as many different
\* templates as the threshold says; terminal, SARIF and Markdown have exactly these, and
\* so has JSONL when all its lines could be written; JSONL otherwise and the receivers
\* have some of them, in order; and the exit code is that of the worst one.  (A report
\* file that SARIF shares with JSONL has only the SARIF.)
ReportsAgree ==
    /\ pc \in {"report", "sarif", "markdown"} =>
          /\ Len(Reported) = Cardinality(Kept)
          /\ \A i \in Kept : Reported[Cardinality(Kept \cap (1..i))] = Taken[i]
    /\ Printed => printed = Reported
    /\ JsonlOpen => Subsequence(jsonl, Reported) /\ (~unwritten => jsonl = Reported)
    /\ \A r \in DOMAIN delivered : Subsequence(delivered[r], Reported)
    /\ \A p \in ReportPaths : files[p].whole => files[p].findings = Reported
    /\ pc = "exited" /\ targets # << >> /\ loaded # {} =>
          /\ channel = << >>
          /\ exit = 1 <=> \E f \in ToSet(Reported) : f.severity \in {"critical", "high"}

\* What is scanned was asked for: with -duts and a key it was signed with that key and
\* not edited since, flows that are not understood and, without -esc, self-contained
\* templates do not run, and a file that this program has signed and nobody has edited
\* since is not lost, but one that ended in blank lines when it was signed.
SelectionHolds ==
    pc = "report" =>
        /\ \A f \in loaded :
              /\ options.verify /\ key = "ours" =>
                    disk[f].digest.by = "us" /\ disk[f].digest.version = disk[f].version
              /\ Template[f].flow # "script"
              /\ Template[f].selfContained => options.selfContained
              /\ options.ids # {} => Template[f].id \in options.ids
        /\ \A f \in Files \ loaded :
              disk[f].digest = [by |-> "us", version |-> disk[f].version, tail |-> FALSE]
                /\ ~disk[f].tail
              => LET t == Template[f]
                 IN  \/ ~t.parses
                     \/ t.flow = "script"
                     \/ (~t.blocks /\ t.flow = "none")
                     \/ (t.selfContained /\ ~options.selfContained)
                     \/ ~PassesFilter(t)

\* Every finding raised is taken and carried through all the reports, whatever the
\* receivers of findings answer, or when they do not; and the program ends, unless the
\* query of uncover or a task of the engine does not.
EverythingReported ==
    pc # "uncover" ~> /\ channel = << >> /\ current = << >>
                      /\ pc \in {"uncover", "exited"} \/ stuck # {}
====================================================================================
