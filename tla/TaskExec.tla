-------------------------------- MODULE TaskExec --------------------------------
(***************************************************************************)
(* One scan task from execute_task to its end: the protocol blocks of a     *)
(* plain template (src/src/engine/runner/protocols.rs), a flow expression   *)
(* over blocks (flow.rs, runner/flow_exec.rs), or a workflow of steps that  *)
(* run other templates (workflow.rs, runner/workflow_exec.rs).  The task    *)
(* runs in one worker; Ctrl-C falls between any two of its steps.  The      *)
(* call stack of the recursive functions is the variable agenda.  Left out  *)
(* are the breaker, which a task asks only before it starts, and the        *)
(* channel of findings (both in ScanEngine), and interactsh.               *)
(***************************************************************************)
EXTENDS Integers, Sequences, FiniteSets, SequencesExt

CONSTANTS
    Templates,      \* the loaded templates, by number
    Nodes,          \* the nodes of all flow expressions, children first
    Steps,          \* the steps of all workflows, by number
    Names,          \* names of matchers, extractors and variables
    HeadlessEnabled \* --headless

Protocols == << "dns", "network", "ssl", "whois", "file", "code", "websocket",
                "headless", "javascript", "http" >>

\* needs: the variables in the text of the request; race: how many copies of it
\* are fired at once.
Request == [needs : SUBSET Names, race : Nat \ {0}]

\* matchers: whether the block has matchers, and one that is not internal;
\* name: the name of its matchers, "" if they have none; stop: its own
\* stop-at-first-match; gives: the names its extractors may fill; requests: of an
\* http block its requests, of a file block the files, of others one.
Block == [proto : ToSet(Protocols), matchers : {"none", "internal", "public"},
          name : Names \cup {""}, stop : BOOLEAN, gives : SUBSET Names,
          requests : Seq(Request)]

\* blocks: in the order of execute_protocols; flow: the root of the flow
\* expression, or 0; workflow: the top-level steps; tags and paths: what steps
\* may select the template by.
TemplateType == [blocks : Seq(Block), flow : {0} \cup DOMAIN Nodes,
                 workflow : Seq(DOMAIN Steps), tags : SUBSET STRING, paths : SUBSET STRING]

\* tags and path: what selects the templates of the step; subs: its subtemplates;
\* gates: its matchers, each a set of names, whether all of them count, and the
\* subtemplates behind it.
StepType == [tags : SUBSET STRING, path : STRING, subs : Seq(DOMAIN Steps),
             gates : Seq([names : SUBSET Names, all : BOOLEAN, subs : Seq(DOMAIN Steps)])]

\* left and right are the operands, b is the block a call names.
NodeType == [op : {"bool", "call", "negate", "and", "or"}, left : Nat, right : Nat, b : Nat,
             bool : BOOLEAN]

Rank(p) == CHOOSE i \in DOMAIN Protocols : Protocols[i] = p

ASSUME TaskAssumption ==
    /\ Templates \in Seq(TemplateType)
    /\ \A t \in DOMAIN Templates : \A i, j \in DOMAIN Templates[t].blocks :
          i < j => Rank(Templates[t].blocks[i].proto) <= Rank(Templates[t].blocks[j].proto)
    /\ Steps \in Seq(StepType)
    /\ Nodes \in Seq(NodeType)
    /\ \A n \in DOMAIN Nodes :
          /\ Nodes[n].op \in {"negate", "and", "or"} => Nodes[n].left \in 1..(n - 1)
          /\ Nodes[n].op \in {"and", "or"} => Nodes[n].right \in 1..(n - 1)
    /\ HeadlessEnabled \in BOOLEAN

\* A FlowNode owns its operands: no node is an operand twice.
Operands(n) ==
    CASE Nodes[n].op = "negate" -> {Nodes[n].left}
      [] Nodes[n].op \in {"and", "or"} -> {Nodes[n].left, Nodes[n].right}
      [] OTHER -> {}

ASSUME FlowsAreTrees ==
    /\ \A m, n \in DOMAIN Nodes : m # n => Operands(m) \cap Operands(n) = {}
    /\ \A n \in DOMAIN Nodes : Nodes[n].op \in {"and", "or"} => Nodes[n].left # Nodes[n].right

VARIABLES
    task,               \* the template of the task
    stopAtFirstMatch,   \* --stop-at-first-match
    isCancelled,
    agenda,             \* what is left to do, the innermost call first
    extracted,          \* extracted_vars: the variables that have a value
    spmStop,            \* spm_stop of the current execute_protocols
    value,              \* what the last flow node returned
    results,            \* per workflow step: matched, and the names captured
    findings,           \* the findings sent: template and block, 0 for a flow
    \* history, read by the properties only:
    sends,              \* requests sent
    lateSends,          \* those sent after Ctrl-C
    lateLeaves,         \* those of them that blocks of flows sent without looking at a flag
    allowed,            \* requests whose check had been passed at Ctrl-C
    reported,           \* protocols whose blocks in this execute_protocols have reported
    leaves,             \* per flow node: what its block returned, "none" before
    ran                 \* the workflow steps that were run

settings == <<task, stopAtFirstMatch>>
late == <<lateSends, lateLeaves, allowed>>
history == <<sends, late, reported>>
vars == <<settings, isCancelled, agenda, extracted, spmStop, value, results, findings,
          history, leaves, ran>>

\* What agenda is made of.  t is the template that runs, s the step it runs for (0
\* outside workflows); todo are the templates a step has still to run; bound are the
\* variables that had a value when the block was entered.
InStep == {0} \cup DOMAIN Steps
StepItem == [op : {"topstep", "step", "subs"}, s : DOMAIN Steps]
GateItem == [op : {"gate"}, s : DOMAIN Steps, g : Nat]
TemplateItem == [op : {"template"}, s : DOMAIN Steps, todo : SUBSET DOMAIN Templates]
BlockItem == [op : {"block"}, t : DOMAIN Templates, b : Nat, s : InStep]
RequestItem == [op : {"probe", "http", "armed", "answers"}, t : DOMAIN Templates, b : Nat,
                s : InStep, r : Nat, left : Nat, bound : SUBSET Names]
NodeItem == [op : {"eval", "negate", "and", "or"}, n : DOMAIN Nodes, t : DOMAIN Templates,
             s : InStep]
VerdictItem == [op : {"verdict"}, t : DOMAIN Templates, s : InStep]
FlowHttpItem == [op : {"flowhttp", "flowsend"}, n : DOMAIN Nodes, t : DOMAIN Templates,
                 s : InStep, b : Nat, r : Nat, bound : SUBSET Names,
                 any : BOOLEAN, hit : BOOLEAN]
Item == [op : {"task"}] \cup StepItem \cup GateItem \cup TemplateItem \cup BlockItem
        \cup RequestItem \cup NodeItem \cup VerdictItem \cup FlowHttpItem

TypeOK ==
    /\ task \in DOMAIN Templates
    /\ {stopAtFirstMatch, isCancelled, spmStop, value} \subseteq BOOLEAN
    /\ reported \subseteq ToSet(Protocols)
    /\ agenda \in Seq(Item)
    /\ extracted \subseteq Names
    /\ results \in [DOMAIN Steps -> [matched : BOOLEAN, names : SUBSET Names]]
    /\ findings \in Seq([t : DOMAIN Templates, b : Nat])
    /\ \A i \in DOMAIN findings : findings[i].b <= Len(Templates[findings[i].t].blocks)
    /\ {sends, lateSends, lateLeaves, allowed} \subseteq Nat /\ lateSends <= sends
    /\ leaves \in [DOMAIN Nodes -> {"none", "true", "false"}]
    /\ ran \subseteq DOMAIN Steps

Init ==
    /\ task \in DOMAIN Templates
    /\ stopAtFirstMatch \in BOOLEAN
    /\ isCancelled = FALSE
    /\ agenda = << [op |-> "task"] >>
    /\ extracted = {}
    /\ spmStop = FALSE
    /\ value = FALSE
    /\ results = [s \in DOMAIN Steps |-> [matched |-> FALSE, names |-> {}]]
    /\ findings = << >>
    /\ sends = 0 /\ lateSends = 0 /\ lateLeaves = 0 /\ allowed = 0
    /\ reported = {}
    /\ leaves = [n \in DOMAIN Nodes |-> "none"]
    /\ ran = {}

At(op) == agenda # << >> /\ agenda[1].op = op
Top == agenda[1]
Return == agenda' = Tail(agenda)
Call(items) == agenda' = items \o Tail(agenda)
BlockAt == Templates[Top.t].blocks[Top.b]
RequestAt == BlockAt.requests[Top.r]

(***************************************************************************)
(* execute_task and the workflow executor.  A step of 0 is no workflow.     *)
(***************************************************************************)
ProtocolItems(t, s) ==
    [i \in DOMAIN Templates[t].blocks |-> [op |-> "block", t |-> t, b |-> i, s |-> s]]
FlowItems(t, s) == << [op |-> "eval", n |-> Templates[t].flow, t |-> t, s |-> s],
                      [op |-> "verdict", t |-> t, s |-> s] >>
StepItems(op, steps) == [i \in DOMAIN steps |-> [op |-> op, s |-> steps[i]]]

\* A dropped host ends the task at once.
ExecuteTask ==
    /\ At("task")
    /\ LET template == Templates[task]
       IN  \/ Return
           \/ template.workflow # << >> /\ Call(StepItems("topstep", template.workflow))
           \/ /\ template.workflow = << >>
              /\ Call(IF template.flow # 0 THEN FlowItems(task, 0) ELSE ProtocolItems(task, 0))
    /\ UNCHANGED <<settings, isCancelled, extracted, spmStop, value, results, findings,
                   history, leaves, ran>>

\* execute_workflow looks at the flag before each of its own steps only.
TopStep ==
    /\ At("topstep")
    /\ IF isCancelled THEN agenda' = << >> ELSE Call(<< [op |-> "step", s |-> Top.s] >>)
    /\ UNCHANGED <<settings, isCancelled, extracted, spmStop, value, results, findings,
                   history, leaves, ran>>

\* resolve_step: by tags if the step has any, else by the end of the path.
ResolveStep(step) ==
    {t \in DOMAIN Templates : IF step.tags # {} THEN Templates[t].tags \cap step.tags # {}
                                                ELSE step.path \in Templates[t].paths}

RunStep ==
    /\ At("step")
    /\ LET step == Steps[Top.s]
       IN  Call(<< [op |-> "template", s |-> Top.s, todo |-> ResolveStep(step)],
                   [op |-> "subs", s |-> Top.s] >>
                \o [g \in DOMAIN step.gates |-> [op |-> "gate", s |-> Top.s, g |-> g]])
    /\ ran' = ran \cup {Top.s}
    /\ UNCHANGED <<settings, isCancelled, extracted, spmStop, value, results, findings,
                   history, leaves>>

\* execute_workflow_template, for the templates of the step in their order: one with
\* a flow runs through it; a workflow among them has no blocks of its own and does
\* nothing.
RunTemplate ==
    /\ At("template")
    /\ \/ /\ Top.todo = {}
          /\ Return
          /\ UNCHANGED <<spmStop, reported, leaves>>
       \/ \E t \in Top.todo :
             /\ \A u \in Top.todo : t <= u
             /\ Call((IF Templates[t].flow # 0 THEN FlowItems(t, Top.s)
                                               ELSE ProtocolItems(t, Top.s))
                     \o << [Top EXCEPT !.todo = @ \ {t}] >>)
             /\ spmStop' = FALSE /\ reported' = {}
             /\ leaves' = [n \in DOMAIN Nodes |-> "none"]
    /\ UNCHANGED <<settings, isCancelled, extracted, value, results, findings, sends,
                   late, ran>>

\* Mutant of Subtemplates: the result of the step is not looked at.
SubtemplatesAlways ==
    /\ At("subs")
    /\ Call(StepItems("step", Steps[Top.s].subs))
    /\ UNCHANGED <<settings, isCancelled, extracted, spmStop, value, results, findings,
                   history, leaves, ran>>

\* Direct subtemplates run if the step produced any result.
Subtemplates ==
    /\ At("subs")
    /\ Call(IF results[Top.s].matched THEN StepItems("step", Steps[Top.s].subs) ELSE << >>)
    /\ UNCHANGED <<settings, isCancelled, extracted, spmStop, value, results, findings,
                   history, leaves, ran>>

\* workflow_matcher_matches
Satisfied(gate, result) ==
    IF gate.all THEN gate.names # {} /\ gate.names \subseteq result.names
                ELSE gate.names \cap result.names # {}

\* Named matchers gate subtemplates of their own.
Gate ==
    /\ At("gate")
    /\ LET gate == Steps[Top.s].gates[Top.g]
       IN  Call(IF Satisfied(gate, results[Top.s]) THEN StepItems("step", gate.subs) ELSE << >>)
    /\ UNCHANGED <<settings, isCancelled, extracted, spmStop, value, results, findings,
                   history, leaves, ran>>

(***************************************************************************)
(* What all blocks do with an answer.                                      *)
(***************************************************************************)
\* RunCapture: a match with its name, and the names of extractors with values.
Capture(matched, got) ==
    results' = IF Top.s = 0 THEN results
               ELSE [results EXCEPT ![Top.s] =
                       [matched |-> @.matched \/ matched,
                        names |-> @.names \cup got
                                  \cup (IF matched THEN {BlockAt.name} \ {""} ELSE {})]]

Report(reports) ==
    findings' = IF reports THEN Append(findings, [t |-> Top.t, b |-> Top.b]) ELSE findings

Sent(n) ==
    /\ sends' = sends + n
    /\ lateSends' = lateSends + (IF isCancelled THEN n ELSE 0)
    /\ UNCHANGED <<lateLeaves, allowed>>

\* The block has reported.
Reporting(reports) == reported' = reported \cup (IF reports THEN {BlockAt.proto} ELSE {})

\* The matchers of the block hold for some answers; of none, never.
Hits == IF BlockAt.matchers = "none" THEN {FALSE} ELSE BOOLEAN
PublicHits == IF BlockAt.matchers = "public" THEN BOOLEAN ELSE {FALSE}

(***************************************************************************)
(* Blocks of other protocols than http: the flags, one request, its answer. *)
(***************************************************************************)
EnterBlock ==
    /\ At("block")
    /\ IF isCancelled \/ spmStop \/ (BlockAt.proto = "headless" /\ ~HeadlessEnabled)
       THEN Return
       ELSE Call(<< [op |-> IF BlockAt.proto = "http" THEN "http" ELSE "probe",
                     t |-> Top.t, b |-> Top.b, s |-> Top.s, r |-> 1, left |-> 0,
                     bound |-> extracted] >>)
    /\ UNCHANGED <<settings, isCancelled, extracted, spmStop, value, results, findings,
                   history, leaves, ran>>

Probing(p) == At("probe") /\ BlockAt.proto = p
UnlessProbe == UNCHANGED <<settings, isCancelled, value, leaves, ran>>

NoAnswer ==
    /\ Return
    /\ Sent(1)
    /\ UNCHANGED <<extracted, spmStop, results, findings, reported>>

\* A hit is reported, and ends the template under --stop-at-first-match.
Answered(hit, got) ==
    /\ Return
    /\ Sent(1)
    /\ extracted' = extracted \cup got
    /\ Capture(hit, got)
    /\ Report(hit)
    /\ Reporting(hit)
    /\ spmStop' = (spmStop \/ (hit /\ stopAtFirstMatch))

\* dns, network and ssl fill variables; internal matchers do not report.
Extracting == NoAnswer \/ \E hit \in PublicHits, got \in SUBSET BlockAt.gives : Answered(hit, got)

\* whois, code, websocket and headless do neither; internal matchers report.
Bare == NoAnswer \/ \E hit \in Hits : Answered(hit, {})

ExecuteDns == Probing("dns") /\ Extracting /\ UnlessProbe
ExecuteNetwork == Probing("network") /\ Extracting /\ UnlessProbe
ExecuteSsl == Probing("ssl") /\ Extracting /\ UnlessProbe
ExecuteWhois == Probing("whois") /\ Bare /\ UnlessProbe
ExecuteCode == Probing("code") /\ Bare /\ UnlessProbe
ExecuteWebsocket == Probing("websocket") /\ Bare /\ UnlessProbe
ExecuteHeadless == Probing("headless") /\ Bare /\ UnlessProbe

\* The files of a block are evaluated in turn; nothing is sent.
ExecuteFile ==
    /\ Probing("file")
    /\ \/ /\ Top.r > Len(BlockAt.requests)
          /\ Return
          /\ UNCHANGED <<results, findings, spmStop, reported>>
       \/ /\ Top.r <= Len(BlockAt.requests)
          /\ \E hit \in Hits :
                /\ Capture(hit, {})
                /\ Report(hit)
                /\ Reporting(hit)
                /\ spmStop' = (spmStop \/ (hit /\ stopAtFirstMatch))
                /\ IF hit /\ stopAtFirstMatch THEN Return
                   ELSE Call(<< [Top EXCEPT !.r = @ + 1] >>)
    /\ UNCHANGED <<extracted, sends, late>> /\ UnlessProbe

\* An unmet precondition counts as no answer; a match never sets spm_stop.
ExecuteJs ==
    /\ Probing("javascript")
    /\ \/ NoAnswer
       \/ \E hit \in PublicHits :
             /\ Return
             /\ Sent(1)
             /\ extracted' = extracted \cup ({"javascript_response"} \cap Names)
             /\ Capture(hit, {})
             /\ Report(hit)
             /\ Reporting(hit)
             /\ UNCHANGED spmStop
    /\ UnlessProbe

(***************************************************************************)
(* execute_http.                                                           *)
(***************************************************************************)
\* Mutant of NextRequest: the flag is not looked at between requests.
NextRequestUnchecked ==
    /\ At("http")
    /\ IF Top.r > Len(BlockAt.requests) THEN Return
       ELSE Call(<< IF RequestAt.needs \subseteq Top.bound
                    THEN [Top EXCEPT !.op = "armed"] ELSE [Top EXCEPT !.r = @ + 1] >>)
    /\ UNCHANGED <<settings, isCancelled, extracted, spmStop, value, results, findings,
                   history, leaves, ran>>

\* The texts were filled in when the block was entered: a request with a variable
\* that had no value then is skipped.
NextRequest ==
    /\ At("http")
    /\ IF Top.r > Len(BlockAt.requests) \/ isCancelled THEN Return
       ELSE Call(<< IF RequestAt.needs \subseteq Top.bound
                    THEN [Top EXCEPT !.op = "armed"] ELSE [Top EXCEPT !.r = @ + 1] >>)
    /\ UNCHANGED <<settings, isCancelled, extracted, spmStop, value, results, findings,
                   history, leaves, ran>>

\* A race sends all copies at once and waits for all of them; some are answered.
SendHttp ==
    /\ At("armed")
    /\ \E n \in 0..RequestAt.race :
          Call(<< IF n = 0 THEN [Top EXCEPT !.op = "http", !.r = @ + 1]
                           ELSE [Top EXCEPT !.op = "answers", !.left = n] >>)
    /\ Sent(RequestAt.race)
    /\ UNCHANGED <<settings, isCancelled, extracted, spmStop, value, results, findings,
                   reported, leaves, ran>>

\* Mutant of Stops: the global flag is forgotten.
StopsOwnFlag == BlockAt.matchers = "internal" \/ BlockAt.stop

Stops == BlockAt.matchers = "internal" \/ BlockAt.stop \/ stopAtFirstMatch

\* evaluate_http_response, for one answer after the other: a block without
\* matchers is through with its first answer; a match ends it if Stops.
EvaluateHttpResponse ==
    /\ At("answers")
    /\ \E hit \in Hits, got \in SUBSET BlockAt.gives :
          /\ extracted' = extracted \cup got
          /\ Capture(hit, got)
          /\ Report(hit /\ BlockAt.matchers = "public")
          /\ Reporting(hit /\ BlockAt.matchers = "public")
          /\ spmStop' = (spmStop \/ (hit /\ Stops /\ stopAtFirstMatch))
          /\ IF BlockAt.matchers = "none" \/ (hit /\ Stops) THEN Return
             ELSE Call(<< IF Top.left > 1 THEN [Top EXCEPT !.left = @ - 1]
                          ELSE [Top EXCEPT !.op = "http", !.r = @ + 1] >>)
    /\ UNCHANGED <<settings, isCancelled, value, sends, late, leaves, ran>>

(***************************************************************************)
(* eval_flow_node.                                                         *)
(***************************************************************************)
Node == Nodes[Top.n]
UnlessFlow == UNCHANGED <<settings, isCancelled, spmStop, results, findings, reported, ran>>
Eval(n) == [op |-> "eval", n |-> n, t |-> Top.t, s |-> Top.s]
Rest(op) == [op |-> op, n |-> Top.n, t |-> Top.t, s |-> Top.s]

\* The node returns v; of a call, the history keeps it.
Yields(v) == Return /\ value' = v
LeafYields(v) ==
    /\ Yields(v)
    /\ leaves' = [leaves EXCEPT ![Top.n] = IF v THEN "true" ELSE "false"]

EvalBool ==
    /\ At("eval") /\ Node.op = "bool"
    /\ Yields(Node.bool)
    /\ UNCHANGED <<extracted, sends, late, leaves>> /\ UnlessFlow

\* !, && and || evaluate the left side first.
EvalOperator ==
    /\ At("eval") /\ Node.op \in {"negate", "and", "or"}
    /\ Call(<< Eval(Node.left), Rest(Node.op) >>)
    /\ UNCHANGED <<value, extracted, sends, late, leaves>> /\ UnlessFlow

\* Mutant of Combine: && evaluates its right side in any case.
CombineEager ==
    /\ \/ At("negate") /\ Yields(~value)
       \/ At("and") /\ Call(<< Eval(Node.right) >>) /\ UNCHANGED value
       \/ At("or") /\ ~value /\ Call(<< Eval(Node.right) >>) /\ UNCHANGED value
       \/ At("or") /\ value /\ Return /\ UNCHANGED value
    /\ UNCHANGED <<extracted, sends, late, leaves>> /\ UnlessFlow

\* ... and the right side only if the left one leaves the result open.
Combine ==
    /\ \/ At("negate") /\ Yields(~value)
       \/ At("and") /\ value /\ Call(<< Eval(Node.right) >>) /\ UNCHANGED value
       \/ At("or") /\ ~value /\ Call(<< Eval(Node.right) >>) /\ UNCHANGED value
       \/ At("and") /\ ~value /\ Return /\ UNCHANGED value
       \/ At("or") /\ value /\ Return /\ UNCHANGED value
    /\ UNCHANGED <<extracted, sends, late, leaves>> /\ UnlessFlow

\* A call of a block the template does not have.
FlowMissing ==
    /\ At("eval") /\ Node.op = "call" /\ Node.b \notin DOMAIN Templates[Top.t].blocks
    /\ LeafYields(FALSE)
    /\ UNCHANGED <<extracted, sends, late>> /\ UnlessFlow

LeafBlock == Templates[Top.t].blocks[Node.b]
Calling(p) ==
    /\ At("eval") /\ Node.op = "call" /\ Node.b \in DOMAIN Templates[Top.t].blocks
    /\ LeafBlock.proto = p

\* Blocks of other protocols look at no flag.  Without matchers an answer is a
\* match; internal matchers count like others.
LeafAnswers(gives) ==
    /\ sends' = sends + 1
    /\ lateSends' = lateSends + (IF isCancelled THEN 1 ELSE 0)
    /\ lateLeaves' = lateLeaves + (IF isCancelled THEN 1 ELSE 0)
    /\ UNCHANGED allowed
    /\ \/ LeafYields(FALSE) /\ UNCHANGED extracted
       \/ \E v \in (IF LeafBlock.matchers = "none" THEN {TRUE} ELSE BOOLEAN) :
             \E got \in gives : LeafYields(v) /\ extracted' = extracted \cup got
    /\ UnlessFlow

FlowDns == Calling("dns") /\ LeafAnswers(SUBSET LeafBlock.gives)
FlowNetwork == Calling("network") /\ LeafAnswers(SUBSET LeafBlock.gives)
FlowSsl == Calling("ssl") /\ LeafAnswers(SUBSET LeafBlock.gives)
FlowCode == Calling("code") /\ LeafAnswers({{}})
FlowJavascript == Calling("javascript") /\ LeafAnswers({{"javascript_response"} \cap Names})

\* flow_http_block: any: some request was answered; hit: some answer matched.
FlowHttp ==
    /\ Calling("http")
    /\ Call(<< [op |-> "flowhttp", n |-> Top.n, t |-> Top.t, s |-> Top.s, b |-> Node.b, r |-> 1,
                bound |-> extracted, any |-> FALSE, hit |-> FALSE] >>)
    /\ UNCHANGED <<value, extracted, sends, late, leaves>> /\ UnlessFlow

FlowNextRequest ==
    /\ At("flowhttp")
    /\ IF Top.r > Len(BlockAt.requests) \/ isCancelled
       THEN LeafYields(IF BlockAt.matchers = "none" THEN Top.any ELSE Top.hit)
       ELSE /\ Call(<< IF RequestAt.needs \subseteq Top.bound
                       THEN [Top EXCEPT !.op = "flowsend"] ELSE [Top EXCEPT !.r = @ + 1] >>)
            /\ UNCHANGED <<value, leaves>>
    /\ UNCHANGED <<extracted, sends, late>> /\ UnlessFlow

FlowSendHttp ==
    /\ At("flowsend")
    /\ Sent(1)
    /\ \/ /\ Call(<< [Top EXCEPT !.op = "flowhttp", !.r = @ + 1] >>)
          /\ UNCHANGED extracted
       \/ \E hit \in Hits, got \in SUBSET BlockAt.gives :
             /\ extracted' = extracted \cup got
             /\ Call(<< [Top EXCEPT !.op = "flowhttp", !.any = TRUE, !.hit = @ \/ hit,
                           !.r = IF hit /\ BlockAt.stop THEN Len(BlockAt.requests) + 1
                                                        ELSE @ + 1] >>)
    /\ UNCHANGED <<value, leaves>> /\ UnlessFlow

\* execute_flow, execute_flow_capture: one finding if the expression is true; of
\* a step the match, but no names, is recorded.
Verdict ==
    /\ At("verdict")
    /\ Return
    /\ findings' = IF value THEN Append(findings, [t |-> Top.t, b |-> 0]) ELSE findings
    /\ results' = IF value /\ Top.s # 0 THEN [results EXCEPT ![Top.s].matched = TRUE]
                                        ELSE results
    /\ UNCHANGED <<settings, isCancelled, extracted, spmStop, value, history, leaves, ran>>

\* What an item sends whose check of the flag has been passed.
Pass(item) ==
    CASE item.op = "probe" -> IF Templates[item.t].blocks[item.b].proto = "file" THEN 0 ELSE 1
      [] item.op = "armed" -> Templates[item.t].blocks[item.b].requests[item.r].race
      [] item.op = "flowsend" -> 1
      [] OTHER -> 0

Cancel ==
    /\ ~isCancelled
    /\ agenda # << >>
    /\ isCancelled' = TRUE
    /\ allowed' = Pass(Top)
    /\ UNCHANGED <<settings, agenda, extracted, spmStop, value, results, findings, sends,
                   lateSends, lateLeaves, reported, leaves, ran>>

Terminated == agenda = << >> /\ UNCHANGED vars

Next ==
    \/ ExecuteTask \/ TopStep \/ RunStep \/ RunTemplate \/ Subtemplates \/ Gate
    \/ EnterBlock
    \/ ExecuteDns \/ ExecuteNetwork \/ ExecuteSsl \/ ExecuteWhois \/ ExecuteFile
    \/ ExecuteCode \/ ExecuteWebsocket \/ ExecuteHeadless \/ ExecuteJs
    \/ NextRequest \/ SendHttp \/ EvaluateHttpResponse
    \/ EvalBool \/ EvalOperator \/ Combine \/ FlowMissing
    \/ FlowDns \/ FlowNetwork \/ FlowSsl \/ FlowCode \/ FlowJavascript
    \/ FlowHttp \/ FlowNextRequest \/ FlowSendHttp \/ Verdict
    \/ Cancel
    \/ Terminated

Spec == Init /\ [][Next]_vars

(***************************************************************************)
(* Properties.                                                             *)
(***************************************************************************)
\* What node n is worth if its operands are worth what worth says and the blocks returned
\* what returned says: "none" while that is open.
WorthOf(n, worth, returned) ==
    CASE Nodes[n].op = "bool" -> IF Nodes[n].bool THEN "true" ELSE "false"
      [] Nodes[n].op = "call" -> returned[n]
      [] Nodes[n].op = "negate" -> IF worth[Nodes[n].left] = "none" THEN "none"
                                   ELSE IF worth[Nodes[n].left] = "true" THEN "false" ELSE "true"
      [] Nodes[n].op = "and" ->
            IF "false" \in {worth[Nodes[n].left], worth[Nodes[n].right]} THEN "false"
            ELSE IF worth[Nodes[n].left] = "true" THEN worth[Nodes[n].right] ELSE "none"
      [] Nodes[n].op = "or" ->
            IF "true" \in {worth[Nodes[n].left], worth[Nodes[n].right]} THEN "true"
            ELSE IF worth[Nodes[n].left] = "false" THEN worth[Nodes[n].right] ELSE "none"

Worth(returned) ==
    LET worth[n \in DOMAIN Nodes] == WorthOf(n, worth, returned) IN worth

\* The calls an evaluation from left to right has to make.
CallsOf(n, touched, worth) ==
    CASE Nodes[n].op = "bool" -> {}
      [] Nodes[n].op = "call" -> {n}
      [] Nodes[n].op = "negate" -> touched[Nodes[n].left]
      [] Nodes[n].op = "and" -> touched[Nodes[n].left]
            \cup (IF worth[Nodes[n].left] = "true" THEN touched[Nodes[n].right] ELSE {})
      [] Nodes[n].op = "or" -> touched[Nodes[n].left]
            \cup (IF worth[Nodes[n].left] = "false" THEN touched[Nodes[n].right] ELSE {})

Touched(worth) ==
    LET touched[n \in DOMAIN Nodes] == CallsOf(n, touched, worth) IN touched

\* A flow reports exactly if its expression is true of what its blocks returned,
\* and it has run exactly the blocks that short-circuit evaluation calls for.
FlowAsWritten ==
    At("verdict") =>
        LET root == Templates[Top.t].flow
        IN  /\ Worth(leaves)[root] = (IF value THEN "true" ELSE "false")
            /\ {n \in DOMAIN Nodes : leaves[n] # "none"} = Touched(Worth(leaves))[root]

\* A step that is not at the top of a workflow runs only if a gate it hangs on is
\* open; and, unless the scan was cancelled, when the task is over each step
\* behind an open gate of a step that ran has run.
GatesRespected ==
    LET opened(s) == (IF results[s].matched THEN ToSet(Steps[s].subs) ELSE {})
                     \cup UNION {ToSet(g.subs) : g \in {h \in ToSet(Steps[s].gates) :
                                                      Satisfied(h, results[s])}}
        reachable == ToSet(Templates[task].workflow) \cup UNION {opened(s) : s \in ran}
    IN  /\ ran \subseteq reachable
        /\ agenda = << >> /\ ran # {} /\ ~isCancelled => ran = reachable

\* After Ctrl-C a task sends no more than what it had passed the check for, one block,
\* one request or one race, through however many blocks, nodes and steps it unwinds; but
\* for the blocks of flows other than http, which look at no flag.
CancelStopsTask == lateSends <= allowed + lateLeaves

\* With --stop-at-first-match nothing is sent for a template of which a block has
\* reported that is not a javascript block, whatever its protocol: execute_js leaves the
\* flag alone.
OthersReported == reported \ {"javascript"} # {}
StopsUnlessJavascript == [][stopAtFirstMatch /\ OthersReported => sends' = sends]_vars
================================================================================
