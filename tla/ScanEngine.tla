------------------------------- MODULE ScanEngine -------------------------------
(***************************************************************************)
(* The scan pipeline of EngineRunner::run (src/src/engine/runner/mod.rs):   *)
(* a producer feeds tasks through a bounded channel to a pool of workers;   *)
(* a worker runs the protocol blocks of its task, sends the findings        *)
(* through a second bounded channel to the report loop of main.rs, and      *)
(* consults the circuit breaker of HostErrors; Ctrl-C raises one flag that  *)
(* everybody polls.                                                        *)
(*                                                                         *)
(* A task is a number, its position in the vector of tasks.  The channel of *)
(* tasks has one producer and is first-in first-out, so what it holds is    *)
(* exactly received + 1 .. sent.  The work of a task is a sequence of       *)
(* probes, the requests of its protocol blocks in the order                 *)
(* execute_protocols runs them; how the remote side answers a probe is a    *)
(* free choice.  Templates with `workflows:`, `flow:`, `race:` or           *)
(* `fuzzing:` and the interactsh poller are outside this module.           *)
(***************************************************************************)
EXTENDS HostErrors, Sequences, FiniteSets

CONSTANTS
    Workers,            \* --concurrency workers
    NTasks,             \* number of (template, target) pairs
    Target,             \* Target[t]: the string execute_task passes to the breaker
    Probes,             \* Probes[t]: the requests of t's protocol blocks, in order
    TaskCap,            \* capacity of the task channel (concurrency * 4)
    FindingCap,         \* capacity of the finding channel (1000)
    StopAtFirstMatch,   \* --stop-at-first-match
    MaxPanics           \* bound: how many workers may panic

Tasks == 1..NTasks

\* The order in which execute_protocols runs the blocks of a template.
ProtocolOrder == << "dns", "network", "ssl", "whois", "file", "code",
                    "websocket", "headless", "javascript", "http" >>
Kinds == {ProtocolOrder[i] : i \in 1..10}
Rank(kind) == CHOOSE i \in 1..10 : ProtocolOrder[i] = kind

\* kind: the protocol; matchers: whether the block has matchers, and one that
\* is not internal; stop: the block's own stop-at-first-match; last: the
\* index of the last request of the same block; timed: whether the client
\* bounds the time the request takes, as http, dns and ssl do, and code,
\* javascript and a network block with read-all do not.
Probe == [kind : Kinds, matchers : {"none", "internal", "public"},
          stop : BOOLEAN, last : Nat, timed : BOOLEAN]

ASSUME EngineAssumption ==
    /\ NTasks \in Nat
    /\ TaskCap \in Nat \ {0}
    /\ FindingCap \in Nat \ {0}
    /\ MaxPanics \in Nat
    /\ StopAtFirstMatch \in BOOLEAN
    /\ Target \in [Tasks -> Targets]
    /\ Probes \in [Tasks -> Seq(Probe)]

ASSUME WorkersAssumption == Workers # {} /\ IsFiniteSet(Workers)

ASSUME ProbesAssumption ==
    \A t \in Tasks : \A p \in 1..Len(Probes[t]) :
        /\ Probes[t][p].last \in p..Len(Probes[t])
        /\ \A q \in p..Len(Probes[t]) :
              Rank(Probes[t][p].kind) <= Rank(Probes[t][q].kind)

VARIABLES
    producer,       \* the feeding task: "checking", "sending" or "done"
    sent,           \* tasks put into the channel
    received,       \* tasks taken out of it
    isCancelled,    \* the flag is_cancelled
    pc,             \* per worker: where it stands in the loop of run
    held,           \* per worker: the task in hand, 0 for none
    pos,            \* per worker: the probe it is at
    findings,       \* the channel of findings
    collected,      \* the findings the report loop has consumed
    engine,         \* run: "joining" its workers, then "returned"
    report,         \* the report loop of main: "running", then "done"
    \* history, read by the properties only:
    fate,           \* per task: what has become of it
    failures,       \* per breaker key: failed HTTP requests
    failedTasks,    \* tasks with a failed HTTP request
    lateSends,      \* per worker: requests sent after the cancellation
    panics          \* workers lost to a panic

feed == <<producer, sent>>
workers == <<pc, held, pos>>
output == <<findings, collected, engine, report>>
history == <<failures, failedTasks, lateSends>>
vars == <<breaker, feed, received, isCancelled, workers, output, fate, history, panics>>

FindingsOf == [t \in Tasks |-> {<<t, p>> : p \in 1..Len(Probes[t])}]
Findings == UNION {FindingsOf[t] : t \in Tasks}
Fates == {"queued", "running", "completed", "skipped", "cut", "lost"}
WorkerStates == {"recv", "received", "limited", "probing", "armed", "inflight",
                 "emitting", "exited", "crashed"}

TypeOK ==
    /\ BreakerTypeOK
    /\ producer \in {"checking", "sending", "done"}
    /\ sent \in 0..NTasks
    /\ received \in 0..sent
    /\ isCancelled \in BOOLEAN
    /\ pc \in [Workers -> WorkerStates]
    /\ held \in [Workers -> 0..NTasks]
    /\ pos \in [Workers -> Nat]
    /\ findings \in Seq(Findings)
    /\ collected \in SUBSET Findings
    /\ engine \in {"joining", "returned"}
    /\ report \in {"running", "done"}
    /\ fate \in [Tasks -> Fates]
    /\ failures \in [Targets -> Nat]
    /\ failedTasks \in SUBSET Tasks
    /\ lateSends \in [Workers -> Nat]
    /\ panics \in Nat

Init ==
    /\ BreakerInit
    /\ producer = "checking"
    /\ sent = 0
    /\ received = 0
    /\ isCancelled = FALSE
    /\ pc = [w \in Workers |-> "recv"]
    /\ held = [w \in Workers |-> 0]
    /\ pos = [w \in Workers |-> 0]
    /\ findings = << >>
    /\ collected = {}
    /\ engine = "joining"
    /\ report = "running"
    /\ fate = [t \in Tasks |-> "queued"]
    /\ failures = [k \in Targets |-> 0]
    /\ failedTasks = {}
    /\ lateSends = [w \in Workers |-> 0]
    /\ panics = 0

Gone(w) == pc[w] \in {"exited", "crashed"}
AllGone == \A w \in Workers : Gone(w)
ProbeOf(w) == Probes[held[w]][pos[w]]
IsHttp(w) == ProbeOf(w).kind = "http"

(***************************************************************************)
(* The producer.                                                           *)
(***************************************************************************)
ProducerCheck ==
    /\ producer = "checking"
    /\ producer' = IF sent = NTasks \/ isCancelled THEN "done" ELSE "sending"
    /\ UNCHANGED <<breaker, sent, received, isCancelled, workers, output, fate,
                   history, panics>>

\* send().await: waits for room, and fails once every receiver is gone.
ProducerSend ==
    /\ producer = "sending"
    /\ \/ /\ ~AllGone
          /\ sent - received < TaskCap
          /\ sent' = sent + 1
          /\ producer' = "checking"
       \/ /\ AllGone
          /\ producer' = "done"
          /\ UNCHANGED sent
    /\ UNCHANGED <<breaker, received, isCancelled, workers, output, fate,
                   history, panics>>

(***************************************************************************)
(* The worker loop of run.                                                 *)
(***************************************************************************)
\* Mutant of Recv: does not wait for the channel to hold something.
RecvWithoutWaiting(w) ==
    /\ pc[w] = "recv"
    /\ received < NTasks
    /\ received' = received + 1
    /\ held' = [held EXCEPT ![w] = received + 1]
    /\ pc' = [pc EXCEPT ![w] = "received"]
    /\ fate' = [fate EXCEPT ![received + 1] = "running"]
    /\ UNCHANGED <<breaker, feed, isCancelled, pos, output, history, panics>>

Recv(w) ==
    /\ pc[w] = "recv"
    /\ received < sent
    /\ received' = received + 1
    /\ held' = [held EXCEPT ![w] = received + 1]
    /\ pc' = [pc EXCEPT ![w] = "received"]
    /\ fate' = [fate EXCEPT ![received + 1] = "running"]
    /\ UNCHANGED <<breaker, feed, isCancelled, pos, output, history, panics>>

\* Mutant of RecvClosed: leaves although the channel still holds tasks.
RecvClosedEarly(w) ==
    /\ pc[w] = "recv"
    /\ producer = "done"
    /\ pc' = [pc EXCEPT ![w] = "exited"]
    /\ UNCHANGED <<breaker, feed, received, isCancelled, held, pos, output,
                   fate, history, panics>>

\* Mutant of RecvClosed: the sender outlives a cancelled producer.
RecvClosedAllSent(w) ==
    /\ pc[w] = "recv"
    /\ received = NTasks
    /\ producer = "done"
    /\ pc' = [pc EXCEPT ![w] = "exited"]
    /\ UNCHANGED <<breaker, feed, received, isCancelled, held, pos, output,
                   fate, history, panics>>

\* The sender is dropped when the producer ends; recv then fails on empty.
RecvClosed(w) ==
    /\ pc[w] = "recv"
    /\ received = sent
    /\ producer = "done"
    /\ pc' = [pc EXCEPT ![w] = "exited"]
    /\ UNCHANGED <<breaker, feed, received, isCancelled, held, pos, output,
                   fate, history, panics>>

\* The worker lets go of its task, which ended as `outcome`.
LetGo(w, outcome, next) ==
    /\ pc' = [pc EXCEPT ![w] = next]
    /\ held' = [held EXCEPT ![w] = 0]
    /\ fate' = [fate EXCEPT ![held[w]] = outcome]
    /\ UNCHANGED <<feed, received, isCancelled, pos, output, history>>

\* The check before the rate limiter; `break` drops the task in hand.
CheckCancelled(w) ==
    /\ pc[w] = "received"
    /\ IF isCancelled
       THEN LetGo(w, "cut", "exited")
       ELSE /\ pc' = [pc EXCEPT ![w] = "limited"]
            /\ UNCHANGED <<feed, received, isCancelled, held, pos, output, fate,
                           history>>
    /\ UNCHANGED <<breaker, panics>>

\* Past the limiter, execute_task asks the breaker before anything else.
ExecuteTask(w) ==
    /\ pc[w] = "limited"
    /\ IF IsDropped(Target[held[w]])
       THEN LetGo(w, "skipped", "recv")
       ELSE /\ pc' = [pc EXCEPT ![w] = "probing"]
            /\ pos' = [pos EXCEPT ![w] = 1]
            /\ UNCHANGED <<feed, received, isCancelled, held, output, fate,
                           history>>
    /\ UNCHANGED <<breaker, panics>>

(***************************************************************************)
(* The protocol blocks of execute_protocols.                               *)
(***************************************************************************)
\* Mutant of NextProbe: the loop over blocks does not poll is_cancelled.
NextProbeUnchecked(w) ==
    /\ pc[w] = "probing"
    /\ IF pos[w] > Len(Probes[held[w]])
       THEN LetGo(w, "completed", "recv")
       ELSE /\ pc' = [pc EXCEPT ![w] = "armed"]
            /\ UNCHANGED <<feed, received, isCancelled, held, pos, output, fate,
                           history>>
    /\ UNCHANGED <<breaker, panics>>

\* The top of the loop over blocks (and over the requests of an http block).
NextProbe(w) ==
    /\ pc[w] = "probing"
    /\ \/ /\ pos[w] > Len(Probes[held[w]])
          /\ LetGo(w, "completed", "recv")
       \/ /\ pos[w] <= Len(Probes[held[w]])
          /\ isCancelled
          /\ LetGo(w, "cut", "recv")
       \/ /\ pos[w] <= Len(Probes[held[w]])
          /\ ~isCancelled
          /\ pc' = [pc EXCEPT ![w] = "armed"]
          /\ UNCHANGED <<feed, received, isCancelled, held, pos, output, fate,
                         history>>
    /\ UNCHANGED <<breaker, panics>>

GoTo(w, p) ==
    /\ pc' = [pc EXCEPT ![w] = "probing"]
    /\ pos' = [pos EXCEPT ![w] = p]

\* An http request that still holds a `{{variable}}` is not sent.
SkipUnresolved(w) ==
    /\ pc[w] = "armed"
    /\ IsHttp(w)
    /\ GoTo(w, pos[w] + 1)
    /\ UNCHANGED <<breaker, feed, received, isCancelled, held, output, fate,
                   history, panics>>

Send(w) ==
    /\ pc[w] = "armed"
    /\ pc' = [pc EXCEPT ![w] = "inflight"]
    /\ lateSends' = [lateSends EXCEPT ![w] = IF isCancelled THEN @ + 1 ELSE @]
    /\ UNCHANGED <<breaker, feed, received, isCancelled, held, pos, output,
                   fate, failures, failedTasks, panics>>

\* send_http_one on an error; the other protocols ignore theirs.
Fail(w) ==
    /\ pc[w] = "inflight"
    /\ LET k == Target[held[w]] IN
       IF IsHttp(w)
       THEN /\ RecordError(k)
            /\ failures' = [failures EXCEPT ![k] = @ + 1]
            /\ failedTasks' = failedTasks \cup {held[w]}
       ELSE UNCHANGED <<breaker, failures, failedTasks>>
    /\ GoTo(w, pos[w] + 1)
    /\ UNCHANGED <<feed, received, isCancelled, held, output, fate, lateSends,
                   panics>>

\* Where the task goes on when the block at probe p matched: javascript blocks
\* never set spm_stop, an http block also stops on its own flag and on
\* matchers that are all internal.
AfterMatch(t, p) ==
    LET probe == Probes[t][p] IN
    CASE StopAtFirstMatch /\ probe.kind # "javascript" -> Len(Probes[t]) + 1
      [] probe.kind = "http" /\ ~StopAtFirstMatch
         /\ (probe.stop \/ probe.matchers = "internal") -> probe.last + 1
      [] OTHER -> p + 1

\* An answer that matches nothing; an http block without matchers stops there.
AfterAnswer(t, p) ==
    LET probe == Probes[t][p] IN
    IF probe.kind = "http" /\ probe.matchers = "none" THEN probe.last + 1 ELSE p + 1

\* Only http requests report to the breaker.
ReportSuccess(w) ==
    IF IsHttp(w) THEN RecordSuccess(Target[held[w]]) ELSE UNCHANGED breaker

Answer(w) ==
    /\ pc[w] = "inflight"
    /\ ReportSuccess(w)
    /\ GoTo(w, AfterAnswer(held[w], pos[w]))
    /\ UNCHANGED <<feed, received, isCancelled, held, output, fate, history, panics>>

\* Five protocols do not look whether a matcher is internal: they report all.
Reports(probe) ==
    \/ probe.matchers = "public"
    \/ /\ probe.matchers = "internal"
       /\ probe.kind \in {"whois", "file", "code", "websocket", "headless"}

\* The answer matches: what reports makes a finding, and internal matchers end an
\* http block silently; dns, network, ssl and javascript do not evaluate them.
Match(w) ==
    /\ pc[w] = "inflight"
    /\ ReportSuccess(w)
    /\ \/ /\ Reports(ProbeOf(w))
          /\ pc' = [pc EXCEPT ![w] = "emitting"]
          /\ UNCHANGED pos
       \/ /\ ProbeOf(w).matchers = "internal"
          /\ IsHttp(w)
          /\ GoTo(w, AfterMatch(held[w], pos[w]))
    /\ UNCHANGED <<feed, received, isCancelled, held, output, fate, history, panics>>

\* result_tx.send(finding).await waits for room in the channel.
Emit(w) ==
    /\ pc[w] = "emitting"
    /\ Len(findings) < FindingCap
    /\ findings' = Append(findings, <<held[w], pos[w]>>)
    /\ GoTo(w, AfterMatch(held[w], pos[w]))
    /\ UNCHANGED <<breaker, feed, received, isCancelled, held, collected, engine,
                   report, fate, history, panics>>

\* A panic inside execute_task unwinds the worker; run ignores the join error.
Panic(w) ==
    /\ pc[w] \in {"probing", "armed", "inflight", "emitting"}
    /\ panics < MaxPanics
    /\ panics' = panics + 1
    /\ LetGo(w, "lost", "crashed")
    /\ UNCHANGED breaker

(***************************************************************************)
(* run's end, the report loop and Ctrl-C.                                  *)
(***************************************************************************)
\* Mutant of JoinWorkers: returns when the first worker has ended.
JoinFirst ==
    /\ engine = "joining"
    /\ \E w \in Workers : Gone(w)
    /\ engine' = "returned"
    /\ UNCHANGED <<breaker, feed, received, isCancelled, workers, findings,
                   collected, report, fate, history, panics>>

JoinWorkers ==
    /\ engine = "joining"
    /\ AllGone
    /\ engine' = "returned"
    /\ UNCHANGED <<breaker, feed, received, isCancelled, workers, findings,
                   collected, report, fate, history, panics>>

Consume ==
    /\ report = "running"
    /\ findings # << >>
    /\ collected' = collected \cup {Head(findings)}
    /\ findings' = Tail(findings)
    /\ UNCHANGED <<breaker, feed, received, isCancelled, workers, engine, report,
                   fate, history, panics>>

\* finding_rx.recv() is None: drained, and every sender dropped.
ReportDone ==
    /\ report = "running"
    /\ findings = << >>
    /\ engine = "returned"
    /\ report' = "done"
    /\ UNCHANGED <<breaker, feed, received, isCancelled, workers, findings,
                   collected, engine, fate, history, panics>>

Cancel ==
    /\ ~isCancelled
    /\ report = "running"
    /\ isCancelled' = TRUE
    /\ UNCHANGED <<breaker, feed, received, workers, output, fate, history, panics>>

\* The program exits; what the detached producer still does is not of interest.
Terminated == report = "done" /\ UNCHANGED vars

WorkerStep(w) ==
    \/ Recv(w) \/ RecvClosed(w) \/ CheckCancelled(w) \/ ExecuteTask(w)
    \/ NextProbe(w) \/ SkipUnresolved(w) \/ Send(w)
    \/ Fail(w) \/ Answer(w) \/ Match(w) \/ Emit(w)

Next ==
    \/ ProducerCheck
    \/ ProducerSend
    \/ \E w \in Workers : WorkerStep(w) \/ Panic(w)
    \/ JoinWorkers
    \/ Consume
    \/ ReportDone
    \/ Cancel
    \/ Terminated

Spec == Init /\ [][Next]_vars

\* A worker that waits for an answer nothing bounds in time.
Hanging(w) == pc[w] = "inflight" /\ ~ProbeOf(w).timed

\* Every spawned task is polled again once it can go on, and a request in
\* flight ends if its client has a timeout.
Fairness ==
    /\ WF_vars(ProducerCheck)
    /\ WF_vars(ProducerSend)
    /\ \A w \in Workers : WF_vars(WorkerStep(w) /\ ~Hanging(w))
    /\ WF_vars(JoinWorkers)
    /\ WF_vars(Consume)
    /\ WF_vars(ReportDone)

FairSpec == Spec /\ Fairness

(***************************************************************************)
(* Properties.                                                             *)
(***************************************************************************)
Queued == {findings[i] : i \in 1..Len(findings)}
Interrupted == isCancelled \/ \A w \in Workers : pc[w] = "crashed"

\* Cancellation is prompt: each worker sends at most the one request whose
\* flag check it had already passed.  Relates the poll of is_cancelled at the
\* top of every block to the request sent later.
CancelStopsSending == \A w \in Workers : lateSends[w] <= 1

\* A task is skipped only because the breaker key it shares with other tasks
\* has collected max_errors failed requests, and such a task sent none.
SkippedOnlyAfterErrors ==
    \A t \in Tasks : fate[t] = "skipped" =>
        /\ failures[Target[t]] >= MaxErrors
        /\ t \notin failedTasks

\* When the report loop ends, every task was run, skipped or lost to a panic,
\* unless the scan was cancelled or no worker is left: the producer's early
\* exits, the closing of the channel and the exits of the workers leave
\* nothing behind.
AllTasksAccounted ==
    report = "done" /\ ~Interrupted =>
        \A t \in Tasks : fate[t] \in {"completed", "skipped", "lost"}

\* The scan ends, whatever the answers, cancelled or not, with or without
\* panics, and though both channels are bounded; or a worker hangs in a
\* request that has no timeout.
Terminates == <>(report = "done") \/ <>[](\E w \in Workers : Hanging(w))

\* The pipeline keeps the promise of ScanPromise: no finding is lost or
\* duplicated by channels, cancellation and panics, and the end of the stream
\* of findings means the end of the scan.
Promise == INSTANCE ScanPromise WITH
    todo <- received + 1 .. NTasks,
    active <- {held[w] : w \in Workers} \ {0},
    undelivered <- Queued,
    delivered <- collected,
    interrupted <- Interrupted,
    ended <- report = "done"

KeepsPromise == Promise!PSpec
================================================================================
