--------------------------- MODULE ScanEngine_proofs ----------------------------
(***************************************************************************)
(* Theorems about the pipeline of ScanEngine, for every number of workers   *)
(* and tasks, every capacity and every sequence of probes: the inductive    *)
(* invariant IInv, the safety invariants that follow from it, and the       *)
(* refinement of ScanPromise.                                              *)
(***************************************************************************)
EXTENDS ScanEngine, SequenceTheorems, TLAPS

Busy == {"received", "limited", "probing", "armed", "inflight", "emitting"}
Raised == collected \cup Queued

\* Who holds which task: a task has at most one worker, taken in order.
HeldInv ==
    /\ \A w \in Workers : pc[w] \in Busy <=> held[w] # 0
    /\ \A w \in Workers : held[w] <= received
    /\ \A v, w \in Workers : held[v] = held[w] /\ held[v] # 0 => v = w

\* Where the worker is within its task.
PosInv ==
    \A w \in Workers :
        /\ pc[w] \in {"probing", "armed", "inflight", "emitting"} => pos[w] >= 1
        /\ pc[w] \in {"armed", "inflight", "emitting"} => pos[w] <= Len(Probes[held[w]])

FateInv ==
    /\ \A t \in Tasks : fate[t] = "queued" <=> t > received
    /\ \A t \in Tasks : fate[t] = "running" => \E w \in Workers : held[w] = t
    /\ \A w \in Workers : held[w] # 0 => fate[held[w]] = "running"
    /\ \A t \in Tasks : fate[t] = "cut" => isCancelled

LateInv ==
    \A w \in Workers :
        /\ lateSends[w] <= 1
        /\ pc[w] = "armed" \/ ~isCancelled => lateSends[w] = 0

BreakerInv ==
    /\ \A k \in Targets : errorCounts[k] <= failures[k]
    /\ \A k \in droppedHosts : failures[k] >= MaxErrors
    /\ \A t \in Tasks : fate[t] = "skipped" =>
          failures[Target[t]] >= MaxErrors /\ t \notin failedTasks
    /\ \A t \in failedTasks : t <= received
    /\ \A w \in Workers : pc[w] \in {"received", "limited"} => held[w] \notin failedTasks

\* When the ends of the two channels may be closed.
ClosingInv ==
    /\ producer = "sending" => sent < NTasks
    /\ producer = "done" => sent = NTasks \/ isCancelled \/ AllGone
    /\ \A w \in Workers : pc[w] = "exited" =>
          isCancelled \/ (producer = "done" /\ sent = NTasks /\ received = NTasks)
    /\ engine = "returned" => AllGone
    /\ report = "done" => engine = "returned" /\ findings = << >>

\* A finding is raised once, by a task that is past the probe that raised it.
FindingInv ==
    /\ \A i, j \in 1..Len(findings) : findings[i] = findings[j] => i = j
    /\ \A i \in 1..Len(findings) : findings[i] \notin collected
    /\ \A f \in Raised : f[1] <= received
    /\ \A f \in Raised : \A w \in Workers :
          held[w] = f[1] => /\ pc[w] \in {"probing", "armed", "inflight", "emitting"}
                            /\ f[2] < pos[w]

IInv ==
    /\ TypeOK
    /\ HeldInv
    /\ PosInv
    /\ FateInv
    /\ LateInv
    /\ BreakerInv
    /\ ClosingInv
    /\ FindingInv

\* The next probe of a task is always a later one.
LEMMA AfterMatchType ==
    ASSUME NEW t \in Tasks, NEW p \in 1..Len(Probes[t])
    PROVE  AfterMatch(t, p) \in Nat /\ AfterMatch(t, p) > p
<1>1. Probes[t] \in Seq(Probe) /\ Len(Probes[t]) \in Nat
  BY EngineAssumption
<1>2. Probes[t][p].last \in p..Len(Probes[t])
  BY ProbesAssumption
<1> QED
  BY <1>1, <1>2 DEF AfterMatch

\* The same for an answer that matches nothing.
LEMMA AfterAnswerType ==
    ASSUME NEW t \in Tasks, NEW p \in 1..Len(Probes[t])
    PROVE  AfterAnswer(t, p) \in Nat /\ AfterAnswer(t, p) > p
<1>1. Probes[t] \in Seq(Probe) /\ Len(Probes[t]) \in Nat
  BY EngineAssumption
<1>2. Probes[t][p].last \in p..Len(Probes[t])
  BY ProbesAssumption
<1> QED
  BY <1>1, <1>2 DEF AfterAnswer

\* The initial state satisfies the invariant.
LEMMA InitIInv == Init => IInv
<1> SUFFICES ASSUME Init PROVE IInv
  OBVIOUS
<1> USE EngineAssumption, MaxErrorsAssumption DEF Init
<1>1. TypeOK
  <2>1. BreakerTypeOK
    BY DEF BreakerTypeOK, BreakerInit
  <2>2. findings \in Seq(Findings) /\ collected \in SUBSET Findings
    BY EmptySeq
  <2>3. fate \in [Tasks -> Fates] /\ pc \in [Workers -> WorkerStates]
    BY DEF Fates, WorkerStates
  <2>4. sent \in 0..NTasks /\ received \in 0..sent /\ held \in [Workers -> 0..NTasks]
    OBVIOUS
  <2>5. /\ failures \in [Targets -> Nat]
        /\ lateSends \in [Workers -> Nat] /\ pos \in [Workers -> Nat]
    OBVIOUS
  <2> QED
    BY <2>1, <2>2, <2>3, <2>4, <2>5 DEF TypeOK
<1>2. HeldInv /\ PosInv /\ LateInv
  BY DEF HeldInv, PosInv, LateInv, Busy
<1>3. FateInv
  BY DEF FateInv, Tasks
<1>4. BreakerInv
  BY DEF BreakerInv, BreakerInit
<1>5. ClosingInv /\ FindingInv
  BY DEF ClosingInv, FindingInv, Raised, Queued
<1> QED
  BY <1>1, <1>2, <1>3, <1>4, <1>5 DEF IInv

\* Every finding names a task and one of its probes.
LEMMA RaisedType ==
    ASSUME TypeOK
    PROVE  \A f \in Raised : /\ f \in Findings
                             /\ f[1] \in Tasks
                             /\ f[2] \in 1..Len(Probes[f[1]])
                             /\ f = <<f[1], f[2]>>
<1>1. Raised \subseteq Findings
  BY DEF TypeOK, Raised, Queued
<1>2. \A f \in Findings : \E t \in Tasks : \E p \in 1..Len(Probes[t]) : f = <<t, p>>
  BY DEF Findings, FindingsOf
<1> QED
  BY <1>1, <1>2

\* A worker that lets go of its task, for whatever reason, keeps IInv.
LEMMA LetGoStep ==
    ASSUME IInv, NEW w \in Workers, NEW outcome \in {"completed", "skipped", "cut", "lost"},
           NEW next \in {"recv", "exited", "crashed"},
           pc[w] \in Busy,
           outcome = "cut" \/ next = "exited" => isCancelled,
           outcome = "skipped" => pc[w] = "limited" /\ Target[held[w]] \in droppedHosts,
           LetGo(w, outcome, next), UNCHANGED breaker, panics' \in Nat
    PROVE  IInv'
<1>1. TypeOK /\ HeldInv
  BY DEF IInv
<1>2. /\ pc \in [Workers -> WorkerStates] /\ held \in [Workers -> 0..NTasks]
      /\ pos \in [Workers -> Nat] /\ fate \in [Tasks -> Fates]
      /\ received \in Nat /\ NTasks \in Nat /\ received <= NTasks
  BY <1>1, EngineAssumption DEF TypeOK
<1>3. /\ held[w] \in Tasks /\ held[w] <= received
      /\ \A v \in Workers : held[v] = held[w] => v = w
  BY <1>1, <1>2 DEF HeldInv, Tasks
<1>4. /\ pc' = [pc EXCEPT ![w] = next]
      /\ held' = [held EXCEPT ![w] = 0]
      /\ fate' = [fate EXCEPT ![held[w]] = outcome]
      /\ UNCHANGED <<feed, received, isCancelled, pos, output, history, breaker>>
  BY DEF LetGo
<1>5. TypeOK'
  <2>1. pc' \in [Workers -> WorkerStates]
    BY <1>2, <1>4 DEF WorkerStates
  <2>2. held' \in [Workers -> 0..NTasks]
    BY <1>2, <1>4
  <2>3. fate' \in [Tasks -> Fates]
    BY <1>2, <1>4 DEF Fates
  <2> QED
    BY <1>1, <1>4, <2>1, <2>2, <2>3
       DEF TypeOK, BreakerTypeOK, breaker, feed, output, history
<1>6. HeldInv'
  BY <1>1, <1>2, <1>4 DEF HeldInv, Busy
<1>7. PosInv'
  BY <1>2, <1>4 DEF IInv, PosInv
<1>8. FateInv'
  <2>1. FateInv
    BY DEF IInv
  <2>2. \A t \in Tasks : t # held[w] => fate'[t] = fate[t]
    BY <1>2, <1>4
  <2>3. fate'[held[w]] = outcome
    BY <1>2, <1>3, <1>4
  <2>4. \A v \in Workers : v # w => held'[v] = held[v]
    BY <1>2, <1>4
  <2>5. \A t \in Tasks : fate'[t] = "queued" <=> t > received'
    BY <1>2, <1>3, <1>4, <2>1, <2>2, <2>3 DEF FateInv, Tasks
  <2>6. \A t \in Tasks : fate'[t] = "running" => \E v \in Workers : held'[v] = t
    BY <1>3, <2>1, <2>2, <2>3, <2>4 DEF FateInv
  <2>7. \A v \in Workers : held'[v] # 0 => fate'[held'[v]] = "running"
    BY <1>2, <1>3, <1>4, <2>1, <2>2, <2>4 DEF FateInv, Tasks
  <2>8. \A t \in Tasks : fate'[t] = "cut" => isCancelled'
    BY <1>4, <2>1, <2>2, <2>3 DEF FateInv
  <2> QED
    BY <2>5, <2>6, <2>7, <2>8 DEF FateInv
<1>9. LateInv'
  BY <1>2, <1>4 DEF IInv, LateInv, history
<1>10. BreakerInv'
  <2>1. BreakerInv
    BY DEF IInv
  <2>2. /\ UNCHANGED <<errorCounts, droppedHosts, failures, failedTasks, received>>
        /\ \A v \in Workers : pc'[v] \in {"received", "limited"} =>
             pc'[v] = pc[v] /\ held'[v] = held[v]
    BY <1>2, <1>4 DEF breaker, history
  <2>3. \A t \in Tasks : fate'[t] = "skipped" =>
          fate[t] = "skipped" \/ (t = held[w] /\ outcome = "skipped")
    BY <1>2, <1>4
  <2>4. outcome = "skipped" =>
          failures[Target[held[w]]] >= MaxErrors /\ held[w] \notin failedTasks
    BY <2>1 DEF BreakerInv
  <2> QED
    BY <2>1, <2>2, <2>3, <2>4 DEF BreakerInv
<1>11. ClosingInv'
  <2>1. ClosingInv /\ ~AllGone
    BY DEF IInv, AllGone, Gone, Busy
  <2>2. \A v \in Workers : pc'[v] = "exited" => pc[v] = "exited" \/ isCancelled
    BY <1>2, <1>4
  <2> QED
    BY <1>4, <2>1, <2>2 DEF ClosingInv, feed, output
<1>12. FindingInv'
  <2>1. FindingInv
    BY DEF IInv
  <2>2. /\ UNCHANGED <<findings, collected, received, pos>>
        /\ \A f \in Raised : f[1] >= 1
        /\ \A v \in Workers : held'[v] # 0 => held'[v] = held[v] /\ pc'[v] = pc[v]
    <3>1. \A f \in Raised : f[1] >= 1
      BY <1>1, RaisedType DEF Tasks
    <3> QED
      BY <1>2, <1>4, <3>1 DEF output
  <2> QED
    BY <2>1, <2>2 DEF FindingInv, Raised, Queued
<1> QED
  BY <1>5, <1>6, <1>7, <1>8, <1>9, <1>10, <1>11, <1>12 DEF IInv

\* What holds after a worker has gone on to a later probe.
Advanced ==
    /\ pc' \in [Workers -> WorkerStates]
    /\ pos' \in [Workers -> Nat]
    /\ HeldInv' /\ PosInv' /\ FateInv' /\ LateInv' /\ ClosingInv'
    /\ \A v \in Workers :
          /\ pc'[v] \in {"received", "limited"} => pc'[v] = pc[v]
          /\ pos'[v] >= pos[v]
          /\ pc[v] \in {"probing", "armed", "inflight", "emitting"} =>
                pc'[v] \in {"probing", "armed", "inflight", "emitting"}
    /\ engine = "joining"

\* The worker goes on to a later probe of its task.
LEMMA AdvanceStep ==
    ASSUME IInv, NEW w \in Workers, NEW p \in Nat,
           pc[w] \in {"armed", "inflight", "emitting"}, p > pos[w], GoTo(w, p),
           UNCHANGED <<feed, received, isCancelled, held, engine, report, fate, lateSends>>
    PROVE  Advanced
<1>1. TypeOK /\ HeldInv /\ PosInv /\ FateInv /\ LateInv /\ ClosingInv
  BY DEF IInv
<1>2. /\ pc \in [Workers -> WorkerStates] /\ pos \in [Workers -> Nat]
      /\ engine \in {"joining", "returned"}
  BY <1>1 DEF TypeOK
<1>3. /\ pc' = [pc EXCEPT ![w] = "probing"]
      /\ pos' = [pos EXCEPT ![w] = p]
  BY DEF GoTo
<1>4. pc' \in [Workers -> WorkerStates] /\ pos' \in [Workers -> Nat]
  BY <1>2, <1>3 DEF WorkerStates
<1>5. HeldInv'
  BY <1>1, <1>2, <1>3 DEF HeldInv, Busy
<1>6. PosInv'
  BY <1>1, <1>2, <1>3 DEF PosInv
<1>7. FateInv'
  BY <1>1 DEF FateInv
<1>8. LateInv'
  BY <1>1, <1>2, <1>3 DEF LateInv
<1>9. ~AllGone /\ engine = "joining" /\ report # "done"
  BY <1>1, <1>2 DEF AllGone, Gone, ClosingInv
<1>10. ClosingInv'
  BY <1>1, <1>2, <1>3, <1>9 DEF ClosingInv, feed
<1> QED
  BY <1>2, <1>3, <1>4, <1>5, <1>6, <1>7, <1>8, <1>9, <1>10 DEF Advanced

\* What an advance that raises no finding leaves of FindingInv.
LEMMA QuietAdvance ==
    ASSUME TypeOK, FindingInv, pos' \in [Workers -> Nat],
           UNCHANGED <<findings, collected, received, held>>,
           \A v \in Workers :
              /\ pos'[v] >= pos[v]
              /\ pc[v] \in {"probing", "armed", "inflight", "emitting"} =>
                    pc'[v] \in {"probing", "armed", "inflight", "emitting"}
    PROVE  FindingInv'
<1>1. Raised' = Raised
  BY DEF Raised, Queued
<1>2. \A f \in Raised : \A v \in Workers : held[v] = f[1] =>
         /\ pc'[v] \in {"probing", "armed", "inflight", "emitting"}
         /\ f[2] < pos'[v]
  <2> SUFFICES ASSUME NEW f \in Raised, NEW v \in Workers, held[v] = f[1]
               PROVE  /\ pc'[v] \in {"probing", "armed", "inflight", "emitting"}
                      /\ f[2] < pos'[v]
    OBVIOUS
  <2>1. pc[v] \in {"probing", "armed", "inflight", "emitting"} /\ f[2] < pos[v]
    BY DEF FindingInv
  <2>2. f[2] \in Int /\ pos[v] \in Int /\ pos'[v] \in Int /\ pos'[v] >= pos[v]
    BY RaisedType DEF TypeOK
  <2> QED
    BY <2>1, <2>2
<1> QED
  BY <1>1, <1>2 DEF FindingInv

\* Skipping a request with unresolved variables keeps the invariant.
LEMMA SkipUnresolvedStep ==
    ASSUME IInv, NEW w \in Workers, SkipUnresolved(w)
    PROVE  IInv'
<1>1. TypeOK /\ BreakerInv /\ FindingInv
  BY DEF IInv
<1>2. pos[w] + 1 \in Nat /\ pos[w] + 1 > pos[w]
  BY <1>1 DEF TypeOK
<1>3. /\ GoTo(w, pos[w] + 1) /\ pc[w] = "armed"
      /\ UNCHANGED <<errorCounts, droppedHosts, producer, sent, received, isCancelled,
                     held, findings, collected, engine, report, fate, failures,
                     failedTasks, lateSends, panics>>
  BY DEF SkipUnresolved, breaker, feed, output, history
<1>4. Advanced
  BY <1>2, <1>3, AdvanceStep DEF feed
<1>5. TypeOK'
  BY <1>1, <1>3, <1>4 DEF TypeOK, BreakerTypeOK, Advanced
<1>6. BreakerInv'
  BY <1>1, <1>3, <1>4 DEF BreakerInv, Advanced
<1>7. FindingInv'
  BY <1>1, <1>3, <1>4, QuietAdvance DEF Advanced
<1> QED
  BY <1>4, <1>5, <1>6, <1>7 DEF IInv, Advanced

\* A failed request keeps the invariant: the counts of the breaker stay
\* below the failures that have happened.
LEMMA FailStep ==
    ASSUME IInv, NEW w \in Workers, Fail(w)
    PROVE  IInv'
<1>1. TypeOK /\ HeldInv /\ FateInv /\ BreakerInv /\ FindingInv
  BY DEF IInv
<1>2. pos[w] + 1 \in Nat /\ pos[w] + 1 > pos[w]
  BY <1>1 DEF TypeOK
<1>3. /\ GoTo(w, pos[w] + 1) /\ pc[w] = "inflight"
      /\ UNCHANGED <<producer, sent, received, isCancelled, held, findings, collected,
                     engine, report, fate, lateSends, panics>>
  BY DEF Fail, feed, output
<1>4. Advanced
  BY <1>2, <1>3, AdvanceStep DEF feed
<1>5. /\ held[w] \in Tasks /\ held[w] <= received /\ fate[held[w]] = "running"
      /\ \A v \in Workers : held[v] = held[w] => v = w
      /\ Target[held[w]] \in Targets
  BY <1>1, <1>3, EngineAssumption DEF TypeOK, HeldInv, FateInv, Busy, Tasks
<1>6. CASE ~IsHttp(w)
  <2>1. UNCHANGED <<errorCounts, droppedHosts, failures, failedTasks>>
    BY <1>6 DEF Fail, breaker
  <2>2. TypeOK'
    BY <1>1, <1>3, <1>4, <2>1 DEF TypeOK, BreakerTypeOK, Advanced
  <2>3. BreakerInv'
    BY <1>1, <1>3, <1>4, <2>1 DEF BreakerInv, Advanced
  <2> QED
    BY <1>1, <1>3, <1>4, <2>2, <2>3, QuietAdvance DEF IInv, Advanced
<1>7. CASE IsHttp(w)
  <2> DEFINE k == Target[held[w]]
  <2>1. /\ errorCounts' = IF MaxErrors = 0 THEN errorCounts
                          ELSE [errorCounts EXCEPT ![k] = @ + 1]
        /\ droppedHosts' = IF Trips(k) THEN droppedHosts \cup {k} ELSE droppedHosts
        /\ failures' = [failures EXCEPT ![k] = @ + 1]
        /\ failedTasks' = failedTasks \cup {held[w]}
    BY <1>7 DEF Fail, RecordError
  <2> HIDE DEF k
  <2>2. k \in Targets /\ k = Target[held[w]]
    BY <1>5 DEF k
  <2>3. /\ errorCounts \in [Targets -> Nat] /\ droppedHosts \in SUBSET Targets
        /\ failures \in [Targets -> Nat]
        /\ failedTasks \in SUBSET Tasks
    BY <1>1 DEF TypeOK, BreakerTypeOK
  <2>4. TypeOK'
    <3>1. errorCounts' \in [Targets -> Nat] /\ droppedHosts' \in SUBSET Targets
      BY <2>1, <2>2, <2>3
    <3>2. failures' \in [Targets -> Nat] /\ failedTasks' \in SUBSET Tasks
      BY <1>5, <2>1, <2>2, <2>3
    <3> QED
      BY <1>1, <1>3, <1>4, <3>1, <3>2 DEF TypeOK, BreakerTypeOK, Advanced
  <2>5. BreakerInv'
    <3>1. \A j \in Targets : failures'[j] >= failures[j] /\ failures[j] \in Nat
      BY <2>1, <2>3
    <3>2. \A j \in Targets : errorCounts'[j] <= failures'[j]
      BY <1>1, <2>1, <2>2, <2>3 DEF BreakerInv
    <3>3. \A j \in droppedHosts' : failures'[j] >= MaxErrors
      <4>1. Trips(k) => failures'[k] >= MaxErrors
        BY <1>1, <2>1, <2>2, <2>3, MaxErrorsAssumption DEF BreakerInv, Trips
      <4> QED
        BY <1>1, <2>1, <2>3, <3>1, <4>1, MaxErrorsAssumption DEF BreakerInv
    <3>4. \A t \in Tasks : fate'[t] = "skipped" =>
            failures'[Target[t]] >= MaxErrors /\ t \notin failedTasks'
      <4> SUFFICES ASSUME NEW t \in Tasks, fate[t] = "skipped"
                   PROVE  failures'[Target[t]] >= MaxErrors /\ t \notin failedTasks'
        BY <1>3
      <4>1. Target[t] \in Targets
        BY EngineAssumption
      <4>2. failures[Target[t]] >= MaxErrors /\ t \notin failedTasks /\ t # held[w]
        BY <1>1, <1>5 DEF BreakerInv
      <4> QED
        BY <2>1, <3>1, <4>1, <4>2, MaxErrorsAssumption
    <3>5. \A t \in failedTasks' : t <= received'
      BY <1>1, <1>3, <1>5, <2>1 DEF BreakerInv
    <3>6. \A v \in Workers : pc'[v] \in {"received", "limited"} => held'[v] \notin failedTasks'
      BY <1>1, <1>3, <1>4, <1>5, <2>1 DEF BreakerInv, Advanced
    <3> QED
      BY <3>2, <3>3, <3>4, <3>5, <3>6 DEF BreakerInv
  <2> QED
    BY <1>1, <1>3, <1>4, <2>4, <2>5, QuietAdvance DEF IInv, Advanced
<1> QED
  BY <1>6, <1>7

\* A success lowers a count and touches nothing else.
LEMMA ReportSuccessStep ==
    ASSUME TypeOK, BreakerInv, NEW w \in Workers, held[w] \in Tasks, ReportSuccess(w),
           UNCHANGED <<failures, failedTasks, fate, received, held>>,
           \A v \in Workers : pc'[v] \in {"received", "limited"} => pc'[v] = pc[v]
    PROVE  BreakerTypeOK' /\ BreakerInv'
<1> DEFINE k == Target[held[w]]
<1>1. /\ errorCounts' = errorCounts \/ errorCounts' = [errorCounts EXCEPT ![k] = 0]
      /\ droppedHosts' = droppedHosts
  BY DEF ReportSuccess, RecordSuccess, breaker
<1> HIDE DEF k
<1>2. /\ errorCounts \in [Targets -> Nat] /\ droppedHosts \in SUBSET Targets
      /\ failures \in [Targets -> Nat]
  BY DEF TypeOK, BreakerTypeOK
<1>3. BreakerTypeOK'
  BY <1>1, <1>2 DEF BreakerTypeOK
<1>4. \A j \in Targets : errorCounts'[j] <= failures'[j]
  BY <1>1, <1>2 DEF BreakerInv
<1> QED
  BY <1>1, <1>3, <1>4 DEF BreakerInv

\* An answer that matches nothing keeps the invariant.
LEMMA AnswerStep ==
    ASSUME IInv, NEW w \in Workers, Answer(w)
    PROVE  IInv'
<1>1. TypeOK /\ HeldInv /\ PosInv /\ BreakerInv /\ FindingInv
  BY DEF IInv
<1>2. pc[w] = "inflight"
  BY DEF Answer
<1>3. held[w] \in Tasks /\ pos[w] \in 1..Len(Probes[held[w]])
  BY <1>1, <1>2, EngineAssumption DEF TypeOK, HeldInv, PosInv, Busy, Tasks
<1>4. /\ AfterAnswer(held[w], pos[w]) \in Nat
      /\ AfterAnswer(held[w], pos[w]) > pos[w]
  BY <1>3, AfterAnswerType
<1>5. /\ GoTo(w, AfterAnswer(held[w], pos[w])) /\ ReportSuccess(w)
      /\ UNCHANGED <<producer, sent, received, isCancelled, held, findings, collected,
                     engine, report, fate, failures, failedTasks, lateSends,
                     panics>>
  BY DEF Answer, feed, output, history
<1>6. Advanced
  BY <1>2, <1>4, <1>5, AdvanceStep DEF feed
<1>7. BreakerTypeOK' /\ BreakerInv'
  BY <1>1, <1>3, <1>5, <1>6, ReportSuccessStep DEF Advanced
<1>8. TypeOK'
  BY <1>1, <1>5, <1>6, <1>7 DEF TypeOK, Advanced
<1>9. FindingInv'
  BY <1>1, <1>5, <1>6, QuietAdvance DEF Advanced
<1> QED
  BY <1>6, <1>7, <1>8, <1>9 DEF IInv, Advanced

\* The worker goes to another point of the same task and probe.
LEMMA StayStep ==
    ASSUME IInv, NEW w \in Workers, NEW next \in {"limited", "armed", "emitting"},
           pc' = [pc EXCEPT ![w] = next],
           next = "limited" => pc[w] = "received",
           next = "armed" =>
              pc[w] = "probing" /\ ~isCancelled /\ pos[w] <= Len(Probes[held[w]]),
           next = "emitting" => pc[w] = "inflight",
           UNCHANGED <<producer, sent, received, isCancelled, held, pos, findings,
                       collected, engine, report, fate, failures, failedTasks,
                       lateSends, panics>>
    PROVE  /\ pc' \in [Workers -> WorkerStates]
           /\ HeldInv' /\ PosInv' /\ FateInv' /\ LateInv' /\ ClosingInv' /\ FindingInv'
           /\ \A v \in Workers : pc'[v] \in {"received", "limited"} =>
                 pc[v] \in {"received", "limited"}
<1>1. TypeOK /\ HeldInv /\ PosInv /\ FateInv /\ LateInv /\ ClosingInv /\ FindingInv
  BY DEF IInv
<1>2. pc \in [Workers -> WorkerStates]
  BY <1>1 DEF TypeOK
<1>3. pc[w] \in Busy
  BY DEF Busy
<1>4. pc' \in [Workers -> WorkerStates]
  BY <1>2 DEF WorkerStates
<1>5. HeldInv'
  BY <1>1, <1>2, <1>3 DEF HeldInv, Busy
<1>6. PosInv'
  BY <1>1, <1>2 DEF PosInv
<1>7. FateInv'
  BY <1>1 DEF FateInv
<1>8. LateInv'
  BY <1>1, <1>2 DEF LateInv
<1>9. ClosingInv'
  <2>1. ~AllGone
    BY <1>3 DEF AllGone, Gone, Busy
  <2> QED
    BY <1>1, <1>2, <2>1 DEF ClosingInv
<1>10. FindingInv'
  BY <1>1, <1>2 DEF FindingInv, Raised, Queued
<1> QED
  BY <1>2, <1>4, <1>5, <1>6, <1>7, <1>8, <1>9, <1>10

\* An answer that matches keeps the invariant.
LEMMA MatchStep ==
    ASSUME IInv, NEW w \in Workers, Match(w)
    PROVE  IInv'
<1>1. TypeOK /\ HeldInv /\ PosInv /\ BreakerInv /\ FindingInv
  BY DEF IInv
<1>2. pc[w] = "inflight"
  BY DEF Match
<1>3. held[w] \in Tasks /\ pos[w] \in 1..Len(Probes[held[w]])
  BY <1>1, <1>2, EngineAssumption DEF TypeOK, HeldInv, PosInv, Busy, Tasks
<1>4. /\ ReportSuccess(w)
      /\ UNCHANGED <<producer, sent, received, isCancelled, held, findings, collected,
                     engine, report, fate, failures, failedTasks, lateSends,
                     panics>>
  BY DEF Match, feed, output, history
<1>5. CASE pc' = [pc EXCEPT ![w] = "emitting"] /\ UNCHANGED pos
  <2>1. /\ pc' \in [Workers -> WorkerStates]
        /\ HeldInv' /\ PosInv' /\ FateInv' /\ LateInv' /\ ClosingInv' /\ FindingInv'
        /\ \A v \in Workers : pc'[v] \in {"received", "limited"} =>
              pc[v] \in {"received", "limited"}
    BY <1>2, <1>4, <1>5, StayStep
  <2>2. \A v \in Workers : pc'[v] \in {"received", "limited"} => pc'[v] = pc[v]
    BY <1>1, <1>5 DEF TypeOK
  <2>3. BreakerTypeOK' /\ BreakerInv'
    BY <1>1, <1>3, <1>4, <2>2, ReportSuccessStep
  <2>4. TypeOK'
    BY <1>1, <1>4, <1>5, <2>1, <2>3 DEF TypeOK
  <2> QED
    BY <2>1, <2>3, <2>4 DEF IInv
<1>6. CASE GoTo(w, AfterMatch(held[w], pos[w]))
  <2>1. Advanced
    BY <1>2, <1>3, <1>4, <1>6, AfterMatchType, AdvanceStep DEF feed
  <2>2. BreakerTypeOK' /\ BreakerInv'
    BY <1>1, <1>3, <1>4, <2>1, ReportSuccessStep DEF Advanced
  <2>3. TypeOK'
    BY <1>1, <1>4, <2>1, <2>2 DEF TypeOK, Advanced
  <2>4. FindingInv'
    BY <1>1, <1>4, <2>1, QuietAdvance DEF Advanced
  <2> QED
    BY <2>1, <2>2, <2>3, <2>4 DEF IInv, Advanced
<1> QED
  BY <1>5, <1>6 DEF Match

\* Sending a finding keeps the invariant: it was not raised before.
LEMMA EmitStep ==
    ASSUME IInv, NEW w \in Workers, Emit(w)
    PROVE  IInv'
<1>1. TypeOK /\ HeldInv /\ PosInv /\ BreakerInv /\ FindingInv
  BY DEF IInv
<1>2. pc[w] = "emitting"
  BY DEF Emit
<1>3. /\ held[w] \in Tasks /\ pos[w] \in 1..Len(Probes[held[w]])
      /\ held[w] <= received
      /\ \A v \in Workers : held[v] = held[w] => v = w
  BY <1>1, <1>2, EngineAssumption DEF TypeOK, HeldInv, PosInv, Busy, Tasks
<1> DEFINE new == <<held[w], pos[w]>>
           p == AfterMatch(held[w], pos[w])
<1>4. p \in Nat /\ p > pos[w]
  BY <1>3, AfterMatchType
<1>5. /\ GoTo(w, p) /\ findings' = Append(findings, new)
      /\ UNCHANGED <<errorCounts, droppedHosts, producer, sent, received, isCancelled,
                     held, collected, engine, report, fate, failures, failedTasks,
                     lateSends, panics>>
  BY DEF Emit, breaker, feed, history
<1> HIDE DEF p
<1>6. Advanced
  BY <1>2, <1>4, <1>5, AdvanceStep DEF feed
<1>7. new \in Findings
  BY <1>3 DEF Findings, FindingsOf
<1>8. new \notin Raised
  BY <1>1, <1>3 DEF FindingInv, TypeOK
<1>9. pos'[w] = p
  BY <1>1, <1>5 DEF TypeOK, GoTo
<1> HIDE DEF new
<1>10. findings' \in Seq(Findings)
  BY <1>1, <1>5, <1>7, AppendProperties DEF TypeOK
<1>11. /\ Len(findings') = Len(findings) + 1 /\ Len(findings) \in Nat
       /\ \A i \in 1..Len(findings) : findings'[i] = findings[i]
       /\ findings'[Len(findings) + 1] = new
  BY <1>1, <1>5, <1>7, AppendProperties, LenProperties DEF TypeOK
<1>12. Raised' = Raised \cup {new}
  BY <1>5, <1>11 DEF Raised, Queued
<1>13. TypeOK'
  BY <1>1, <1>5, <1>6, <1>10 DEF TypeOK, BreakerTypeOK, Advanced
<1>14. BreakerInv'
  BY <1>1, <1>5, <1>6 DEF BreakerInv, Advanced
<1>15. FindingInv'
  <2>1. \A i \in 1..Len(findings) : findings[i] \in Raised
    BY DEF Raised, Queued
  <2>2. \A i, j \in 1..Len(findings') : findings'[i] = findings'[j] => i = j
    BY <1>1, <1>8, <1>11, <2>1 DEF FindingInv
  <2>3. \A i \in 1..Len(findings') : findings'[i] \notin collected'
    BY <1>1, <1>5, <1>8, <1>11 DEF FindingInv, Raised
  <2>4. \A f \in Raised' : f[1] <= received'
    BY <1>1, <1>3, <1>5, <1>12 DEF FindingInv, new
  <2>5. \A f \in Raised' : \A v \in Workers : held'[v] = f[1] =>
          /\ pc'[v] \in {"probing", "armed", "inflight", "emitting"}
          /\ f[2] < pos'[v]
    <3> SUFFICES ASSUME NEW f \in Raised', NEW v \in Workers, held[v] = f[1]
                 PROVE  /\ pc'[v] \in {"probing", "armed", "inflight", "emitting"}
                        /\ f[2] < pos'[v]
      BY <1>5
    <3>1. CASE f = new
      BY <1>2, <1>3, <1>4, <1>6, <1>9, <3>1 DEF new, Advanced
    <3>2. CASE f \in Raised
      <4>1. f[2] \in Int /\ pos[v] \in Int /\ pos'[v] \in Int
        BY <1>1, <1>6, <3>2, RaisedType, SMTT(20) DEF TypeOK, Advanced
      <4> QED
        BY <1>1, <1>6, <3>2, <4>1 DEF FindingInv, Advanced
    <3> QED
      BY <1>12, <3>1, <3>2
  <2> QED
    BY <2>2, <2>3, <2>4, <2>5 DEF FindingInv
<1> QED
  BY <1>6, <1>13, <1>14, <1>15 DEF IInv, Advanced

\* The report loop keeps the invariant: what it takes leaves the channel.
LEMMA ConsumeStep ==
    ASSUME IInv, Consume
    PROVE  IInv'
<1>1. TypeOK /\ HeldInv /\ PosInv /\ FateInv /\ LateInv /\ BreakerInv
      /\ ClosingInv /\ FindingInv
  BY DEF IInv
<1>2. /\ findings # << >> /\ report = "running"
      /\ findings' = Tail(findings) /\ collected' = collected \cup {Head(findings)}
      /\ UNCHANGED <<errorCounts, droppedHosts, producer, sent, received, isCancelled,
                     pc, held, pos, engine, report, fate, failures, failedTasks,
                     lateSends, panics>>
  BY DEF Consume, breaker, feed, workers, history
<1>3. findings \in Seq(Findings) /\ Len(findings) \in Nat /\ Len(findings) # 0
  BY <1>1, <1>2, EmptySeq, LenProperties DEF TypeOK
<1>4. /\ Head(findings) = findings[1] /\ findings' \in Seq(Findings)
      /\ Len(findings') = Len(findings) - 1
      /\ \A i \in 1..Len(findings') : findings'[i] = findings[i + 1]
      /\ findings[1] \in Findings
  BY <1>2, <1>3, HeadTailProperties, ElementOfSeq
<1>5. Raised' = Raised
  <2>1. \A i \in 1..Len(findings) : i = 1 \/ (i - 1 \in 1..Len(findings') /\ findings'[i - 1] = findings[i])
    BY <1>3, <1>4
  <2>2. Raised \subseteq Raised'
    BY <1>2, <1>4, <2>1 DEF Raised, Queued
  <2>3. \A i \in 1..Len(findings') : findings'[i] = findings[i + 1] /\ i + 1 \in 1..Len(findings)
    BY <1>3, <1>4
  <2>4. Raised' \subseteq Raised
    BY <1>2, <1>3, <1>4, <2>3 DEF Raised, Queued
  <2> QED
    BY <2>2, <2>4
<1>6. TypeOK'
  BY <1>1, <1>2, <1>4 DEF TypeOK, BreakerTypeOK
<1>7. HeldInv' /\ PosInv' /\ FateInv' /\ LateInv' /\ BreakerInv'
  BY <1>1, <1>2 DEF HeldInv, PosInv, FateInv, LateInv, BreakerInv
<1>8. ClosingInv'
  BY <1>1, <1>2 DEF ClosingInv, AllGone, Gone
<1>9. FindingInv'
  <2>1. \A i, j \in 1..Len(findings') : findings'[i] = findings'[j] => i = j
    <3> SUFFICES ASSUME NEW i \in 1..Len(findings'), NEW j \in 1..Len(findings'),
                        findings'[i] = findings'[j]
                 PROVE  i = j
      OBVIOUS
    <3>1. i + 1 \in 1..Len(findings) /\ j + 1 \in 1..Len(findings)
      BY <1>3, <1>4
    <3>2. i + 1 = j + 1
      BY <1>1, <1>4, <3>1 DEF FindingInv
    <3> QED
      BY <3>2
  <2>2. \A i \in 1..Len(findings') : findings'[i] \notin collected'
    <3> SUFFICES ASSUME NEW i \in 1..Len(findings')
                 PROVE  findings'[i] \notin collected'
      OBVIOUS
    <3>1. i + 1 \in 1..Len(findings) /\ 1 \in 1..Len(findings) /\ i + 1 # 1
      BY <1>3, <1>4
    <3>2. findings[i + 1] # findings[1] /\ findings[i + 1] \notin collected
      BY <1>1, <3>1 DEF FindingInv
    <3> QED
      BY <1>2, <1>4, <3>2
  <2> QED
    BY <1>1, <1>2, <1>5, <2>1, <2>2 DEF FindingInv
<1> QED
  BY <1>6, <1>7, <1>8, <1>9 DEF IInv

\* Taking a task from the channel keeps the invariant: nobody else holds it.
LEMMA RecvStep ==
    ASSUME IInv, NEW w \in Workers, Recv(w)
    PROVE  IInv'
<1>1. TypeOK /\ HeldInv /\ PosInv /\ FateInv /\ LateInv /\ BreakerInv
      /\ ClosingInv /\ FindingInv
  BY DEF IInv
<1>2. /\ pc[w] = "recv" /\ received < sent /\ received' = received + 1
      /\ held' = [held EXCEPT ![w] = received + 1]
      /\ pc' = [pc EXCEPT ![w] = "received"]
      /\ fate' = [fate EXCEPT ![received + 1] = "running"]
      /\ UNCHANGED <<errorCounts, droppedHosts, producer, sent, isCancelled, pos,
                     findings, collected, engine, report, failures, failedTasks,
                     lateSends, panics>>
  BY DEF Recv, breaker, feed, output, history
<1>3. /\ pc \in [Workers -> WorkerStates] /\ held \in [Workers -> 0..NTasks]
      /\ fate \in [Tasks -> Fates] /\ NTasks \in Nat
      /\ sent \in 0..NTasks /\ received \in Nat /\ received + 1 <= sent
      /\ received + 1 \in Tasks
  BY <1>1, <1>2, EngineAssumption DEF TypeOK, Tasks
<1>4. held[w] = 0 /\ \A v \in Workers : held[v] # received + 1
  BY <1>1, <1>2, <1>3 DEF HeldInv, Busy
<1>5. TypeOK'
  <2>1. pc' \in [Workers -> WorkerStates] /\ held' \in [Workers -> 0..NTasks]
    BY <1>2, <1>3 DEF WorkerStates, Tasks
  <2>2. fate' \in [Tasks -> Fates] /\ received' \in 0..sent'
    BY <1>2, <1>3 DEF Fates
  <2> QED
    BY <1>1, <1>2, <2>1, <2>2 DEF TypeOK, BreakerTypeOK
<1>6. HeldInv'
  BY <1>1, <1>2, <1>3, <1>4 DEF HeldInv, Busy
<1>7. PosInv'
  BY <1>1, <1>2, <1>3 DEF PosInv
<1>8. FateInv'
  <2>1. \A t \in Tasks : t # received + 1 => fate'[t] = fate[t]
    BY <1>2, <1>3
  <2>2. fate'[received + 1] = "running" /\ held'[w] = received + 1
    BY <1>2, <1>3
  <2>3. \A v \in Workers : v # w => held'[v] = held[v]
    BY <1>2, <1>3
  <2>4. \A t \in Tasks : fate'[t] = "queued" <=> t > received'
    BY <1>1, <1>2, <1>3, <2>1, <2>2 DEF FateInv, Tasks
  <2>5. \A t \in Tasks : fate'[t] = "running" => \E v \in Workers : held'[v] = t
    <3> SUFFICES ASSUME NEW t \in Tasks, fate'[t] = "running", t # received + 1
                 PROVE  \E v \in Workers : held'[v] = t
      BY <2>2
    <3>1. PICK v \in Workers : held[v] = t
      BY <1>1, <2>1 DEF FateInv
    <3>2. v # w
      BY <1>3, <1>4, <3>1 DEF Tasks
    <3> QED
      BY <2>3, <3>1, <3>2
  <2>6. \A v \in Workers : held'[v] # 0 => fate'[held'[v]] = "running"
    BY <1>1, <1>3, <1>4, <2>1, <2>2, <2>3 DEF FateInv, Tasks
  <2>7. \A t \in Tasks : fate'[t] = "cut" => isCancelled'
    BY <1>1, <1>2, <2>1, <2>2 DEF FateInv
  <2> QED
    BY <2>4, <2>5, <2>6, <2>7 DEF FateInv
<1>9. LateInv'
  BY <1>1, <1>2, <1>3 DEF LateInv
<1>10. BreakerInv'
  <2>1. \A t \in Tasks : fate'[t] = "skipped" => fate[t] = "skipped"
    BY <1>2, <1>3
  <2>2. received + 1 \notin failedTasks /\ \A t \in failedTasks : t \in Int
    BY <1>1, <1>3 DEF BreakerInv, TypeOK, Tasks
  <2>3. \A v \in Workers : v # w => held'[v] = held[v] /\ pc'[v] = pc[v]
    BY <1>2, <1>3
  <2>4. held'[w] = received + 1
    BY <1>2, <1>3
  <2>5. \A v \in Workers : pc'[v] \in {"received", "limited"} => held'[v] \notin failedTasks'
    BY <1>1, <1>2, <2>2, <2>3, <2>4 DEF BreakerInv
  <2>6. \A t \in failedTasks' : t <= received'
    BY <1>1, <1>2, <1>3, <2>2 DEF BreakerInv
  <2> QED
    BY <1>1, <1>2, <2>1, <2>5, <2>6 DEF BreakerInv
<1>11. ClosingInv'
  <2>1. ~AllGone
    BY <1>2 DEF AllGone, Gone
  <2>2. \A v \in Workers : pc'[v] = "exited" => pc[v] = "exited"
    BY <1>2, <1>3
  <2>3. \A v \in Workers : pc[v] = "exited" => isCancelled
    BY <1>1, <1>2, <1>3 DEF ClosingInv
  <2> QED
    BY <1>1, <1>2, <2>1, <2>2, <2>3 DEF ClosingInv
<1>12. FindingInv'
  <2>1. Raised' = Raised
    BY <1>2 DEF Raised, Queued
  <2>2. \A f \in Raised : f[1] \in Int /\ f[1] <= received
    BY <1>1, RaisedType DEF FindingInv, Tasks
  <2>3. \A f \in Raised : \A v \in Workers :
          held'[v] = f[1] => v # w /\ held'[v] = held[v] /\ pc'[v] = pc[v]
    BY <1>2, <1>3, <2>2
  <2>4. \A f \in Raised' : \A v \in Workers : held'[v] = f[1] =>
          /\ pc'[v] \in {"probing", "armed", "inflight", "emitting"}
          /\ f[2] < pos'[v]
    BY <1>1, <1>2, <2>1, <2>3 DEF FindingInv
  <2>5. \A f \in Raised' : f[1] <= received'
    BY <1>2, <1>3, <2>1, <2>2
  <2> QED
    BY <1>1, <1>2, <2>1, <2>4, <2>5 DEF FindingInv
<1> QED
  BY <1>5, <1>6, <1>7, <1>8, <1>9, <1>10, <1>11, <1>12 DEF IInv

\* A worker that finds the channel closed keeps the invariant.
LEMMA RecvClosedStep ==
    ASSUME IInv, NEW w \in Workers, RecvClosed(w)
    PROVE  IInv'
<1>1. TypeOK /\ HeldInv /\ PosInv /\ FateInv /\ LateInv /\ BreakerInv
      /\ ClosingInv /\ FindingInv
  BY DEF IInv
<1>2. /\ pc[w] = "recv" /\ received = sent /\ producer = "done"
      /\ pc' = [pc EXCEPT ![w] = "exited"]
      /\ UNCHANGED <<errorCounts, droppedHosts, producer, sent, received, isCancelled,
                     held, pos, findings, collected, engine, report, fate, failures,
                     failedTasks, lateSends, panics>>
  BY DEF RecvClosed, breaker, feed, output, history
<1>3. pc \in [Workers -> WorkerStates]
  BY <1>1 DEF TypeOK
<1>4. TypeOK'
  BY <1>1, <1>2, <1>3 DEF TypeOK, BreakerTypeOK, WorkerStates
<1>5. HeldInv' /\ PosInv' /\ FateInv' /\ LateInv' /\ BreakerInv'
  BY <1>1, <1>2, <1>3 DEF HeldInv, PosInv, FateInv, LateInv, BreakerInv, Busy
<1>6. ClosingInv'
  <2>1. ~AllGone
    BY <1>2 DEF AllGone, Gone
  <2>2. sent = NTasks \/ isCancelled
    BY <1>1, <1>2, <2>1 DEF ClosingInv
  <2> QED
    BY <1>1, <1>2, <1>3, <2>1, <2>2 DEF ClosingInv
<1>7. FindingInv'
  <2>1. \A v \in Workers : pc[v] \in Busy => pc'[v] = pc[v]
    BY <1>2, <1>3 DEF Busy
  <2> QED
    BY <1>1, <1>2, <2>1 DEF FindingInv, Raised, Queued, Busy
<1> QED
  BY <1>4, <1>5, <1>6, <1>7 DEF IInv

\* The check of is_cancelled after recv keeps the invariant.
LEMMA CheckCancelledStep ==
    ASSUME IInv, NEW w \in Workers, CheckCancelled(w)
    PROVE  IInv'
<1>1. TypeOK /\ BreakerInv /\ pc[w] = "received"
  BY DEF IInv, CheckCancelled
<1>2. CASE isCancelled
  <2>1. LetGo(w, "cut", "exited") /\ UNCHANGED <<breaker, panics>>
    BY <1>2 DEF CheckCancelled
  <2> QED
    BY <1>1, <1>2, <2>1, LetGoStep DEF Busy, TypeOK
<1>3. CASE ~isCancelled
  <2>1. /\ pc' = [pc EXCEPT ![w] = "limited"]
        /\ UNCHANGED <<errorCounts, droppedHosts, producer, sent, received, isCancelled,
                       held, pos, findings, collected, engine, report, fate, failures,
                       failedTasks, lateSends, panics>>
    BY <1>3 DEF CheckCancelled, breaker, feed, output, history
  <2>2. /\ pc' \in [Workers -> WorkerStates]
        /\ HeldInv' /\ PosInv' /\ FateInv' /\ LateInv' /\ ClosingInv' /\ FindingInv'
        /\ \A v \in Workers : pc'[v] \in {"received", "limited"} =>
              pc[v] \in {"received", "limited"}
    BY <1>1, <2>1, StayStep
  <2>3. TypeOK' /\ BreakerInv'
    BY <1>1, <2>1, <2>2 DEF TypeOK, BreakerTypeOK, BreakerInv
  <2> QED
    BY <2>2, <2>3 DEF IInv
<1> QED
  BY <1>2, <1>3

\* The question to the breaker keeps the invariant.
LEMMA ExecuteTaskStep ==
    ASSUME IInv, NEW w \in Workers, ExecuteTask(w)
    PROVE  IInv'
<1>1. /\ TypeOK /\ HeldInv /\ PosInv /\ FateInv /\ LateInv /\ BreakerInv
      /\ ClosingInv /\ FindingInv /\ pc[w] = "limited"
  BY DEF IInv, ExecuteTask
<1>2. CASE IsDropped(Target[held[w]])
  <2>1. LetGo(w, "skipped", "recv") /\ UNCHANGED <<breaker, panics>>
    BY <1>2 DEF ExecuteTask
  <2> QED
    BY <1>1, <1>2, <2>1, LetGoStep DEF Busy, TypeOK, IsDropped
<1>3. CASE ~IsDropped(Target[held[w]])
  <2>1. /\ pc' = [pc EXCEPT ![w] = "probing"]
        /\ pos' = [pos EXCEPT ![w] = 1]
        /\ UNCHANGED <<errorCounts, droppedHosts, producer, sent, received, isCancelled,
                       held, findings, collected, engine, report, fate, failures,
                       failedTasks, lateSends, panics>>
    BY <1>3 DEF ExecuteTask, breaker, feed, output, history
  <2>2. pc \in [Workers -> WorkerStates] /\ pos \in [Workers -> Nat]
    BY <1>1 DEF TypeOK
  <2>3. TypeOK'
    <3>1. pc' \in [Workers -> WorkerStates] /\ pos' \in [Workers -> Nat]
      BY <2>1, <2>2 DEF WorkerStates
    <3> QED
      BY <1>1, <2>1, <3>1 DEF TypeOK, BreakerTypeOK
  <2>4. HeldInv' /\ FateInv' /\ LateInv' /\ BreakerInv'
    BY <1>1, <2>1, <2>2 DEF HeldInv, FateInv, LateInv, BreakerInv, Busy
  <2>5. PosInv'
    BY <1>1, <2>1, <2>2 DEF PosInv
  <2>6. ClosingInv'
    <3>1. ~AllGone
      BY <1>1 DEF AllGone, Gone
    <3> QED
      BY <1>1, <2>1, <2>2, <3>1 DEF ClosingInv
  <2>7. FindingInv'
    <3>1. \A f \in Raised : f[1] # held[w]
      BY <1>1 DEF FindingInv
    <3>2. \A v \in Workers : v # w => pc'[v] = pc[v] /\ pos'[v] = pos[v]
      BY <2>1, <2>2
    <3> QED
      BY <1>1, <2>1, <3>1, <3>2 DEF FindingInv, Raised, Queued
  <2> QED
    BY <2>3, <2>4, <2>5, <2>6, <2>7 DEF IInv
<1> QED
  BY <1>2, <1>3

\* The top of the loop over blocks keeps the invariant.
LEMMA NextProbeStep ==
    ASSUME IInv, NEW w \in Workers, NextProbe(w)
    PROVE  IInv'
<1>1. TypeOK /\ BreakerInv /\ pc[w] = "probing"
  BY DEF IInv, NextProbe
<1>2. CASE LetGo(w, "completed", "recv")
  BY <1>1, <1>2, LetGoStep DEF NextProbe, Busy, TypeOK
<1>3. CASE isCancelled /\ LetGo(w, "cut", "recv")
  BY <1>1, <1>3, LetGoStep DEF NextProbe, Busy, TypeOK
<1>4. CASE /\ pos[w] <= Len(Probes[held[w]]) /\ ~isCancelled
           /\ pc' = [pc EXCEPT ![w] = "armed"]
           /\ UNCHANGED <<feed, received, isCancelled, held, pos, output, fate, history>>
  <2>1. UNCHANGED <<errorCounts, droppedHosts, producer, sent, received, isCancelled,
                    held, pos, findings, collected, engine, report, fate, failures,
                    failedTasks, lateSends, panics>>
    BY <1>4 DEF NextProbe, breaker, feed, output, history
  <2>2. /\ pc' \in [Workers -> WorkerStates]
        /\ HeldInv' /\ PosInv' /\ FateInv' /\ LateInv' /\ ClosingInv' /\ FindingInv'
        /\ \A v \in Workers : pc'[v] \in {"received", "limited"} =>
              pc[v] \in {"received", "limited"}
    BY <1>1, <1>4, <2>1, StayStep
  <2>3. TypeOK' /\ BreakerInv'
    BY <1>1, <1>4, <2>1, <2>2 DEF TypeOK, BreakerTypeOK, BreakerInv
  <2> QED
    BY <2>2, <2>3 DEF IInv
<1> QED
  BY <1>2, <1>3, <1>4 DEF NextProbe

\* Sending a request keeps the invariant: at most one after the cancellation.
LEMMA SendStep ==
    ASSUME IInv, NEW w \in Workers, Send(w)
    PROVE  IInv'
<1>1. /\ TypeOK /\ HeldInv /\ PosInv /\ FateInv /\ LateInv /\ BreakerInv
      /\ ClosingInv /\ FindingInv
  BY DEF IInv
<1>2. /\ pc[w] = "armed" /\ pc' = [pc EXCEPT ![w] = "inflight"]
      /\ lateSends' = [lateSends EXCEPT ![w] = IF isCancelled THEN @ + 1 ELSE @]
      /\ UNCHANGED <<errorCounts, droppedHosts, producer, sent, received, isCancelled,
                     held, pos, findings, collected, engine, report, fate, failures,
                     failedTasks, panics>>
  BY DEF Send, breaker, feed, output
<1>3. pc \in [Workers -> WorkerStates] /\ lateSends \in [Workers -> Nat]
  BY <1>1 DEF TypeOK
<1>4. TypeOK'
  <2>1. pc' \in [Workers -> WorkerStates] /\ lateSends' \in [Workers -> Nat]
    BY <1>2, <1>3 DEF WorkerStates
  <2> QED
    BY <1>1, <1>2, <2>1 DEF TypeOK, BreakerTypeOK
<1>5. HeldInv' /\ PosInv' /\ FateInv' /\ BreakerInv'
  BY <1>1, <1>2, <1>3 DEF HeldInv, PosInv, FateInv, BreakerInv, Busy
<1>6. LateInv'
  BY <1>1, <1>2, <1>3 DEF LateInv
<1>7. ClosingInv'
  <2>1. ~AllGone
    BY <1>2 DEF AllGone, Gone
  <2> QED
    BY <1>1, <1>2, <1>3, <2>1 DEF ClosingInv
<1>8. FindingInv'
  BY <1>1, <1>2, <1>3 DEF FindingInv, Raised, Queued
<1> QED
  BY <1>4, <1>5, <1>6, <1>7, <1>8 DEF IInv

\* The steps of everybody but the workers leave the workers alone.
LEMMA OtherSteps ==
    ASSUME IInv,
           ProducerCheck \/ ProducerSend \/ JoinWorkers \/ ReportDone \/ Cancel
           \/ UNCHANGED vars
    PROVE  IInv'
<1>1. /\ TypeOK /\ HeldInv /\ PosInv /\ FateInv /\ LateInv /\ BreakerInv
      /\ ClosingInv /\ FindingInv
  BY DEF IInv
<1>2. /\ UNCHANGED <<errorCounts, droppedHosts, received, pc, held, pos, findings,
                     collected, fate, failures, failedTasks, lateSends, panics>>
      /\ isCancelled' = TRUE \/ isCancelled' = isCancelled
      /\ UNCHANGED sent \/ (sent' = sent + 1 /\ producer = "sending" /\ ~AllGone)
  BY DEF ProducerCheck, ProducerSend, JoinWorkers, ReportDone, Cancel, vars, breaker,
         feed, workers, output, history
<1>3. TypeOK'
  <2>1. sent' \in 0..NTasks /\ received' \in 0..sent'
    <3>1. producer = "sending" => sent < NTasks
      BY <1>1 DEF ClosingInv
    <3> QED
      BY <1>1, <1>2, <3>1, EngineAssumption DEF TypeOK
  <2>2. /\ producer' \in {"checking", "sending", "done"}
        /\ engine' \in {"joining", "returned"} /\ report' \in {"running", "done"}
        /\ isCancelled' \in BOOLEAN
    BY <1>1, <1>2 DEF TypeOK, ProducerCheck, ProducerSend, JoinWorkers, ReportDone,
                      Cancel, vars, feed, output
  <2> QED
    BY <1>1, <1>2, <2>1, <2>2 DEF TypeOK, BreakerTypeOK
<1>4. HeldInv' /\ PosInv' /\ FateInv' /\ LateInv' /\ BreakerInv' /\ FindingInv'
  BY <1>1, <1>2 DEF HeldInv, PosInv, FateInv, LateInv, BreakerInv, FindingInv, Raised, Queued
<1>5. ClosingInv'
  <2>1. AllGone' = AllGone
    BY <1>2 DEF AllGone, Gone
  <2>2. CASE ProducerCheck
    BY <1>1, <1>2, <2>1, <2>2, EngineAssumption DEF ClosingInv, TypeOK, ProducerCheck, output
  <2>3. CASE ProducerSend
    <3>1. /\ ~AllGone => sent' = sent + 1 /\ producer' = "checking"
          /\ AllGone => producer' = "done" /\ UNCHANGED sent
          /\ producer = "sending" /\ UNCHANGED <<engine, report, findings, received, isCancelled, pc>>
      BY <2>3 DEF ProducerSend, output, workers
    <3> QED
      BY <1>1, <2>1, <3>1 DEF ClosingInv
  <2>4. CASE JoinWorkers
    BY <1>1, <1>2, <2>1, <2>4 DEF ClosingInv, JoinWorkers, feed
  <2>5. CASE ReportDone
    BY <1>1, <1>2, <2>1, <2>5 DEF ClosingInv, ReportDone, feed
  <2>6. CASE Cancel
    BY <1>1, <1>2, <2>1, <2>6 DEF ClosingInv, Cancel, feed, output
  <2>7. CASE UNCHANGED vars
    BY <1>1, <1>2, <2>1, <2>7 DEF ClosingInv, vars, feed, output
  <2> QED
    BY <2>2, <2>3, <2>4, <2>5, <2>6, <2>7
<1> QED
  BY <1>3, <1>4, <1>5 DEF IInv


\* A panic keeps the invariant.
LEMMA PanicStep ==
    ASSUME IInv, NEW w \in Workers, Panic(w)
    PROVE  IInv'
<1>1. TypeOK /\ pc[w] \in Busy
  BY DEF IInv, Panic, Busy
<1>2. LetGo(w, "lost", "crashed") /\ UNCHANGED breaker /\ panics' \in Nat
  BY <1>1 DEF Panic, TypeOK
<1> QED
  BY <1>1, <1>2, LetGoStep

\* IInv is an inductive invariant of the pipeline.
THEOREM Invariance == Spec => []IInv
<1>1. Init => IInv
  BY InitIInv
<1>2. IInv /\ [Next]_vars => IInv'
  <2> SUFFICES ASSUME IInv, [Next]_vars PROVE IInv'
    OBVIOUS
  <2>1. CASE ProducerCheck \/ ProducerSend \/ JoinWorkers \/ ReportDone \/ Cancel
             \/ UNCHANGED vars
    BY <2>1, OtherSteps
  <2>2. ASSUME NEW w \in Workers, WorkerStep(w)
        PROVE  IInv'
    BY <2>2, RecvStep, RecvClosedStep, CheckCancelledStep, ExecuteTaskStep,
       NextProbeStep, SkipUnresolvedStep, SendStep, FailStep, AnswerStep,
       MatchStep, EmitStep DEF WorkerStep
  <2>3. ASSUME NEW w \in Workers, Panic(w)
        PROVE  IInv'
    BY <2>3, PanicStep
  <2>4. CASE Consume
    BY <2>4, ConsumeStep
  <2> QED
    BY <2>1, <2>2, <2>3, <2>4 DEF Next, Terminated
<1> QED
  BY <1>1, <1>2, PTL DEF Spec

\* Every variable keeps its type.
THEOREM TypeCorrect == Spec => []TypeOK
<1>1. IInv => TypeOK
  BY DEF IInv
<1> QED
  BY <1>1, Invariance, PTL

\* After the cancellation each worker sends at most one more request.
THEOREM CancelStopsSendingHolds == Spec => []CancelStopsSending
<1>1. IInv => CancelStopsSending
  BY DEF IInv, LateInv, CancelStopsSending
<1> QED
  BY <1>1, Invariance, PTL

\* A task is skipped only after max_errors failures of its breaker key.
THEOREM SkippedOnlyAfterErrorsHolds == Spec => []SkippedOnlyAfterErrors
<1>1. IInv => SkippedOnlyAfterErrors
  BY DEF IInv, BreakerInv, SkippedOnlyAfterErrors
<1> QED
  BY <1>1, Invariance, PTL

\* The end of the report loop finds every task accounted for.
LEMMA EndState ==
    ASSUME IInv, engine = "returned", ~Interrupted
    PROVE  received = NTasks /\ \A w \in Workers : held[w] = 0
<1>1. /\ HeldInv /\ ClosingInv /\ AllGone /\ ~isCancelled
  BY DEF IInv, ClosingInv, Interrupted
<1>2. PICK w \in Workers : pc[w] # "crashed"
  BY DEF Interrupted
<1>3. pc[w] = "exited"
  BY <1>1, <1>2 DEF AllGone, Gone
<1>4. received = NTasks
  BY <1>1, <1>3 DEF ClosingInv
<1>5. \A v \in Workers : held[v] = 0
  BY <1>1 DEF HeldInv, AllGone, Gone, Busy
<1> QED
  BY <1>4, <1>5

\* An uninterrupted scan that ends leaves no task behind: the producer's early
\* exits, the closing of the channel and the exits of the workers (run).
THEOREM AllTasksAccountedHolds == Spec => []AllTasksAccounted
<1>1. IInv => AllTasksAccounted
  <2> SUFFICES ASSUME IInv, report = "done", ~Interrupted, NEW t \in Tasks
               PROVE  fate[t] \in {"completed", "skipped", "lost"}
    BY DEF AllTasksAccounted
  <2>1. TypeOK /\ FateInv /\ engine = "returned" /\ ~isCancelled
    BY DEF IInv, ClosingInv, Interrupted
  <2>2. received = NTasks /\ \A w \in Workers : held[w] = 0
    BY <2>1, EndState
  <2>3. fate[t] \in Fates /\ t > 0 /\ t <= NTasks /\ t \in Int /\ NTasks \in Int
    BY <2>1, EngineAssumption DEF TypeOK, Tasks
  <2>4. fate[t] # "queued" /\ fate[t] # "running" /\ fate[t] # "cut"
    BY <2>1, <2>2, <2>3 DEF FateInv
  <2> QED
    BY <2>3, <2>4 DEF Fates
<1> QED
  BY <1>1, Invariance, PTL


(***************************************************************************)
(* The pipeline implements ScanPromise.  The state of the promise under the *)
(* refinement mapping of ScanEngine:                                       *)
(***************************************************************************)
Todo == received + 1 .. NTasks
Active == {held[w] : w \in Workers} \ {0}
Ended == report = "done"

\* The initial state of the pipeline is one of ScanPromise.
LEMMA InitPromise == Init => Promise!PInit
<1> SUFFICES ASSUME Init PROVE Promise!PInit
  OBVIOUS
<1>1. Todo = Tasks
  BY DEF Init, Todo, Tasks
<1>2. Active = {} /\ Queued = {} /\ collected = {} /\ ~Ended
  BY DEF Init, Active, Queued, Ended
<1>3. Interrupted = FALSE
  BY WorkersAssumption DEF Init, Interrupted
<1> QED
  BY <1>1, <1>2, <1>3 DEF Promise!PInit, Todo, Active, Ended, Tasks

\* A step that changes none of the mapped variables is a stutter.
LEMMA Stutter ==
    ASSUME UNCHANGED <<received, held, findings, collected, report>>,
           Interrupted' = Interrupted
    PROVE  UNCHANGED Promise!pvars
BY DEF Promise!pvars, Queued

\* Letting go of a task retires it.
LEMMA LetGoRetires ==
    ASSUME IInv, NEW w \in Workers, NEW outcome, NEW next, pc[w] \in Busy,
           LetGo(w, outcome, next),
           next # "crashed" => Interrupted' = Interrupted,
           Interrupted' \in {Interrupted, TRUE}
    PROVE  Promise!PNext
<1>1. TypeOK /\ HeldInv
  BY DEF IInv
<1>2. /\ held[w] \in Tasks /\ held[w] # 0 /\ held \in [Workers -> 0..NTasks]
      /\ \A v \in Workers : held[v] = held[w] => v = w
  BY <1>1, EngineAssumption DEF TypeOK, HeldInv, Tasks
<1>3. /\ held' = [held EXCEPT ![w] = 0]
      /\ UNCHANGED <<received, findings, collected, report>>
  BY DEF LetGo, output
<1>4. Active' = Active \ {held[w]} /\ held[w] \in Active
  BY <1>2, <1>3 DEF Active
<1>5. PICK t \in Tasks : t = held[w]
  BY <1>2
<1>6. Promise!Retire(t)
  BY <1>3, <1>4, <1>5 DEF Promise!Retire, Active, Queued
<1> QED
  BY <1>6 DEF Promise!PNext

\* Every step of the pipeline is a step of ScanPromise or stutters.
LEMMA StepPromise == IInv /\ IInv' /\ [Next]_vars => [Promise!PNext]_(Promise!pvars)
<1> SUFFICES ASSUME IInv, IInv', [Next]_vars
             PROVE  Promise!PNext \/ UNCHANGED Promise!pvars
  OBVIOUS
<1>1. TypeOK /\ HeldInv /\ FindingInv
  BY DEF IInv
<1>2. \A w \in Workers : pc[w] # "crashed" => Interrupted = isCancelled
  BY <1>1 DEF Interrupted, TypeOK
<1>3. CASE ProducerCheck \/ ProducerSend \/ JoinWorkers \/ UNCHANGED vars
  <2>1. UNCHANGED <<received, held, findings, collected, report, isCancelled, pc>>
    BY <1>3 DEF ProducerCheck, ProducerSend, JoinWorkers, vars, workers, output
  <2> QED
    BY <2>1, Stutter DEF Interrupted
<1>4. ASSUME NEW w \in Workers, Recv(w)
      PROVE  Promise!PNext
  <2>1. /\ pc[w] = "recv" /\ received < sent /\ received' = received + 1
        /\ held' = [held EXCEPT ![w] = received + 1]
        /\ pc' = [pc EXCEPT ![w] = "received"]
        /\ UNCHANGED <<isCancelled, findings, collected, report>>
    BY <1>4 DEF Recv, output
  <2>2. /\ held[w] = 0 /\ received + 1 \in Tasks /\ held \in [Workers -> 0..NTasks]
        /\ pc \in [Workers -> WorkerStates] /\ received \in Nat
    <3>1. /\ held \in [Workers -> 0..NTasks] /\ pc \in [Workers -> WorkerStates]
          /\ sent \in 0..NTasks /\ received \in 0..sent /\ NTasks \in Nat
      BY <1>1, EngineAssumption DEF TypeOK
    <3>2. received \in Nat /\ received + 1 \in Tasks
      BY <2>1, <3>1 DEF Tasks
    <3>3. held[w] = 0
      BY <1>1, <2>1 DEF HeldInv, Busy
    <3> QED
      BY <3>1, <3>2, <3>3
  <2>3. Interrupted' = Interrupted
    BY <2>1, <2>2 DEF Interrupted
  <2>4. Active' = Active \cup {received + 1}
    BY <2>1, <2>2 DEF Active
  <2>5. Todo' = Todo \ {received + 1} /\ received + 1 \in Todo
    BY <2>1, <2>2, EngineAssumption DEF Todo, Tasks
  <2>6. PICK t \in Tasks : t = received + 1
    BY <2>2
  <2>7. Promise!Begin(t)
    BY <2>1, <2>3, <2>4, <2>5, <2>6 DEF Promise!Begin, Active, Todo, Queued
  <2> QED
    BY <2>7 DEF Promise!PNext
<1>5. ASSUME NEW w \in Workers,
             RecvClosed(w) \/ SkipUnresolved(w) \/ Send(w) \/ Fail(w) \/ Answer(w) \/ Match(w)
      PROVE  UNCHANGED Promise!pvars
  <2>1. /\ UNCHANGED <<received, held, findings, collected, report, isCancelled>>
        /\ pc[w] # "crashed"
        /\ \E next \in WorkerStates \ {"crashed"} : pc' = [pc EXCEPT ![w] = next]
    BY <1>5 DEF RecvClosed, SkipUnresolved, Send, Fail, Answer, Match, GoTo, output,
                WorkerStates
  <2>2. Interrupted' = Interrupted
    BY <1>1, <2>1 DEF Interrupted, TypeOK
  <2> QED
    BY <2>1, <2>2, Stutter
<1>6. ASSUME NEW w \in Workers, CheckCancelled(w) \/ ExecuteTask(w) \/ NextProbe(w)
      PROVE  Promise!PNext \/ UNCHANGED Promise!pvars
  <2>1. pc[w] \in Busy /\ pc[w] # "crashed" /\ pc \in [Workers -> WorkerStates]
    BY <1>1, <1>6 DEF CheckCancelled, ExecuteTask, NextProbe, Busy, TypeOK
  <2>2. ASSUME NEW outcome, NEW next \in {"recv", "exited"}, LetGo(w, outcome, next)
        PROVE  Promise!PNext
    <3>1. pc' = [pc EXCEPT ![w] = next] /\ UNCHANGED isCancelled
      BY <2>2 DEF LetGo
    <3>2. Interrupted' = Interrupted
      BY <2>1, <3>1 DEF Interrupted
    <3> QED
      BY <2>1, <2>2, <3>2, LetGoRetires
  <2>3. ASSUME UNCHANGED <<received, held, findings, collected, report, isCancelled>>,
               NEW next \in {"limited", "probing", "armed"}, pc' = [pc EXCEPT ![w] = next]
        PROVE  UNCHANGED Promise!pvars
    <3>1. Interrupted' = Interrupted
      BY <2>1, <2>3 DEF Interrupted
    <3> QED
      BY <2>3, <3>1, Stutter
  <2> QED
    BY <1>6, <2>2, <2>3 DEF CheckCancelled, ExecuteTask, NextProbe, output
<1>7. ASSUME NEW w \in Workers, Emit(w)
      PROVE  Promise!PNext
  <2> DEFINE new == <<held[w], pos[w]>>
  <2>1. /\ pc[w] = "emitting" /\ findings' = Append(findings, new)
        /\ pc' = [pc EXCEPT ![w] = "probing"]
        /\ UNCHANGED <<received, held, collected, report, isCancelled>>
    BY <1>7 DEF Emit, GoTo
  <2>2. /\ held[w] \in Tasks /\ held[w] # 0 /\ pos[w] \in 1..Len(Probes[held[w]])
        /\ pos[w] \in Int /\ pc \in [Workers -> WorkerStates]
    <3>1. /\ held \in [Workers -> 0..NTasks] /\ pc \in [Workers -> WorkerStates]
          /\ pos \in [Workers -> Nat]
      BY <1>1 DEF TypeOK
    <3>2. held[w] # 0
      BY <1>1, <2>1 DEF HeldInv, Busy
    <3>3. pos[w] >= 1 /\ pos[w] <= Len(Probes[held[w]])
      BY <2>1 DEF IInv, PosInv
    <3>4. held[w] \in Tasks
      BY <3>1, <3>2, EngineAssumption DEF Tasks
    <3>5. Len(Probes[held[w]]) \in Nat
      BY <3>4, EngineAssumption
    <3> QED
      BY <3>1, <3>2, <3>3, <3>4, <3>5
  <2>3. Interrupted' = Interrupted
    BY <2>1, <2>2 DEF Interrupted
  <2>4. new \in FindingsOf[held[w]] /\ new \in Findings
    BY <2>2 DEF FindingsOf, Findings
  <2>5. new \notin Queued \cup collected
    BY <1>1, <2>2 DEF FindingInv, Raised
  <2>6. held[w] \in Active /\ Active' = Active
    BY <2>1, <2>2 DEF Active
  <2> HIDE DEF new
  <2>7. Queued' = Queued \cup {new}
    <3>1. /\ Len(findings') = Len(findings) + 1 /\ Len(findings) \in Nat
          /\ \A i \in 1..Len(findings) : findings'[i] = findings[i]
          /\ findings'[Len(findings) + 1] = new
      BY <1>1, <2>1, <2>4, AppendProperties, LenProperties DEF TypeOK
    <3> QED
      BY <3>1 DEF Queued
  <2>8. Promise!Find(held[w], new)
    BY <2>1, <2>3, <2>4, <2>5, <2>6, <2>7 DEF Promise!Find, Active
  <2> QED
    BY <2>2, <2>4, <2>8 DEF Promise!PNext, Tasks
<1>8. ASSUME NEW w \in Workers, Panic(w)
      PROVE  Promise!PNext
  <2>1. pc[w] \in Busy /\ LetGo(w, "lost", "crashed") /\ Interrupted' \in {TRUE, FALSE}
    BY <1>8 DEF Panic, Busy, Interrupted
  <2>2. Interrupted' = Interrupted \/ Interrupted' = TRUE
    BY <1>1, <2>1 DEF Interrupted, LetGo, Busy, TypeOK
  <2> QED
    BY <2>1, <2>2, LetGoRetires
<1>9. CASE Consume
  <2> DEFINE f == Head(findings)
  <2>1. /\ findings # << >> /\ findings' = Tail(findings) /\ collected' = collected \cup {f}
        /\ UNCHANGED <<received, held, report, isCancelled, pc>>
    BY <1>9 DEF Consume, workers
  <2>2. /\ f = findings[1] /\ Len(findings) \in Nat /\ Len(findings) # 0
        /\ Len(findings') = Len(findings) - 1 /\ f \in Findings
        /\ \A i \in 1..Len(findings') : findings'[i] = findings[i + 1]
    BY <1>1, <2>1, HeadTailProperties, ElementOfSeq, EmptySeq, LenProperties DEF TypeOK
  <2> HIDE DEF f
  <2>3. Queued' = Queued \ {f} /\ f \in Queued
    <3>1. \A i \in 1..Len(findings) : i # 1 =>
            i - 1 \in 1..Len(findings') /\ findings'[i - 1] = findings[i] /\ findings[i] # f
      BY <1>1, <2>2 DEF FindingInv
    <3>2. \A i \in 1..Len(findings') : i + 1 \in 1..Len(findings) /\ i + 1 # 1
      BY <2>2
    <3>3. Queued' \subseteq Queued \ {f}
      BY <1>1, <2>2, <3>2 DEF Queued, FindingInv
    <3>4. Queued \ {f} \subseteq Queued'
      BY <2>2, <3>1 DEF Queued
    <3>5. f \in Queued
      BY <2>2 DEF Queued
    <3> QED
      BY <3>3, <3>4, <3>5
  <2>4. Interrupted' = Interrupted
    BY <2>1 DEF Interrupted
  <2>5. Promise!Deliver(f)
    BY <2>1, <2>3, <2>4 DEF Promise!Deliver
  <2>6. PICK t \in Tasks : f \in FindingsOf[t]
    BY <2>2 DEF Findings
  <2> QED
    BY <2>5, <2>6 DEF Promise!PNext, Tasks
<1>10. CASE ReportDone
  <2>1. /\ report = "running" /\ findings = << >> /\ engine = "returned" /\ report' = "done"
        /\ UNCHANGED <<received, held, findings, collected, isCancelled, pc>>
    BY <1>10 DEF ReportDone, workers
  <2>2. Interrupted' = Interrupted
    BY <2>1 DEF Interrupted
  <2>3. Queued = {} /\ Queued' = {}
    BY <2>1 DEF Queued
  <2>4. Active = {} /\ Active' = {}
    BY <1>1, <2>1 DEF IInv, ClosingInv, AllGone, Gone, HeldInv, Busy, Active
  <2>5. Todo = {} \/ Interrupted
    BY <2>1, EndState, EngineAssumption DEF Todo
  <2>6. Promise!End
    BY <2>1, <2>2, <2>3, <2>4, <2>5 DEF Promise!End, Active, Todo
  <2> QED
    BY <2>6 DEF Promise!PNext
<1>11. CASE Cancel
  <2>1. /\ report = "running" /\ isCancelled' = TRUE
        /\ UNCHANGED <<received, held, findings, collected, report, pc>>
    BY <1>11 DEF Cancel, workers, output
  <2>2. CASE Interrupted
    BY <2>1, <2>2, Stutter DEF Interrupted
  <2>3. CASE ~Interrupted
    <3>1. Interrupted' = TRUE
      BY <2>1 DEF Interrupted
    <3>2. Promise!Interrupt
      BY <2>1, <2>3, <3>1 DEF Promise!Interrupt, Queued
    <3> QED
      BY <3>2 DEF Promise!PNext
  <2> QED
    BY <2>2, <2>3
<1> QED
  BY <1>3, <1>4, <1>5, <1>6, <1>7, <1>8, <1>9, <1>10, <1>11 DEF Next, WorkerStep, Terminated

\* No finding is lost or duplicated, and the stream of findings ends only when
\* the scan has.
THEOREM Refinement == Spec => KeepsPromise
<1>1. Init => Promise!PInit
  BY InitPromise
<1>2. IInv /\ IInv' /\ [Next]_vars => [Promise!PNext]_(Promise!pvars)
  BY StepPromise
<1> QED
  BY <1>1, <1>2, Invariance, PTL DEF Spec, KeepsPromise, Promise!PSpec
================================================================================
