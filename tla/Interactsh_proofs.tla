---------------------------- MODULE Interactsh_proofs ----------------------------
(***************************************************************************)
(* Proofs about Interactsh, for any requests, URLs, hits and failures: types; *)
(* the rendezvous of add_request and poll_once strands nobody and loses or    *)
(* doubles no interaction; a poll starts after the last registration unless a *)
(* call takes half the cooldown; and, with calls shorter still, a URL called  *)
(* before the workers were done gets an interaction evaluated.                *)
(***************************************************************************)
EXTENDS Interactsh, WellFoundedInduction, TLAPS

(***************************************************************************)
(* Types.                                                                  *)
(***************************************************************************)
\* Workers go through their URLs from the first one.
NextInv == next \in [Requests -> Nat \ {0}]

\* The URL at hand is one of those there are.
LEMMA MarkerFact ==
    ASSUME NextInv, NEW r \in Requests, next[r] <= Len(UrlsOf[r])
    PROVE  Marker(r) \in Urls
<1>1. UrlsOf[r] \in Seq(Urls)
  BY InteractshAssumption
<1>2. next[r] \in 1..Len(UrlsOf[r])
  BY <1>1 DEF NextInv
<1> QED BY <1>1, <1>2 DEF Marker

\* Going on to the next URL.
LEMMA NextKept == NextInv /\ [Next]_vars => NextInv'
<1> SUFFICES ASSUME NextInv, [Next]_vars PROVE NextInv'
  OBVIOUS
<1>1. \/ UNCHANGED next
      \/ \E r \in Requests : Step(r)
      \/ \E r \in Requests : next' = [next EXCEPT ![r] = 1]
  <2>1. ASSUME NEW r \in Requests, WorkerStep(r)
        PROVE  UNCHANGED next \/ Step(r) \/ next' = [next EXCEPT ![r] = 1]
    BY <2>1 DEF WorkerStep, GenerateUrl, GenerateFails, SendRequest, Respond, AddRequest,
                SkipMarker, RequestDone
  <2>2. ASSUME NEW r \in Requests, Interact(r) PROVE UNCHANGED next
    BY <2>2 DEF Interact, work
  <2>3. PollerStep => UNCHANGED next
    BY DEF PollerStep, PollTick, Keepalive, PollOnce, PollFails, PollStop, work
  <2>4. EngineStep => UNCHANGED next
    BY DEF EngineStep, StartSession, WorkersDone, CooldownOver, Deregister, work
  <2>5. Pass \/ Terminated \/ UNCHANGED vars => UNCHANGED next
    BY DEF Pass, Terminated, vars, work
  <2> QED BY <2>1, <2>2, <2>3, <2>4, <2>5 DEF Next
<1>2. ASSUME NEW r \in Requests, Step(r) PROVE NextInv'
  BY <1>2 DEF Step, NextInv
<1>3. ASSUME NEW r \in Requests, next' = [next EXCEPT ![r] = 1] PROVE NextInv'
  BY <1>3 DEF NextInv
<1> QED BY <1>1, <1>2, <1>3 DEF NextInv

\* The constants are numbers.
LEMMA Numbers ==
    /\ PollSecs \in Nat /\ CooldownSecs \in Nat /\ MaxHttpTime \in Nat
    /\ KeepaliveSecs \in Nat /\ BackoffSecs \in Nat /\ MaxHits \in Nat /\ MaxFailures \in Nat
BY InteractshAssumption

\* A session is registered, or is not.
LEMMA SessionTypes ==
    ASSUME TypeOK, \/ UNCHANGED <<session_vars, failures>>
                   \/ RegisterOk
                   \/ RegisterFails
    PROVE  /\ age' \in Upto(KeepaliveSecs) /\ retryIn' \in Upto(BackoffSecs)
           /\ session' \in BOOLEAN /\ failures' \in Upto(MaxFailures)
<1>1. CASE UNCHANGED <<session_vars, failures>>
  BY <1>1 DEF TypeOK, session_vars
<1>2. CASE RegisterOk
  BY <1>2, Numbers DEF TypeOK, RegisterOk, Upto
<1>3. CASE RegisterFails
  BY <1>3, Numbers DEF TypeOK, RegisterFails, Upto
<1> QED BY <1>1, <1>2, <1>3

\* What a worker writes.
LEMMA WorkerTypes ==
    ASSUME TypeOK, NextInv, NEW r \in Requests, WorkerStep(r)
    PROVE  TypeOK'
<1>1. /\ UNCHANGED <<engine, left, stop, poller, pollIn, busy, inbox, hits, slow, fetched, inTime>>
      /\ UNCHANGED next \/ Step(r) \/ next' = [next EXCEPT ![r] = 1]
      /\ worker' \in {worker} \cup {[worker EXCEPT ![r] = w] :
                                        w \in {"inflight", "skipped", "answered", "done"}}
      /\ UNCHANGED <<session_vars, failures>> \/ RegisterOk \/ RegisterFails
  BY DEF WorkerStep, GenerateUrl, GenerateFails, SendRequest, Respond, AddRequest, SkipMarker,
         RequestDone, ending, timer, history
<1>2. /\ age' \in Upto(KeepaliveSecs) /\ retryIn' \in Upto(BackoffSecs)
      /\ session' \in BOOLEAN /\ failures' \in Upto(MaxFailures)
  BY <1>1, SessionTypes
<1>3. next' \in [Requests -> Nat]
  BY <1>1 DEF TypeOK, Step
<1>4. worker' \in [Requests -> {"building", "inflight", "answered", "done", "skipped"}]
  BY <1>1 DEF TypeOK
<1>5. /\ generated' \subseteq Urls /\ registered' \subseteq Urls /\ pending' \subseteq Urls
      /\ pollSince' \in BOOLEAN
  <2>1. CASE GenerateUrl(r)
    BY <2>1, MarkerFact DEF GenerateUrl, TypeOK, table, history
  <2>2. CASE AddRequest(r)
    <3>1. /\ Marker(r) \in Urls /\ generated' = generated /\ pollSince' = FALSE
          /\ registered' = registered \cup {Marker(r)}
          /\ pending' = pending \/ pending' = pending \cup {Marker(r)}
      BY <2>2, MarkerFact DEF AddRequest
    <3> QED BY <3>1 DEF TypeOK
  <2>3. CASE GenerateFails(r) \/ SendRequest(r) \/ Respond(r) \/ SkipMarker(r) \/ RequestDone(r)
    BY <2>3 DEF GenerateFails, SendRequest, Respond, SkipMarker, RequestDone, TypeOK, table, history
  <2> QED BY <2>1, <2>2, <2>3 DEF WorkerStep
<1>6. early' \in [Hit -> Nat] /\ evaluated' \in [Hit -> Nat]
  <2>1. CASE AddRequest(r)
    <3>1. \/ UNCHANGED <<early, evaluated>>
          \/ /\ early' = [h \in Hit |-> IF h.url = Marker(r) THEN 0 ELSE early[h]]
             /\ evaluated' = HandedOver(Marker(r))
      BY <2>1 DEF AddRequest
    <3>2. early \in [Hit -> Nat] /\ evaluated \in [Hit -> Nat]
      BY DEF TypeOK
    <3> QED BY <3>1, <3>2 DEF HandedOver
  <2>2. CASE UNCHANGED <<early, evaluated>>
    BY <2>2 DEF TypeOK
  <2> QED BY <2>1, <2>2 DEF WorkerStep, GenerateUrl, GenerateFails, SendRequest, Respond,
             SkipMarker, RequestDone, table, history
<1> QED BY <1>1, <1>2, <1>3, <1>4, <1>5, <1>6 DEF TypeOK

\* What the target and the server write.
LEMMA InteractTypes ==
    ASSUME TypeOK, NEW r \in Requests, Interact(r)
    PROVE  TypeOK'
<1>1. /\ UNCHANGED <<engine, left, stop, worker, next, generated, age, retryIn, session, pending,
                     early, poller, pollIn, busy, failures, evaluated, fetched, registered,
                     pollSince, slow>>
      /\ hits < MaxHits /\ hits' = hits + 1
  BY DEF Interact, session_vars, work, table, timer, ending
<1>2. PICK u \in generated, p \in Protocols :
         LET h == [url |-> u, protocol |-> p, id |-> hits + 1] IN
         /\ inbox' = IF session THEN inbox \cup {h} ELSE inbox
         /\ inTime' = IF session /\ engine = "running" THEN inTime \cup {h} ELSE inTime
  BY DEF Interact
<1>3. hits' \in Upto(MaxHits) /\ hits + 1 \in 1..MaxHits
  BY <1>1, Numbers DEF TypeOK, Upto
<1>4. [url |-> u, protocol |-> p, id |-> hits + 1] \in Hit
  BY <1>3 DEF TypeOK, Hit
<1>5. inbox' \subseteq Hit /\ inTime' \subseteq Hit
  BY <1>2, <1>4 DEF TypeOK
<1> QED BY <1>1, <1>3, <1>5 DEF TypeOK

\* What the poller writes.
LEMMA PollerTypes ==
    ASSUME TypeOK, PollerStep
    PROVE  TypeOK'
<1>1. UNCHANGED <<engine, left, stop, worker, next, generated, hits, registered, inTime, slow>>
  BY DEF PollerStep, PollTick, Keepalive, PollOnce, PollFails, PollStop, ending, work, history
<1>2. 0 \in Upto(MaxHttpTime) /\ PollSecs \in Upto(PollSecs)
  BY Numbers DEF Upto
<1>3. CASE PollTick \/ PollStop
  BY <1>1, <1>2, <1>3 DEF TypeOK, PollTick, PollStop, session_vars, table, history
<1>4. CASE Keepalive
  <2>1. /\ age' \in Upto(KeepaliveSecs) /\ retryIn' \in Upto(BackoffSecs)
        /\ session' \in BOOLEAN /\ failures' \in Upto(MaxFailures)
    BY <1>4, SessionTypes DEF Keepalive
  <2> QED BY <1>1, <1>2, <1>4, <2>1 DEF TypeOK, Keepalive, table, history
<1>5. CASE PollOnce
  <2>1. /\ UNCHANGED <<age, retryIn, session, pollIn, busy, failures, pollSince>>
        /\ poller' = "waiting" /\ pending' \subseteq pending /\ inbox' = {}
        /\ early' = [h \in Hit |-> early[h] + (IF h \in inbox /\ ~IsFirst(h) THEN 1 ELSE 0)]
        /\ evaluated' = FirstsEvaluated /\ fetched' = fetched \cup inbox
    BY <1>5 DEF PollOnce, session_vars
  <2>2. early' \in [Hit -> Nat] /\ evaluated' \in [Hit -> Nat]
    <3>1. early \in [Hit -> Nat] /\ evaluated \in [Hit -> Nat]
      BY DEF TypeOK
    <3>2. \A h \in Hit : early[h] + (IF h \in inbox /\ ~IsFirst(h) THEN 1 ELSE 0) \in Nat
      BY <3>1
    <3>3. \A h \in Hit : evaluated[h] + (IF IsFirst(h) THEN 1 ELSE 0) \in Nat
      BY <3>1
    <3> QED BY <2>1, <3>2, <3>3 DEF FirstsEvaluated
  <2> QED BY <1>1, <2>1, <2>2 DEF TypeOK
<1>6. CASE PollFails
  <2>1. failures' \in Upto(MaxFailures) /\ inbox' \subseteq inbox
    BY <1>6, Numbers DEF TypeOK, PollFails, Upto
  <2> QED BY <1>1, <1>6, <2>1 DEF TypeOK, PollFails, session_vars, table, history
<1> QED BY <1>3, <1>4, <1>5, <1>6 DEF PollerStep

\* What the engine and the clock write.
LEMMA EngineTypes ==
    ASSUME TypeOK, EngineStep
    PROVE  TypeOK'
<1>1. UNCHANGED <<worker, next, generated, pending, early, pollIn, busy, hits, evaluated,
                  fetched, registered, inTime, pollSince>>
  BY DEF EngineStep, StartSession, WorkersDone, CooldownOver, Deregister, work, table, timer, history
<1>0. slow' \in Upto(MaxHttpTime)
  BY Numbers DEF TypeOK, Upto, EngineStep, StartSession, WorkersDone, CooldownOver, Deregister
<1>2. CASE StartSession
  <2>1. /\ age' \in Upto(KeepaliveSecs) /\ retryIn' \in Upto(BackoffSecs)
        /\ session' \in BOOLEAN /\ failures' \in Upto(MaxFailures)
    BY <1>2, SessionTypes DEF StartSession
  <2> QED BY <1>0, <1>1, <1>2, <2>1 DEF TypeOK, StartSession
<1>3. CASE WorkersDone
  <2>1. left' \in Upto(CooldownSecs)
    BY <1>3, Numbers DEF TypeOK, WorkersDone, Upto
  <2> QED BY <1>0, <1>1, <1>3, <2>1 DEF TypeOK, WorkersDone, session_vars, timer
<1>4. CASE CooldownOver
  BY <1>0, <1>1, <1>4 DEF TypeOK, CooldownOver, session_vars, timer
<1>5. CASE Deregister
  <2>1. failures' \in Upto(MaxFailures)
    BY <1>5, Numbers DEF TypeOK, Deregister, Upto
  <2> QED BY <1>0, <1>1, <1>5, <2>1 DEF TypeOK, Deregister, timer
<1> QED BY <1>2, <1>3, <1>4, <1>5 DEF EngineStep

\* Time passes.
LEMMA PassTypes ==
    ASSUME TypeOK, Pass
    PROVE  TypeOK'
<1>1. /\ UNCHANGED <<engine, stop, worker, next, generated, session, pending, early, poller, inbox,
                     hits, failures, evaluated, fetched, registered, inTime, pollSince>>
      /\ Calling => busy < MaxHttpTime
      /\ age' = IF age < KeepaliveSecs THEN age + 1 ELSE age
      /\ retryIn' = Down(retryIn) /\ pollIn' = Down(pollIn) /\ left' = Down(left)
      /\ busy' = IF Calling THEN busy + 1 ELSE busy
      /\ slow' = IF engine = "cooldown" /\ Calling /\ busy >= slow THEN busy + 1 ELSE slow
  BY DEF Pass, work, table, history
<1>2. \A m \in Nat : \A n \in Upto(m) : Down(n) \in Upto(m)
  BY DEF Down, Upto
<1>3. retryIn' \in Upto(BackoffSecs) /\ pollIn' \in Upto(PollSecs) /\ left' \in Upto(CooldownSecs)
  BY <1>1, <1>2, Numbers DEF TypeOK
<1>4. /\ age' \in Upto(KeepaliveSecs) /\ busy' \in Upto(MaxHttpTime)
      /\ slow' \in Upto(MaxHttpTime)
  BY <1>1, Numbers DEF TypeOK, Upto
<1> QED BY <1>1, <1>3, <1>4 DEF TypeOK

\* Every step keeps the types.
LEMMA TypesKept == TypeOK /\ NextInv /\ [Next]_vars => TypeOK'
<1> SUFFICES ASSUME TypeOK, NextInv, [Next]_vars PROVE TypeOK'
  OBVIOUS
<1>1. CASE UNCHANGED vars
  BY <1>1 DEF vars, session_vars, work, table, timer, ending, history, TypeOK
<1> QED BY <1>1, WorkerTypes, InteractTypes, PollerTypes, EngineTypes, PassTypes
        DEF Next, Terminated

\* A client that has just been made.
LEMMA InitTypes == Init => TypeOK /\ NextInv
<1> SUFFICES ASSUME Init PROVE TypeOK /\ NextInv
  OBVIOUS
<1>1. /\ 0 \in Upto(CooldownSecs) /\ KeepaliveSecs \in Upto(KeepaliveSecs) /\ 0 \in Upto(BackoffSecs)
      /\ 0 \in Upto(PollSecs) /\ 0 \in Upto(MaxHttpTime) /\ 0 \in Upto(MaxHits)
      /\ 0 \in Upto(MaxFailures)
  BY Numbers DEF Upto
<1>2. NextInv /\ next \in [Requests -> Nat]
  BY DEF Init, NextInv
<1>3. early \in [Hit -> Nat] /\ evaluated \in [Hit -> Nat]
  BY DEF Init
<1>4. worker \in [Requests -> {"building", "inflight", "answered", "done", "skipped"}]
  BY DEF Init
<1> QED BY <1>1, <1>2, <1>3, <1>4 DEF Init, TypeOK

\* The timers, the tables and the counters keep their types.
THEOREM InteractshTypeCorrect == Spec => []TypeOK
BY InitTypes, TypesKept, NextKept, PTL DEF Spec

(***************************************************************************)
(* The rendezvous.                                                         *)
(***************************************************************************)
\* The strengthening of NobodyStranded.
TableInv ==
    /\ generated \subseteq Urls
    /\ pending \subseteq Urls
    /\ NobodyStranded

\* Only add_request and poll_once write the tables; each looks at the other table for
\* the URL it writes.
LEMMA TableKept == TypeOK /\ NextInv /\ TableInv /\ [Next]_vars => TableInv'
<1> SUFFICES ASSUME TypeOK, NextInv, TableInv, [Next]_vars PROVE TableInv'
  OBVIOUS
<1> USE DEF TableInv, NobodyStranded
<1>1. CASE UNCHANGED <<table, generated>>
  BY <1>1 DEF table, EarlyOf
<1>2. ASSUME NEW r \in Requests, GenerateUrl(r) PROVE TableInv'
  <2>1. Marker(r) \in Urls /\ generated' = generated \cup {Marker(r)} /\ UNCHANGED table
    BY <1>2, MarkerFact DEF GenerateUrl
  <2> QED BY <2>1 DEF table, EarlyOf
<1>3. ASSUME NEW r \in Requests, AddRequest(r) PROVE TableInv'
  <2> DEFINE u == Marker(r)
  <2>1. u \in Urls /\ UNCHANGED generated
    BY <1>3, MarkerFact DEF AddRequest
  <2>2. CASE EarlyOf(u) # {}
    <3>1. early' = [h \in Hit |-> IF h.url = u THEN 0 ELSE early[h]] /\ UNCHANGED pending
      BY <1>3, <2>2 DEF AddRequest
    <3>2. \A v \in pending : EarlyOf(v)' = {}
      <4> SUFFICES ASSUME NEW v \in pending, NEW h \in Hit, h.url = v, early'[h] > 0 PROVE FALSE
        BY DEF EarlyOf
      <4>1. early[h] > 0
        BY <3>1
      <4> QED BY <4>1 DEF EarlyOf
    <3> QED BY <2>1, <3>1, <3>2
  <2>3. CASE EarlyOf(u) = {}
    <3>1. pending' = pending \cup {u} /\ UNCHANGED early
      BY <1>3, <2>3 DEF AddRequest
    <3>2. \A v : EarlyOf(v)' = EarlyOf(v)
      BY <3>1 DEF EarlyOf
    <3> QED BY <2>1, <2>3, <3>1, <3>2
  <2> QED BY <2>2, <2>3
<1>4. CASE PollOnce
  <2>1. /\ pending' = pending \ Matched /\ UNCHANGED generated
        /\ early' = [h \in Hit |-> early[h] + (IF h \in inbox /\ ~IsFirst(h) THEN 1 ELSE 0)]
    BY <1>4 DEF PollOnce, work
  <2>2. ASSUME NEW u \in pending', NEW h \in Hit, h.url = u PROVE early'[h] = early[h] + 0
    <3>1. h \notin inbox
      BY <2>1, <2>2 DEF Matched
    <3> QED BY <2>1, <3>1
  <2>3. ASSUME NEW u \in pending', NEW h \in Hit, h.url = u PROVE ~(early'[h] > 0)
    <3>1. ~(early[h] > 0)
      BY <2>1, <2>3 DEF EarlyOf
    <3>2. early[h] \in Nat
      BY DEF TypeOK
    <3> QED BY <2>2, <2>3, <3>1, <3>2
  <2>4. \A u \in pending' : EarlyOf(u)' = {}
    BY <2>3 DEF EarlyOf
  <2> QED BY <2>1, <2>4
<1>5. ASSUME NEW r \in Requests, WorkerStep(r) \/ Interact(r)
      PROVE  GenerateUrl(r) \/ AddRequest(r) \/ UNCHANGED <<table, generated>>
  BY <1>5 DEF WorkerStep, GenerateFails, SendRequest, Respond, SkipMarker, RequestDone,
              Interact, work
<1>6. PollerStep => PollOnce \/ UNCHANGED <<table, generated>>
  BY DEF PollerStep, PollTick, Keepalive, PollFails, PollStop, work
<1>7. EngineStep => UNCHANGED <<table, generated>>
  BY DEF EngineStep, StartSession, WorkersDone, CooldownOver, Deregister, work
<1>8. Pass \/ Terminated \/ UNCHANGED vars => UNCHANGED <<table, generated>>
  BY DEF Pass, Terminated, vars, work
<1> QED BY <1>1, <1>2, <1>3, <1>4, <1>5, <1>6, <1>7, <1>8 DEF Next

\* No URL ever has a stored request and an early interaction at once, whatever the
\* workers, the poller, the target and the server do.
THEOREM NobodyStrandedHolds == Spec => []NobodyStranded
<1>1. Init => TypeOK /\ NextInv /\ TableInv
  BY InitTypes DEF Init, TableInv, NobodyStranded
<1>2. TableInv => NobodyStranded
  BY DEF TableInv
<1> QED BY <1>1, <1>2, TypesKept, NextKept, TableKept, PTL DEF Spec

(***************************************************************************)
(* Nothing is lost or evaluated twice.                                     *)
(***************************************************************************)
\* The strengthening of FetchedOnce: an interaction that is not fetched is nowhere, and
\* the server, which numbers them, has only others.
HitInv ==
    /\ \A h \in Hit : evaluated[h] + early[h] = IF h \in fetched THEN 1 ELSE 0
    /\ inbox \cap fetched = {}
    /\ \A h \in inbox \cup fetched : h.id <= hits

\* add_request hands over what is early: for each interaction the sum stays.
LEMMA HandOverKeepsSum ==
    ASSUME TypeOK, NEW u, early' = [h \in Hit |-> IF h.url = u THEN 0 ELSE early[h]],
           evaluated' = HandedOver(u)
    PROVE  \A h \in Hit : evaluated'[h] + early'[h] = evaluated[h] + early[h]
<1> SUFFICES ASSUME NEW h \in Hit
             PROVE  evaluated'[h] + early'[h] = evaluated[h] + early[h]
  OBVIOUS
<1>1. evaluated[h] \in Nat /\ early[h] \in Nat
  BY DEF TypeOK
<1>2. /\ evaluated'[h] = evaluated[h] + (IF h.url = u THEN early[h] ELSE 0)
      /\ early'[h] = IF h.url = u THEN 0 ELSE early[h]
  BY DEF HandedOver
<1> QED BY <1>1, <1>2

\* poll_once adds one for each interaction of the server's answer.
LEMMA PollAddsOne ==
    ASSUME TypeOK, PollOnce
    PROVE  \A h \in Hit : evaluated'[h] + early'[h] =
                            evaluated[h] + early[h] + (IF h \in inbox THEN 1 ELSE 0)
<1> SUFFICES ASSUME NEW h \in Hit
             PROVE  evaluated'[h] + early'[h] =
                        evaluated[h] + early[h] + (IF h \in inbox THEN 1 ELSE 0)
  OBVIOUS
<1>1. evaluated[h] \in Nat /\ early[h] \in Nat
  BY DEF TypeOK
<1>2. /\ evaluated'[h] = evaluated[h] + (IF IsFirst(h) THEN 1 ELSE 0)
      /\ early'[h] = early[h] + (IF h \in inbox /\ ~IsFirst(h) THEN 1 ELSE 0)
  BY DEF PollOnce, FirstsEvaluated
<1>3. IsFirst(h) => h \in inbox
  BY DEF IsFirst
<1> QED BY <1>1, <1>2, <1>3

\* An interaction stays in one place, whatever the step.
LEMMA HitsKept == TypeOK /\ HitInv /\ [Next]_vars => HitInv'
<1> SUFFICES ASSUME TypeOK, HitInv, [Next]_vars PROVE HitInv'
  OBVIOUS
<1>1. ASSUME UNCHANGED <<evaluated, early, fetched, hits>>, inbox' \subseteq inbox PROVE HitInv'
  BY <1>1 DEF HitInv
<1>2. ASSUME NEW r \in Requests, WorkerStep(r) PROVE HitInv'
  <2>1. UNCHANGED <<inbox, fetched, hits>>
    BY <1>2 DEF WorkerStep, GenerateUrl, GenerateFails, SendRequest, Respond, AddRequest,
                SkipMarker, RequestDone, history
  <2>2. CASE UNCHANGED <<evaluated, early>>
    BY <1>1, <2>1, <2>2
  <2>3. ASSUME NEW u, early' = [h \in Hit |-> IF h.url = u THEN 0 ELSE early[h]],
               evaluated' = HandedOver(u)
        PROVE  HitInv'
    BY <2>1, <2>3, HandOverKeepsSum DEF HitInv
  <2>4. AddRequest(r) \/ UNCHANGED <<evaluated, early>>
    BY <1>2 DEF WorkerStep, GenerateUrl, GenerateFails, SendRequest, Respond, SkipMarker,
                RequestDone, table, history
  <2>5. AddRequest(r) =>
          \/ UNCHANGED <<evaluated, early>>
          \/ /\ early' = [h \in Hit |-> IF h.url = Marker(r) THEN 0 ELSE early[h]]
             /\ evaluated' = HandedOver(Marker(r))
    BY DEF AddRequest
  <2> QED BY <2>2, <2>3, <2>4, <2>5
<1>3. ASSUME NEW r \in Requests, Interact(r) PROVE HitInv'
  <2>1. hits' = hits + 1 /\ UNCHANGED <<evaluated, early, fetched>>
    BY <1>3 DEF Interact, table
  <2>2. PICK u \in generated, p \in Protocols :
           inbox' = IF session THEN inbox \cup {[url |-> u, protocol |-> p, id |-> hits + 1]}
                    ELSE inbox
    BY <1>3 DEF Interact
  <2>3. inbox' \subseteq inbox \cup {[url |-> u, protocol |-> p, id |-> hits + 1]}
    BY <2>2
  <2> DEFINE n == [url |-> u, protocol |-> p, id |-> hits + 1]
  <2>4. n.id = hits + 1
    OBVIOUS
  <2> HIDE DEF n
  <2>5. hits \in Int /\ \A h \in Hit : h.id \in Int
    BY Numbers DEF TypeOK, Hit, Upto
  <2>6. n \notin fetched
    BY <2>4, <2>5 DEF HitInv
  <2>7. inbox' \cap fetched' = {}
    BY <2>1, <2>3, <2>6 DEF HitInv, n
  <2>8. \A h \in inbox' \cup fetched' : h.id <= hits'
    <3> SUFFICES ASSUME NEW h \in inbox' \cup fetched' PROVE h.id <= hits'
      OBVIOUS
    <3>1. h \in inbox \cup fetched \/ h = n
      BY <2>1, <2>3 DEF n
    <3>2. CASE h = n
      BY <2>1, <2>4, <2>5, <3>2
    <3>3. CASE h \in inbox \cup fetched
      <4>1. h \in Hit /\ h.id <= hits
        BY <3>3 DEF HitInv, TypeOK
      <4> QED BY <2>1, <2>5, <4>1
    <3> QED BY <3>1, <3>2, <3>3
  <2> QED BY <2>1, <2>7, <2>8 DEF HitInv
<1>4. CASE PollOnce
  <2>1. fetched' = fetched \cup inbox /\ inbox' = {} /\ UNCHANGED hits
    BY <1>4 DEF PollOnce
  <2>2. ASSUME NEW h \in Hit
        PROVE  evaluated'[h] + early'[h] = IF h \in fetched' THEN 1 ELSE 0
    <3>1. evaluated'[h] + early'[h] =
             evaluated[h] + early[h] + (IF h \in inbox THEN 1 ELSE 0)
      BY <1>4, PollAddsOne
    <3>2. /\ evaluated[h] + early[h] = IF h \in fetched THEN 1 ELSE 0
          /\ ~(h \in inbox /\ h \in fetched)
      BY DEF HitInv
    <3> QED BY <2>1, <3>1, <3>2
  <2>3. \A h \in inbox' \cup fetched' : h.id <= hits'
    BY <2>1 DEF HitInv
  <2> QED BY <2>1, <2>2, <2>3 DEF HitInv
<1>5. PollerStep => PollOnce \/ (UNCHANGED <<evaluated, early, fetched, hits>> /\ inbox' \subseteq inbox)
  BY DEF PollerStep, PollTick, Keepalive, PollFails, PollStop, table, history
<1>6. EngineStep => UNCHANGED <<evaluated, early, fetched, hits>> /\ inbox' \subseteq inbox
  BY DEF EngineStep, StartSession, WorkersDone, CooldownOver, Deregister, table, history
<1>7. Pass \/ Terminated \/ UNCHANGED vars =>
         UNCHANGED <<evaluated, early, fetched, hits>> /\ inbox' \subseteq inbox
  BY DEF Pass, Terminated, vars, table, history
<1> QED BY <1>1, <1>2, <1>3, <1>4, <1>5, <1>6, <1>7 DEF Next

\* No interaction has been fetched.
LEMMA InitHits == Init => HitInv
BY DEF Init, HitInv

\* An interaction the client has fetched is in one place: evaluated once, or early once.
THEOREM FetchedOnceHolds == Spec => []FetchedOnce
<1>1. TypeOK /\ HitInv => FetchedOnce
  BY DEF TypeOK, HitInv, FetchedOnce
<1> QED BY <1>1, InitTypes, InitHits, TypesKept, NextKept, HitsKept, PTL DEF Spec

(***************************************************************************)
(* A registered URL waits until one of its interactions is evaluated.       *)
(***************************************************************************)
Answered(u) == \E g \in Hit : g.url = u /\ evaluated[g] > 0
AnswerInv == \A u \in registered : u \in pending \/ Answered(u)

\* The order of the numbers, as a set of pairs, is well-founded.
Less == {p \in Nat \X Nat : p[1] < p[2]}

\* A set of numbers has a least one.
LEMMA LessIsWellFounded == IsWellFoundedOn(Less, Nat)
<1>1. IsWellFoundedOn(OpToRel(<, Nat), Nat)
  BY NatLessThanWellFounded
<1>2. OpToRel(<, Nat) = Less
  BY DEF OpToRel, Less
<1> QED BY <1>1, <1>2

\* Numbers that are some have a least one.
LEMMA LeastNumber ==
    ASSUME NEW S \in SUBSET Nat, S # {}
    PROVE  \E n \in S : \A m \in S : n <= m
<1>1. PICK n \in S : \A m \in S : <<m, n>> \notin Less
  BY LessIsWellFounded, WFMin
<1>2. \A m \in Nat, k \in Nat : m < k => <<m, k>> \in Less
  BY DEF Less
<1>3. n \in Nat /\ \A m \in S : m \in Nat
  OBVIOUS
<1>4. \A m \in S : ~(m < n)
  BY <1>1, <1>2, <1>3
<1>5. \A m \in S : n <= m
  BY <1>3, <1>4
<1> QED BY <1>5

\* A pending URL that is in the server's answer has a first interaction there.
LEMMA FirstExists ==
    ASSUME TypeOK, NEW u \in pending, u \in Matched
    PROVE  \E h \in Hit : h.url = u /\ IsFirst(h)
<1> DEFINE ids == {h.id : h \in {g \in inbox : g.url = u}}
<1>1. inbox \subseteq Hit /\ \A h \in Hit : h.id \in Nat
  BY Numbers DEF TypeOK, Hit
<1>2. ids # {} /\ ids \subseteq Nat
  BY <1>1 DEF Matched
<1>3. PICK n \in ids : \A m \in ids : n <= m
  BY <1>2, LeastNumber
<1>4. PICK h \in inbox : h.url = u /\ h.id = n
  BY <1>3
<1>5. \A g \in inbox : g.url = u => h.id <= g.id
  BY <1>3, <1>4
<1> QED BY <1>1, <1>4, <1>5 DEF IsFirst

\* Whoever waits for an interaction goes on waiting, or gets one.
LEMMA AnswersKept == TypeOK /\ AnswerInv /\ [Next]_vars => AnswerInv'
<1> SUFFICES ASSUME TypeOK, AnswerInv, [Next]_vars PROVE AnswerInv'
  OBVIOUS
<1>0. \A h \in Hit : evaluated[h] \in Nat /\ early[h] \in Nat
  BY DEF TypeOK
<1>1. ASSUME UNCHANGED <<evaluated, pending, registered>> PROVE AnswerInv'
  BY <1>1 DEF AnswerInv, Answered
<1>2. ASSUME NEW r \in Requests, AddRequest(r) PROVE AnswerInv'
  <2> DEFINE u == Marker(r)
  <2>1. registered' = registered \cup {u}
    BY <1>2 DEF AddRequest
  <2>2. CASE EarlyOf(u) = {}
    <3>1. pending' = pending \cup {u} /\ UNCHANGED evaluated
      BY <1>2, <2>2 DEF AddRequest
    <3> QED BY <2>1, <3>1 DEF AnswerInv, Answered
  <2>3. CASE EarlyOf(u) # {}
    <3>1. evaluated' = HandedOver(u) /\ UNCHANGED pending
      BY <1>2, <2>3 DEF AddRequest
    <3>2. \A h \in Hit : evaluated'[h] = evaluated[h] + (IF h.url = u THEN early[h] ELSE 0)
      BY <3>1 DEF HandedOver
    <3>3. \A h \in Hit : evaluated[h] > 0 => evaluated'[h] > 0
      BY <1>0, <3>2
    <3>4. PICK h \in Hit : h.url = u /\ early[h] > 0
      BY <2>3 DEF EarlyOf
    <3>5. evaluated'[h] > 0
      BY <1>0, <3>2, <3>4
    <3> QED BY <2>1, <3>1, <3>3, <3>4, <3>5 DEF AnswerInv, Answered
  <2> QED BY <2>2, <2>3
<1>3. CASE PollOnce
  <2>1. pending' = pending \ Matched /\ evaluated' = FirstsEvaluated /\ UNCHANGED registered
    BY <1>3 DEF PollOnce
  <2>2. \A h \in Hit : evaluated'[h] = evaluated[h] + (IF IsFirst(h) THEN 1 ELSE 0)
    BY <2>1 DEF FirstsEvaluated
  <2>3. \A h \in Hit : evaluated[h] > 0 \/ IsFirst(h) => evaluated'[h] > 0
    BY <1>0, <2>2
  <2>4. ASSUME NEW u \in registered PROVE u \in pending' \/ Answered(u)'
    <3>1. CASE u \in pending /\ u \in Matched
      BY <2>3, <3>1, FirstExists DEF Answered
    <3>2. CASE u \notin pending
      BY <2>3, <3>2 DEF AnswerInv, Answered
    <3> QED BY <2>1, <3>1, <3>2
  <2> QED BY <2>1, <2>4 DEF AnswerInv
<1>4. ASSUME NEW r \in Requests, WorkerStep(r) \/ Interact(r)
      PROVE  AddRequest(r) \/ UNCHANGED <<evaluated, pending, registered>>
  BY <1>4 DEF WorkerStep, GenerateUrl, GenerateFails, SendRequest, Respond, SkipMarker,
              RequestDone, Interact, table, history
<1>5. PollerStep => PollOnce \/ UNCHANGED <<evaluated, pending, registered>>
  BY DEF PollerStep, PollTick, Keepalive, PollFails, PollStop, table, history
<1>6. EngineStep \/ Pass \/ Terminated \/ UNCHANGED vars =>
         UNCHANGED <<evaluated, pending, registered>>
  BY DEF EngineStep, StartSession, WorkersDone, CooldownOver, Deregister, Pass, Terminated, vars,
         table, history
<1> QED BY <1>1, <1>2, <1>3, <1>4, <1>5, <1>6 DEF Next

(***************************************************************************)
(* The cooldown.                                                           *)
(***************************************************************************)
Polling == {"waiting", "keepalive", "polling"}

\* A call of one tick more, and a longest call of no less.
LEMMA LongerSum ==
    \A e, a, b, c, p \in Nat : e <= p + a + b /\ a <= c => e + 1 <= p + c + (b + 1)
OBVIOUS

\* A sum is no less than its parts.
LEMMA SumParts ==
    \A a, b, c \in Nat : /\ a + b \in Nat /\ a + b + c \in Nat
                         /\ a + b <= c => a <= c
OBVIOUS

\* What the steps need of the types.
Shape ==
    /\ engine \in {"starting", "running", "cooldown", "deregistering", "done"}
    /\ poller \in {"none", "stopped"} \cup Polling
    /\ worker \in [Requests -> {"building", "inflight", "answered", "done", "skipped"}]
    /\ left \in 0..CooldownSecs /\ pollIn \in 0..PollSecs /\ busy \in 0..MaxHttpTime
    /\ slow \in 0..MaxHttpTime
    /\ stop \in BOOLEAN /\ pollSince \in BOOLEAN

\* The poller is stopped only at the end, when no worker has a URL to register.
PhaseInv ==
    /\ engine \in {"starting", "running", "cooldown"} => ~stop
    /\ engine \in {"cooldown", "deregistering", "done"} =>
          \A r \in Requests : worker[r] \in {"done", "skipped"}
    /\ engine = "cooldown" => poller \in Polling
    /\ engine = "cooldown" /\ Calling => busy <= slow
    /\ poller = "stopped" => stop

\* How much of the cooldown is over.
Elapsed == CooldownSecs - left

\* How long the cooldown can have lasted without a poll: the interval, or a keepalive and
\* a poll that were under way when it began.
Waited ==
    /\ pollIn > 0 => Elapsed + pollIn <= PollSecs
    /\ poller = "keepalive" => Elapsed <= busy
    /\ poller = "polling" => Elapsed <= slow + busy
    /\ poller = "waiting" /\ pollIn = 0 => Elapsed <= PollSecs \/ Elapsed <= 2 * slow

\* While no poll has started since the last URL was registered, the cooldown is yet to
\* come, or has lasted no longer than that, or a call was slow.
SoonInv ==
    ~pollSince =>
        /\ generated # {}
        /\ engine = "cooldown" => Waited
        /\ stop => CooldownSecs <= 2 * slow

\* The strengthening of FinalPollUnlessSlow.
CooldownInv == Shape /\ PhaseInv /\ SoonInv

\* Workers register URLs only before they are done, and so before the cooldown.
LEMMA WorkersKept ==
    ASSUME CooldownInv, NEW r \in Requests, WorkerStep(r)
    PROVE  CooldownInv'
<1> USE DEF CooldownInv
<1>1. UNCHANGED <<engine, left, stop, poller, pollIn, busy, slow>>
  BY DEF WorkerStep, GenerateUrl, GenerateFails, SendRequest, Respond, AddRequest,
         SkipMarker, RequestDone, ending, timer
<1>2. worker[r] \in {"building", "inflight", "answered"}
  BY DEF WorkerStep, GenerateUrl, GenerateFails, SendRequest, Respond, AddRequest,
         SkipMarker, RequestDone
<1>3. engine \in {"starting", "running"} /\ ~stop
  BY <1>2 DEF Shape, PhaseInv
<1>4. worker' \in [Requests -> {"building", "inflight", "answered", "done", "skipped"}]
  BY DEF WorkerStep, GenerateUrl, GenerateFails, SendRequest, Respond, AddRequest,
         SkipMarker, RequestDone, Shape
<1>5. /\ pollSince' \in BOOLEAN /\ generated \subseteq generated'
      /\ ~pollSince' => generated # {} \/ ~pollSince
  BY DEF WorkerStep, GenerateUrl, GenerateFails, SendRequest, Respond, AddRequest,
         SkipMarker, RequestDone, Shape, history
<1>6. Shape'
  BY <1>1, <1>4, <1>5 DEF Shape
<1>7. PhaseInv'
  BY <1>1, <1>3 DEF PhaseInv
<1>8. SoonInv'
  BY <1>1, <1>3, <1>5 DEF SoonInv
<1> QED BY <1>6, <1>7, <1>8

\* The poller starts a poll, or comes nearer to it.
LEMMA PollerKept ==
    ASSUME CooldownInv, PollerStep
    PROVE  CooldownInv'
<1> USE DEF CooldownInv
<1>1. UNCHANGED <<engine, left, stop, worker, generated, slow>>
  BY DEF PollerStep, PollTick, Keepalive, PollOnce, PollFails, PollStop, ending, work
<1>2. CASE PollTick
  <2>1. /\ poller' \in {"keepalive", "polling"} /\ pollIn' = PollSecs /\ busy' = 0
        /\ pollSince' = TRUE
    BY <1>2 DEF PollTick
  <2>2. Shape'
    BY <1>1, <2>1, Numbers DEF Shape, Polling
  <2>3. PhaseInv'
    BY <1>1, <2>1, Numbers DEF PhaseInv, Polling, Shape
  <2> QED BY <1>1, <2>1, <2>2, <2>3 DEF SoonInv
<1>3. CASE Keepalive
  <2>1. /\ poller = "keepalive" /\ poller' = "polling" /\ busy' = 0
        /\ UNCHANGED <<pollIn, pollSince>>
    BY <1>3 DEF Keepalive, history
  <2>2. Shape'
    BY <1>1, <2>1, Numbers DEF Shape, Polling
  <2>3. PhaseInv'
    BY <1>1, <2>1, Numbers DEF PhaseInv, Polling, Shape
  <2>4. engine = "cooldown" /\ Waited => Waited'
    BY <1>1, <2>1, Numbers DEF Waited, Elapsed, PhaseInv, Shape, Calling
  <2> QED BY <1>1, <2>1, <2>2, <2>3, <2>4 DEF SoonInv
<1>4. CASE PollOnce \/ PollFails
  <2>1. poller = "polling" /\ poller' = "waiting" /\ UNCHANGED <<pollIn, busy, pollSince>>
    BY <1>4 DEF PollOnce, PollFails, history
  <2>2. Shape' /\ PhaseInv'
    BY <1>1, <2>1 DEF Shape, PhaseInv, Polling, Calling
  <2>3. engine = "cooldown" /\ Waited => Waited'
    BY <1>1, <2>1, Numbers DEF Waited, Elapsed, PhaseInv, Shape, Calling
  <2> QED BY <1>1, <2>1, <2>2, <2>3 DEF SoonInv
<1>5. CASE PollStop
  <2>1. poller' = "stopped" /\ stop /\ UNCHANGED <<pollIn, busy, pollSince>>
    BY <1>5 DEF PollStop, history
  <2>2. engine # "cooldown"
    BY <2>1 DEF PhaseInv
  <2> QED BY <1>1, <2>1, <2>2 DEF Shape, PhaseInv, SoonInv, Polling
<1> QED BY <1>2, <1>3, <1>4, <1>5 DEF PollerStep

\* The whole cooldown is longer than the interval; without a poll, a call was slow.
LEMMA OverSlow ==
    ASSUME Shape, PhaseInv, engine = "cooldown", left = 0, Waited
    PROVE  CooldownSecs <= 2 * slow
<1>1. Elapsed = CooldownSecs /\ poller \in Polling /\ PollSecs < CooldownSecs
  BY InteractshAssumption DEF Elapsed, PhaseInv
<1>2. pollIn \in 0..PollSecs /\ busy \in 0..MaxHttpTime /\ slow \in 0..MaxHttpTime
  BY DEF Shape
<1>3. CASE poller = "waiting"
  BY <1>1, <1>2, <1>3, Numbers DEF Waited
<1>4. CASE poller \in {"keepalive", "polling"}
  <2>1. busy <= slow
    BY <1>4 DEF PhaseInv, Calling
  <2> QED BY <1>1, <1>2, <1>4, <2>1, Numbers DEF Waited
<1> QED BY <1>1, <1>3, <1>4 DEF Polling

\* The cooldown starts with nothing of it over, and ends with a poll started or a call
\* that was slow.
LEMMA EngineKept ==
    ASSUME CooldownInv, EngineStep
    PROVE  CooldownInv'
<1> USE DEF CooldownInv
<1>1. UNCHANGED <<worker, generated, pollIn, busy, pollSince>>
  BY DEF EngineStep, StartSession, WorkersDone, CooldownOver, Deregister, work, timer, history
<1>2. CASE StartSession
  <2>1. /\ engine = "starting" /\ engine' = "running" /\ UNCHANGED <<left, stop, slow>>
        /\ poller' \in {"waiting", poller}
    BY <1>2 DEF StartSession
  <2> QED BY <1>1, <2>1 DEF Shape, PhaseInv, SoonInv, Polling
<1>3. CASE WorkersDone
  <2>1. /\ engine = "running" /\ ~stop /\ UNCHANGED poller
        /\ \A r \in Requests : worker[r] \in {"done", "skipped"}
    BY <1>3 DEF WorkersDone, PhaseInv, timer
  <2>2. \/ engine' = "done" /\ UNCHANGED <<left, stop, slow>>
        \/ /\ poller # "none" /\ engine' = "cooldown" /\ left' = CooldownSecs /\ UNCHANGED stop
           /\ slow' = IF Calling THEN busy ELSE 0
        \/ generated = {} /\ engine' = "deregistering" /\ stop' = TRUE /\ UNCHANGED <<left, slow>>
    BY <1>3 DEF WorkersDone
  <2>3. Shape'
    <3>1. slow' \in 0..MaxHttpTime
      <4>1. 0 \in 0..MaxHttpTime /\ busy \in 0..MaxHttpTime /\ slow \in 0..MaxHttpTime
        BY Numbers DEF Shape
      <4> QED BY <2>2, <4>1
    <3>2. left' \in 0..CooldownSecs
      <4>1. CooldownSecs \in 0..CooldownSecs /\ left \in 0..CooldownSecs
        BY Numbers DEF Shape
      <4> QED BY <2>2, <4>1
    <3> QED BY <1>1, <2>1, <2>2, <3>1, <3>2 DEF Shape
  <2>4. PhaseInv'
    BY <1>1, <2>1, <2>2 DEF PhaseInv, Shape, Calling
  <2>5. engine' = "cooldown" => Waited'
    <3> SUFFICES ASSUME engine' = "cooldown" PROVE Waited'
      OBVIOUS
    <3>1. left' = CooldownSecs /\ slow' \in Nat
      BY <2>2, <2>3 DEF Shape
    <3>2. Elapsed' = 0
      BY <3>1, Numbers DEF Elapsed
    <3>3. /\ pollIn' = pollIn /\ pollIn \in Nat /\ pollIn <= PollSecs
          /\ busy' = busy /\ busy \in Nat /\ PollSecs \in Nat
      BY <1>1, Numbers DEF Shape
    <3>4. Elapsed' + pollIn' <= PollSecs /\ Elapsed' <= busy' /\ Elapsed' <= PollSecs
      BY <3>2, <3>3
    <3>5. Elapsed' <= slow' + busy'
      <4>1. slow' + busy' \in Nat
        BY <3>1, <3>3, SumParts
      <4> QED BY <3>2, <4>1
    <3> QED BY <3>4, <3>5 DEF Waited
  <2>6. SoonInv'
    BY <1>1, <2>1, <2>2, <2>5 DEF SoonInv
  <2> QED BY <2>3, <2>4, <2>6
<1>4. CASE CooldownOver
  <2>1. /\ engine = "cooldown" /\ left = 0 /\ engine' = "deregistering" /\ stop' = TRUE
        /\ UNCHANGED <<left, poller, slow>>
    BY <1>4 DEF CooldownOver, timer
  <2>2. pollSince \/ CooldownSecs <= 2 * slow
    BY <2>1, OverSlow DEF SoonInv
  <2> QED BY <1>1, <2>1, <2>2 DEF Shape, PhaseInv, SoonInv
<1>5. CASE Deregister
  <2>1. /\ engine = "deregistering" /\ engine' = "done" /\ UNCHANGED <<left, stop, poller, slow>>
    BY <1>5 DEF Deregister, timer
  <2> QED BY <1>1, <2>1 DEF Shape, PhaseInv, SoonInv
<1> QED BY <1>2, <1>3, <1>4, <1>5 DEF EngineStep

\* What a tick does to the timers.
LEMMA Ticked ==
    ASSUME Shape, PhaseInv, Pass
    PROVE  /\ UNCHANGED <<engine, worker, generated, poller, stop, pollSince>>
           /\ poller = "waiting" => pollIn > 0
           /\ pollIn' = (IF pollIn > 0 THEN pollIn - 1 ELSE 0)
           /\ left' \in 0..CooldownSecs /\ busy' \in 0..MaxHttpTime
           /\ slow' \in 0..MaxHttpTime /\ slow <= slow'
           /\ engine = "cooldown" => left > 0 /\ left' = left - 1
           /\ Calling => busy' = busy + 1
           /\ engine = "cooldown" /\ Calling => busy' <= slow'
           /\ engine # "cooldown" => slow' = slow
<1>1. /\ UNCHANGED <<engine, worker, generated, poller, stop, pollSince>>
      /\ poller = "waiting" => pollIn > 0
      /\ engine = "cooldown" => left > 0
      /\ Calling => busy < MaxHttpTime
      /\ pollIn' = Down(pollIn) /\ left' = Down(left)
      /\ busy' = IF Calling THEN busy + 1 ELSE busy
      /\ slow' = IF engine = "cooldown" /\ Calling /\ busy >= slow THEN busy + 1 ELSE slow
  BY DEF Pass, work, history
<1>2. /\ left \in 0..CooldownSecs /\ pollIn \in 0..PollSecs /\ busy \in 0..MaxHttpTime
      /\ slow \in 0..MaxHttpTime
      /\ PollSecs \in Nat /\ MaxHttpTime \in Nat /\ CooldownSecs \in Nat
  BY Numbers DEF Shape
<1>3. /\ pollIn' = (IF pollIn > 0 THEN pollIn - 1 ELSE 0)
      /\ left' \in 0..CooldownSecs
      /\ engine = "cooldown" => left' = left - 1
  BY <1>1, <1>2 DEF Down
<1>4. /\ busy' \in 0..MaxHttpTime /\ slow' \in 0..MaxHttpTime /\ slow <= slow'
      /\ engine = "cooldown" /\ Calling => busy' <= slow'
  BY <1>1, <1>2
<1> QED BY <1>1, <1>3, <1>4

\* A tick of the cooldown is a tick of the call, or of the wait for the interval.
LEMMA PassKept ==
    ASSUME CooldownInv, Pass
    PROVE  CooldownInv'
<1> USE DEF CooldownInv
<1>1. /\ UNCHANGED <<engine, worker, generated, poller, stop, pollSince>>
      /\ poller = "waiting" => pollIn > 0
      /\ pollIn' = (IF pollIn > 0 THEN pollIn - 1 ELSE 0)
      /\ left' \in 0..CooldownSecs /\ busy' \in 0..MaxHttpTime
      /\ slow' \in 0..MaxHttpTime /\ slow <= slow'
      /\ engine = "cooldown" => left > 0 /\ left' = left - 1
      /\ Calling => busy' = busy + 1
      /\ engine = "cooldown" /\ Calling => busy' <= slow'
      /\ engine # "cooldown" => slow' = slow
  BY Ticked
<1>2. /\ left \in 0..CooldownSecs /\ pollIn \in 0..PollSecs /\ busy \in 0..MaxHttpTime
      /\ slow \in 0..MaxHttpTime
      /\ PollSecs \in Nat /\ MaxHttpTime \in Nat /\ CooldownSecs \in Nat
  BY Numbers DEF Shape
<1>3. Shape'
  <2>1. pollIn' \in 0..PollSecs
    BY <1>1, <1>2
  <2> QED BY <1>1, <2>1 DEF Shape
<1>4. PhaseInv'
  BY <1>1 DEF PhaseInv, Calling
<1>5. ASSUME engine = "cooldown", Waited PROVE Waited'
  <2>1. Elapsed' = Elapsed + 1 /\ Elapsed \in Nat
    BY <1>1, <1>2, <1>5 DEF Elapsed
  <2>2. pollIn' > 0 => Elapsed' + pollIn' <= PollSecs
    BY <1>1, <1>2, <1>5, <2>1 DEF Waited
  <2>3. CASE poller = "waiting"
    <3>1. poller' = "waiting" /\ Elapsed' + pollIn' <= PollSecs
      BY <1>1, <1>2, <1>5, <2>1, <2>3 DEF Waited
    <3>2. pollIn' \in Nat /\ Elapsed' \in Nat
      BY <1>1, <1>2, <2>1
    <3>3. Elapsed' <= PollSecs
      BY <1>2, <3>1, <3>2, SumParts
    <3> QED BY <2>2, <3>1, <3>3 DEF Waited
  <2>4. CASE poller = "keepalive"
    <3>1. busy' = busy + 1
      BY <1>1, <2>4 DEF Calling
    <3> QED BY <1>1, <1>2, <1>5, <2>1, <2>2, <2>4, <3>1 DEF Waited
  <2>5. CASE poller = "polling"
    <3>1. busy' = busy + 1
      BY <1>1, <2>5 DEF Calling
    <3>2. poller' = "polling" /\ Elapsed <= slow + busy /\ slow <= slow'
      BY <1>1, <1>5, <2>5 DEF Waited
    <3>3. slow \in Nat /\ slow' \in Nat /\ busy \in Nat
      BY <1>1, <1>2
    <3>4. Elapsed + 1 <= 0 + slow' + (busy + 1)
      <4>1. Elapsed <= 0 + slow + busy
        BY <3>2, <3>3
      <4> QED BY <2>1, <3>2, <3>3, <4>1, LongerSum
    <3>5. Elapsed' <= slow' + busy'
      <4>1. slow' + busy' = slow' + (busy + 1)
        BY <3>1
      <4>2. 0 + slow' + (busy + 1) = slow' + (busy + 1)
        BY <3>3
      <4>3. Elapsed' <= 0 + slow' + (busy + 1)
        BY <2>1, <3>4
      <4>4. Elapsed' <= slow' + (busy + 1)
        BY <4>2, <4>3
      <4> QED BY <4>1, <4>4
    <3> QED BY <2>2, <3>2, <3>5 DEF Waited
  <2>6. poller \in Polling
    BY <1>5 DEF PhaseInv
  <2> QED BY <2>3, <2>4, <2>5, <2>6 DEF Polling
<1>6. SoonInv'
  <2>1. CASE engine = "cooldown"
    BY <1>1, <1>5, <2>1 DEF SoonInv, PhaseInv
  <2>2. CASE engine # "cooldown"
    BY <1>1, <2>2 DEF SoonInv
  <2> QED BY <2>1, <2>2
<1> QED BY <1>3, <1>4, <1>6

\* All steps together.
LEMMA CooldownKept == CooldownInv /\ [Next]_vars => CooldownInv'
<1> SUFFICES ASSUME CooldownInv, [Next]_vars PROVE CooldownInv'
  OBVIOUS
<1>1. CASE UNCHANGED <<engine, left, stop, worker, generated, poller, pollIn, busy, slow, pollSince>>
  BY <1>1 DEF CooldownInv, Shape, PhaseInv, SoonInv, Waited, Elapsed, Calling
<1>2. UNCHANGED vars \/ (\E r \in Requests : Interact(r)) =>
         UNCHANGED <<engine, left, stop, worker, generated, poller, pollIn, busy, slow, pollSince>>
  BY DEF vars, ending, timer, work, history, Interact
<1> QED BY <1>1, <1>2, WorkersKept, PollerKept, EngineKept, PassKept DEF Next, Terminated

\* No cooldown has begun.
LEMMA InitCooldown == Init => CooldownInv
<1> SUFFICES ASSUME Init PROVE CooldownInv
  OBVIOUS
<1>1. 0 \in 0..PollSecs /\ 0 \in 0..MaxHttpTime /\ 0 \in 0..CooldownSecs
  BY Numbers
<1>2. Shape
  BY <1>1 DEF Init, Shape
<1>3. PhaseInv /\ SoonInv
  BY DEF Init, PhaseInv, SoonInv, Calling
<1> QED BY <1>2, <1>3 DEF CooldownInv

\* A poll starts after the last URL was registered and before the poller stops, unless a
\* call that the cooldown meets takes half of it or more: all that is assumed of the
\* numbers is that the cooldown is longer than the interval (helpers.rs:9).
THEOREM FinalPollUnlessSlowHolds == Spec => []FinalPollUnlessSlow
<1>1. CooldownInv => FinalPollUnlessSlow
  <2> SUFFICES ASSUME CooldownInv, poller = "stopped", 2 * slow < CooldownSecs, ~pollSince
               PROVE  FALSE
    BY DEF FinalPollUnlessSlow
  <2>1. CooldownSecs <= 2 * slow /\ slow \in Nat
    BY DEF CooldownInv, PhaseInv, SoonInv, Shape
  <2> QED BY <2>1, Numbers
<1> QED BY <1>1, InitCooldown, CooldownKept, PTL DEF Spec

(***************************************************************************)
(* What was called in time is evaluated.                                   *)
(***************************************************************************)
\* How long the cooldown can have lasted without an answer to a poll.
AnswerDue ==
    /\ poller = "waiting" => Elapsed + pollIn <= PollSecs
    /\ poller = "keepalive" => Elapsed <= PollSecs + busy
    /\ poller = "polling" => Elapsed <= PollSecs + slow + busy

\* A wait for the interval, a keepalive and a poll fill the cooldown.
Filled == CooldownSecs <= PollSecs + 2 * slow

\* While no call has failed, what came in time is with the server, which is asked before
\* the cooldown is over, or has been fetched, or the calls filled the cooldown.
ArrivalInv ==
    /\ \A h \in inTime : h.url \in generated
    /\ failures = 0 =>
          /\ engine \in {"running", "cooldown", "deregistering"} => session
          /\ poller = "none" => engine = "starting"
          /\ engine # "done" => inTime \subseteq inbox \cup fetched
          /\ engine \in {"deregistering", "done"} => inTime \subseteq fetched \/ Filled
          /\ engine = "cooldown" => inTime \subseteq fetched \/ AnswerDue

\* At the end of the cooldown there is an answer, or the calls filled it.
LEMMA DueBeforeEnd ==
    ASSUME Shape, PhaseInv, engine = "cooldown", left = 0, AnswerDue
    PROVE  Filled
<1>1. Elapsed = CooldownSecs /\ poller \in Polling /\ PollSecs < CooldownSecs
  BY InteractshAssumption, Numbers DEF Elapsed, PhaseInv
<1>2. pollIn \in 0..PollSecs /\ busy \in 0..MaxHttpTime /\ slow \in 0..MaxHttpTime
  BY DEF Shape
<1>3. CASE poller = "waiting"
  BY <1>1, <1>2, <1>3, Numbers DEF AnswerDue
<1>4. CASE poller \in {"keepalive", "polling"}
  <2>1. busy <= slow
    BY <1>4 DEF PhaseInv, Calling
  <2> QED BY <1>1, <1>2, <1>4, <2>1, Numbers DEF AnswerDue, Filled
<1> QED BY <1>1, <1>3, <1>4 DEF Polling

\* The workers and the target, before the cooldown.
LEMMA WorkersArrive ==
    ASSUME TypeOK, PhaseInv, ArrivalInv, NEW r \in Requests, WorkerStep(r) \/ Interact(r)
    PROVE  ArrivalInv'
<1>1. CASE WorkerStep(r)
  <2>1. /\ UNCHANGED <<engine, left, poller, pollIn, busy, slow, inbox, fetched, inTime>>
        /\ generated \subseteq generated'
        /\ UNCHANGED <<session_vars, failures>> \/ RegisterOk \/ RegisterFails
        /\ worker[r] \in {"building", "inflight", "answered"}
    BY <1>1 DEF WorkerStep, GenerateUrl, GenerateFails, SendRequest, Respond, AddRequest,
                SkipMarker, RequestDone, ending, timer, history
  <2>2. failures' = 0 => failures = 0 /\ (session => session')
    BY <2>1, Numbers DEF TypeOK, RegisterOk, RegisterFails, session_vars, Upto
  <2>3. AnswerDue' = AnswerDue /\ Filled' = Filled
    BY <2>1 DEF AnswerDue, Filled, Elapsed
  <2> QED BY <2>1, <2>2, <2>3 DEF ArrivalInv
<1>2. CASE Interact(r)
  <2>1. UNCHANGED <<engine, left, poller, pollIn, busy, slow, failures, session, fetched, generated>>
    BY <1>2 DEF Interact, ending, timer, session_vars, work
  <2>2. PICK u \in generated, p \in Protocols :
           LET h == [url |-> u, protocol |-> p, id |-> hits + 1] IN
           /\ inbox' = IF session THEN inbox \cup {h} ELSE inbox
           /\ inTime' = IF session /\ engine = "running" THEN inTime \cup {h} ELSE inTime
    BY <1>2 DEF Interact
  <2> DEFINE n == [url |-> u, protocol |-> p, id |-> hits + 1]
  <2>3. n.url = u
    OBVIOUS
  <2> HIDE DEF n
  <2>4. /\ inbox \subseteq inbox'
        /\ inTime' = inTime \/ (engine = "running" /\ inTime' = inTime \cup {n} /\ n \in inbox')
    BY <2>2 DEF n
  <2>5. AnswerDue' = AnswerDue /\ Filled' = Filled
    BY <2>1 DEF AnswerDue, Filled, Elapsed
  <2>6. \A h \in inTime' : h.url \in generated'
    BY <2>1, <2>2, <2>3, <2>4 DEF ArrivalInv
  <2> QED BY <2>1, <2>4, <2>5, <2>6 DEF ArrivalInv
<1> QED BY <1>1, <1>2

\* The poller comes nearer to the answer, or has it.
LEMMA PollerArrives ==
    ASSUME TypeOK, Shape, PhaseInv, ArrivalInv, PollerStep
    PROVE  ArrivalInv'
<1>1. UNCHANGED <<engine, left, inTime, generated, slow>> /\ Filled' = Filled
  BY DEF PollerStep, PollTick, Keepalive, PollOnce, PollFails, PollStop, ending, work, history,
         Filled
<1>2. /\ left \in 0..CooldownSecs /\ pollIn \in 0..PollSecs /\ busy \in 0..MaxHttpTime
      /\ slow \in 0..MaxHttpTime /\ failures \in Nat
  BY Numbers DEF TypeOK, Upto, Shape
<1>3. CASE PollTick
  <2>1. /\ poller = "waiting" /\ pollIn = 0 /\ busy' = 0 /\ poller' \in {"keepalive", "polling"}
        /\ UNCHANGED <<failures, session, inbox, fetched>>
    BY <1>3 DEF PollTick, session_vars
  <2>2. AnswerDue => AnswerDue'
    BY <1>1, <1>2, <2>1, Numbers DEF AnswerDue, Elapsed
  <2> QED BY <1>1, <2>1, <2>2 DEF ArrivalInv
<1>4. CASE Keepalive
  <2>1. /\ poller = "keepalive" /\ busy' = 0 /\ poller' = "polling"
        /\ UNCHANGED <<inbox, fetched>>
        /\ failures' = 0 => failures = 0 /\ session'
    BY <1>2, <1>4 DEF Keepalive, RegisterOk, RegisterFails, history
  <2>2. engine = "cooldown" => busy <= slow
    BY <2>1 DEF PhaseInv, Calling
  <2>3. engine = "cooldown" /\ AnswerDue => AnswerDue'
    BY <1>1, <1>2, <2>1, <2>2, Numbers DEF AnswerDue, Elapsed
  <2> QED BY <1>1, <2>1, <2>3 DEF ArrivalInv
<1>5. CASE PollOnce
  <2>1. /\ poller' = "waiting" /\ fetched' = fetched \cup inbox /\ inbox' = {}
        /\ UNCHANGED <<failures, session>>
    BY <1>5 DEF PollOnce, session_vars
  <2>2. failures = 0 => inTime' \subseteq fetched' \/ (engine = "done" /\ Filled)
    BY <1>1, <2>1 DEF ArrivalInv
  <2> QED BY <1>1, <2>1, <2>2 DEF ArrivalInv
<1>6. CASE PollFails
  <2>1. /\ poller' = "waiting" /\ fetched' = fetched /\ session' = session
        /\ failures' = 0 => failures = 0 /\ ~session /\ inbox' = inbox
    BY <1>2, <1>6 DEF PollFails, session_vars, history
  <2>2. ASSUME failures' = 0 PROVE engine \in {"starting", "done"}
    BY <2>1, <2>2 DEF ArrivalInv, TypeOK
  <2> QED BY <1>1, <2>1, <2>2 DEF ArrivalInv
<1>7. CASE PollStop
  <2>1. /\ poller' = "stopped" /\ stop /\ UNCHANGED <<failures, session, inbox, fetched>>
    BY <1>7 DEF PollStop, session_vars, history
  <2>2. engine # "cooldown"
    BY <2>1 DEF PhaseInv
  <2> QED BY <1>1, <2>1, <2>2 DEF ArrivalInv
<1> QED BY <1>3, <1>4, <1>5, <1>6, <1>7 DEF PollerStep

\* The cooldown begins with a poll to come, and ends with all of inTime fetched or filled.
LEMMA EngineArrives ==
    ASSUME TypeOK, Shape, PhaseInv, ArrivalInv, EngineStep
    PROVE  ArrivalInv'
<1>1. UNCHANGED <<inTime, generated, fetched, pollIn, busy>>
  BY DEF EngineStep, StartSession, WorkersDone, CooldownOver, Deregister, work, timer, history
<1>2. /\ left \in 0..CooldownSecs /\ pollIn \in 0..PollSecs /\ busy \in 0..MaxHttpTime
      /\ slow \in 0..MaxHttpTime /\ failures \in Nat
  BY Numbers DEF TypeOK, Upto, Shape
<1>3. CASE StartSession
  <2>1. /\ engine = "starting" /\ engine' = "running" /\ UNCHANGED inbox
        /\ failures' = 0 => failures = 0 /\ session' /\ poller' = "waiting"
    BY <1>2, <1>3 DEF StartSession, RegisterOk, RegisterFails
  <2> QED BY <1>1, <2>1 DEF ArrivalInv
<1>4. CASE WorkersDone
  <2>1. /\ engine = "running" /\ UNCHANGED <<failures, session, inbox, poller>>
        /\ \/ poller = "none" /\ engine' = "done"
           \/ engine' = "cooldown" /\ left' = CooldownSecs /\ slow' = IF Calling THEN busy ELSE 0
           \/ generated = {} /\ engine' = "deregistering"
    BY <1>4 DEF WorkersDone, session_vars, timer
  <2>2. CASE poller = "none"
    <3>1. failures # 0
      BY <2>1, <2>2 DEF ArrivalInv
    <3> QED BY <1>1, <2>1, <3>1 DEF ArrivalInv
  <2>3. CASE engine' = "cooldown" /\ left' = CooldownSecs
    <3>1. slow' \in Nat
      BY <1>2, <2>1, <2>3, Numbers
    <3>2. Elapsed' = 0
      BY <2>3, Numbers DEF Elapsed
    <3>3. AnswerDue'
      <4>1. /\ pollIn' = pollIn /\ pollIn \in Nat /\ pollIn <= PollSecs
            /\ busy' = busy /\ busy \in Nat /\ PollSecs \in Nat
        BY <1>1, <1>2, Numbers
      <4>2. Elapsed' + pollIn' <= PollSecs
        BY <3>2, <4>1
      <4>3. PollSecs + busy' \in Nat /\ PollSecs + slow' + busy' \in Nat
        BY <3>1, <4>1, SumParts
      <4>4. Elapsed' <= PollSecs + busy' /\ Elapsed' <= PollSecs + slow' + busy'
        BY <3>2, <4>3
      <4> QED BY <4>2, <4>4 DEF AnswerDue
    <3> QED BY <1>1, <2>1, <2>3, <3>3 DEF ArrivalInv
  <2>4. CASE generated = {} /\ engine' = "deregistering"
    <3>1. inTime = {}
      BY <2>4 DEF ArrivalInv
    <3> QED BY <1>1, <2>1, <2>4, <3>1 DEF ArrivalInv
  <2> QED BY <2>1, <2>2, <2>3, <2>4
<1>5. CASE CooldownOver
  <2>1. /\ engine = "cooldown" /\ left = 0 /\ engine' = "deregistering"
        /\ UNCHANGED <<failures, session, inbox, poller, slow>>
    BY <1>5 DEF CooldownOver, session_vars, timer
  <2>2. AnswerDue => Filled'
    BY <2>1, DueBeforeEnd DEF Filled
  <2> QED BY <1>1, <2>1, <2>2 DEF ArrivalInv
<1>6. CASE Deregister
  <2>1. /\ engine = "deregistering" /\ engine' = "done" /\ UNCHANGED <<poller, slow>>
        /\ failures' = 0 => failures = 0
    BY <1>2, <1>6 DEF Deregister, timer
  <2>2. failures' = 0 => inTime' \subseteq fetched' \/ Filled'
    BY <1>1, <2>1 DEF ArrivalInv, Filled
  <2> QED BY <1>1, <2>1, <2>2 DEF ArrivalInv
<1> QED BY <1>3, <1>4, <1>5, <1>6 DEF EngineStep

\* A tick of the cooldown is one of the interval or of a call.
LEMMA PassArrives ==
    ASSUME TypeOK, Shape, PhaseInv, ArrivalInv, Pass
    PROVE  ArrivalInv'
<1>1. UNCHANGED <<session, inbox, failures, fetched, inTime>>
  BY DEF Pass, history
<1>2. /\ UNCHANGED <<engine, worker, generated, poller, stop, pollSince>>
      /\ poller = "waiting" => pollIn > 0
      /\ pollIn' = (IF pollIn > 0 THEN pollIn - 1 ELSE 0)
      /\ slow' \in 0..MaxHttpTime /\ slow <= slow'
      /\ engine = "cooldown" => left > 0 /\ left' = left - 1
      /\ Calling => busy' = busy + 1
      /\ engine # "cooldown" => slow' = slow
  BY Ticked
<1>3. /\ left \in 0..CooldownSecs /\ pollIn \in 0..PollSecs /\ busy \in 0..MaxHttpTime
      /\ slow \in 0..MaxHttpTime
  BY DEF Shape
<1>4. ASSUME engine = "cooldown", AnswerDue PROVE AnswerDue'
  <2>1. Elapsed' = Elapsed + 1 /\ Elapsed \in Nat
    BY <1>2, <1>3, <1>4, Numbers DEF Elapsed
  <2>2. CASE poller = "waiting"
    BY <1>2, <1>3, <1>4, <2>1, <2>2, Numbers DEF AnswerDue
  <2>3. CASE poller \in {"keepalive", "polling"}
    <3>1. busy' = busy + 1
      BY <1>2, <2>3 DEF Calling
    <3>2. /\ poller' = poller /\ PollSecs \in Nat /\ busy \in Nat /\ slow \in Nat /\ slow' \in Nat
          /\ slow <= slow'
      BY <1>2, <1>3, Numbers
    <3>3. CASE poller = "keepalive"
      BY <1>4, <2>1, <3>1, <3>2, <3>3 DEF AnswerDue
    <3>4. CASE poller = "polling"
      <4>1. Elapsed <= PollSecs + slow + busy
        BY <1>4, <3>4 DEF AnswerDue
      <4>2. Elapsed + 1 <= PollSecs + slow' + (busy + 1)
        BY <2>1, <3>2, <4>1, LongerSum
      <4> QED BY <2>1, <3>1, <3>2, <3>4, <4>2 DEF AnswerDue
    <3> QED BY <2>3, <3>3, <3>4
  <2>4. poller \in Polling
    BY <1>4 DEF PhaseInv
  <2> QED BY <2>2, <2>3, <2>4 DEF Polling
<1>5. engine # "cooldown" => Filled' = Filled
  BY <1>2 DEF Filled
<1> QED BY <1>1, <1>2, <1>4, <1>5 DEF ArrivalInv

\* All steps together.
LEMMA ArrivalKept == ArrivalInv /\ TypeOK /\ CooldownInv /\ [Next]_vars => ArrivalInv'
<1> SUFFICES ASSUME ArrivalInv, TypeOK, CooldownInv, [Next]_vars PROVE ArrivalInv'
  OBVIOUS
<1>1. Shape /\ PhaseInv
  BY DEF CooldownInv
<1>2. CASE UNCHANGED vars
  BY <1>2 DEF vars, ending, timer, work, session_vars, history, ArrivalInv, AnswerDue, Filled,
              Elapsed
<1> QED BY <1>1, <1>2, WorkersArrive, PollerArrives, EngineArrives, PassArrives DEF Next, Terminated

\* No interaction has come.
LEMMA InitArrival == Init => ArrivalInv
BY DEF Init, ArrivalInv

\* If no call fails, an interaction that the server recorded before the workers were done
\* leads to an evaluation for its URL, if the request was answered, unless the wait for
\* the interval and two calls that the cooldown meets fill it.
THEOREM FirstHitEvaluatedHolds == Spec => []FirstHitEvaluated
<1> DEFINE Inv == /\ TypeOK /\ NextInv /\ TableInv /\ HitInv /\ AnswerInv
                  /\ CooldownInv /\ ArrivalInv
<1>1. Init => Inv
  <2>1. Init => AnswerInv /\ TableInv
    BY DEF Init, AnswerInv, TableInv, NobodyStranded
  <2> QED BY <2>1, InitTypes, InitHits, InitCooldown, InitArrival
<1>2. Inv /\ [Next]_vars => Inv'
  BY TypesKept, NextKept, TableKept, HitsKept, AnswersKept, CooldownKept, ArrivalKept
<1>3. Inv => FirstHitEvaluated
  <2> SUFFICES ASSUME Inv, Ended, failures = 0, PollSecs + 2 * slow < CooldownSecs,
                      NEW h \in inTime, h.url \in registered
               PROVE  \E g \in Hit : g.url = h.url /\ evaluated[g] > 0
    BY DEF FirstHitEvaluated
  <2>1. h \in fetched /\ h \in Hit
    <3>1. ~Filled
      BY Numbers DEF Filled, TypeOK, Upto
    <3> QED BY <3>1 DEF ArrivalInv, Ended, TypeOK
  <2>2. CASE Answered(h.url)
    BY <2>2 DEF Answered
  <2>3. CASE h.url \in pending
    <3>1. ~(early[h] > 0)
      BY <2>1, <2>3 DEF TableInv, NobodyStranded, EarlyOf
    <3>2. evaluated[h] \in Nat /\ early[h] \in Nat /\ evaluated[h] + early[h] = 1
      BY <2>1 DEF TypeOK, HitInv
    <3> QED BY <2>1, <3>1, <3>2
  <2> QED BY <2>2, <2>3 DEF AnswerInv
<1> QED BY <1>1, <1>2, <1>3, PTL DEF Spec
===================================================================================
