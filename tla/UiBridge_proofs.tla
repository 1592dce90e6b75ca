------------------------------ MODULE UiBridge_proofs ------------------------------
(***************************************************************************)
(* Proofs about UiBridge, for any templates, capacities, requests,          *)
(* heartbeats and pauses: types, what a pause lets through, and that the     *)
(* announcement of completion comes after every finding with their number.  *)
(***************************************************************************)
EXTENDS UiBridge, SequenceTheorems, FiniteSetTheorems, TLAPS

\* The findings the UI has been sent, and where the others are.
Given == {Stream[i].finding : i \in FindingsAt}
Channel == ToSet(findingChan)
Hand == IF forwarder \in {"held", "counted"} THEN {inHand} ELSE {}
Emitting == IF engine = "sending" THEN {requests} ELSE {}
Counted == IF forwarder = "counted" THEN 1 ELSE 0

\* A finding is in one place, once.
PlaceInv ==
    /\ raised = Given \cup Channel \cup Hand \cup Emitting
    /\ raised \subseteq 1..requests
    /\ \A i, j \in FindingsAt : Stream[i].finding = Stream[j].finding => i = j
    /\ \A i, j \in 1..Len(findingChan) : findingChan[i] = findingChan[j] => i = j
    /\ Given \cap (Channel \cup Hand \cup Emitting) = {}
    /\ Channel \cap (Hand \cup Emitting) = {}
    /\ Hand \cap Emitting = {}

\* finding_count runs ahead of the stream by the finding about to be sent.
CountInv == findingCount = Cardinality(Given) + Counted

\* The tasks start together, and the forwarder ends after the engine.
PhaseInv ==
    /\ session # "returned" => engine = "off" /\ forwarder = "off"
    /\ forwarder \in {"final", "completing", "done"} =>
          engine = "returned" /\ findingChan = << >>

\* What was true when completion was announced stays true.
CompleteInv ==
    \A i \in 1..Len(Stream) : Stream[i].type = "completed" =>
        /\ forwarder = "done"
        /\ Stream[i].findings = Cardinality(Given)
        /\ \A j \in FindingsAt : j < i

\* A finding that was past the check when the pause came counts as let through.
PauseInv == isPaused => pausedFindings + Counted <= 1

\* What the types of counters rest on.
BoundInv == beat <= TotalTasks /\ errCount + Len(errorChan) <= requests

IInv ==
    /\ TypeOK
    /\ PlaceInv
    /\ CountInv
    /\ PhaseInv
    /\ CompleteInv
    /\ PauseInv
    /\ BoundInv

(***************************************************************************)
(* The stream of events.                                                   *)
(***************************************************************************)
\* The constants are numbers.
LEMMA Numbers ==
    /\ TotalTasks \in Nat /\ MaxRequests \in Nat /\ FreeErrors \in Nat
    /\ FindingCap \in Nat \ {0} /\ ErrorCap \in Nat \ {0} /\ EventCap \in Nat \ {0}
    /\ MaxTicks \in Nat /\ MaxPauses \in Nat /\ Len(Templates) \in Nat
<1>1. Templates \in Seq(BOOLEAN)
  BY UiAssumption
<1>2. Len(Templates) \in Nat
  BY <1>1, LenProperties
<1> QED BY <1>2, UiAssumption

\* The stream is a sequence of events.
LEMMA StreamType ==
    ASSUME TypeOK
    PROVE  /\ Stream \in Seq(Event) /\ Len(Stream) \in Nat
           /\ DOMAIN Stream = 1..Len(Stream) /\ FindingsAt \subseteq 1..Len(Stream)
           /\ \A i \in 1..Len(Stream) : Stream[i] \in Event
<1>1. shown \in Seq(Event) /\ events \in Seq(Event)
  BY DEF TypeOK
<1>2. Stream \in Seq(Event)
  BY <1>1, ConcatProperties DEF Stream
<1>3. Len(Stream) \in Nat /\ DOMAIN Stream = 1..Len(Stream) /\ Stream \in [1..Len(Stream) -> Event]
  BY <1>2, LenProperties
<1> QED BY <1>2, <1>3 DEF FindingsAt

\* A step that touches neither channel nor UI leaves it alone.
LEMMA StreamSame ==
    ASSUME UNCHANGED <<events, shown>>
    PROVE  Stream' = Stream /\ FindingsAt' = FindingsAt /\ Given' = Given
<1>1. Stream' = Stream
  BY DEF Stream
<1>2. FindingsAt' = FindingsAt
  BY <1>1 DEF FindingsAt
<1> QED BY <1>1, <1>2 DEF Given

\* So does the UI when it takes an event out of the channel.
LEMMA ShowSame ==
    ASSUME TypeOK, Show
    PROVE  /\ events' \in Seq(Event) /\ shown' \in Seq(Event) /\ Len(events') < Len(events)
           /\ Stream' = Stream /\ FindingsAt' = FindingsAt /\ Given' = Given
<1>1. shown \in Seq(Event) /\ events \in Seq(Event) /\ events # << >>
  BY DEF TypeOK, Show
<1>2. shown' = Append(shown, Head(events)) /\ events' = Tail(events)
  BY DEF Show
<1>3. /\ Head(events) \in Event /\ Tail(events) \in Seq(Event)
      /\ Len(events) \in Nat /\ Len(Tail(events)) = Len(events) - 1
  BY <1>1, HeadTailProperties, LenProperties
<1>4. Append(shown, Head(events)) = shown \o <<Head(events)>>
  BY <1>1, <1>3, AppendIsConcat
<1>5. events = <<Head(events)>> \o Tail(events)
  <2>1. <<Head(events)>> \in Seq(Event) /\ Len(<<Head(events)>>) = 1
        /\ <<Head(events)>>[1] = Head(events)
    BY <1>3
  <2> DEFINE h == <<Head(events)>>
             t == h \o Tail(events)
  <2>2. /\ t \in Seq(Event) /\ Len(t) = 1 + Len(Tail(events))
        /\ \A i \in 1..1 + Len(Tail(events)) :
              t[i] = IF i <= 1 THEN h[i] ELSE Tail(events)[i - 1]
    BY <1>3, <2>1, ConcatProperties
  <2>3. Head(events) = events[1]
    BY <1>1, <1>3
  <2> HIDE DEF h, t
  <2>4. ASSUME NEW i \in 1..Len(events) PROVE events[i] = t[i]
    <3>1. i = 1 \/ (i # 1 /\ i - 1 \in 1..Len(Tail(events)))
      BY <1>3
    <3>2. CASE i = 1
      BY <1>3, <2>1, <2>2, <2>3, <3>2 DEF h
    <3>3. CASE i # 1
      <4>1. Tail(events)[i - 1] = events[i - 1 + 1]
        BY <1>1, <3>1, <3>3, HeadTailProperties
      <4> QED BY <1>3, <2>2, <3>1, <3>3, <4>1
    <3> QED BY <3>2, <3>3
  <2>5. Len(events) = Len(t)
    BY <1>3, <2>2
  <2>6. events = t
    BY <1>1, <2>2, <2>4, <2>5, SeqEqual
  <2> QED BY <2>6 DEF h, t
<1>6. shown' \in Seq(Event)
  BY <1>1, <1>2, <1>3, AppendProperties
<1>7. Stream' = Stream
  <2>1. <<Head(events)>> \in Seq(Event)
    BY <1>3
  <2>2. (shown \o <<Head(events)>>) \o Tail(events) = shown \o (<<Head(events)>> \o Tail(events))
    BY <1>1, <1>3, <2>1, ConcatAssociative
  <2> QED BY <1>2, <1>4, <1>5, <2>2 DEF Stream
<1>8. FindingsAt' = FindingsAt
  BY <1>7 DEF FindingsAt
<1>9. Given' = Given
  BY <1>7, <1>8 DEF Given
<1> QED BY <1>2, <1>3, <1>6, <1>7, <1>8, <1>9

\* An event goes to the end of the stream.
LEMMA Sent ==
    ASSUME TypeOK, NEW e \in Event, SendEvent(e), UNCHANGED shown
    PROVE  /\ events' \in Seq(Event) /\ Len(events') <= EventCap
           /\ Len(Stream) \in Nat /\ Len(Stream') = Len(Stream) + 1
           /\ Stream'[Len(Stream) + 1] = e
           /\ \A i \in 1..Len(Stream) : Stream'[i] = Stream[i]
           /\ FindingsAt' = IF e.type = "finding" THEN FindingsAt \cup {Len(Stream) + 1}
                                                  ELSE FindingsAt
           /\ Given' = IF e.type = "finding" THEN Given \cup {e.finding} ELSE Given
<1>1. shown \in Seq(Event) /\ events \in Seq(Event) /\ Len(events) < EventCap
  BY DEF TypeOK, SendEvent
<1>2. events' = Append(events, e) /\ shown' = shown
  BY DEF SendEvent
<1>3. events' \in Seq(Event) /\ Len(events') = Len(events) + 1 /\ Len(events) \in Nat
  BY <1>1, <1>2, AppendProperties, LenProperties
<1>4. Stream' = Append(Stream, e)
  <2>1. <<e>> \in Seq(Event)
    OBVIOUS
  <2>2. events' = events \o <<e>>
    BY <1>1, <1>2, AppendIsConcat
  <2>3. (shown \o events) \o <<e>> = shown \o (events \o <<e>>)
    BY <1>1, <2>1, ConcatAssociative
  <2>4. Append(Stream, e) = Stream \o <<e>>
    BY StreamType, AppendIsConcat
  <2> QED BY <1>2, <2>2, <2>3, <2>4 DEF Stream
<1> DEFINE n == Len(Stream)
<1>5. /\ Stream \in Seq(Event) /\ n \in Nat /\ DOMAIN Stream = 1..n
      /\ Stream' \in Seq(Event) /\ Len(Stream') = n + 1 /\ Stream'[n + 1] = e
      /\ \A i \in 1..n : Stream'[i] = Stream[i]
  BY <1>4, StreamType, AppendProperties
<1>6. DOMAIN (Stream') = 1..(n + 1)
  BY <1>5, LenProperties
<1>7. 1..(n + 1) = 1..n \cup {n + 1} /\ n + 1 \notin 1..n
  BY <1>5
<1> HIDE DEF n
<1>8. FindingsAt' = IF e.type = "finding" THEN FindingsAt \cup {n + 1} ELSE FindingsAt
  <2>1. FindingsAt' = {i \in 1..(n + 1) : Stream'[i].type = "finding"}
    BY <1>6 DEF FindingsAt
  <2>2. FindingsAt = {i \in 1..n : Stream[i].type = "finding"}
    BY <1>5 DEF FindingsAt
  <2> QED BY <1>5, <1>7, <2>1, <2>2
<1>9. Given' = IF e.type = "finding" THEN Given \cup {e.finding} ELSE Given
  <2>1. Given' = {Stream'[i].finding : i \in FindingsAt'}
    BY DEF Given
  <2>2. \A i \in FindingsAt : Stream'[i] = Stream[i]
    BY <1>5 DEF FindingsAt
  <2> QED BY <1>5, <1>8, <2>1, <2>2 DEF Given
<1>10. Len(events') <= EventCap
  BY <1>1, <1>3, Numbers
<1> QED BY <1>3, <1>5, <1>8, <1>9, <1>10 DEF n

\* An event that is neither a finding nor the completion disturbs nothing.
LEMMA SaidInPassing ==
    ASSUME TypeOK, CompleteInv, NEW e \in Event, e.type \notin {"finding", "completed"},
           SendEvent(e), UNCHANGED shown, forwarder = "done" => forwarder' = "done"
    PROVE  /\ CompleteInv' /\ FindingsAt' = FindingsAt /\ Given' = Given
           /\ \A i \in FindingsAt : Stream'[i] = Stream[i]
<1>1. /\ Len(Stream) \in Nat /\ Len(Stream') = Len(Stream) + 1
      /\ Stream'[Len(Stream) + 1] = e
      /\ \A i \in 1..Len(Stream) : Stream'[i] = Stream[i]
      /\ FindingsAt' = FindingsAt /\ Given' = Given
  BY Sent
<1>2. \A i \in FindingsAt : Stream'[i] = Stream[i]
  BY <1>1, StreamType
<1>3. CompleteInv'
  <2> SUFFICES ASSUME NEW i \in 1..Len(Stream'), Stream'[i].type = "completed"
               PROVE  /\ forwarder' = "done"
                      /\ Stream'[i].findings = Cardinality(Given')
                      /\ \A j \in FindingsAt' : j < i
    BY DEF CompleteInv
  <2>1. i \in 1..Len(Stream)
    BY <1>1
  <2> QED BY <1>1, <2>1 DEF CompleteInv
<1> QED BY <1>1, <1>2, <1>3

\* The kinds of events.
LEMMA EventTypes ==
    /\ Started \in Event /\ Started.type = "started"
    /\ \A n \in 0..TotalTasks : Progress(n) \in Event /\ Progress(n).type = "progress"
    /\ \A f \in 1..MaxRequests :
          Finding(f) \in Event /\ Finding(f).type = "finding" /\ Finding(f).finding = f
    /\ \A e \in 0..MaxRequests : Error(e) \in Event /\ Error(e).type = "error"
    /\ \A n \in 0..MaxRequests :
          Completed(n) \in Event /\ Completed(n).type = "completed" /\ Completed(n).findings = n
<1>1. Started \in Event /\ Started.type = "started"
  BY DEF Event, Started
<1>2. \A n \in 0..TotalTasks : Progress(n) \in Event /\ Progress(n).type = "progress"
  <2>1. \A n \in 0..TotalTasks : Progress(n) \in Event
    BY DEF Event
  <2> QED BY <2>1 DEF Progress
<1>3. \A f \in 1..MaxRequests :
          Finding(f) \in Event /\ Finding(f).type = "finding" /\ Finding(f).finding = f
  <2>1. \A f \in 1..MaxRequests : Finding(f) \in Event
    BY DEF Event
  <2> QED BY <2>1 DEF Finding
<1>4. \A e \in 0..MaxRequests : Error(e) \in Event /\ Error(e).type = "error"
  <2>1. \A e \in 0..MaxRequests : Error(e) \in Event
    BY DEF Event
  <2> QED BY <2>1 DEF Error
<1>5. \A n \in 0..MaxRequests :
          Completed(n) \in Event /\ Completed(n).type = "completed" /\ Completed(n).findings = n
  <2>1. \A n \in 0..MaxRequests : Completed(n) \in Event
    BY DEF Event
  <2> QED BY <2>1 DEF Completed
<1> QED BY <1>1, <1>2, <1>3, <1>4, <1>5

(***************************************************************************)
(* The steps.                                                              *)
(***************************************************************************)
\* A step that moves no finding keeps IInv, whatever it says to the UI in passing.
LEMMA Aside ==
    ASSUME IInv, TypeOK', PhaseInv', BoundInv',
           \/ UNCHANGED <<events, shown>>
           \/ Show
           \/ \E e \in Event : /\ e.type \notin {"finding", "completed"}
                               /\ SendEvent(e) /\ UNCHANGED shown,
           UNCHANGED <<findingChan, raised, findingCount>>, requests' >= requests,
           Hand' = Hand, Emitting' = Emitting, Counted' = Counted,
           forwarder = "done" => forwarder' = "done",
           isPaused' => pausedFindings' = 0 \/ (isPaused /\ pausedFindings' = pausedFindings)
    PROVE  IInv'
<1>1. TypeOK /\ PlaceInv /\ CountInv /\ CompleteInv /\ PauseInv
  BY DEF IInv
<1>2. /\ FindingsAt' = FindingsAt /\ Given' = Given /\ CompleteInv'
      /\ \A i \in FindingsAt : Stream'[i] = Stream[i]
  <2>1. CASE UNCHANGED <<events, shown>> \/ Show
    <3>1. Stream' = Stream /\ FindingsAt' = FindingsAt /\ Given' = Given
      BY <1>1, <2>1, StreamSame, ShowSame
    <3> QED BY <1>1, <3>1 DEF CompleteInv
  <2>2. ASSUME NEW e \in Event, e.type \notin {"finding", "completed"}, SendEvent(e),
               UNCHANGED shown
        PROVE  /\ FindingsAt' = FindingsAt /\ Given' = Given /\ CompleteInv'
               /\ \A i \in FindingsAt : Stream'[i] = Stream[i]
    BY <1>1, <2>2, SaidInPassing
  <2> QED BY <2>1, <2>2
<1>3. PlaceInv'
  <2>1. Channel' = Channel
    BY DEF Channel
  <2>2. raised' \subseteq 1..requests'
    <3>1. raised \subseteq 1..requests
      BY <1>1 DEF PlaceInv
    <3>2. requests \in 0..MaxRequests /\ requests' \in 0..MaxRequests
      BY <1>1 DEF TypeOK
    <3>3. requests \in Int /\ requests' \in Int
      BY <3>2
    <3> QED BY <3>1, <3>3
  <2> QED BY <1>1, <1>2, <2>1, <2>2 DEF PlaceInv
<1>4. CountInv'
  BY <1>1, <1>2 DEF CountInv
<1>5. PauseInv'
  <2>1. Counted \in {0, 1}
    BY DEF Counted
  <2> QED BY <1>1, <2>1 DEF PauseInv
<1> QED BY <1>2, <1>3, <1>4, <1>5 DEF IInv

\* start_scan.
LEMMA StartKept ==
    ASSUME IInv, StartStep
    PROVE  IInv'
<1>1. TypeOK /\ PhaseInv /\ BoundInv
  BY DEF IInv
<1>2. /\ session # "returned" /\ engine = "off" /\ forwarder = "off"
      /\ UNCHANGED <<pauses, requests, findingChan, raised, inHand, findingCount, beat, ticks,
                     tickerStop, errorChan, errCount, errorInHand, shown, pausedFindings>>
  BY <1>1 DEF StartStep, StartScan, LoadRaw, AnnounceStart, SpawnTasks, PhaseInv, control, work,
              forwarding, heartbeat, errors
<1>3. /\ Hand' = Hand /\ Emitting' = Emitting /\ Counted' = Counted
      /\ forwarder' \in {"off", "recv"} /\ engine' \in {"off", "running"}
      /\ session' \in {"loading", "starting", "returned"}
      /\ session' # "returned" => engine' = "off" /\ forwarder' = "off"
      /\ ticker' \in {ticker, "waiting"} /\ isPaused' \in {isPaused, FALSE}
      /\ cancelSignal' \in {cancelSignal, FALSE}
  <2>1. CASE StartScan \/ LoadRaw \/ AnnounceStart
    <3>1. /\ UNCHANGED <<engine, forwarder, ticker>>
          /\ session' \in {"loading", "starting"} /\ isPaused' \in {isPaused, FALSE}
          /\ cancelSignal' \in {cancelSignal, FALSE}
      BY <2>1 DEF StartScan, LoadRaw, AnnounceStart, control, work, forwarding, heartbeat
    <3> QED BY <1>2, <3>1 DEF Hand, Emitting, Counted
  <2>2. CASE SpawnTasks
    BY <1>2, <2>2 DEF SpawnTasks, Hand, Emitting, Counted, control
  <2> QED BY <2>1, <2>2 DEF StartStep
<1>4. \/ UNCHANGED <<events, shown>>
      \/ \E e \in Event : /\ e.type \notin {"finding", "completed"}
                          /\ SendEvent(e) /\ UNCHANGED shown
  <2>1. Error(0) \in Event /\ Error(0).type = "error"
    BY EventTypes, Numbers
  <2> QED BY <1>2, <2>1, EventTypes DEF StartStep, StartScan, LoadRaw, AnnounceStart, SpawnTasks
<1>5. events' \in Seq(Event) /\ Len(events') <= EventCap
  BY <1>1, <1>4, Sent DEF TypeOK
<1>6. loaded' \in 0..Len(Templates)
  <2>1. CASE LoadRaw
    BY <1>1, <2>1, Numbers DEF LoadRaw, TypeOK
  <2>2. CASE ~LoadRaw
    BY <1>1, <2>2 DEF StartStep, StartScan, AnnounceStart, SpawnTasks, TypeOK
  <2> QED BY <2>1, <2>2
<1>7. TypeOK'
  BY <1>1, <1>2, <1>3, <1>5, <1>6 DEF TypeOK
<1>8. PhaseInv' /\ BoundInv'
  BY <1>1, <1>2, <1>3 DEF PhaseInv, BoundInv
<1>9. requests' >= requests
  BY <1>1, <1>2, Numbers DEF TypeOK
<1>10. isPaused' => isPaused /\ pausedFindings' = pausedFindings
  BY <1>2, <1>3, Zenon
<1> QED BY <1>2, <1>3, <1>4, <1>7, <1>8, <1>9, <1>10, Aside

\* The engine finds something.
LEMMA RaiseKept ==
    ASSUME IInv, engine = "running", requests < MaxRequests, requests' = requests + 1,
           engine' = "sending", raised' = raised \cup {requests + 1},
           UNCHANGED <<start, control, findingChan, forwarding, heartbeat, errors,
                       events, shown, pausedFindings>>
    PROVE  IInv'
<1>1. TypeOK /\ PlaceInv /\ CountInv /\ PhaseInv /\ CompleteInv /\ PauseInv /\ BoundInv
  BY DEF IInv
<1>2. /\ UNCHANGED <<session, loaded, isPaused, pauses, cancelSignal, findingChan, forwarder, inHand,
                     findingCount, ticker, beat, ticks, tickerStop, errorChan, errCount,
                     errorInHand, events, shown, pausedFindings>>
  BY DEF start, control, forwarding, heartbeat, errors
<1>3. Stream' = Stream /\ FindingsAt' = FindingsAt /\ Given' = Given
  BY <1>2, StreamSame
<1>4. /\ Channel' = Channel /\ Hand' = Hand /\ Counted' = Counted
      /\ Emitting = {} /\ Emitting' = {requests + 1}
  BY <1>2 DEF Channel, Hand, Counted, Emitting
<1>5. requests \in Nat /\ requests + 1 \in 1..MaxRequests /\ requests' \in 0..MaxRequests
  BY <1>1, Numbers DEF TypeOK
<1>6. TypeOK'
  BY <1>1, <1>2, <1>5 DEF TypeOK
<1>7. PlaceInv'
  <2>1. requests + 1 \notin raised
    BY <1>1, <1>5 DEF PlaceInv
  <2>2. raised' \subseteq 1..requests'
    BY <1>1, <1>5 DEF PlaceInv
  <2>3. raised' = (Given \cup Channel \cup Hand \cup Emitting)'
    BY <1>1, <1>3, <1>4 DEF PlaceInv
  <2>4. /\ Given' \cap (Channel \cup Hand \cup Emitting)' = {}
        /\ Channel' \cap (Hand \cup Emitting)' = {}
        /\ Hand' \cap Emitting' = {}
    BY <1>1, <1>3, <1>4, <2>1 DEF PlaceInv
  <2> QED BY <1>1, <1>2, <1>3, <2>2, <2>3, <2>4 DEF PlaceInv
<1>8. CountInv' /\ PauseInv'
  BY <1>1, <1>2, <1>3, <1>4 DEF CountInv, PauseInv
<1>9. PhaseInv'
  BY <1>1, <1>2 DEF PhaseInv
<1>10. CompleteInv'
  BY <1>1, <1>2, <1>3 DEF CompleteInv
<1>11. BoundInv'
  <2>1. errCount \in Nat /\ Len(errorChan) \in Nat
    BY <1>1, LenProperties, Numbers DEF TypeOK
  <2> QED BY <1>1, <1>2, <1>5, <2>1 DEF BoundInv
<1> QED BY <1>6, <1>7, <1>8, <1>9, <1>10, <1>11 DEF IInv

\* A finding goes into the channel of findings.
LEMMA EngineEmitKept ==
    ASSUME IInv, EngineEmit
    PROVE  IInv'
<1>1. TypeOK /\ PlaceInv /\ CountInv /\ PhaseInv /\ CompleteInv /\ PauseInv /\ BoundInv
  BY DEF IInv
<1>2. /\ engine = "sending" /\ engine' = "running" /\ Len(findingChan) < FindingCap
      /\ findingChan' = Append(findingChan, requests)
      /\ UNCHANGED <<session, loaded, isPaused, pauses, cancelSignal, requests, raised, forwarder,
                     inHand, findingCount, ticker, beat, ticks, tickerStop, errorChan, errCount,
                     errorInHand, events, shown, pausedFindings>>
  BY DEF EngineEmit, start, control, forwarding, heartbeat, errors
<1>3. Stream' = Stream /\ FindingsAt' = FindingsAt /\ Given' = Given
  BY <1>2, StreamSame
<1>4. Emitting = {requests} /\ Emitting' = {} /\ Hand' = Hand /\ Counted' = Counted
  BY <1>2 DEF Emitting, Hand, Counted
<1>5. requests \in raised /\ requests \in 1..MaxRequests
  BY <1>1, <1>4 DEF PlaceInv, TypeOK
<1>6. findingChan \in Seq(1..MaxRequests)
  BY <1>1 DEF TypeOK
<1> DEFINE n == Len(findingChan)
<1>7. /\ findingChan' \in Seq(1..MaxRequests) /\ n \in Nat /\ Len(findingChan') = n + 1
      /\ \A i \in 1..n : findingChan'[i] = findingChan[i]
      /\ findingChan'[n + 1] = requests
      /\ DOMAIN findingChan = 1..n /\ DOMAIN (findingChan') = 1..(n + 1)
  BY <1>2, <1>5, <1>6, AppendProperties, LenProperties
<1>8. Channel' = Channel \cup {requests}
  <2>1. Channel' \subseteq Channel \cup {requests}
    BY <1>7 DEF Channel, ToSet
  <2>2. Channel \cup {requests} \subseteq Channel'
    BY <1>7 DEF Channel, ToSet
  <2> QED BY <2>1, <2>2
<1>9. \A i \in 1..n : findingChan[i] \in Channel
  BY <1>7 DEF Channel, ToSet
<1>10. TypeOK'
  <2>1. Len(findingChan') <= FindingCap
    BY <1>2, <1>7, Numbers
  <2> QED BY <1>1, <1>2, <1>7, <2>1 DEF TypeOK
<1>11. PlaceInv'
  <2>1. \A i, j \in 1..Len(findingChan') : findingChan'[i] = findingChan'[j] => i = j
    <3>1. requests \notin Channel
      BY <1>1, <1>4 DEF PlaceInv
    <3> HIDE DEF n
    <3>2. \A i \in 1..(n + 1) : i \in 1..n \/ i = n + 1
      BY <1>7
    <3>3. \A i, j \in 1..n : findingChan[i] = findingChan[j] => i = j
      BY <1>1 DEF PlaceInv, n
    <3> QED BY <1>7, <1>9, <3>1, <3>2, <3>3
  <2>2. raised' = (Given \cup Channel \cup Hand \cup Emitting)'
    BY <1>1, <1>2, <1>3, <1>4, <1>8 DEF PlaceInv
  <2>3. /\ Given' \cap (Channel \cup Hand \cup Emitting)' = {}
        /\ Channel' \cap (Hand \cup Emitting)' = {}
        /\ Hand' \cap Emitting' = {}
    BY <1>1, <1>3, <1>4, <1>8 DEF PlaceInv
  <2> QED BY <1>1, <1>2, <1>3, <2>1, <2>2, <2>3 DEF PlaceInv
<1>12. CountInv' /\ PauseInv'
  BY <1>1, <1>2, <1>3, <1>4 DEF CountInv, PauseInv
<1>13. PhaseInv' /\ BoundInv'
  BY <1>1, <1>2 DEF PhaseInv, BoundInv
<1>14. CompleteInv'
  BY <1>1, <1>2, <1>3 DEF CompleteInv
<1> QED BY <1>10, <1>11, <1>12, <1>13, <1>14 DEF IInv

\* The engine: a request that finds nothing, and its end.
LEMMA EngineKept ==
    ASSUME IInv, EngineStep
    PROVE  IInv'
<1>1. TypeOK /\ PhaseInv /\ BoundInv
  BY DEF IInv
<1>2. CASE EngineEmit
  BY <1>2, EngineEmitKept
<1>3. ASSUME EngineRequest, UNCHANGED raised PROVE IInv'
  <2>1. /\ engine = "running" /\ requests < MaxRequests /\ requests' = requests + 1
        /\ UNCHANGED <<session, loaded, isPaused, pauses, cancelSignal, findingChan, forwarder,
                       inHand, findingCount, ticker, beat, ticks, tickerStop, errCount,
                       errorInHand, events, shown, pausedFindings, raised>>
        /\ errorChan' = errorChan \/ /\ Len(errorChan) < ErrorCap
                                     /\ errorChan' = Append(errorChan, requests + 1)
    BY <1>3 DEF EngineRequest, start, control, forwarding, heartbeat
  <2>2. CASE engine' = "sending" /\ requests + 1 \in raised
    <3>1. raised \subseteq 1..requests /\ requests \in 0..MaxRequests
      BY <1>1 DEF IInv, PlaceInv, TypeOK
    <3> QED BY <2>2, <3>1
  <2>3. CASE engine' = engine
    <3>1. requests \in Nat /\ requests + 1 \in 1..MaxRequests /\ requests' \in 0..MaxRequests
      BY <1>1, <2>1, Numbers DEF TypeOK
    <3>2. /\ errorChan' \in Seq(1..MaxRequests) /\ Len(errorChan') <= ErrorCap
          /\ Len(errorChan) \in Nat /\ Len(errorChan') \in {Len(errorChan), Len(errorChan) + 1}
      <4>1. errorChan \in Seq(1..MaxRequests) /\ Len(errorChan) <= ErrorCap
        BY <1>1 DEF TypeOK
      <4>2. Len(errorChan) \in Nat
        BY <4>1, LenProperties
      <4>3. CASE errorChan' = errorChan
        BY <4>1, <4>2, <4>3
      <4>4. CASE Len(errorChan) < ErrorCap /\ errorChan' = Append(errorChan, requests + 1)
        <5>1. /\ errorChan' \in Seq(1..MaxRequests)
              /\ Len(errorChan') = Len(errorChan) + 1
          BY <3>1, <4>1, <4>4, AppendProperties
        <5> QED BY <4>2, <4>4, <5>1, Numbers
      <4> QED BY <2>1, <4>3, <4>4
    <3>3. TypeOK'
      BY <1>1, <2>1, <2>3, <3>1, <3>2 DEF TypeOK
    <3>4. PhaseInv'
      BY <1>1, <2>1, <2>3 DEF PhaseInv
    <3>5. BoundInv'
      <4>1. errCount \in Nat
        BY <1>1, Numbers DEF TypeOK
      <4> QED BY <1>1, <2>1, <3>1, <3>2, <4>1 DEF BoundInv
    <3>6. Hand' = Hand /\ Emitting' = Emitting /\ Counted' = Counted
      BY <2>1, <2>3 DEF Hand, Emitting, Counted
    <3>7. requests' >= requests
      BY <2>1, <3>1
    <3>8. isPaused' => isPaused /\ pausedFindings' = pausedFindings
      BY <2>1
    <3> QED BY <2>1, <3>3, <3>4, <3>5, <3>6, <3>7, <3>8, Aside
  <2> QED BY <1>3, <2>2, <2>3 DEF EngineRequest
<1>4. ASSUME EngineRequest, raised' # raised PROVE IInv'
  <2>1. /\ engine = "running" /\ requests < MaxRequests /\ requests' = requests + 1
        /\ engine' = "sending" /\ raised' = raised \cup {requests + 1}
        /\ UNCHANGED <<start, control, findingChan, forwarding, heartbeat, errors,
                       events, shown, pausedFindings>>
    BY <1>4 DEF EngineRequest, errors
  <2> QED BY <2>1, RaiseKept
<1>5. CASE EngineReturn
  <2>1. /\ engine = "running" /\ engine' = "returned"
        /\ UNCHANGED <<session, loaded, isPaused, pauses, cancelSignal, requests, findingChan,
                       raised, forwarder, inHand, findingCount, ticker, beat, ticks, tickerStop,
                       errorChan, errCount, errorInHand, events, shown, pausedFindings>>
    BY <1>5 DEF EngineReturn, start, control, forwarding, heartbeat, errors
  <2>2. TypeOK'
    BY <1>1, <2>1 DEF TypeOK
  <2>3. PhaseInv' /\ BoundInv'
    BY <1>1, <2>1 DEF PhaseInv, BoundInv
  <2>4. Hand' = Hand /\ Emitting' = Emitting /\ Counted' = Counted
    BY <2>1 DEF Hand, Emitting, Counted
  <2>5. requests' >= requests
    BY <1>1, <2>1, Numbers DEF TypeOK
  <2> QED BY <2>1, <2>2, <2>3, <2>4, <2>5, Aside
<1> QED BY <1>2, <1>3, <1>4, <1>5 DEF EngineStep

\* The forwarder takes a finding out of the channel.
LEMMA ReceiveFindingKept ==
    ASSUME IInv, ReceiveFinding
    PROVE  IInv'
<1>1. TypeOK /\ PlaceInv /\ CountInv /\ PhaseInv /\ CompleteInv /\ PauseInv /\ BoundInv
  BY DEF IInv
<1> DEFINE f == Head(findingChan)
<1>2. /\ forwarder = "recv" /\ findingChan # << >> /\ inHand' = f
      /\ findingChan' = Tail(findingChan) /\ forwarder' = "held"
      /\ UNCHANGED <<session, loaded, isPaused, pauses, cancelSignal, engine, requests, raised,
                     findingCount, ticker, beat, ticks, tickerStop, errorChan, errCount,
                     errorInHand, events, shown, pausedFindings>>
  BY DEF ReceiveFinding, start, control, heartbeat, errors
<1>3. Stream' = Stream /\ FindingsAt' = FindingsAt /\ Given' = Given
  BY <1>2, StreamSame
<1>4. findingChan \in Seq(1..MaxRequests) /\ Len(findingChan) <= FindingCap
  BY <1>1 DEF TypeOK
<1>5. /\ f \in 1..MaxRequests /\ findingChan' \in Seq(1..MaxRequests)
      /\ Len(findingChan) \in Nat /\ Len(findingChan') = Len(findingChan) - 1
      /\ \A i \in 1..Len(findingChan') : findingChan'[i] = findingChan[i + 1]
      /\ DOMAIN findingChan = 1..Len(findingChan) /\ DOMAIN (findingChan') = 1..Len(findingChan')
      /\ f = findingChan[1] /\ Len(findingChan) # 0
  <2>1. /\ Head(findingChan) \in 1..MaxRequests /\ Tail(findingChan) \in Seq(1..MaxRequests)
        /\ Len(Tail(findingChan)) = Len(findingChan) - 1
        /\ \A i \in 1..Len(Tail(findingChan)) : Tail(findingChan)[i] = findingChan[i + 1]
    BY <1>2, <1>4, HeadTailProperties
  <2>2. Len(findingChan) \in Nat /\ DOMAIN findingChan = 1..Len(findingChan)
    BY <1>4, LenProperties
  <2>3. DOMAIN Tail(findingChan) = 1..Len(Tail(findingChan)) /\ Len(Tail(findingChan)) \in Nat
    BY <2>1, LenProperties
  <2>4. Len(findingChan) # 0
    BY <2>1, <2>2, <2>3
  <2>5. Head(findingChan) = findingChan[1]
    BY <1>2, <1>4
  <2> QED BY <1>2, <2>1, <2>2, <2>3, <2>4, <2>5 DEF f
<1> HIDE DEF f
<1>6. 1 \in 1..Len(findingChan)
  BY <1>5
<1>7. \A i \in 1..Len(findingChan') : i + 1 \in 1..Len(findingChan) /\ i + 1 # 1 /\ i \in Int
  BY <1>5
<1>8. \A i, j \in 1..Len(findingChan) : findingChan[i] = findingChan[j] => i = j
  BY <1>1 DEF PlaceInv
<1>9. Channel = Channel' \cup {f} /\ f \notin Channel'
  <2>1. Channel' = {findingChan'[i] : i \in 1..Len(findingChan')}
    BY <1>5 DEF Channel, ToSet
  <2>2. Channel = {findingChan[i] : i \in 1..Len(findingChan)}
    BY <1>5 DEF Channel, ToSet
  <2>3. f \notin Channel'
    BY <1>5, <1>6, <1>7, <1>8, <2>1
  <2>4. Channel' \cup {f} \subseteq Channel
    BY <1>5, <1>6, <1>7, <2>1, <2>2
  <2>5. ASSUME NEW i \in 1..Len(findingChan) PROVE findingChan[i] \in Channel' \cup {f}
    <3>1. i = 1 \/ (i - 1 \in 1..Len(findingChan') /\ i - 1 + 1 = i)
      BY <1>5
    <3> QED BY <1>5, <2>1, <3>1
  <2> QED BY <2>2, <2>3, <2>4, <2>5
<1>10. /\ Hand = {} /\ Hand' = {f} /\ Emitting' = Emitting /\ Counted = 0 /\ Counted' = 0
  BY <1>2 DEF Hand, Emitting, Counted
<1>11. TypeOK'
  <2>1. Len(findingChan') <= FindingCap /\ inHand' \in 0..MaxRequests
    BY <1>2, <1>4, <1>5, Numbers
  <2> QED BY <1>1, <1>2, <1>5, <2>1 DEF TypeOK
<1>12. PlaceInv'
  <2>1. \A i, j \in 1..Len(findingChan') : findingChan'[i] = findingChan'[j] => i = j
    <3> SUFFICES ASSUME NEW i \in 1..Len(findingChan'), NEW j \in 1..Len(findingChan'),
                        findingChan'[i] = findingChan'[j]
                 PROVE  i = j
      OBVIOUS
    <3>1. i + 1 = j + 1
      BY <1>5, <1>7, <1>8
    <3> QED BY <1>7, <3>1
  <2>2. raised' = (Given \cup Channel \cup Hand \cup Emitting)'
    BY <1>1, <1>2, <1>3, <1>9, <1>10 DEF PlaceInv
  <2>3. /\ Given' \cap (Channel \cup Hand \cup Emitting)' = {}
        /\ Channel' \cap (Hand \cup Emitting)' = {}
        /\ Hand' \cap Emitting' = {}
    BY <1>1, <1>3, <1>9, <1>10 DEF PlaceInv
  <2> QED BY <1>1, <1>2, <1>3, <2>1, <2>2, <2>3 DEF PlaceInv
<1>13. CountInv' /\ PauseInv'
  BY <1>1, <1>2, <1>3, <1>10 DEF CountInv, PauseInv
<1>14. PhaseInv' /\ BoundInv'
  BY <1>1, <1>2 DEF PhaseInv, BoundInv
<1>15. CompleteInv'
  BY <1>1, <1>2, <1>3 DEF CompleteInv
<1> QED BY <1>11, <1>12, <1>13, <1>14, <1>15 DEF IInv

\* There are no more findings than requests.
LEMMA GivenBound ==
    ASSUME TypeOK, PlaceInv
    PROVE  /\ IsFiniteSet(Given) /\ Cardinality(Given) \in 0..MaxRequests
           /\ forwarder \in {"held", "counted"} =>
                 /\ inHand \in 1..MaxRequests /\ inHand \notin Given
                 /\ IsFiniteSet(Given \cup {inHand})
                 /\ Cardinality(Given \cup {inHand}) = Cardinality(Given) + 1
                 /\ Cardinality(Given) + 1 \in 0..MaxRequests
<1>1. IsFiniteSet(1..MaxRequests) /\ Cardinality(1..MaxRequests) = MaxRequests
  BY Numbers, FS_Interval, SMTT(20)
<1>2. Given \subseteq 1..MaxRequests
  BY DEF TypeOK, PlaceInv
<1>3. /\ IsFiniteSet(Given) /\ Cardinality(Given) <= MaxRequests /\ Cardinality(Given) \in Nat
  BY <1>1, <1>2, FS_Subset, FS_CardinalityType
<1>4. ASSUME forwarder \in {"held", "counted"}
      PROVE  /\ inHand \in 1..MaxRequests /\ inHand \notin Given
             /\ IsFiniteSet(Given \cup {inHand})
             /\ Cardinality(Given \cup {inHand}) = Cardinality(Given) + 1
             /\ Cardinality(Given) + 1 \in 0..MaxRequests
  <2>1. Hand = {inHand}
    BY <1>4 DEF Hand
  <2>2. inHand \in raised /\ inHand \notin Given
    BY <2>1 DEF PlaceInv
  <2>3. inHand \in 1..MaxRequests
    BY <2>2 DEF TypeOK
  <2>4. /\ IsFiniteSet(Given \cup {inHand})
        /\ Cardinality(Given \cup {inHand}) = Cardinality(Given) + 1
    BY <1>3, <2>2, FS_AddElement
  <2>5. Given \cup {inHand} \subseteq 1..MaxRequests
    BY <1>2, <2>3
  <2>6. Cardinality(Given \cup {inHand}) <= MaxRequests
    BY <1>1, <2>5, FS_Subset
  <2> QED BY <1>3, <2>2, <2>3, <2>4, <2>6, Numbers
<1> QED BY <1>3, <1>4, Numbers

\* The finding in hand is counted, which needs the scan not to be paused.
LEMMA ForwardFindingKept ==
    ASSUME IInv, ForwardFinding
    PROVE  IInv'
<1>1. TypeOK /\ PlaceInv /\ CountInv /\ PhaseInv /\ CompleteInv /\ PauseInv /\ BoundInv
  BY DEF IInv
<1>2. /\ forwarder = "held" /\ ~isPaused /\ forwarder' = "counted"
      /\ findingCount' = findingCount + 1
      /\ UNCHANGED <<session, loaded, isPaused, pauses, cancelSignal, engine, requests,
                     findingChan, raised, inHand, ticker, beat, ticks, tickerStop, errorChan,
                     errCount, errorInHand, events, shown, pausedFindings>>
  BY DEF ForwardFinding, start, control, work, heartbeat, errors
<1>3. Stream' = Stream /\ FindingsAt' = FindingsAt /\ Given' = Given
  BY <1>2, StreamSame
<1>4. /\ Channel' = Channel /\ Hand' = Hand /\ Emitting' = Emitting
      /\ Counted = 0 /\ Counted' = 1
  BY <1>2 DEF Channel, Hand, Emitting, Counted
<1>5. findingCount = Cardinality(Given) /\ Cardinality(Given) + 1 \in 0..MaxRequests
  BY <1>1, <1>2, <1>4, GivenBound DEF CountInv
<1>6. TypeOK'
  BY <1>1, <1>2, <1>5 DEF TypeOK
<1>7. PlaceInv'
  BY <1>1, <1>2, <1>3, <1>4 DEF PlaceInv
<1>8. CountInv' /\ PauseInv'
  BY <1>2, <1>3, <1>4, <1>5 DEF CountInv, PauseInv
<1>9. PhaseInv' /\ BoundInv'
  BY <1>1, <1>2 DEF PhaseInv, BoundInv
<1>10. CompleteInv'
  BY <1>1, <1>2, <1>3 DEF CompleteInv
<1> QED BY <1>6, <1>7, <1>8, <1>9, <1>10 DEF IInv

\* It goes into the stream of events.
LEMMA EmitFindingKept ==
    ASSUME IInv, EmitFinding
    PROVE  IInv'
<1>1. TypeOK /\ PlaceInv /\ CountInv /\ PhaseInv /\ CompleteInv /\ PauseInv /\ BoundInv
  BY DEF IInv
<1>2. /\ forwarder = "counted" /\ SendEvent(Finding(inHand)) /\ inHand' = 0
      /\ forwarder' = "recv"
      /\ pausedFindings' = IF isPaused THEN pausedFindings + 1 ELSE pausedFindings
      /\ UNCHANGED <<session, loaded, isPaused, pauses, cancelSignal, engine, requests,
                     findingChan, raised, findingCount, ticker, beat, ticks, tickerStop,
                     errorChan, errCount, errorInHand, shown>>
  BY DEF EmitFinding, start, control, work, heartbeat, errors
<1>3. /\ inHand \in 1..MaxRequests /\ inHand \notin Given
      /\ Cardinality(Given \cup {inHand}) = Cardinality(Given) + 1
      /\ Cardinality(Given) \in 0..MaxRequests
  BY <1>1, <1>2, GivenBound
<1>4. /\ Finding(inHand) \in Event /\ Finding(inHand).type = "finding"
      /\ Finding(inHand).finding = inHand
  BY <1>3, EventTypes
<1> DEFINE n == Len(Stream)
           e == Finding(inHand)
<1>5. /\ events' \in Seq(Event) /\ Len(events') <= EventCap
      /\ n \in Nat /\ Len(Stream') = n + 1 /\ Stream'[n + 1] = e
      /\ \A i \in 1..n : Stream'[i] = Stream[i]
      /\ FindingsAt' = FindingsAt \cup {n + 1} /\ Given' = Given \cup {inHand}
  BY <1>1, <1>2, <1>4, Sent
<1>6. /\ Channel' = Channel /\ Emitting' = Emitting /\ Hand = {inHand} /\ Hand' = {}
      /\ Counted = 1 /\ Counted' = 0
  BY <1>2 DEF Channel, Emitting, Hand, Counted
<1>7. FindingsAt \subseteq 1..n /\ \A i \in FindingsAt : Stream[i].finding \in Given
  BY <1>1, StreamType DEF Given
<1> HIDE DEF n, e
<1>8. pausedFindings' \in 0..MaxRequests /\ (isPaused => pausedFindings' <= 1)
  <2>1. pausedFindings \in 0..MaxRequests /\ MaxRequests \in Nat /\ MaxRequests >= 1
    BY <1>1, <1>3, Numbers DEF TypeOK
  <2>2. isPaused => pausedFindings + 1 <= 1
    BY <1>1, <1>6 DEF PauseInv
  <2> QED BY <1>2, <2>1, <2>2
<1>9. TypeOK'
  <2>1. 0 \in 0..MaxRequests
    BY Numbers
  <2> QED BY <1>1, <1>2, <1>5, <1>8, <2>1 DEF TypeOK
<1>10. PlaceInv'
  <2>1. \A i, j \in FindingsAt' : Stream'[i].finding = Stream'[j].finding => i = j
    <3>1. \A i \in FindingsAt : Stream'[i].finding = Stream[i].finding /\ Stream'[i].finding # inHand
      BY <1>3, <1>5, <1>7
    <3>2. Stream'[n + 1].finding = inHand
      BY <1>4, <1>5 DEF e
    <3>3. \A i, j \in FindingsAt : Stream[i].finding = Stream[j].finding => i = j
      BY <1>1 DEF PlaceInv
    <3> QED BY <1>5, <3>1, <3>2, <3>3
  <2>2. raised' = (Given \cup Channel \cup Hand \cup Emitting)'
    BY <1>1, <1>2, <1>5, <1>6 DEF PlaceInv
  <2>3. /\ Given' \cap (Channel \cup Hand \cup Emitting)' = {}
        /\ Channel' \cap (Hand \cup Emitting)' = {}
        /\ Hand' \cap Emitting' = {}
    BY <1>1, <1>5, <1>6 DEF PlaceInv
  <2> QED BY <1>1, <1>2, <2>1, <2>2, <2>3 DEF PlaceInv
<1>11. CountInv'
  BY <1>1, <1>2, <1>3, <1>5, <1>6 DEF CountInv
<1>12. PauseInv'
  <2>1. pausedFindings' \in Int
    BY <1>8
  <2> QED BY <1>2, <1>6, <1>8, <2>1 DEF PauseInv
<1>13. PhaseInv' /\ BoundInv'
  BY <1>1, <1>2 DEF PhaseInv, BoundInv
<1>14. CompleteInv'
  <2> SUFFICES ASSUME NEW i \in 1..Len(Stream'), Stream'[i].type = "completed" PROVE FALSE
    BY DEF CompleteInv
  <2>1. i \in 1..n
    BY <1>4, <1>5 DEF e
  <2>2. Stream[i].type = "completed" /\ i \in 1..Len(Stream)
    BY <1>5, <2>1 DEF n
  <2> QED BY <1>1, <1>2, <2>2 DEF CompleteInv
<1> QED BY <1>9, <1>10, <1>11, <1>12, <1>13, <1>14 DEF IInv

\* The forwarder has drained the channel and waits for the engine.
LEMMA StopTickerKept ==
    ASSUME IInv, StopTicker
    PROVE  IInv'
<1>1. TypeOK /\ PhaseInv /\ BoundInv
  BY DEF IInv
<1>2. /\ forwarder = "recv" /\ findingChan = << >> /\ engine = "returned"
      /\ tickerStop' = TRUE /\ forwarder' = "final"
      /\ UNCHANGED <<session, loaded, isPaused, pauses, cancelSignal, engine, requests,
                     findingChan, raised, inHand, findingCount, ticker, beat, ticks, errorChan,
                     errCount, errorInHand, events, shown, pausedFindings>>
  BY DEF StopTicker, start, control, work, errors
<1>3. TypeOK'
  BY <1>1, <1>2 DEF TypeOK
<1>4. PhaseInv' /\ BoundInv'
  BY <1>1, <1>2 DEF PhaseInv, BoundInv
<1>5. Hand' = Hand /\ Emitting' = Emitting /\ Counted' = Counted
  BY <1>2 DEF Hand, Emitting, Counted
<1>6. requests' >= requests
  BY <1>1, <1>2, Numbers DEF TypeOK
<1> QED BY <1>2, <1>3, <1>4, <1>5, <1>6, Aside

\* It reports full progress.
LEMMA FinalProgressKept ==
    ASSUME IInv, FinalProgress
    PROVE  IInv'
<1>1. TypeOK /\ PhaseInv /\ BoundInv
  BY DEF IInv
<1>2. /\ forwarder = "final" /\ SendEvent(Progress(TotalTasks)) /\ forwarder' = "completing"
      /\ UNCHANGED <<session, loaded, isPaused, pauses, cancelSignal, engine, requests,
                     findingChan, raised, inHand, findingCount, ticker, beat, ticks, tickerStop,
                     errorChan, errCount, errorInHand, shown, pausedFindings>>
  BY DEF FinalProgress, start, control, work, heartbeat, errors
<1>3. Progress(TotalTasks) \in Event /\ Progress(TotalTasks).type = "progress"
  BY EventTypes, Numbers
<1>4. events' \in Seq(Event) /\ Len(events') <= EventCap
  BY <1>1, <1>2, <1>3, Sent
<1>5. TypeOK'
  BY <1>1, <1>2, <1>4 DEF TypeOK
<1>6. PhaseInv' /\ BoundInv'
  BY <1>1, <1>2 DEF PhaseInv, BoundInv
<1>7. Hand' = Hand /\ Emitting' = Emitting /\ Counted' = Counted
  BY <1>2 DEF Hand, Emitting, Counted
<1>8. requests' >= requests
  BY <1>1, <1>2, Numbers DEF TypeOK
<1>9. Progress(TotalTasks).type \notin {"finding", "completed"}
  BY <1>3
<1> QED BY <1>2, <1>3, <1>5, <1>6, <1>7, <1>8, <1>9, Aside

\* It announces completion: by now every finding is in the stream.
LEMMA CompleteKept ==
    ASSUME IInv, Complete
    PROVE  IInv'
<1>1. TypeOK /\ PlaceInv /\ CountInv /\ PhaseInv /\ CompleteInv /\ PauseInv /\ BoundInv
  BY DEF IInv
<1>2. /\ forwarder = "completing" /\ SendEvent(Completed(findingCount)) /\ forwarder' = "done"
      /\ UNCHANGED <<session, loaded, isPaused, pauses, cancelSignal, engine, requests,
                     findingChan, raised, inHand, findingCount, ticker, beat, ticks, tickerStop,
                     errorChan, errCount, errorInHand, shown, pausedFindings>>
  BY DEF Complete, start, control, work, heartbeat, errors
<1> DEFINE n == Len(Stream)
           e == Completed(findingCount)
<1>3. findingCount \in 0..MaxRequests
  BY <1>1 DEF TypeOK
<1>4. e \in Event /\ e.type = "completed" /\ e.findings = findingCount
  BY <1>3, EventTypes
<1> HIDE DEF e
<1>5. SendEvent(e)
  BY <1>2 DEF e
<1>6. e.type # "finding"
  BY <1>4
<1>7. /\ events' \in Seq(Event) /\ Len(events') <= EventCap
      /\ n \in Nat /\ Len(Stream') = n + 1 /\ Stream'[n + 1] = e
      /\ \A i \in 1..n : Stream'[i] = Stream[i]
      /\ FindingsAt' = FindingsAt /\ Given' = Given
  BY <1>1, <1>2, <1>4, <1>5, <1>6, Sent
<1>8. /\ Channel' = Channel /\ Emitting' = Emitting /\ Hand' = Hand
      /\ Counted = 0 /\ Counted' = 0
  BY <1>2 DEF Channel, Emitting, Hand, Counted
<1>9. findingCount = Cardinality(Given)
  <2>1. Cardinality(Given) \in Nat
    BY <1>1, GivenBound, Numbers
  <2> QED BY <1>1, <1>8, <2>1 DEF CountInv
<1>10. FindingsAt \subseteq 1..n
  BY <1>1, StreamType
<1> HIDE DEF n
<1>11. TypeOK'
  BY <1>1, <1>2, <1>7 DEF TypeOK
<1>12. PlaceInv'
  <2>1. \A i \in FindingsAt : Stream'[i] = Stream[i]
    BY <1>7, <1>10
  <2> QED BY <1>1, <1>2, <1>7, <1>8, <2>1 DEF PlaceInv
<1>13. CountInv' /\ PauseInv'
  BY <1>1, <1>2, <1>7, <1>8 DEF CountInv, PauseInv
<1>14. PhaseInv' /\ BoundInv'
  BY <1>1, <1>2 DEF PhaseInv, BoundInv
<1>15. CompleteInv'
  <2> SUFFICES ASSUME NEW i \in 1..Len(Stream'), Stream'[i].type = "completed"
               PROVE  /\ forwarder' = "done"
                      /\ Stream'[i].findings = Cardinality(Given')
                      /\ \A j \in FindingsAt' : j < i
    BY DEF CompleteInv
  <2>1. CASE i = n + 1
    <3>1. \A j \in FindingsAt : j < n + 1
      BY <1>7, <1>10
    <3> QED BY <1>2, <1>4, <1>7, <1>9, <2>1, <3>1
  <2>2. CASE i \in 1..n
    <3>1. Stream[i].type = "completed" /\ i \in 1..Len(Stream)
      BY <1>7, <2>2 DEF n
    <3>2. forwarder = "done"
      BY <1>1, <3>1 DEF CompleteInv
    <3> QED BY <1>2, <3>2
  <2>3. i = n + 1 \/ i \in 1..n
    BY <1>7
  <2> QED BY <2>1, <2>2, <2>3
<1> QED BY <1>11, <1>12, <1>13, <1>14, <1>15 DEF IInv

\* The heartbeat.
LEMMA TickerKept ==
    ASSUME IInv, TickerStep
    PROVE  IInv'
<1>1. TypeOK /\ PhaseInv /\ BoundInv
  BY DEF IInv
<1>2. /\ UNCHANGED <<session, loaded, isPaused, pauses, cancelSignal, engine, requests,
                     findingChan, raised, forwarder, inHand, findingCount, tickerStop, errorChan,
                     errCount, errorInHand, shown, pausedFindings>>
      /\ ticks' = ticks \/ (ticks < MaxTicks /\ ticks' = ticks + 1)
      /\ ticker' \in {ticker, "waiting", "sending", "done"}
      /\ beat' \in {beat, CompletedRequests}
      /\ UNCHANGED events \/ SendEvent(Progress(beat))
  BY DEF TickerStep, TickerBeat, TickerSend, TickerStopped, start, control, work, forwarding, errors
<1>3. CompletedRequests \in 0..MaxRequests /\ CompletedRequests <= TotalTasks
  BY <1>1, Numbers DEF TypeOK, CompletedRequests
<1>4. beat' \in 0..MaxRequests /\ beat' <= TotalTasks
  BY <1>1, <1>2, <1>3 DEF TypeOK, BoundInv
<1>5. Progress(beat) \in Event /\ Progress(beat).type = "progress"
  <2>1. beat \in 0..TotalTasks
    BY <1>1, Numbers DEF TypeOK, BoundInv
  <2> QED BY <2>1, EventTypes
<1>6. events' \in Seq(Event) /\ Len(events') <= EventCap
  <2>1. CASE UNCHANGED events
    BY <1>1, <2>1 DEF TypeOK
  <2>2. CASE SendEvent(Progress(beat))
    BY <1>1, <1>2, <1>5, <2>2, Sent
  <2> QED BY <1>2, <2>1, <2>2
<1>7. ticks' \in 0..MaxTicks
  BY <1>1, <1>2, Numbers, SMTT(20) DEF TypeOK
<1>8. ticker' \in {"off", "waiting", "sending", "done"}
  BY <1>1, <1>2 DEF TypeOK
<1>9. TypeOK'
  BY <1>1, <1>2, <1>4, <1>6, <1>7, <1>8 DEF TypeOK
<1>10. PhaseInv' /\ BoundInv'
  BY <1>1, <1>2, <1>4 DEF PhaseInv, BoundInv
<1>11. Hand' = Hand /\ Emitting' = Emitting /\ Counted' = Counted
  BY <1>2 DEF Hand, Emitting, Counted
<1>12. requests' >= requests
  BY <1>1, <1>2, Numbers DEF TypeOK
<1>13. Progress(beat).type \notin {"finding", "completed"}
  BY <1>5
<1>14. \/ UNCHANGED <<events, shown>>
       \/ \E e \in Event : /\ e.type \notin {"finding", "completed"}
                           /\ SendEvent(e) /\ UNCHANGED shown
  BY <1>2, <1>5, <1>13
<1> QED BY <1>2, <1>9, <1>10, <1>11, <1>12, <1>14, Aside

\* The forwarder of errors.
LEMMA ErrorKept ==
    ASSUME IInv, ErrorStep
    PROVE  IInv'
<1>1. TypeOK /\ PhaseInv /\ BoundInv
  BY DEF IInv
<1>2. UNCHANGED <<session, loaded, isPaused, pauses, cancelSignal, engine, requests, findingChan,
                  raised, forwarder, inHand, findingCount, ticker, beat, ticks, tickerStop,
                  shown, pausedFindings>>
  BY DEF ErrorStep, ReceiveError, ForwardError, start, control, work, forwarding, heartbeat
<1>3. Hand' = Hand /\ Emitting' = Emitting /\ Counted' = Counted
  BY <1>2 DEF Hand, Emitting, Counted
<1>4. requests' >= requests
  BY <1>1, <1>2, Numbers DEF TypeOK
<1>5. /\ errorChan \in Seq(1..MaxRequests) /\ Len(errorChan) <= ErrorCap /\ Len(errorChan) \in Nat
      /\ errCount \in 0..MaxRequests /\ errorInHand \in 0..MaxRequests
      /\ requests \in 0..MaxRequests
  BY <1>1, LenProperties DEF TypeOK
<1>6. CASE ReceiveError
  <2>1. /\ errorChan # << >> /\ errCount' = errCount + 1 /\ errorChan' = Tail(errorChan)
        /\ errorInHand' \in {errorInHand, Head(errorChan)} /\ UNCHANGED events
    BY <1>6 DEF ReceiveError
  <2>2. /\ Head(errorChan) \in 1..MaxRequests /\ errorChan' \in Seq(1..MaxRequests)
        /\ Len(errorChan') = Len(errorChan) - 1
    BY <1>5, <2>1, HeadTailProperties
  <2>3. Len(errorChan') \in Nat
    BY <2>2, LenProperties
  <2>4. BoundInv' /\ errCount' \in 0..MaxRequests /\ Len(errorChan') <= ErrorCap
    BY <1>1, <1>2, <1>5, <2>1, <2>2, <2>3, Numbers DEF BoundInv
  <2>5. errorInHand' \in 0..MaxRequests
    BY <1>5, <2>1, <2>2
  <2>6. TypeOK'
    BY <1>1, <1>2, <2>1, <2>2, <2>4, <2>5 DEF TypeOK
  <2>7. PhaseInv'
    BY <1>1, <1>2 DEF PhaseInv
  <2> QED BY <1>2, <1>3, <1>4, <2>1, <2>4, <2>6, <2>7, Aside
<1>7. CASE ForwardError
  <2>1. /\ SendEvent(Error(errorInHand)) /\ errorInHand' = 0
        /\ UNCHANGED <<errorChan, errCount>>
    BY <1>7 DEF ForwardError
  <2>2. Error(errorInHand) \in Event /\ Error(errorInHand).type = "error"
    BY <1>5, EventTypes
  <2>3. events' \in Seq(Event) /\ Len(events') <= EventCap
    BY <1>1, <1>2, <2>1, <2>2, Sent
  <2>4. 0 \in 0..MaxRequests
    BY Numbers
  <2>5. TypeOK'
    BY <1>1, <1>2, <2>1, <2>3, <2>4 DEF TypeOK
  <2>6. PhaseInv' /\ BoundInv'
    BY <1>1, <1>2, <2>1 DEF PhaseInv, BoundInv
  <2>7. Error(errorInHand).type \notin {"finding", "completed"}
    BY <2>2
  <2> QED BY <1>2, <1>3, <1>4, <2>1, <2>2, <2>5, <2>6, <2>7, Aside
<1> QED BY <1>6, <1>7 DEF ErrorStep

\* The UI reads, pauses, resumes, cancels, starts another scan.
LEMMA ControlKept ==
    ASSUME IInv, \/ Show \/ PauseScan \/ ResumeScan \/ StartAnother \/ CancelScan
                 \/ UNCHANGED vars
    PROVE  IInv'
<1>1. TypeOK /\ PhaseInv /\ BoundInv
  BY DEF IInv
<1>2. /\ UNCHANGED <<session, loaded, engine, requests, findingChan, raised, forwarder, inHand,
                     findingCount, ticker, beat, ticks, tickerStop, errorChan, errCount,
                     errorInHand>>
      /\ Show \/ UNCHANGED <<events, shown>>
      /\ pauses' = pauses \/ (pauses < MaxPauses /\ pauses' = pauses + 1)
      /\ pausedFindings' \in {pausedFindings, 0}
      /\ isPaused' \in BOOLEAN /\ cancelSignal' \in BOOLEAN
      /\ isPaused' => pausedFindings' = 0 \/ (isPaused /\ pausedFindings' = pausedFindings)
  <2>0. isPaused \in BOOLEAN /\ cancelSignal \in BOOLEAN
    BY <1>1 DEF TypeOK
  <2>1. CASE Show
    BY <2>0, <2>1 DEF Show, start, control, work, forwarding, heartbeat, errors
  <2>2. CASE PauseScan
    BY <2>0, <2>2 DEF PauseScan, start, control, work, forwarding, heartbeat, errors
  <2>3. CASE ResumeScan
    BY <2>0, <2>3 DEF ResumeScan, start, control, work, forwarding, heartbeat, errors
  <2>4. CASE StartAnother
    BY <2>0, <2>4 DEF StartAnother, start, control, work, forwarding, heartbeat, errors
  <2>5. CASE CancelScan
    BY <2>0, <2>5 DEF CancelScan, start, control, work, forwarding, heartbeat, errors
  <2>6. CASE UNCHANGED vars
    BY <2>0, <2>6 DEF vars, start, control, work, forwarding, heartbeat, errors
  <2> QED BY <2>1, <2>2, <2>3, <2>4, <2>5, <2>6
<1>3. Hand' = Hand /\ Emitting' = Emitting /\ Counted' = Counted
  BY <1>2 DEF Hand, Emitting, Counted
<1>4. requests' >= requests
  BY <1>1, <1>2, Numbers DEF TypeOK
<1>5. events' \in Seq(Event) /\ Len(events') <= EventCap /\ shown' \in Seq(Event)
  <2>1. Len(events) \in Nat /\ events \in Seq(Event) /\ shown \in Seq(Event) /\ Len(events) <= EventCap
    BY <1>1, LenProperties DEF TypeOK
  <2>2. CASE UNCHANGED <<events, shown>>
    BY <2>1, <2>2
  <2>3. CASE Show
    <3>1. events' \in Seq(Event) /\ shown' \in Seq(Event) /\ Len(events') < Len(events)
      BY <1>1, <2>3, ShowSame
    <3>2. Len(events') \in Nat
      BY <3>1, LenProperties
    <3> QED BY <2>1, <3>1, <3>2, Numbers
  <2> QED BY <1>2, <2>2, <2>3
<1>6. pauses' \in 0..MaxPauses /\ pausedFindings' \in 0..MaxRequests
  BY <1>1, <1>2, Numbers, SMTT(20) DEF TypeOK
<1>7. TypeOK'
  BY <1>1, <1>2, <1>5, <1>6 DEF TypeOK
<1>8. PhaseInv' /\ BoundInv'
  BY <1>1, <1>2 DEF PhaseInv, BoundInv
<1> QED BY <1>2, <1>3, <1>4, <1>7, <1>8, Aside

(***************************************************************************)
(* The invariant and what follows from it.                                 *)
(***************************************************************************)
\* No session has begun.
LEMMA InitIInv == Init => IInv
<1> SUFFICES ASSUME Init PROVE IInv
  OBVIOUS
<1>1. << >> \in Seq(Event) /\ << >> \in Seq(1..MaxRequests) /\ Len(<< >>) = 0
  OBVIOUS
<1>2. TypeOK
  <2>1. /\ 0 \in 0..Len(Templates) /\ 0 \in 0..MaxPauses /\ 0 \in 0..MaxRequests
        /\ 0 \in 0..MaxTicks /\ 0 <= FindingCap /\ 0 <= ErrorCap /\ 0 <= EventCap
    BY Numbers
  <2> QED BY <1>1, <2>1 DEF Init, TypeOK
<1>3. Stream = << >>
  <2>1. shown = << >> /\ events = << >>
    BY DEF Init
  <2>2. << >> \o << >> = << >>
    BY <1>1, ConcatEmptySeq
  <2> QED BY <2>1, <2>2 DEF Stream
<1>4. Len(Stream) = 0 /\ FindingsAt = {}
  BY <1>1, <1>2, <1>3, StreamType
<1>5. Given = {} /\ Channel = {} /\ Hand = {} /\ Emitting = {} /\ Counted = 0
  <2>1. Given = {}
    BY <1>4 DEF Given
  <2>2. Channel = {}
    BY <1>1, LenProperties DEF Init, Channel, ToSet
  <2> QED BY <2>1, <2>2 DEF Init, Hand, Emitting, Counted
<1>6. PlaceInv
  <2>1. raised = {} /\ findingChan = << >> /\ 1..Len(findingChan) = {}
    BY <1>1 DEF Init
  <2> QED BY <1>4, <1>5, <2>1 DEF PlaceInv
<1>7. CountInv
  <2>1. Cardinality({}) = 0
    BY FS_EmptySet
  <2> QED BY <1>5, <2>1 DEF Init, CountInv
<1>8. PhaseInv /\ PauseInv
  BY DEF Init, PhaseInv, PauseInv
<1>9. CompleteInv
  BY <1>4 DEF CompleteInv
<1>10. BoundInv
  BY <1>1, Numbers DEF Init, BoundInv
<1> QED BY <1>2, <1>6, <1>7, <1>8, <1>9, <1>10 DEF IInv

\* Every step keeps the invariant, by the lemmas above.
LEMMA NextIInv == IInv /\ [Next]_vars => IInv'
<1> SUFFICES ASSUME IInv, [Next]_vars PROVE IInv'
  OBVIOUS
<1>1. CASE StartStep
  BY <1>1, StartKept
<1>2. CASE EngineStep
  BY <1>2, EngineKept
<1>3. CASE ForwarderStep
  BY <1>3, ReceiveFindingKept, ForwardFindingKept, EmitFindingKept, StopTickerKept,
     FinalProgressKept, CompleteKept DEF ForwarderStep
<1>4. CASE TickerStep
  BY <1>4, TickerKept
<1>5. CASE ErrorStep
  BY <1>5, ErrorKept
<1>6. CASE \/ Show \/ PauseScan \/ ResumeScan \/ StartAnother \/ CancelScan
           \/ Terminated \/ UNCHANGED vars
  BY <1>6, ControlKept DEF Terminated
<1> QED BY <1>1, <1>2, <1>3, <1>4, <1>5, <1>6 DEF Next

\* IInv holds throughout a session: every finding the engine of ui_bridge.rs has raised
\* is in one place, once, and the counter of the forwarder follows it.
THEOREM UiInvariance == Spec => []IInv
<1>1. Init => IInv
  BY InitIInv
<1>2. IInv /\ [Next]_vars => IInv'
  BY NextIInv
<1> QED BY <1>1, <1>2, PTL DEF Spec

\* The channels stay within their capacities and the counters within the requests.
THEOREM UiTypeCorrect == Spec => []TypeOK
<1>1. IInv => TypeOK
  BY DEF IInv
<1> QED BY <1>1, UiInvariance, PTL

\* When completion is announced, every finding raised is in the stream before it, once,
\* and the announced total is their number.
THEOREM CompletionIsExactHolds == Spec => []CompletionIsExact
<1>1. ASSUME IInv PROVE CompletionIsExact
  <2>1. TypeOK /\ PlaceInv /\ PhaseInv /\ CompleteInv
    BY <1>1 DEF IInv
  <2>2. DOMAIN Stream = 1..Len(Stream) /\ Len(Stream) \in Nat /\ FindingsAt \subseteq 1..Len(Stream)
    BY <2>1, StreamType
  <2> SUFFICES ASSUME NEW i \in 1..Len(Stream), Stream[i].type = "completed"
               PROVE  /\ {Stream[j].finding : j \in FindingsAt \cap 1..(i - 1)} = raised
                      /\ \A j, k \in FindingsAt : Stream[j].finding = Stream[k].finding => j = k
                      /\ Stream[i].findings = Cardinality(raised)
    BY <2>2 DEF CompletionIsExact
  <2>3. /\ forwarder = "done" /\ Stream[i].findings = Cardinality(Given)
        /\ \A j \in FindingsAt : j < i
    BY <2>1 DEF CompleteInv
  <2>4. engine = "returned" /\ findingChan = << >>
    BY <2>1, <2>3 DEF PhaseInv
  <2>5. Hand = {} /\ Emitting = {}
    BY <2>3, <2>4 DEF Hand, Emitting
  <2>6. Channel = {}
    <3>1. << >> \in Seq(1..MaxRequests) /\ Len(<< >>) = 0
      OBVIOUS
    <3> QED BY <2>4, <3>1, LenProperties DEF Channel, ToSet
  <2>7. raised = Given
    BY <2>1, <2>5, <2>6 DEF PlaceInv
  <2>8. FindingsAt \cap 1..(i - 1) = FindingsAt
    <3>1. \A j \in 1..Len(Stream) : j < i => j \in 1..(i - 1)
      BY <2>2
    <3>2. \A j \in FindingsAt : j \in 1..(i - 1)
      BY <2>2, <2>3, <3>1
    <3> QED BY <3>2
  <2> QED BY <2>1, <2>3, <2>7, <2>8 DEF Given, PlaceInv
<1> QED BY <1>1, UiInvariance, PTL

\* A pause lets through at most the one finding that was past the check of is_paused.
THEOREM PauseHoldsFindingsHolds == Spec => []PauseHoldsFindings
<1>1. ASSUME IInv PROVE PauseHoldsFindings
  <2>1. pausedFindings \in Int /\ (isPaused => pausedFindings + Counted <= 1)
    BY <1>1, Numbers DEF IInv, TypeOK, PauseInv
  <2>2. Counted \in {0, 1}
    BY DEF Counted
  <2> QED BY <2>1, <2>2 DEF PauseHoldsFindings
<1> QED BY <1>1, UiInvariance, PTL
===================================================================================
