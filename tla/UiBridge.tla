-------------------------------- MODULE UiBridge --------------------------------
(***************************************************************************)
(* A scan session of NucleiUiEngine (src/src/ui_bridge.rs): start_scan sets *)
(* up the engine and four concurrent tasks (the engine, the forwarder of    *)
(* findings, the heartbeat ticker, the forwarder of errors) that write into *)
(* the one bounded channel of events the UI reads; pause, resume and cancel *)
(* come from the UI at any time.                                           *)
(*                                                                         *)
(* The engine is seen from the bridge: it sends requests, each of which may *)
(* make a finding or an error, until it has sent all of them or fewer (a    *)
(* dropped host, an early stop).                                           *)
(***************************************************************************)
EXTENDS Integers, Sequences, FiniteSets, SequencesExt

CONSTANTS
    Templates,      \* raw_templates: for each, whether it parses
    TotalTasks,     \* total_tasks, the size of the vector of tasks
    MaxRequests,    \* bound: requests the engine sends
    FindingCap,     \* capacity of the finding channel (500)
    ErrorCap,       \* capacity of the error channel (500)
    EventCap,       \* capacity of the UI's event channel
    FreeErrors,     \* errors that are forwarded whatever they say (5)
    MaxTicks,       \* bound: heartbeats of the ticker
    MaxPauses       \* bound: calls to pause_scan

ASSUME UiAssumption ==
    /\ Templates \in Seq(BOOLEAN)
    /\ {FindingCap, ErrorCap, EventCap} \subseteq Nat \ {0}
    /\ {TotalTasks, MaxRequests, FreeErrors, MaxTicks, MaxPauses} \subseteq Nat

VARIABLES
    session,        \* start_scan: "idle", "loading", "starting", "returned"
    loaded,         \* raw templates looked at
    isPaused,       \* is_paused
    pauses,         \* calls to pause_scan so far
    cancelSignal,   \* the watch channel cancel_tx writes to
    engine,         \* "off", "running", "sending" (a finding in hand), "returned"
    requests,       \* request_counter
    findingChan,    \* findings on their way to the forwarder
    errorChan,      \* errors on their way to their forwarder
    forwarder,      \* "off", "recv", "held", "counted", "final", "completing", "done"
    inHand,         \* the finding the forwarder holds
    findingCount,   \* finding_count
    ticker,         \* "off", "waiting", "sending", "done"
    beat,           \* the count the ticker has read
    ticks,          \* heartbeats so far
    tickerStop,     \* the watch channel ticker_stop_tx
    errCount,       \* err_count: errors received
    errorInHand,    \* the error its forwarder is about to send, 0 for none
    events,         \* the channel of events
    shown,          \* the events the UI has received, in order
    \* history, read by the properties only:
    raised,         \* findings the engine has raised
    pausedFindings  \* findings sent to the UI since pause_scan

start == <<session, loaded>>
control == <<isPaused, pauses, cancelSignal>>
work == <<engine, requests, findingChan, raised>>
forwarding == <<forwarder, inHand, findingCount>>
heartbeat == <<ticker, beat, ticks, tickerStop>>
errors == <<errorChan, errCount, errorInHand>>
vars == <<start, control, work, forwarding, heartbeat, errors, events, shown, pausedFindings>>

Started == [type |-> "started"]
Progress(n) == [type |-> "progress", requests |-> n]
Finding(f) == [type |-> "finding", finding |-> f]
Error(e) == [type |-> "error", request |-> e]
Completed(n) == [type |-> "completed", findings |-> n]

Event == {Started}
    \cup {Progress(n) : n \in 0..TotalTasks}
    \cup {Finding(f) : f \in 1..MaxRequests}
    \cup {Error(e) : e \in 0..MaxRequests}
    \cup {Completed(n) : n \in 0..MaxRequests}

TypeOK ==
    /\ session \in {"idle", "loading", "starting", "returned"}
    /\ loaded \in 0..Len(Templates)
    /\ isPaused \in BOOLEAN /\ cancelSignal \in BOOLEAN /\ tickerStop \in BOOLEAN
    /\ pauses \in 0..MaxPauses
    /\ engine \in {"off", "running", "sending", "returned"}
    /\ requests \in 0..MaxRequests
    /\ findingChan \in Seq(1..MaxRequests) /\ Len(findingChan) <= FindingCap
    /\ errorChan \in Seq(1..MaxRequests) /\ Len(errorChan) <= ErrorCap
    /\ forwarder \in {"off", "recv", "held", "counted", "final", "completing", "done"}
    /\ inHand \in 0..MaxRequests
    /\ findingCount \in 0..MaxRequests
    /\ ticker \in {"off", "waiting", "sending", "done"}
    /\ beat \in 0..MaxRequests
    /\ ticks \in 0..MaxTicks
    /\ {errCount, errorInHand} \subseteq 0..MaxRequests
    /\ events \in Seq(Event) /\ Len(events) <= EventCap
    /\ shown \in Seq(Event)
    /\ raised \subseteq 1..MaxRequests
    /\ pausedFindings \in 0..MaxRequests

Init ==
    /\ session = "idle" /\ loaded = 0
    /\ isPaused = FALSE /\ pauses = 0 /\ cancelSignal = FALSE
    /\ engine = "off" /\ requests = 0 /\ findingChan = << >> /\ raised = {}
    /\ forwarder = "off" /\ inHand = 0 /\ findingCount = 0
    /\ ticker = "off" /\ beat = 0 /\ ticks = 0 /\ tickerStop = FALSE
    /\ errorChan = << >> /\ errCount = 0 /\ errorInHand = 0
    /\ events = << >> /\ shown = << >>
    /\ pausedFindings = 0

\* Mutant of SendEvent: the channel is unbounded.
SendEventUnbounded(e) == events' = Append(events, e)

\* event_tx.send(event).await
SendEvent(e) ==
    /\ Len(events) < EventCap
    /\ events' = Append(events, e)

(***************************************************************************)
(* start_scan.                                                             *)
(***************************************************************************)
StartScan ==
    /\ session = "idle"
    /\ session' = "loading"
    /\ cancelSignal' = FALSE
    /\ isPaused' = FALSE
    /\ UNCHANGED <<loaded, pauses, work, forwarding, heartbeat, errors, events, shown,
                   pausedFindings>>

\* A raw template that does not parse is reported as an error.
LoadRaw ==
    /\ session = "loading"
    /\ loaded < Len(Templates)
    /\ loaded' = loaded + 1
    /\ IF Templates[loaded + 1] THEN UNCHANGED events ELSE SendEvent(Error(0))
    /\ UNCHANGED <<session, control, work, forwarding, heartbeat, errors, shown, pausedFindings>>

AnnounceStart ==
    /\ session = "loading"
    /\ loaded = Len(Templates)
    /\ SendEvent(Started)
    /\ session' = "starting"
    /\ UNCHANGED <<loaded, control, work, forwarding, heartbeat, errors, shown, pausedFindings>>

\* The tasks are spawned and start_scan returns.
SpawnTasks ==
    /\ session = "starting"
    /\ session' = "returned"
    /\ engine' = "running"
    /\ forwarder' = "recv"
    /\ ticker' = "waiting"
    /\ UNCHANGED <<loaded, control, requests, findingChan, raised, inHand, findingCount,
                   beat, ticks, tickerStop, errors, events, shown, pausedFindings>>

(***************************************************************************)
(* The engine, as far as the bridge sees it.  Nothing reads cancelSignal:   *)
(* the receiver is kept in _cancel_rx and dropped.                         *)
(***************************************************************************)
\* A failed request is offered to the error channel with try_send.
EngineRequest ==
    /\ engine = "running"
    /\ requests < MaxRequests
    /\ requests' = requests + 1
    /\ \/ UNCHANGED <<engine, errorChan, raised>>
       \/ /\ engine' = "sending"
          /\ raised' = raised \cup {requests + 1}
          /\ UNCHANGED errorChan
       \/ /\ errorChan' = IF Len(errorChan) < ErrorCap
                          THEN Append(errorChan, requests + 1) ELSE errorChan
          /\ UNCHANGED <<engine, raised>>
    /\ UNCHANGED <<start, control, findingChan, forwarding, heartbeat, errCount,
                   errorInHand, events, shown, pausedFindings>>

EngineEmit ==
    /\ engine = "sending"
    /\ Len(findingChan) < FindingCap
    /\ findingChan' = Append(findingChan, requests)
    /\ engine' = "running"
    /\ UNCHANGED <<start, control, requests, raised, forwarding, heartbeat, errors,
                   events, shown, pausedFindings>>

EngineReturn ==
    /\ engine = "running"
    /\ engine' = "returned"
    /\ UNCHANGED <<start, control, requests, findingChan, raised, forwarding, heartbeat,
                   errors, events, shown, pausedFindings>>

(***************************************************************************)
(* The forwarder of findings.                                              *)
(***************************************************************************)
ReceiveFinding ==
    /\ forwarder = "recv"
    /\ findingChan # << >>
    /\ inHand' = Head(findingChan)
    /\ findingChan' = Tail(findingChan)
    /\ forwarder' = "held"
    /\ UNCHANGED <<start, control, engine, requests, raised, findingCount, heartbeat,
                   errors, events, shown, pausedFindings>>

\* Mutant of ForwardFinding: does not look at is_paused.
ForwardUnpaused ==
    /\ forwarder = "held"
    /\ forwarder' = "counted"
    /\ findingCount' = findingCount + 1
    /\ UNCHANGED <<start, control, work, inHand, heartbeat, errors, events, shown, pausedFindings>>

\* Spins while is_paused; then pausedFindings and sends.
ForwardFinding ==
    /\ forwarder = "held"
    /\ ~isPaused
    /\ forwarder' = "counted"
    /\ findingCount' = findingCount + 1
    /\ UNCHANGED <<start, control, work, inHand, heartbeat, errors, events, shown, pausedFindings>>

EmitFinding ==
    /\ forwarder = "counted"
    /\ SendEvent(Finding(inHand))
    /\ inHand' = 0
    /\ forwarder' = "recv"
    /\ pausedFindings' = IF isPaused THEN pausedFindings + 1 ELSE pausedFindings
    /\ UNCHANGED <<start, control, work, findingCount, heartbeat, errors, shown>>

\* Mutant of StopTicker: an empty channel is taken for a closed one.
StopTickerOnEmpty ==
    /\ forwarder = "recv"
    /\ findingChan = << >>
    /\ tickerStop' = TRUE
    /\ forwarder' = "final"
    /\ UNCHANGED <<start, control, work, inHand, findingCount, ticker, beat, ticks,
                   errors, events, shown, pausedFindings>>

\* Mutant of StopTicker: waits for every request that was planned.
StopTickerAllSent ==
    /\ forwarder = "recv"
    /\ findingChan = << >>
    /\ engine = "returned"
    /\ requests = MaxRequests
    /\ tickerStop' = TRUE
    /\ forwarder' = "final"
    /\ UNCHANGED <<start, control, work, inHand, findingCount, ticker, beat, ticks,
                   errors, events, shown, pausedFindings>>

\* The channel is closed and drained, the engine is joined, the ticker stopped.
StopTicker ==
    /\ forwarder = "recv"
    /\ findingChan = << >>
    /\ engine = "returned"
    /\ tickerStop' = TRUE
    /\ forwarder' = "final"
    /\ UNCHANGED <<start, control, work, inHand, findingCount, ticker, beat, ticks,
                   errors, events, shown, pausedFindings>>

FinalProgress ==
    /\ forwarder = "final"
    /\ SendEvent(Progress(TotalTasks))
    /\ forwarder' = "completing"
    /\ UNCHANGED <<start, control, work, inHand, findingCount, heartbeat, errors, shown,
                   pausedFindings>>

Complete ==
    /\ forwarder = "completing"
    /\ SendEvent(Completed(findingCount))
    /\ forwarder' = "done"
    /\ UNCHANGED <<start, control, work, inHand, findingCount, heartbeat, errors, shown,
                   pausedFindings>>

(***************************************************************************)
(* The ticker and the forwarder of errors.                                 *)
(***************************************************************************)
CompletedRequests == IF requests < TotalTasks THEN requests ELSE TotalTasks

\* A heartbeat: the stop flag and the counter are read before the send.
TickerBeat ==
    /\ ticker = "waiting"
    /\ ticks < MaxTicks
    /\ ticks' = ticks + 1
    /\ \/ tickerStop /\ ticker' = "done" /\ UNCHANGED beat
       \/ ~tickerStop /\ ~isPaused /\ ticker' = "sending" /\ beat' = CompletedRequests
       \/ ~tickerStop /\ isPaused /\ UNCHANGED <<ticker, beat>>
    /\ UNCHANGED <<start, control, work, forwarding, tickerStop, errors, events, shown,
                   pausedFindings>>

TickerSend ==
    /\ ticker = "sending"
    /\ SendEvent(Progress(beat))
    /\ ticker' = "waiting"
    /\ UNCHANGED <<start, control, work, forwarding, beat, ticks, tickerStop, errors,
                   shown, pausedFindings>>

TickerStopped ==
    /\ ticker = "waiting"
    /\ tickerStop
    /\ ticker' = "done"
    /\ UNCHANGED <<start, control, work, forwarding, beat, ticks, tickerStop, errors,
                   events, shown, pausedFindings>>

\* The first errors are all forwarded; later ones may be held back, when they
\* repeat the last message within a second.
ReceiveError ==
    /\ errorInHand = 0
    /\ errorChan # << >>
    /\ errCount' = errCount + 1
    /\ \/ errorInHand' = Head(errorChan)
       \/ errCount + 1 > FreeErrors /\ UNCHANGED errorInHand
    /\ errorChan' = Tail(errorChan)
    /\ UNCHANGED <<start, control, work, forwarding, heartbeat, events, shown, pausedFindings>>

ForwardError ==
    /\ errorInHand # 0
    /\ SendEvent(Error(errorInHand))
    /\ errorInHand' = 0
    /\ UNCHANGED <<start, control, work, forwarding, heartbeat, errorChan, errCount,
                   shown, pausedFindings>>

(***************************************************************************)
(* The UI.                                                                 *)
(***************************************************************************)
Show ==
    /\ events # << >>
    /\ shown' = Append(shown, Head(events))
    /\ events' = Tail(events)
    /\ UNCHANGED <<start, control, work, forwarding, heartbeat, errors, pausedFindings>>

PauseScan ==
    /\ pauses < MaxPauses
    /\ ~isPaused
    /\ pauses' = pauses + 1
    /\ isPaused' = TRUE
    /\ pausedFindings' = 0
    /\ UNCHANGED <<start, cancelSignal, work, forwarding, heartbeat, errors, events,
                   shown>>

ResumeScan ==
    /\ isPaused
    /\ isPaused' = FALSE
    /\ UNCHANGED <<start, pauses, cancelSignal, work, forwarding, heartbeat, errors,
                   events, shown, pausedFindings>>

\* start_scan is called for another scan while this one is under way: is_paused and
\* cancel_tx are of the engine, not of the session, and begin anew.
StartAnother ==
    /\ session = "returned"
    /\ isPaused' = FALSE
    /\ cancelSignal' = FALSE
    /\ UNCHANGED <<start, pauses, work, forwarding, heartbeat, errors, events, shown,
                   pausedFindings>>

CancelScan ==
    /\ session # "idle"
    /\ ~cancelSignal
    /\ cancelSignal' = TRUE
    /\ UNCHANGED <<start, isPaused, pauses, work, forwarding, heartbeat, errors, events,
                   shown, pausedFindings>>

Quiet ==
    /\ forwarder = "done" /\ ticker = "done"
    /\ errorChan = << >> /\ errorInHand = 0 /\ events = << >>

Terminated == Quiet /\ UNCHANGED vars

StartStep == StartScan \/ LoadRaw \/ AnnounceStart \/ SpawnTasks
EngineStep == EngineRequest \/ EngineEmit \/ EngineReturn
ForwarderStep ==
    ReceiveFinding \/ ForwardFinding \/ EmitFinding \/ StopTicker \/ FinalProgress \/ Complete
TickerStep == TickerBeat \/ TickerSend \/ TickerStopped
ErrorStep == ReceiveError \/ ForwardError

Next ==
    \/ StartStep
    \/ EngineStep
    \/ ForwarderStep
    \/ TickerStep
    \/ ErrorStep
    \/ Show
    \/ PauseScan
    \/ ResumeScan
    \/ StartAnother
    \/ CancelScan
    \/ Terminated

Spec == Init /\ [][Next]_vars

\* Every task is polled; the UI reads its events; senders that wait for room in
\* the channel of events are served in turn.
Fairness ==
    /\ WF_vars(StartStep)
    /\ WF_vars(EngineStep)
    /\ WF_vars(ForwarderStep)
    /\ SF_vars(EmitFinding \/ FinalProgress \/ Complete)
    /\ SF_vars(TickerSend)
    /\ WF_vars(TickerStopped)
    /\ SF_vars(ForwardError)
    /\ WF_vars(ReceiveError)
    /\ WF_vars(Show)

FairSpec == Spec /\ Fairness

(***************************************************************************)
(* Properties.                                                             *)
(***************************************************************************)
Stream == shown \o events
FindingsAt == {i \in DOMAIN Stream : Stream[i].type = "finding"}

\* When completion is announced, the stream already holds every finding the
\* engine raised, each once, and the announced total is their number, whatever
\* was paused in between.
CompletionIsExact ==
    \A i \in DOMAIN Stream : Stream[i].type = "completed" =>
        LET before == FindingsAt \cap 1..(i - 1) IN
        /\ {Stream[j].finding : j \in before} = raised
        /\ \A j, k \in FindingsAt : Stream[j].finding = Stream[k].finding => j = k
        /\ Stream[i].findings = Cardinality(raised)

\* A pause lets through at most the one finding the forwarder was past the
\* check with.
PauseHoldsFindings == isPaused => pausedFindings <= 1

\* Completion is announced unless the scan is left paused for ever.
CompletionAnnounced ==
    []<>~isPaused => <>(\E i \in DOMAIN shown : shown[i].type = "completed")
================================================================================
