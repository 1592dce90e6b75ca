------------------------------- MODULE Interactsh -------------------------------
(***************************************************************************)
(* Out-of-band correlation (src/src/engine/interactsh/mod.rs) and the part  *)
(* of the engine that drives it (runner/mod.rs): requests carry URLs of the *)
(* interactsh server, the target under test may or may not call them, the   *)
(* server records the calls, and a background poller fetches them and       *)
(* matches them with the requests.  When the workers are done the engine    *)
(* waits a cooldown, stops the poller and deregisters.                     *)
(*                                                                         *)
(* Time is counted in ticks: each timer of the code is a countdown, and     *)
(* Pass advances all of them.  A call to the server takes 0 to MaxHttpTime  *)
(* ticks.  The encryption of the protocol is left out; the server is        *)
(* external, modelled from how the client uses it.                         *)
(***************************************************************************)
EXTENDS Integers, Sequences, FiniteSets, SequencesExt

CONSTANTS
    Requests,       \* HTTP requests whose text holds {{interactsh-url}}
    UrlsOf,         \* UrlsOf[r]: the correlation URLs of r's markers, in order
    Protocols,      \* kinds of interaction: dns, http, ...
    Matching,       \* those the block's matchers match
    PollSecs,       \* INTERACTSH_POLL_SECS: 5 s
    CooldownSecs,   \* INTERACTSH_COOLDOWN_SECS: two seconds more
    KeepaliveSecs,  \* KEEPALIVE_INTERVAL: 60 s
    BackoffSecs,    \* wait after a failed registration: 60 s
    MaxHttpTime,    \* timeout of the client's calls to the server: 15 s
    MaxHits,        \* bound: interactions the target causes
    MaxFailures     \* bound: calls to the server that fail

Urls == UNION {ToSet(UrlsOf[r]) : r \in Requests}

ASSUME InteractshAssumption ==
    /\ UrlsOf \in [Requests -> Seq(Urls)]
    /\ \A r \in Requests : IsInjective(UrlsOf[r])
    /\ \A q, r \in Requests : q # r => ToSet(UrlsOf[q]) \cap ToSet(UrlsOf[r]) = {}
    /\ Matching \subseteq Protocols
    /\ {PollSecs, CooldownSecs, KeepaliveSecs, BackoffSecs, MaxHttpTime} \subseteq Nat
    /\ PollSecs < CooldownSecs
    /\ {MaxHits, MaxFailures} \subseteq Nat

VARIABLES
    engine,         \* run: "starting", "running", "cooldown", "deregistering", "done"
    left,           \* ticks left of the cooldown
    worker,         \* per request: "building", "inflight", "answered", "done", "skipped"
    next,           \* per request: the marker or URL its worker is at
    generated,      \* the URLs handed out (the flag `generated`, and which)
    age,            \* ticks since last_registered, up to KeepaliveSecs
    retryIn,        \* ticks until next_retry
    pending,        \* state.requests: URLs whose request waits for an interaction
    early,          \* state.early_interactions: how often each is in there
    poller,         \* "none", "waiting", "keepalive", "polling", "stopped"
    pollIn,         \* ticks until the next poll is due
    busy,           \* ticks the poller's call to the server has taken
    stop,           \* the watch channel stop_tx
    session,        \* server: the correlation id is registered
    inbox,          \* server: interactions nobody has fetched, told in the order of their ids
    hits,           \* interactions so far
    failures,       \* failed calls so far
    \* history, read by the properties only:
    evaluated,      \* how often each interaction was evaluated against its request
    fetched,        \* interactions the client has received
    registered,     \* URLs add_request was called for
    inTime,         \* interactions recorded while the workers were running
    pollSince,      \* a poll has started since the last URL was registered
    slow            \* ticks of the poller's longest call that the cooldown has met

session_vars == <<age, retryIn, session>>
work == <<worker, next, generated>>
table == <<pending, early>>
timer == <<poller, pollIn, busy>>
ending == <<engine, left, stop>>
history == <<evaluated, fetched, registered, inTime, pollSince>>
vars == <<session_vars, work, table, timer, ending, inbox, hits, failures, history, slow>>

Hit == [url : Urls, protocol : Protocols, id : 1..MaxHits]
Upto(n) == 0..n

TypeOK ==
    /\ engine \in {"starting", "running", "cooldown", "deregistering", "done"}
    /\ left \in Upto(CooldownSecs)
    /\ worker \in [Requests -> {"building", "inflight", "answered", "done", "skipped"}]
    /\ next \in [Requests -> Nat]
    /\ generated \subseteq Urls
    /\ age \in Upto(KeepaliveSecs)
    /\ retryIn \in Upto(BackoffSecs)
    /\ pending \subseteq Urls
    /\ early \in [Hit -> Nat]
    /\ poller \in {"none", "waiting", "keepalive", "polling", "stopped"}
    /\ pollIn \in Upto(PollSecs)
    /\ busy \in Upto(MaxHttpTime)
    /\ stop \in BOOLEAN
    /\ session \in BOOLEAN
    /\ inbox \subseteq Hit
    /\ hits \in Upto(MaxHits)
    /\ failures \in Upto(MaxFailures)
    /\ evaluated \in [Hit -> Nat]
    /\ fetched \subseteq Hit /\ registered \subseteq Urls /\ inTime \subseteq Hit
    /\ pollSince \in BOOLEAN
    /\ slow \in Upto(MaxHttpTime)

\* last_registered starts one keepalive interval in the past.
Init ==
    /\ engine = "starting"
    /\ left = 0
    /\ worker = [r \in Requests |-> "building"]
    /\ next = [r \in Requests |-> 1]
    /\ generated = {}
    /\ age = KeepaliveSecs
    /\ retryIn = 0
    /\ pending = {}
    /\ early = [h \in Hit |-> 0]
    /\ poller = "none"
    /\ pollIn = 0
    /\ busy = 0
    /\ stop = FALSE
    /\ session = FALSE
    /\ inbox = {}
    /\ hits = 0
    /\ failures = 0
    /\ evaluated = [h \in Hit |-> 0]
    /\ fetched = {} /\ registered = {} /\ inTime = {}
    /\ pollSince = TRUE
    /\ slow = 0

(***************************************************************************)
(* register() and its callers.                                             *)
(***************************************************************************)
RegisterOk ==
    /\ age' = 0
    /\ session' = TRUE
    /\ UNCHANGED <<retryIn, failures>>

RegisterFails ==
    /\ failures < MaxFailures
    /\ failures' = failures + 1
    /\ retryIn' = BackoffSecs
    /\ UNCHANGED <<age, session>>

NeedsRefresh == age >= KeepaliveSecs

\* run starts the poller only when the first registration succeeds.
StartSession ==
    /\ engine = "starting"
    /\ engine' = "running"
    /\ \/ RegisterOk /\ poller' = "waiting"
       \/ RegisterFails /\ UNCHANGED poller
    /\ UNCHANGED <<left, stop, work, table, pollIn, busy, inbox, hits, slow, history>>

(***************************************************************************)
(* Workers: substitute_interactsh, the request, register_interactsh_requests. *)
(***************************************************************************)
Marker(r) == UrlsOf[r][next[r]]
Step(r) == next' = [next EXCEPT ![r] = @ + 1]

\* generate_url: ensure_registered, then a fresh URL.
GenerateUrl(r) ==
    /\ engine = "running"
    /\ worker[r] = "building"
    /\ next[r] <= Len(UrlsOf[r])
    /\ \/ ~NeedsRefresh /\ UNCHANGED <<session_vars, failures>>
       \/ NeedsRefresh /\ retryIn = 0 /\ RegisterOk
    /\ generated' = generated \cup {Marker(r)}
    /\ Step(r)
    /\ UNCHANGED <<worker, table, timer, ending, inbox, hits, slow, history>>

\* generate_url in backoff or with a failing registration: the marker stays.
GenerateFails(r) ==
    /\ engine = "running"
    /\ worker[r] = "building"
    /\ next[r] <= Len(UrlsOf[r])
    /\ NeedsRefresh
    /\ \/ retryIn > 0 /\ UNCHANGED <<session_vars, failures>>
       \/ retryIn = 0 /\ RegisterFails
    /\ Step(r)
    /\ UNCHANGED <<worker, generated, table, timer, ending, inbox, hits, slow, history>>

Marked(r) == ToSet(UrlsOf[r]) \subseteq generated

\* A marker left in the URL or the body keeps the request from being sent; one
\* left in a header goes out as it is.
SendRequest(r) ==
    /\ worker[r] = "building"
    /\ next[r] > Len(UrlsOf[r])
    /\ \/ worker' = [worker EXCEPT ![r] = "inflight"]
       \/ ~Marked(r) /\ worker' = [worker EXCEPT ![r] = "skipped"]
    /\ next' = [next EXCEPT ![r] = 1]
    /\ UNCHANGED <<session_vars, generated, table, timer, ending, inbox, hits, slow,
                   failures, history>>

\* The response arrives, or the request fails and nothing is registered.
Respond(r) ==
    /\ worker[r] = "inflight"
    /\ \E outcome \in {"answered", "done"} : worker' = [worker EXCEPT ![r] = outcome]
    /\ UNCHANGED <<session_vars, next, generated, table, timer, ending, inbox, hits, slow,
                   failures, history>>

EarlyOf(u) == {h \in Hit : h.url = u /\ early[h] > 0}
HandedOver(u) == [h \in Hit |-> evaluated[h] + (IF h.url = u THEN early[h] ELSE 0)]

\* Mutant of AddRequest: stores the request without a look at the early ones.
AddRequestBlind(r) ==
    /\ worker[r] = "answered"
    /\ next[r] <= Len(UrlsOf[r])
    /\ Marker(r) \in generated
    /\ pending' = pending \cup {Marker(r)}
    /\ registered' = registered \cup {Marker(r)}
    /\ pollSince' = FALSE
    /\ Step(r)
    /\ UNCHANGED <<session_vars, worker, generated, early, evaluated, timer, ending,
                   inbox, hits, slow, failures, fetched, inTime>>

\* Mutant of AddRequest: reads the early interactions and leaves them there.
AddRequestKeepsEarly(r) ==
    /\ worker[r] = "answered"
    /\ next[r] <= Len(UrlsOf[r])
    /\ Marker(r) \in generated
    /\ LET u == Marker(r) IN
       IF EarlyOf(u) # {}
       THEN evaluated' = HandedOver(u) /\ UNCHANGED pending
       ELSE pending' = pending \cup {u} /\ UNCHANGED evaluated
    /\ registered' = registered \cup {Marker(r)}
    /\ pollSince' = FALSE
    /\ Step(r)
    /\ UNCHANGED <<session_vars, worker, generated, early, timer, ending, inbox, hits, slow,
                   failures, fetched, inTime>>

\* add_request, under the write lock: interactions that came early are handed
\* over and the request is not stored.
AddRequest(r) ==
    /\ worker[r] = "answered"
    /\ next[r] <= Len(UrlsOf[r])
    /\ Marker(r) \in generated
    /\ LET u == Marker(r) IN
       IF EarlyOf(u) # {}
       THEN /\ early' = [h \in Hit |-> IF h.url = u THEN 0 ELSE early[h]]
            /\ evaluated' = HandedOver(u)
            /\ UNCHANGED pending
       ELSE /\ pending' = pending \cup {u}
            /\ UNCHANGED <<early, evaluated>>
    /\ registered' = registered \cup {Marker(r)}
    /\ pollSince' = FALSE
    /\ Step(r)
    /\ UNCHANGED <<session_vars, worker, generated, timer, ending, inbox, hits, slow,
                   failures, fetched, inTime>>

\* No URL was generated for this marker, so there is none to register.
SkipMarker(r) ==
    /\ worker[r] = "answered"
    /\ next[r] <= Len(UrlsOf[r])
    /\ Marker(r) \notin generated
    /\ Step(r)
    /\ UNCHANGED <<session_vars, worker, generated, table, timer, ending, inbox,
                   hits, slow, failures, history>>

RequestDone(r) ==
    /\ worker[r] = "answered"
    /\ next[r] > Len(UrlsOf[r])
    /\ worker' = [worker EXCEPT ![r] = "done"]
    /\ UNCHANGED <<session_vars, next, generated, table, timer, ending, inbox, hits, slow,
                   failures, history>>

\* External: the target calls a URL it was sent, once or more, at any time.
Interact(r) ==
    /\ worker[r] \notin {"building", "skipped"}
    /\ hits < MaxHits
    /\ hits' = hits + 1
    /\ \E u \in ToSet(UrlsOf[r]) \cap generated, p \in Protocols :
         LET h == [url |-> u, protocol |-> p, id |-> hits + 1] IN
         /\ inbox' = IF session THEN inbox \cup {h} ELSE inbox
         /\ inTime' = IF session /\ engine = "running" THEN inTime \cup {h} ELSE inTime
    /\ UNCHANGED <<session_vars, work, table, timer, ending, failures, evaluated,
                   fetched, registered, pollSince, slow>>

(***************************************************************************)
(* poll_loop.                                                              *)
(***************************************************************************)
\* The interval fires; with Delay, the next tick is a period from this one.
PollTick ==
    /\ poller = "waiting"
    /\ pollIn = 0
    /\ pollIn' = PollSecs
    /\ busy' = 0
    /\ poller' = IF NeedsRefresh /\ retryIn = 0 THEN "keepalive" ELSE "polling"
    /\ pollSince' = TRUE
    /\ UNCHANGED <<session_vars, work, table, ending, inbox, hits, slow, failures,
                   evaluated, fetched, registered, inTime>>

Keepalive ==
    /\ poller = "keepalive"
    /\ RegisterOk \/ RegisterFails
    /\ poller' = "polling"
    /\ busy' = 0
    /\ UNCHANGED <<work, table, pollIn, ending, inbox, hits, slow, history>>

\* poll_once, under the write lock: the first interaction of a pending URL
\* takes the request out of the table and is evaluated, the others are early.
IsFirst(h) ==
    /\ h \in inbox /\ h.url \in pending
    /\ \A g \in inbox : g.url = h.url => h.id <= g.id
Matched == {h.url : h \in inbox}
FirstsEvaluated == [h \in Hit |-> evaluated[h] + (IF IsFirst(h) THEN 1 ELSE 0)]

\* Mutant of PollOnce: interactions of unknown URLs are thrown away.
PollOnceForgetful ==
    /\ poller = "polling"
    /\ session
    /\ pending' = pending \ Matched
    /\ evaluated' = FirstsEvaluated
    /\ fetched' = fetched \cup inbox
    /\ inbox' = {}
    /\ poller' = "waiting"
    /\ UNCHANGED <<session_vars, work, early, pollIn, busy, ending, hits, slow, failures,
                   registered, inTime, pollSince>>

PollOnce ==
    /\ poller = "polling"
    /\ session
    /\ pending' = pending \ Matched
    /\ early' = [h \in Hit |-> early[h] + (IF h \in inbox /\ ~IsFirst(h) THEN 1 ELSE 0)]
    /\ evaluated' = FirstsEvaluated
    /\ fetched' = fetched \cup inbox
    /\ inbox' = {}
    /\ poller' = "waiting"
    /\ UNCHANGED <<session_vars, work, pollIn, busy, ending, hits, slow, failures,
                   registered, inTime, pollSince>>

\* The call fails, before or after the server has let go of what it had, or
\* the session is gone.
PollFails ==
    /\ poller = "polling"
    /\ \/ ~session /\ UNCHANGED <<failures, inbox>>
       \/ /\ session
          /\ failures < MaxFailures
          /\ failures' = failures + 1
          /\ inbox' \in {inbox, {}}
    /\ poller' = "waiting"
    /\ UNCHANGED <<session_vars, work, table, pollIn, busy, ending, hits, slow, history>>

\* select! may take the stop even when a tick is due.
PollStop ==
    /\ poller = "waiting"
    /\ stop
    /\ poller' = "stopped"
    /\ UNCHANGED <<session_vars, work, table, pollIn, busy, ending, inbox, hits, slow,
                   failures, history>>

(***************************************************************************)
(* The end of run, and time.                                               *)
(***************************************************************************)
\* The poller is in a call to the server.
Calling == poller \in {"keepalive", "polling"}

\* All workers joined: the cooldown only when URLs were generated.
WorkersDone ==
    /\ engine = "running"
    /\ \A r \in Requests : worker[r] \in {"done", "skipped"}
    /\ \/ /\ poller = "none"
          /\ engine' = "done"
          /\ UNCHANGED <<left, stop, slow>>
       \/ /\ poller # "none"
          /\ generated # {}
          /\ engine' = "cooldown"
          /\ left' = CooldownSecs
          /\ slow' = IF Calling THEN busy ELSE 0
          /\ UNCHANGED stop
       \/ /\ poller # "none"
          /\ generated = {}
          /\ engine' = "deregistering"
          /\ stop' = TRUE
          /\ UNCHANGED <<left, slow>>
    /\ UNCHANGED <<session_vars, work, table, timer, inbox, hits, failures, history>>

\* Mutant of CooldownOver: stops the poller without waiting.
CooldownCut ==
    /\ engine = "cooldown"
    /\ stop' = TRUE
    /\ engine' = "deregistering"
    /\ UNCHANGED <<session_vars, work, table, timer, left, inbox, hits, slow, failures,
                   history>>

\* Mutant of CooldownOver: forgets to stop the poller.
CooldownNoStop ==
    /\ engine = "cooldown"
    /\ left = 0
    /\ engine' = "deregistering"
    /\ UNCHANGED <<session_vars, work, table, timer, left, stop, inbox, hits, slow, failures,
                   history>>

CooldownOver ==
    /\ engine = "cooldown"
    /\ left = 0
    /\ stop' = TRUE
    /\ engine' = "deregistering"
    /\ UNCHANGED <<session_vars, work, table, timer, left, inbox, hits, slow, failures,
                   history>>

\* deregister ignores the outcome of its call.
Deregister ==
    /\ engine = "deregistering"
    /\ engine' = "done"
    /\ \/ /\ session' = FALSE
          /\ inbox' = {}
          /\ UNCHANGED failures
       \/ /\ failures < MaxFailures
          /\ failures' = failures + 1
          /\ UNCHANGED <<session, inbox>>
    /\ UNCHANGED <<age, retryIn, work, table, timer, left, stop, hits, slow, history>>

\* Mutant of Down: a timer that is due runs below zero.
DownBelowZero(n) == n - 1

Down(n) == IF n > 0 THEN n - 1 ELSE 0

\* One tick.  No timer that is due is passed over, and no call to the server
\* outlives its timeout.
Pass ==
    /\ engine # "starting"
    /\ ~(engine = "done" /\ poller \in {"none", "stopped"})
    /\ poller = "waiting" => pollIn > 0
    /\ engine = "cooldown" => left > 0
    /\ Calling => busy < MaxHttpTime
    /\ age' = IF age < KeepaliveSecs THEN age + 1 ELSE age
    /\ retryIn' = Down(retryIn)
    /\ pollIn' = Down(pollIn)
    /\ left' = Down(left)
    /\ busy' = IF Calling THEN busy + 1 ELSE busy
    /\ slow' = IF engine = "cooldown" /\ Calling /\ busy >= slow THEN busy + 1 ELSE slow
    /\ UNCHANGED <<session, work, table, poller, engine, stop, inbox, hits, failures,
                   history>>

Ended == engine = "done" /\ poller \in {"none", "stopped"}

Terminated == Ended /\ UNCHANGED vars

WorkerStep(r) ==
    \/ GenerateUrl(r) \/ GenerateFails(r) \/ SendRequest(r) \/ Respond(r)
    \/ AddRequest(r) \/ SkipMarker(r) \/ RequestDone(r)

PollerStep == PollTick \/ Keepalive \/ PollOnce \/ PollFails \/ PollStop
EngineStep == StartSession \/ WorkersDone \/ CooldownOver \/ Deregister

Next ==
    \/ \E r \in Requests : WorkerStep(r) \/ Interact(r)
    \/ PollerStep
    \/ EngineStep
    \/ Pass
    \/ Terminated

Spec == Init /\ [][Next]_vars

\* Spawned tasks are polled, time passes, and calls end by their timeout.
Fairness ==
    /\ \A r \in Requests : WF_vars(WorkerStep(r))
    /\ WF_vars(PollerStep)
    /\ SF_vars(PollStop)
    /\ WF_vars(EngineStep)
    /\ WF_vars(Pass)

FairSpec == Spec /\ Fairness

(***************************************************************************)
(* Properties.                                                             *)
(***************************************************************************)
\* The two halves of the rendezvous, add_request in a worker and poll_once in
\* the poller, never leave a URL with both a stored request and an interaction
\* set aside as early: each would wait for the other for ever.
NobodyStranded == \A u \in pending : EarlyOf(u) = {}

\* An interaction the client has fetched is in one place: evaluated, or set
\* aside as early; it is neither lost nor evaluated twice, though it may come
\* before or after add_request and shares its poll with others.
FetchedOnce ==
    \A h \in fetched : evaluated[h] + early[h] = 1

\* End to end, if no call fails and those the cooldown meets are short, so that the
\* wait for the next poll, a keepalive and the poll are over before it is: when the
\* target called a URL before the workers were done, and the request of the URL was
\* answered, an interaction of that URL is evaluated.  (WorkersDone, poll_loop.)
FirstHitEvaluated ==
    Ended /\ failures = 0 /\ PollSecs + 2 * slow < CooldownSecs =>
        \A h \in inTime : h.url \in registered =>
            \E g \in Hit : g.url = h.url /\ evaluated[g] > 0

\* A poll starts after the last URL was registered and before the poller stops, unless
\* a call to the server takes half the cooldown or more: a keepalive and a poll under
\* way when the cooldown begins are what the next poll waits for.
FinalPollUnlessSlow == poller = "stopped" /\ 2 * slow < CooldownSecs => pollSince

\* The engine gets rid of the poller and returns, whatever the server does.
Terminates == <>Ended

(***************************************************************************)
(* What comments of the source say and the code does not do.               *)
(***************************************************************************)
\* "The cooldown exceeds one poll interval so that a final poll reliably runs after the
\* last request is registered": a poll has started since, when the poller stops.
FinalPollRuns == poller = "stopped" => pollSince

\* "the poller can match interactions against this block's matchers": every
\* interaction fetched for a registered URL is evaluated, if it would match.
MatchingHitEvaluated ==
    \A h \in fetched : h.protocol \in Matching /\ h.url \in registered =>
        evaluated[h] > 0
================================================================================
