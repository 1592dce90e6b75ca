-------------------------------- MODULE HttpClient --------------------------------
(***************************************************************************)
(* HttpClient of src/src/engine/http_client.rs: the clients pooled by the    *)
(* policy of a request, with a cookie jar each; the retries of a request;    *)
(* the redirects its policy lets it follow; and the capped reading of the    *)
(* body.  Every request runs in a worker of its own, all of them on one      *)
(* HttpClient.  reqwest is external: it keeps a jar per client, adds what    *)
(* the jar has for a host to each request sent there, asks the policy at    *)
(* each redirect, and gives up a request at its timeout, which may be at     *)
(* any moment.                                                             *)
(***************************************************************************)
EXTENDS Integers, Sequences, SequencesExt

CONSTANTS
    Workers,
    Scenarios,      \* what the workers request: url, policy, whether it is wellFormed
    Urls,           \* the URLs servers redirect to
    Retries,
    DefaultMax,     \* DEFAULT_MAX_REDIRECTS
    MaxBody         \* MAX_BODY_READ, in chunks of the smallest size

Flows == {"DontFollow", "FollowAll", "FollowSameHost"}
Policies == {s[r].policy : s \in Scenarios, r \in Workers}
AllUrls == Urls \cup {s[r].url : s \in Scenarios, r \in Workers}
Hosts == {u.host : u \in AllUrls}

\* A url has a scheme, a host and a port, 0 for the default one of the scheme, as
\* url::Url keeps it; policy.max is as the template has it.
ASSUME HttpAssumption ==
    /\ Scenarios \subseteq
          [Workers -> [url : [scheme : {"http", "https"}, host : STRING, port : Nat],
                       policy : [flow : Flows, max : Nat, cookies : BOOLEAN],
                       wellFormed : BOOLEAN]]
    /\ Urls \subseteq [scheme : {"http", "https"}, host : STRING, port : Nat]
    /\ Retries \in Nat
    /\ {DefaultMax, MaxBody} \subseteq Nat \ {0}

VARIABLES
    requests,   \* the scenario
    clients,    \* the pool: the client of a key, 0 if it has none
    jars,       \* per client: the hosts it has a cookie of
    state,      \* where send_raw, send and execute stand
    held,       \* the client of the request
    attempt,
    chain,      \* the URLs of the attempt so far: attempt.previous()
    body,       \* what is read of the body
    \* history, read by the properties only:
    given,      \* the cookies servers have set: the policy of the request and the host
    carried,    \* per request: it carried the cookie of the host it was last sent to
    due         \* ... and a host had set one under the same policy before

history == <<given, carried, due>>
httpVars == <<requests, clients, jars, state, held, attempt, chain, body, history>>

MaxRedirects(r) == IF requests[r].policy.max = 0 THEN DefaultMax ELSE requests[r].policy.max

KeyOf(p) == [p EXCEPT !.max = IF @ = 0 THEN DefaultMax ELSE @]
Keys == {KeyOf(p) : p \in Policies}

States == {"parsing", "pool", "attempt", "waiting", "reading", "done", "failed"}

HttpTypeOK ==
    /\ requests \in Scenarios
    /\ clients \in [Keys -> 0..Len(jars)]
    /\ jars \in Seq(SUBSET Hosts)
    /\ state \in [Workers -> States]
    /\ held \in [Workers -> 0..Len(jars)]
    /\ attempt \in [Workers -> 0..Retries + 1]
    /\ chain \in [Workers -> Seq(AllUrls)]
    /\ body \in [Workers -> 0..MaxBody]
    /\ given \subseteq Keys \X Hosts
    /\ {carried, due} \subseteq [Workers -> BOOLEAN]

HttpInit ==
    /\ requests \in Scenarios
    /\ clients = [k \in Keys |-> 0]
    /\ jars = << >>
    /\ state = [r \in Workers |-> "parsing"]
    /\ held = [r \in Workers |-> 0]
    /\ attempt = [r \in Workers |-> 0]
    /\ chain = [r \in Workers |-> << >>]
    /\ body = [r \in Workers |-> 0]
    /\ given = {}
    /\ carried = [r \in Workers |-> FALSE]
    /\ due = [r \in Workers |-> FALSE]

Goto(r, s) == state' = [state EXCEPT ![r] = s]

(***************************************************************************)
(* parse_raw_request and client_for.                                       *)
(***************************************************************************)
\* A raw request without a request line is an error before anything is sent.
ParseRawRequest(r) ==
    /\ state[r] = "parsing"
    /\ Goto(r, IF requests[r].wellFormed THEN "pool" ELSE "failed")
    /\ UNCHANGED <<requests, clients, jars, held, attempt, chain, body, history>>

\* Mutant of ClientFor: the pool is not looked at.
ClientForRebuilds(r) ==
    /\ state[r] = "pool"
    /\ jars' = Append(jars, {})
    /\ clients' = [clients EXCEPT ![KeyOf(requests[r].policy)] = Len(jars')]
    /\ held' = [held EXCEPT ![r] = Len(jars')]
    /\ Goto(r, "attempt")
    /\ UNCHANGED <<requests, attempt, chain, body, history>>

\* Under the lock of the pool.  The fallback of build_client is left out: build fails
\* only where TLS or the resolver cannot be set up, and there Client::new panics too.
ClientFor(r) ==
    /\ state[r] = "pool"
    /\ LET key == KeyOf(requests[r].policy)
       IN  /\ IF clients[key] # 0 THEN UNCHANGED <<clients, jars>>
              ELSE /\ jars' = Append(jars, {})
                   /\ clients' = [clients EXCEPT ![key] = Len(jars')]
           /\ held' = [held EXCEPT ![r] = clients'[key]]
    /\ Goto(r, "attempt")
    /\ UNCHANGED <<requests, attempt, chain, body, history>>

(***************************************************************************)
(* execute, and the redirect policy of build_client.                        *)
(***************************************************************************)
\* reqwest sends the request, with the cookies in jar.
SendsTo(r, url, jar, set) ==
    /\ carried' = [carried EXCEPT ![r] = requests[r].policy.cookies /\ url.host \in jar]
    /\ due' = [due EXCEPT ![r] = <<KeyOf(requests[r].policy), url.host>> \in set]

Attempt(r) ==
    /\ state[r] = "attempt"
    /\ chain' = [chain EXCEPT ![r] = << requests[r].url >>]
    /\ SendsTo(r, requests[r].url, jars[held[r]], given)
    /\ Goto(r, "waiting")
    /\ UNCHANGED <<requests, clients, jars, held, attempt, body, given>>

\* With the attempt its chain is forgotten.
EndsAttempt(r) ==
    /\ chain' = [chain EXCEPT ![r] = << >>]
    /\ carried' = [carried EXCEPT ![r] = FALSE]
    /\ due' = [due EXCEPT ![r] = FALSE]

\* Mutant of AttemptFailed: the attempt is not counted.
AttemptFailedUncounted(r) ==
    /\ state[r] = "waiting"
    /\ EndsAttempt(r)
    /\ Goto(r, "attempt")
    /\ UNCHANGED <<requests, clients, jars, held, attempt, body, given>>

AttemptFailed(r) ==
    /\ state[r] = "waiting"
    /\ EndsAttempt(r)
    /\ attempt' = [attempt EXCEPT ![r] = @ + 1]
    /\ Goto(r, IF attempt[r] < Retries THEN "attempt" ELSE "failed")
    /\ UNCHANGED <<requests, clients, jars, held, body, given>>

\* normalize_host: the scheme does not count, other ports than its own do.
NormalizeHost(u) == <<u.host, u.port>>

\* Mutant of Follows: the cap is compared after the hop.
FollowsOneMore(r, u) ==
    /\ requests[r].policy.flow # "DontFollow"
    /\ Len(chain[r]) <= MaxRedirects(r) + 1
    /\ requests[r].policy.flow = "FollowSameHost" =>
          NormalizeHost(u) = NormalizeHost(chain[r][1])

\* The redirect policy of build_client.
Follows(r, u) ==
    /\ requests[r].policy.flow # "DontFollow"
    /\ Len(chain[r]) <= MaxRedirects(r)
    /\ requests[r].policy.flow = "FollowSameHost" =>
          NormalizeHost(u) = NormalizeHost(chain[r][1])

\* What the answer of the last URL of the chain sets goes into the jar.
SetsCookie(r, sets) ==
    LET host == Last(chain[r]).host
        keeps == sets /\ requests[r].policy.cookies
    IN  /\ jars' = IF keeps THEN [jars EXCEPT ![held[r]] = @ \cup {host}] ELSE jars
        /\ given' = IF keeps THEN given \cup {<<KeyOf(requests[r].policy), host>>} ELSE given

Redirected(r) ==
    /\ state[r] = "waiting"
    /\ \E u \in Urls, sets \in BOOLEAN :
          /\ Follows(r, u)
          /\ SetsCookie(r, sets)
          /\ chain' = [chain EXCEPT ![r] = Append(@, u)]
          /\ SendsTo(r, u, jars'[held[r]], given')
    /\ UNCHANGED <<requests, clients, state, held, attempt, body>>

\* An answer, or a redirect that is not followed.
Answered(r) ==
    /\ state[r] = "waiting"
    /\ \E sets \in BOOLEAN : SetsCookie(r, sets)
    /\ EndsAttempt(r)
    /\ Goto(r, "reading")
    /\ UNCHANGED <<requests, clients, held, attempt, body>>

\* Chunks are kept up to the cap; an error, or the timeout, ends the body like
\* its end does.
ReadBodyLimited(r) ==
    /\ state[r] = "reading"
    /\ \/ \E chunk \in 1..2 :
             IF chunk >= MaxBody - body[r]
             THEN body' = [body EXCEPT ![r] = MaxBody] /\ Goto(r, "done")
             ELSE body' = [body EXCEPT ![r] = @ + chunk] /\ UNCHANGED state
       \/ Goto(r, "done") /\ UNCHANGED body
    /\ UNCHANGED <<requests, clients, jars, held, attempt, chain, history>>

RequestOver(r) == state[r] \in {"done", "failed"}

HttpStep(r) ==
    \/ ParseRawRequest(r) \/ ClientFor(r) \/ Attempt(r) \/ AttemptFailed(r)
    \/ Redirected(r) \/ Answered(r) \/ ReadBodyLimited(r)

HttpNext == \E r \in Workers : HttpStep(r)

(***************************************************************************)
(* Properties.                                                             *)
(***************************************************************************)
\* A request goes nowhere its redirect flow does not let it: without redirects
\* only to its own URL, with host-redirects only to its own host, over whatever
\* hops; and it follows at most as many redirects as the template or the default
\* has it, each attempt anew.
RedirectsAsAsked ==
    \A r \in Workers :
        /\ Len(chain[r]) <= MaxRedirects(r) + 1
        /\ requests[r].policy.flow = "DontFollow" => Len(chain[r]) <= 1
        /\ requests[r].policy.flow = "FollowSameHost" =>
              \A i \in DOMAIN chain[r] :
                 /\ chain[r][i].host = requests[r].url.host
                 /\ chain[r][i].port = requests[r].url.port

\* A request carries the cookie of a host exactly if the host has set one in
\* answer to a request of the same policy: jars are neither shared by requests
\* of different policies nor lost between requests of one, however the workers
\* interleave; and with disable-cookie none is ever sent.
CookiesByPolicy ==
    \A r \in Workers : /\ carried[r] = due[r]
                       /\ carried[r] => requests[r].policy.cookies
================================================================================
