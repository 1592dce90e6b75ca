------------------------------ MODULE Clients_proofs ------------------------------
(***************************************************************************)
(* Proofs about what workers send and hear with: the HTTP client, for any    *)
(* workers, requests, policies and retries; a DNS query, for any resolvers   *)
(* and retries; a conversation with a peer, for any blocks; the JavaScript   *)
(* runtime, for any number of threads, scripts and objects; and how an answer *)
(* is matched, for any words, texts and blocks of matchers.                  *)
(***************************************************************************)
EXTENDS HttpClient, DnsClient, Conversation, JsRuntime, Matching, SequenceTheorems,
        WellFoundedInduction, TLAPS

(***************************************************************************)
(* HttpClient: redirects and cookies stay within the policy.                *)
(***************************************************************************)
(***************************************************************************)
(* The inductive invariant.                                                *)
(***************************************************************************)
PolicyOf(r) == requests[r].policy

\* What the helpers do of it, alone (Helpers!Spec).
HttpSpec == HttpInit /\ [][HttpNext]_httpVars

\* A request has a chain exactly while an attempt is under way, and the chain
\* begins at the URL of the request.
ChainInv ==
    \A r \in Workers : /\ state[r] = "waiting" <=> chain[r] # << >>
                       /\ chain[r] # << >> => chain[r][1] = requests[r].url

\* A request that is sending or about to send has the client of its policy; and
\* until it fails it has an attempt left.
HeldInv ==
    \A r \in Workers :
        /\ state[r] \in {"attempt", "waiting"} =>
              held[r] = clients[KeyOf(PolicyOf(r))] /\ held[r] # 0
        /\ state[r] # "failed" => attempt[r] <= Retries

\* Clients are not shared by keys, and the jar of a client has what was given under
\* its key.
JarInv ==
    /\ \A k \in Keys : clients[k] # 0 => jars[clients[k]] = {h \in Hosts : <<k, h>> \in given}
    /\ \A k, l \in Keys : clients[k] # 0 /\ clients[k] = clients[l] => k = l
    /\ \A k \in Keys, h \in Hosts : <<k, h>> \in given => k.cookies /\ clients[k] # 0

\* The strengthening of RedirectsAsAsked and CookiesByPolicy.
IInv == HttpTypeOK /\ ChainInv /\ HeldInv /\ JarInv /\ RedirectsAsAsked /\ CookiesByPolicy

(***************************************************************************)
(* Facts about requests, keys and hosts.                                   *)
(***************************************************************************)
\* What a scenario says of a request, and that its policy has a key.
LEMMA RequestFacts ==
    ASSUME requests \in Scenarios, NEW r \in Workers
    PROVE  /\ requests[r].url \in AllUrls
           /\ PolicyOf(r) \in [flow : Flows, max : Nat, cookies : BOOLEAN]
           /\ KeyOf(PolicyOf(r)) \in Keys
           /\ KeyOf(PolicyOf(r)).cookies = PolicyOf(r).cookies
           /\ MaxRedirects(r) \in Nat
<1> DEFINE p == PolicyOf(r)
<1>1. requests[r] \in [url : [scheme : {"http", "https"}, host : STRING, port : Nat],
                       policy : [flow : Flows, max : Nat, cookies : BOOLEAN],
                       wellFormed : BOOLEAN]
  BY HttpAssumption
<1>2. p \in [flow : Flows, max : Nat, cookies : BOOLEAN] /\ p \in Policies
  BY <1>1 DEF PolicyOf, Policies
<1>3. KeyOf(p) \in Keys /\ KeyOf(p).cookies = p.cookies
  BY <1>2 DEF Keys, KeyOf
<1>4. MaxRedirects(r) \in Nat
  BY <1>2, HttpAssumption DEF MaxRedirects, PolicyOf
<1>5. requests[r].url \in AllUrls
  BY DEF AllUrls
<1> QED BY <1>2, <1>3, <1>4, <1>5

\* The host of a URL is a host.
LEMMA HostFact == ASSUME NEW u \in AllUrls PROVE u.host \in Hosts
BY DEF Hosts

(***************************************************************************)
(* Each step preserves the invariant.                                      *)
(***************************************************************************)
\* Steps that leave pool, jars and cookies alone and do not go on with a chain.
LEMMA ParseStep ==
    ASSUME IInv, NEW r \in Workers, ParseRawRequest(r)
    PROVE  IInv'
<1> USE DEF IInv, ParseRawRequest, Goto
<1>1. HttpTypeOK'
  BY DEF HttpTypeOK, States, history
<1>2. ChainInv' /\ HeldInv'
  BY DEF HttpTypeOK, ChainInv, HeldInv, PolicyOf, history
<1>3. JarInv'
  BY DEF JarInv, history
<1>4. RedirectsAsAsked' /\ CookiesByPolicy'
  BY DEF RedirectsAsAsked, CookiesByPolicy, MaxRedirects, history
<1> QED BY <1>1, <1>2, <1>3, <1>4

\* Reading the body touches no chain and no jar.
LEMMA BodyStep ==
    ASSUME IInv, NEW r \in Workers, ReadBodyLimited(r)
    PROVE  IInv'
<1> USE DEF IInv, ReadBodyLimited, Goto
<1>1. HttpTypeOK'
  <2>1. MaxBody \in Nat /\ body[r] \in 0..MaxBody
    BY HttpAssumption DEF HttpTypeOK
  <2>2. CASE \E chunk \in 1..2 :
                IF chunk >= MaxBody - body[r]
                THEN body' = [body EXCEPT ![r] = MaxBody] /\ Goto(r, "done")
                ELSE body' = [body EXCEPT ![r] = @ + chunk] /\ UNCHANGED state
    <3>1. PICK chunk \in 1..2 :
             IF chunk >= MaxBody - body[r]
             THEN body' = [body EXCEPT ![r] = MaxBody] /\ Goto(r, "done")
             ELSE body' = [body EXCEPT ![r] = body[r] + chunk] /\ UNCHANGED state
      BY <2>2
    <3>2. CASE chunk >= MaxBody - body[r]
      <4>1. body' = [body EXCEPT ![r] = MaxBody] /\ state' = [state EXCEPT ![r] = "done"]
        BY <3>1, <3>2
      <4>2. body' \in [Workers -> 0..MaxBody] /\ state' \in [Workers -> States]
        BY <2>1, <4>1 DEF HttpTypeOK, States
      <4> QED BY <4>2 DEF HttpTypeOK, history
    <3>3. CASE ~(chunk >= MaxBody - body[r])
      <4>1. body[r] + chunk \in 0..MaxBody
        BY <2>1, <3>3
      <4>2. body' = [body EXCEPT ![r] = body[r] + chunk] /\ UNCHANGED state
        BY <3>1, <3>3
      <4>3. body' \in [Workers -> 0..MaxBody]
        BY <4>1, <4>2 DEF HttpTypeOK
      <4> QED BY <4>2, <4>3 DEF HttpTypeOK, history
    <3> QED BY <3>2, <3>3
  <2>3. CASE Goto(r, "done") /\ UNCHANGED body
    BY <2>3 DEF HttpTypeOK, States, history
  <2> QED BY <2>2, <2>3
<1>2. ChainInv' /\ HeldInv'
  BY DEF HttpTypeOK, ChainInv, HeldInv, PolicyOf, history
<1>3. JarInv'
  BY DEF JarInv, history
<1>4. RedirectsAsAsked' /\ CookiesByPolicy'
  BY DEF RedirectsAsAsked, CookiesByPolicy, MaxRedirects, history
<1> QED BY <1>1, <1>2, <1>3, <1>4

\* A client is built only for a key that has none, with an empty jar.
LEMMA ClientStep ==
    ASSUME IInv, NEW r \in Workers, ClientFor(r)
    PROVE  IInv'
<1> DEFINE key == KeyOf(PolicyOf(r))
<1> USE DEF IInv
<1>0. key \in Keys
  BY RequestFacts DEF HttpTypeOK
<1>1. CASE clients[key] # 0
  <2>1. /\ UNCHANGED <<requests, clients, jars, attempt, chain, body, given, carried, due>>
        /\ held' = [held EXCEPT ![r] = clients[key]]
        /\ state' = [state EXCEPT ![r] = "attempt"]
        /\ state[r] = "pool"
    BY <1>0, <1>1 DEF ClientFor, PolicyOf, Goto, history
  <2>2. HttpTypeOK'
    BY <1>0, <2>1 DEF HttpTypeOK, States
  <2>3. ChainInv'
    BY <2>1 DEF HttpTypeOK, ChainInv, PolicyOf
  <2>4. HeldInv'
    BY <1>1, <2>1 DEF HttpTypeOK, HeldInv, PolicyOf
  <2>5. JarInv' /\ RedirectsAsAsked' /\ CookiesByPolicy'
    BY <2>1 DEF JarInv, RedirectsAsAsked, CookiesByPolicy, MaxRedirects
  <2> QED BY <2>2, <2>3, <2>4, <2>5
<1>2. CASE clients[key] = 0
  <2>1. /\ UNCHANGED <<requests, attempt, chain, body, given, carried, due>>
        /\ jars' = Append(jars, {})
        /\ clients' = [clients EXCEPT ![key] = Len(jars')]
        /\ held' = [held EXCEPT ![r] = clients'[key]]
        /\ state' = [state EXCEPT ![r] = "attempt"]
        /\ state[r] = "pool"
    BY <1>0, <1>2 DEF ClientFor, PolicyOf, Goto, history
  <2>2. /\ Len(jars') = Len(jars) + 1 /\ Len(jars) \in Nat
        /\ \A i \in 1..Len(jars) : jars'[i] = jars[i]
        /\ jars'[Len(jars) + 1] = {}
        /\ jars' \in Seq(SUBSET Hosts)
    BY <2>1 DEF HttpTypeOK
  <2>3. /\ clients'[key] = Len(jars) + 1
        /\ \A k \in Keys \ {key} : clients'[k] = clients[k]
        /\ \A k \in Keys : clients[k] \in 0..Len(jars)
    BY <1>0, <2>1, <2>2 DEF HttpTypeOK
  <2>4. HttpTypeOK'
    BY <1>0, <2>1, <2>2, <2>3 DEF HttpTypeOK, States
  <2>5. ChainInv' /\ RedirectsAsAsked' /\ CookiesByPolicy'
    BY <2>1 DEF HttpTypeOK, ChainInv, PolicyOf, RedirectsAsAsked, CookiesByPolicy, MaxRedirects
  <2>6. HeldInv'
    <3>0. ASSUME NEW q \in Workers, state'[q] # "failed" PROVE attempt'[q] <= Retries
      BY <2>1, <3>0 DEF HeldInv, HttpTypeOK
    <3> SUFFICES ASSUME NEW q \in Workers, state'[q] \in {"attempt", "waiting"}
                 PROVE  held'[q] = clients'[KeyOf(PolicyOf(q))] /\ held'[q] # 0
      BY <2>1, <3>0 DEF HeldInv, PolicyOf
    <3>1. CASE q = r
      <4>1. held'[r] = Len(jars) + 1
        BY <2>1, <2>3 DEF HttpTypeOK
      <4> QED BY <2>2, <2>3, <3>1, <4>1
    <3>2. CASE q # r
      <4>1. state[q] \in {"attempt", "waiting"} /\ held'[q] = held[q]
        BY <2>1, <3>2 DEF HttpTypeOK
      <4>2. held[q] = clients[KeyOf(PolicyOf(q))] /\ held[q] # 0
        BY <4>1 DEF HeldInv
      <4>3. KeyOf(PolicyOf(q)) \in Keys \ {key}
        BY <1>2, <4>2, RequestFacts DEF HttpTypeOK
      <4> QED BY <2>1, <2>3, <4>1, <4>2, <4>3
    <3> QED BY <3>1, <3>2
  <2>7. JarInv'
    <3>1. ASSUME NEW k \in Keys, clients'[k] # 0
          PROVE  jars'[clients'[k]] = {h \in Hosts : <<k, h>> \in given}
      <4>1. CASE k = key
        BY <1>0, <1>2, <2>2, <2>3, <4>1 DEF JarInv
      <4>2. CASE k # key
        BY <2>2, <2>3, <3>1, <4>2 DEF JarInv
      <4> QED BY <4>1, <4>2
    <3>2. ASSUME NEW k \in Keys, NEW l \in Keys, clients'[k] # 0, clients'[k] = clients'[l]
          PROVE  k = l
      <4>1. ASSUME NEW m \in Keys \ {key} PROVE clients'[m] # Len(jars) + 1
        BY <2>2, <2>3, <4>1
      <4> QED BY <1>0, <2>3, <3>2, <4>1 DEF JarInv
    <3>3. ASSUME NEW k \in Keys, NEW h \in Hosts, <<k, h>> \in given
          PROVE  k.cookies /\ clients'[k] # 0
      BY <1>2, <2>3, <3>3 DEF JarInv
    <3> QED BY <2>1, <3>1, <3>2, <3>3 DEF JarInv
  <2> QED BY <2>4, <2>5, <2>6, <2>7
<1>3. clients[key] \in Nat
  BY <1>0 DEF HttpTypeOK
<1> QED BY <1>1, <1>2, <1>3

(***************************************************************************)
(* The steps of an attempt.                                                *)
(***************************************************************************)
\* A jar has the cookie of a host exactly if the host gave one under the key.
LEMMA CarriesFact ==
    ASSUME HttpTypeOK, JarInv, NEW r \in Workers, NEW h \in Hosts,
           held[r] = clients[KeyOf(PolicyOf(r))], held[r] # 0
    PROVE  (PolicyOf(r).cookies /\ h \in jars[held[r]])
             = (<<KeyOf(PolicyOf(r)), h>> \in given)
<1> DEFINE key == KeyOf(PolicyOf(r))
<1>1. key \in Keys /\ key.cookies = PolicyOf(r).cookies /\ PolicyOf(r).cookies \in BOOLEAN
  BY RequestFacts DEF HttpTypeOK
<1>2. h \in jars[held[r]] <=> <<key, h>> \in given
  BY <1>1 DEF JarInv
<1>3. <<key, h>> \in given => PolicyOf(r).cookies
  BY <1>1 DEF JarInv
<1> QED BY <1>1, <1>2, <1>3

\* An attempt begins a chain at the URL of the request.
LEMMA AttemptStep ==
    ASSUME IInv, NEW r \in Workers, Attempt(r)
    PROVE  IInv'
<1> DEFINE url == requests[r].url
<1> USE DEF IInv
<1>0. /\ UNCHANGED <<requests, clients, jars, held, attempt, body, given>>
      /\ state[r] = "attempt" /\ state' = [state EXCEPT ![r] = "waiting"]
      /\ chain' = [chain EXCEPT ![r] = << url >>]
      /\ carried' = [carried EXCEPT ![r] = PolicyOf(r).cookies /\ url.host \in jars[held[r]]]
      /\ due' = [due EXCEPT ![r] = <<KeyOf(PolicyOf(r)), url.host>> \in given]
  BY DEF Attempt, SendsTo, Goto, PolicyOf
<1>1. url \in AllUrls /\ url.host \in Hosts /\ MaxRedirects(r) \in Nat
  BY RequestFacts, HostFact DEF HttpTypeOK
<1>2. held[r] = clients[KeyOf(PolicyOf(r))] /\ held[r] # 0
  BY <1>0 DEF HeldInv
<1>3. (PolicyOf(r).cookies /\ url.host \in jars[held[r]])
        = (<<KeyOf(PolicyOf(r)), url.host>> \in given)
  BY <1>1, <1>2, CarriesFact
<1>4. /\ << url >> \in Seq(AllUrls) /\ Len(<< url >>) = 1 /\ << url >>[1] = url
      /\ << url >> # << >> /\ DOMAIN << url >> = {1}
  BY <1>1
<1>5. (PolicyOf(r).cookies /\ url.host \in jars[held[r]]) \in BOOLEAN
  OBVIOUS
<1>6. HttpTypeOK'
  <2>1. chain' \in [Workers -> Seq(AllUrls)] /\ state' \in [Workers -> States]
    BY <1>0, <1>4 DEF HttpTypeOK, States
  <2>2. carried' \in [Workers -> BOOLEAN] /\ due' \in [Workers -> BOOLEAN]
    BY <1>0, <1>3, <1>5 DEF HttpTypeOK
  <2> QED BY <1>0, <2>1, <2>2 DEF HttpTypeOK
<1>7. ChainInv'
  BY <1>0, <1>4 DEF HttpTypeOK, ChainInv
<1>8. HeldInv'
  BY <1>0, <1>2 DEF HttpTypeOK, HeldInv, PolicyOf
<1>9. JarInv'
  BY <1>0 DEF JarInv
<1>10. RedirectsAsAsked'
  <2>1. /\ chain'[r] = << url >> /\ \A q \in Workers : q # r => chain'[q] = chain[q]
        /\ requests' = requests
    BY <1>0 DEF HttpTypeOK
  <2>2. \A q \in Workers : MaxRedirects(q)' = MaxRedirects(q)
    BY <1>0 DEF MaxRedirects
  <2>3. Len(<< url >>) <= MaxRedirects(r) + 1 /\ Len(<< url >>) <= 1
    BY <1>1, <1>4
  <2>4. \A i \in DOMAIN << url >> : << url >>[i] = url
    BY <1>4
  <2>5. PICK fresh : fresh = << url >>
    OBVIOUS
  <2>6. chain'[r] = fresh /\ Len(fresh) <= MaxRedirects(r) + 1 /\ Len(fresh) <= 1
        /\ \A i \in DOMAIN fresh : fresh[i].host = requests[r].url.host
                                 /\ fresh[i].port = requests[r].url.port
    BY <2>1, <2>3, <2>4, <2>5
  <2> QED BY <2>1, <2>2, <2>6 DEF RedirectsAsAsked
<1>11. CookiesByPolicy'
  BY <1>0, <1>3 DEF HttpTypeOK, CookiesByPolicy, PolicyOf
<1> QED BY <1>6, <1>7, <1>8, <1>9, <1>10, <1>11

\* The end of an attempt leaves no chain and nothing carried.
LEMMA EndsFacts ==
    ASSUME IInv, NEW r \in Workers, EndsAttempt(r), UNCHANGED requests
    PROVE  /\ chain' \in [Workers -> Seq(AllUrls)]
           /\ {carried', due'} \subseteq [Workers -> BOOLEAN]
           /\ RedirectsAsAsked' /\ CookiesByPolicy'
<1> USE DEF IInv, EndsAttempt
<1>1. chain' \in [Workers -> Seq(AllUrls)]
  BY DEF HttpTypeOK
<1>2. {carried', due'} \subseteq [Workers -> BOOLEAN]
  BY DEF HttpTypeOK
<1>3. MaxRedirects(r) \in Nat
  BY RequestFacts DEF HttpTypeOK
<1>4. RedirectsAsAsked'
  BY <1>3 DEF HttpTypeOK, RedirectsAsAsked, MaxRedirects
<1>5. CookiesByPolicy'
  BY DEF HttpTypeOK, CookiesByPolicy
<1> QED BY <1>1, <1>2, <1>4, <1>5

\* A failed attempt is counted, and the last one ends the request.
LEMMA FailStep ==
    ASSUME IInv, NEW r \in Workers, AttemptFailed(r)
    PROVE  IInv'
<1> USE DEF IInv
<1>0. /\ EndsAttempt(r) /\ state[r] = "waiting"
      /\ UNCHANGED <<requests, clients, jars, held, body, given>>
      /\ attempt' = [attempt EXCEPT ![r] = attempt[r] + 1]
      /\ state' = [state EXCEPT ![r] = IF attempt[r] < Retries THEN "attempt" ELSE "failed"]
  BY DEF AttemptFailed, Goto
<1>1. attempt[r] \in Nat /\ attempt[r] <= Retries /\ Retries \in Nat
  BY <1>0, HttpAssumption DEF HttpTypeOK, HeldInv
<1>2. attempt' \in [Workers -> 0..Retries + 1] /\ state' \in [Workers -> States]
  BY <1>0, <1>1 DEF HttpTypeOK, States
<1>3. HttpTypeOK'
  BY <1>0, <1>2, EndsFacts DEF HttpTypeOK
<1>4. ChainInv'
  BY <1>0 DEF HttpTypeOK, ChainInv, EndsAttempt
<1>5. HeldInv'
  BY <1>0, <1>1 DEF HttpTypeOK, HeldInv, PolicyOf
<1>6. JarInv'
  BY <1>0 DEF JarInv
<1> QED BY <1>0, <1>3, <1>4, <1>5, <1>6, EndsFacts

\* A cookie that is kept is in the jar of the client and given under its key, and
\* in no other jar.
LEMMA CookieKept ==
    ASSUME IInv, NEW r \in Workers, NEW sets \in BOOLEAN, state[r] = "waiting",
           SetsCookie(r, sets), UNCHANGED clients
    PROVE  /\ jars' \in Seq(SUBSET Hosts) /\ Len(jars') = Len(jars)
           /\ given' \subseteq Keys \X Hosts
           /\ JarInv'
<1> DEFINE host == Last(chain[r]).host
           key == KeyOf(PolicyOf(r))
           keeps == sets /\ PolicyOf(r).cookies
<1> USE DEF IInv
<1>0. /\ jars' = IF keeps THEN [jars EXCEPT ![held[r]] = jars[held[r]] \cup {host}] ELSE jars
      /\ given' = IF keeps THEN given \cup {<<key, host>>} ELSE given
  BY DEF SetsCookie, PolicyOf
<1>1. key \in Keys /\ key.cookies = PolicyOf(r).cookies
  BY RequestFacts DEF HttpTypeOK
<1>2. held[r] = clients[key] /\ held[r] # 0 /\ held[r] \in 1..Len(jars)
  BY DEF HttpTypeOK, HeldInv
<1>3. host \in Hosts
  <2>1. chain[r] \in Seq(AllUrls) /\ chain[r] # << >>
    BY DEF HttpTypeOK, ChainInv
  <2>2. Last(chain[r]) \in AllUrls
    BY <2>1 DEF Last
  <2> QED BY <2>2, HostFact
<1>4. CASE ~keeps
  BY <1>0, <1>4 DEF HttpTypeOK, JarInv
<1>5. CASE keeps
  <2>1. jars' = [jars EXCEPT ![held[r]] = jars[held[r]] \cup {host}]
    BY <1>0, <1>5
  <2>2. given' = given \cup {<<key, host>>}
    BY <1>0, <1>5
  <2>3. jars[held[r]] \cup {host} \in SUBSET Hosts
    BY <1>2, <1>3 DEF HttpTypeOK
  <2>4. jars' \in Seq(SUBSET Hosts) /\ Len(jars') = Len(jars)
    BY <1>2, <2>1, <2>3 DEF HttpTypeOK
  <2>5. /\ jars'[held[r]] = jars[held[r]] \cup {host}
        /\ \A i \in 1..Len(jars) : i # held[r] => jars'[i] = jars[i]
    BY <1>2, <2>1 DEF HttpTypeOK
  <2>6. given' \subseteq Keys \X Hosts
    BY <1>1, <1>3, <2>2 DEF HttpTypeOK
  <2>7. ASSUME NEW k \in Keys, clients[k] # 0
        PROVE  jars'[clients[k]] = {h \in Hosts : <<k, h>> \in given'}
    <3>1. jars[clients[k]] = {h \in Hosts : <<k, h>> \in given}
      BY <2>7 DEF JarInv
    <3>2. CASE k = key
      <4>1. {h \in Hosts : <<k, h>> \in given'} = {h \in Hosts : <<k, h>> \in given} \cup {host}
        BY <1>3, <2>2, <3>2
      <4> QED BY <1>2, <2>5, <3>1, <3>2, <4>1
    <3>3. CASE k # key
      <4>1. {h \in Hosts : <<k, h>> \in given'} = {h \in Hosts : <<k, h>> \in given}
        BY <2>2, <3>3
      <4>2. clients[k] # held[r] /\ clients[k] \in 1..Len(jars)
        BY <1>1, <1>2, <2>7, <3>3 DEF JarInv, HttpTypeOK
      <4> QED BY <2>5, <3>1, <4>1, <4>2
    <3> QED BY <3>2, <3>3
  <2>8. ASSUME NEW k \in Keys, NEW h \in Hosts, <<k, h>> \in given'
        PROVE  k.cookies /\ clients[k] # 0
    BY <1>1, <1>2, <1>5, <2>2, <2>8 DEF JarInv
  <2>9. JarInv'
    BY <2>7, <2>8 DEF JarInv
  <2> QED BY <2>4, <2>6, <2>9
<1> QED BY <1>4, <1>5

\* A redirect that is followed stays within the flow and the cap of the policy.
LEMMA RedirectStep ==
    ASSUME IInv, NEW r \in Workers, Redirected(r)
    PROVE  IInv'
<1> USE DEF IInv
<1>0. PICK u \in Urls, sets \in BOOLEAN :
          /\ Follows(r, u)
          /\ SetsCookie(r, sets)
          /\ chain' = [chain EXCEPT ![r] = Append(chain[r], u)]
          /\ SendsTo(r, u, jars'[held[r]], given')
  BY DEF Redirected
<1>1. state[r] = "waiting" /\ UNCHANGED <<requests, clients, state, held, attempt, body>>
  BY DEF Redirected
<1>2. /\ jars' \in Seq(SUBSET Hosts) /\ Len(jars') = Len(jars)
      /\ given' \subseteq Keys \X Hosts /\ JarInv'
  BY <1>0, <1>1, CookieKept
<1>3. u \in AllUrls /\ u.host \in Hosts
  BY HostFact DEF AllUrls
<1>4. /\ chain[r] \in Seq(AllUrls) /\ chain[r] # << >> /\ Len(chain[r]) \in Nat \ {0}
      /\ chain[r][1] = requests[r].url
  BY <1>1 DEF HttpTypeOK, ChainInv
<1>5. /\ chain'[r] = Append(chain[r], u) /\ chain'[r] \in Seq(AllUrls)
      /\ Len(chain'[r]) = Len(chain[r]) + 1
      /\ \A i \in 1..Len(chain[r]) : chain'[r][i] = chain[r][i]
      /\ chain'[r][Len(chain[r]) + 1] = u
      /\ \A q \in Workers : q # r => chain'[q] = chain[q]
  BY <1>0, <1>3, <1>4 DEF HttpTypeOK
<1>6. /\ carried' = [carried EXCEPT ![r] = PolicyOf(r).cookies /\ u.host \in jars'[held[r]]]
      /\ due' = [due EXCEPT ![r] = <<KeyOf(PolicyOf(r)), u.host>> \in given']
  BY <1>0 DEF SendsTo, PolicyOf
<1>7. carried' \in [Workers -> BOOLEAN] /\ due' \in [Workers -> BOOLEAN]
  BY <1>6 DEF HttpTypeOK
<1>8. HttpTypeOK'
  <2>1. chain' \in [Workers -> Seq(AllUrls)]
    BY <1>0, <1>5 DEF HttpTypeOK
  <2> QED BY <1>1, <1>2, <1>7, <2>1 DEF HttpTypeOK
<1>9. ChainInv'
  <2>1. chain'[r] # << >> /\ chain'[r][1] = requests[r].url
    BY <1>4, <1>5
  <2> QED BY <1>1, <1>5, <2>1 DEF ChainInv
<1>10. HeldInv'
  BY <1>1 DEF HeldInv, PolicyOf
<1>11. RedirectsAsAsked'
  <2>1. MaxRedirects(r) \in Nat /\ Len(chain[r]) <= MaxRedirects(r)
        /\ PolicyOf(r).flow # "DontFollow"
    BY <1>0, RequestFacts DEF Follows, HttpTypeOK, PolicyOf
  <2>2. PolicyOf(r).flow = "FollowSameHost" =>
           u.host = requests[r].url.host /\ u.port = requests[r].url.port
    BY <1>0, <1>4 DEF Follows, NormalizeHost, PolicyOf
  <2>3. Len(chain'[r]) <= MaxRedirects(r) + 1
    BY <1>4, <1>5, <2>1
  <2>4. ASSUME PolicyOf(r).flow = "FollowSameHost", NEW i \in DOMAIN chain'[r]
        PROVE  chain'[r][i].host = requests[r].url.host /\ chain'[r][i].port = requests[r].url.port
    <3>1. DOMAIN chain'[r] = 1..Len(chain[r]) + 1 /\ DOMAIN chain[r] = 1..Len(chain[r])
      BY <1>4, <1>5
    <3>2. CASE i = Len(chain[r]) + 1
      BY <1>5, <2>2, <2>4, <3>2
    <3>3. CASE i # Len(chain[r]) + 1
      <4>1. i \in 1..Len(chain[r])
        BY <1>4, <3>1, <3>3
      <4> QED BY <1>5, <2>4, <3>1, <4>1 DEF RedirectsAsAsked, PolicyOf
    <3> QED BY <3>2, <3>3
  <2>5. ASSUME NEW q \in Workers, q # r
        PROVE  chain'[q] = chain[q] /\ requests'[q] = requests[q]
               /\ MaxRedirects(q)' = MaxRedirects(q)
    BY <1>1, <1>5, <2>5 DEF MaxRedirects
  <2>6. MaxRedirects(r)' = MaxRedirects(r)
    BY <1>1 DEF MaxRedirects
  <2> QED BY <1>1, <2>1, <2>3, <2>4, <2>5, <2>6 DEF RedirectsAsAsked, PolicyOf
<1>12. CookiesByPolicy'
  <2>1. held'[r] = clients'[KeyOf(PolicyOf(r)')] /\ held'[r] # 0
    BY <1>1 DEF HeldInv, PolicyOf
  <2>2. (PolicyOf(r).cookies /\ u.host \in jars'[held[r]])
           = (<<KeyOf(PolicyOf(r)), u.host>> \in given')
    <3> DEFINE key == KeyOf(PolicyOf(r))
    <3>1. key \in Keys /\ key.cookies = PolicyOf(r).cookies /\ PolicyOf(r).cookies \in BOOLEAN
      BY RequestFacts DEF HttpTypeOK
    <3>2. held[r] = clients'[key] /\ clients'[key] # 0
      BY <1>1 DEF HeldInv
    <3>3. u.host \in jars'[held[r]] <=> <<key, u.host>> \in given'
      BY <1>2, <1>3, <3>1, <3>2 DEF JarInv
    <3>4. <<key, u.host>> \in given' => PolicyOf(r).cookies
      BY <1>2, <1>3, <3>1 DEF JarInv
    <3> QED BY <3>1, <3>3, <3>4
  <2> QED BY <1>1, <1>6, <2>2 DEF HttpTypeOK, CookiesByPolicy, PolicyOf
<1> QED BY <1>2, <1>8, <1>9, <1>10, <1>11, <1>12

\* An answer ends the chain, its cookies kept.
LEMMA AnswerStep ==
    ASSUME IInv, NEW r \in Workers, Answered(r)
    PROVE  IInv'
<1> USE DEF IInv
<1>0. PICK sets \in BOOLEAN : SetsCookie(r, sets)
  BY DEF Answered
<1>1. /\ state[r] = "waiting" /\ EndsAttempt(r)
      /\ UNCHANGED <<requests, clients, held, attempt, body>>
      /\ state' = [state EXCEPT ![r] = "reading"]
  BY DEF Answered, Goto
<1>2. /\ jars' \in Seq(SUBSET Hosts) /\ Len(jars') = Len(jars)
      /\ given' \subseteq Keys \X Hosts /\ JarInv'
  BY <1>0, <1>1, CookieKept
<1>3. state' \in [Workers -> States]
  BY <1>1 DEF HttpTypeOK, States
<1>4. HttpTypeOK'
  BY <1>1, <1>2, <1>3, EndsFacts DEF HttpTypeOK
<1>5. ChainInv'
  BY <1>1 DEF HttpTypeOK, ChainInv, EndsAttempt
<1>6. HeldInv'
  BY <1>1 DEF HttpTypeOK, HeldInv, PolicyOf
<1> QED BY <1>1, <1>2, <1>4, <1>5, <1>6, EndsFacts

(***************************************************************************)
(* The theorems.                                                           *)
(***************************************************************************)
\* The invariant holds at first and is kept by every step.
LEMMA Initially == HttpInit => IInv
<1> SUFFICES ASSUME HttpInit PROVE IInv
  OBVIOUS
<1> USE DEF HttpInit
<1>1. HttpTypeOK
  BY HttpAssumption DEF HttpTypeOK, States
<1>2. ChainInv /\ HeldInv /\ JarInv
  BY HttpAssumption DEF ChainInv, HeldInv, JarInv
<1>3. RedirectsAsAsked
  BY RequestFacts DEF RedirectsAsAsked
<1>4. CookiesByPolicy
  BY DEF CookiesByPolicy
<1> QED BY <1>1, <1>2, <1>3, <1>4 DEF IInv

\* One case for each action.
LEMMA Kept == IInv /\ [HttpNext]_httpVars => IInv'
<1> SUFFICES ASSUME IInv, [HttpNext]_httpVars PROVE IInv'
  OBVIOUS
<1>1. CASE UNCHANGED httpVars
  BY <1>1 DEF httpVars, history, IInv, HttpTypeOK, ChainInv, HeldInv, JarInv, PolicyOf,
              RedirectsAsAsked, CookiesByPolicy, MaxRedirects
<1>2. ASSUME NEW r \in Workers, HttpStep(r) PROVE IInv'
  BY <1>2, ParseStep, ClientStep, AttemptStep, FailStep, RedirectStep, AnswerStep, BodyStep
     DEF HttpStep
<1> QED BY <1>1, <1>2 DEF HttpNext

\* The state of the client is well typed.
THEOREM HttpTypeCorrect == HttpSpec => []HttpTypeOK
<1>1. IInv => HttpTypeOK
  BY DEF IInv
<1> QED BY <1>1, Initially, Kept, PTL DEF HttpSpec

\* No request of any worker is redirected where its policy does not let it, nor
\* further.
THEOREM RedirectsStayInPolicy == HttpSpec => []RedirectsAsAsked
<1>1. IInv => RedirectsAsAsked
  BY DEF IInv
<1> QED BY <1>1, Initially, Kept, PTL DEF HttpSpec

\* A cookie travels exactly with the requests of the policy it was set under.
THEOREM CookiesStayInPolicy == HttpSpec => []CookiesByPolicy
<1>1. IInv => CookiesByPolicy
  BY DEF IInv
<1> QED BY <1>1, Initially, Kept, PTL DEF HttpSpec

(***************************************************************************)
(* DnsClient: an answer that comes while the client waits is heard.         *)
(***************************************************************************)
\* The behaviours of one query.
DnsSpec == DnsInit /\ [][DnsNext]_dnsVars

\* The strengthening of AnswerHeard.  A readable answer in time leaves the client
\* waiting with something to receive, and it goes on waiting until it receives it.
DnsInv ==
    /\ socket \in Seq(BOOLEAN) /\ unread \in Nat /\ inTime \in BOOLEAN
    /\ dnsState = "idle" => ~inTime
    /\ dnsState \in {"sending", "waiting", "failed"} /\ inTime /\ unread = 0 =>
          dnsState = "waiting" /\ socket # << >>

\* Sequences of datagrams.
LEMMA EmptySocket == << >> \in Seq(BOOLEAN)
OBVIOUS

\* Receiving leaves the rest of them.
LEMMA SocketTail ==
    ASSUME NEW D, NEW q \in Seq(D), q # << >>
    PROVE  Tail(q) \in Seq(D)
OBVIOUS

\* The invariant holds at first.
LEMMA DnsInitially == DnsInit => DnsInv
<1> SUFFICES ASSUME DnsInit PROVE DnsInv
  OBVIOUS
<1>1. dnsState = "idle" /\ inTime = FALSE /\ unread = 0 /\ socket = << >>
  BY DEF DnsInit
<1> QED BY <1>1, EmptySocket DEF DnsInv

\* It is kept by every step: only by receiving does the client leave a socket that
\* has something, and what it receives answers it or is unreadable.
LEMMA DnsKept == DnsInv /\ [DnsNext]_dnsVars => DnsInv'
<1> SUFFICES ASSUME DnsInv, [DnsNext]_dnsVars PROVE DnsInv'
  OBVIOUS
<1> USE DEF DnsInv
<1>1. CASE UNCHANGED dnsVars
  BY <1>1 DEF dnsVars
<1>2. CASE ResolverAddresses
  <2>1. dnsState = "idle" /\ dnsState' = "sending" /\ UNCHANGED <<socket, unread, inTime>>
    BY <1>2 DEF ResolverAddresses
  <2> QED BY <2>1
<1>3. CASE DnsSend
  <2>1. dnsState = "sending" /\ UNCHANGED <<socket, unread, inTime>>
    BY <1>3 DEF DnsSend
  <2>2. dnsState' \in {"sending", "waiting", "failed"}
    BY <1>3 DEF DnsSend, TurnOver
  <2> QED BY <2>1, <2>2
<1>4. CASE DnsArrive
  <2>1. PICK readable \in BOOLEAN :
           /\ socket' = Append(socket, readable)
           /\ inTime' = (inTime \/ (readable /\ dnsState = "waiting"))
    BY <1>4 DEF DnsArrive
  <2>2. dnsState \in {"sending", "waiting"} /\ UNCHANGED <<dnsState, unread>>
    BY <1>4 DEF DnsArrive
  <2>3. socket' \in Seq(BOOLEAN) /\ socket' # << >>
    BY <2>1
  <2>4. CASE dnsState = "waiting"
    <3>1. inTime' \in BOOLEAN
      BY <2>1
    <3> QED BY <2>2, <2>3, <2>4, <3>1
  <2>5. CASE dnsState = "sending"
    <3>1. inTime' = inTime
      BY <2>1, <2>5
    <3> QED BY <2>2, <2>3, <2>5, <3>1
  <2> QED BY <2>2, <2>4, <2>5
<1>5. CASE DnsReceive
  <2>0. socket # << >> /\ socket' = Tail(socket) /\ inTime' = inTime
    BY <1>5 DEF DnsReceive
  <2>1. socket' \in Seq(BOOLEAN)
    BY <2>0, SocketTail
  <2>2. CASE Head(socket)
    <3>1. dnsState' = "answered" /\ unread' = unread
      BY <1>5, <2>2 DEF DnsReceive
    <3> QED BY <2>0, <2>1, <3>1
  <2>3. CASE ~Head(socket)
    <3>1. unread' = unread + 1 /\ dnsState' \in {"failed", "sending"}
      BY <1>5, <2>3 DEF DnsReceive, TurnOver
    <3> QED BY <2>0, <2>1, <3>1
  <2> QED BY <2>2, <2>3
<1>6. CASE DnsTimeout
  <2>1. dnsState = "waiting" /\ socket = << >> /\ UNCHANGED <<socket, unread, inTime>>
    BY <1>6 DEF DnsTimeout
  <2>2. dnsState' \in {"failed", "sending"}
    BY <1>6 DEF DnsTimeout, TurnOver
  <2> QED BY <2>1, <2>2
<1> QED BY <1>1, <1>2, <1>3, <1>4, <1>5, <1>6 DEF DnsNext

\* A query fails only if no readable answer came while it waited, or if an
\* unreadable datagram took a turn.
THEOREM AnswerHeardHolds == DnsSpec => []AnswerHeard
<1>1. DnsInv => AnswerHeard
  BY DEF DnsInv, AnswerHeard
<1> QED BY <1>1, DnsInitially, DnsKept, PTL DEF DnsSpec

(***************************************************************************)
(* Conversation: what is kept is the stream of the peer.                    *)
(***************************************************************************)
\* The behaviours of one block.
TalkSpec == TalkInit /\ [][TalkNext]_talkVars

Awaits == [do : Reads \cup Acts \cup {"put", "refuse", "skip"}, timed : BOOLEAN,
           must : BOOLEAN, len : Nat \ {0}]
ReadsOn == {"readAll", "readToEnd"}

\* A read that goes on is the last step.
Orderly(s) == s \in Seq(Awaits) /\ \A i \in DOMAIN s : s[i].do \in ReadsOn => i = Len(s)

\* Steps that come before the last one.
Leading(s) == s \in Seq(Awaits) /\ \A i \in DOMAIN s : s[i].do \notin ReadsOn

Frameless(s) == \A i \in DOMAIN s : s[i].do # "frame"

\* The last read is the only one that makes data, and nothing is read after it but by
\* itself.
DataInv ==
    /\ \E k \in 0..Len(raw) : data = SubSeq(raw, k + 1, Len(raw))
    /\ data # << >> => steps = << >> \/ (Len(steps) = 1 /\ steps[1].do \in ReadsOn)

\* Bytes are kept in their order, and, but in a websocket, without a gap.
RawInv ==
    /\ \A i \in 1..Len(raw) : raw[i] <= consumed
    /\ \A i \in 1..(Len(raw) - 1) : raw[i] < raw[i + 1]
    /\ ~framed => raw = [i \in 1..consumed |-> i]

TalkInv ==
    /\ TalkTypeOK
    /\ Orderly(steps) /\ (~framed => Frameless(steps))
    /\ outcome = "idle" => raw = << >> /\ data = << >> /\ consumed = 0
    /\ outcome # "running" => steps = << >>
    /\ outcome = "running" => steps # << >>
    /\ DataInv /\ RawInv

\* A step is what it is made of.
Is(a, do) == a \in Awaits /\ a.do = do

\* The steps that blocks are made of ...
LEMMA AwaitsMade ==
    /\ Is(Await("connect", TRUE, TRUE), "connect")
    /\ Is(Await("handshake", TRUE, TRUE), "handshake")
    /\ Is(Await("refuse", TRUE, TRUE), "refuse")
    /\ Is(Await("write", TRUE, TRUE), "write") /\ Is(Await("write", FALSE, TRUE), "write")
    /\ Is(Await("flush", FALSE, FALSE), "flush")
    /\ Is(Await("put", FALSE, TRUE), "put")
    /\ Is(Await("readAll", TRUE, FALSE), "readAll")
    /\ Is(Await("readToEnd", TRUE, FALSE), "readToEnd")
    /\ Is(Await("frame", TRUE, FALSE), "frame")
    /\ Is(Await("close", FALSE, FALSE), "close") /\ Is(Await("close", TRUE, FALSE), "close")
    /\ Is(Await("output", FALSE, TRUE), "output") /\ Is(Await("launch", TRUE, TRUE), "launch")
    /\ Is(Await("command", TRUE, TRUE), "command")
    /\ Is(Await("command", TRUE, FALSE), "command")
    /\ Is(Await("poll", TRUE, FALSE), "poll")
    /\ Is(Skip, "skip")
BY DEF Is, Await, Skip, Awaits, Reads, Acts

\* ... and the reads with a length.
LEMMA ReadMade ==
    ASSUME NEW len \in Nat \ {0}
    PROVE  Is(Read(len), "read")
BY DEF Is, Read, Await, Awaits, Reads

\* What is in a sequence.
LEMMA InRange ==
    ASSUME NEW S, NEW s \in Seq(S), NEW i \in 1..Len(s)
    PROVE  s[i] \in S
OBVIOUS

\* What leads may be put in front.
LEMMA Joined ==
    ASSUME NEW s, NEW t, Leading(s)
    PROVE  /\ Leading(t) => Leading(s \o t)
           /\ Orderly(t) /\ t # << >> => Orderly(s \o t)
           /\ t \in Seq(Awaits) /\ Frameless(s) /\ Frameless(t) => Frameless(s \o t)
<1>1. ASSUME t \in Seq(Awaits)
      PROVE  /\ s \o t \in Seq(Awaits) /\ Len(s \o t) = Len(s) + Len(t)
             /\ \A i \in DOMAIN (s \o t) :
                   \/ i \in DOMAIN s /\ (s \o t)[i] = s[i]
                   \/ i - Len(s) \in DOMAIN t /\ (s \o t)[i] = t[i - Len(s)]
  BY <1>1 DEF Leading
<1>2. Leading(t) => Leading(s \o t)
  BY <1>1 DEF Leading
<1>3. ASSUME Orderly(t), t # << >> PROVE Orderly(s \o t)
  <2> SUFFICES ASSUME NEW i \in DOMAIN (s \o t), (s \o t)[i].do \in ReadsOn
               PROVE  i = Len(s) + Len(t)
    BY <1>1, <1>3 DEF Orderly
  <2>1. i - Len(s) \in DOMAIN t /\ t[i - Len(s)].do \in ReadsOn
    BY <1>1, <1>3 DEF Orderly, Leading
  <2>2. i - Len(s) = Len(t) /\ Len(t) \in Nat /\ Len(s) \in Nat /\ i \in Int
    BY <1>1, <1>3, <2>1 DEF Orderly, Leading
  <2> QED BY <2>2
<1>4. t \in Seq(Awaits) /\ Frameless(s) /\ Frameless(t) => Frameless(s \o t)
  BY <1>1 DEF Frameless
<1> QED BY <1>2, <1>3, <1>4

\* One step.
LEMMA OneAwait ==
    ASSUME NEW a, NEW do, Is(a, do)
    PROVE  /\ Orderly(<< a >>) /\ << a >> # << >> /\ << a >> \in Seq(Awaits)
           /\ do \notin ReadsOn => Leading(<< a >>)
           /\ do # "frame" => Frameless(<< a >>)
BY DEF Is, Orderly, Leading, Frameless

\* A conversation of no steps.
LEMMA NoAwait == Leading(<< >>) /\ Frameless(<< >>)
BY DEF Leading, Frameless

\* A sequence, by its elements.
LEMMA AwaitsBy ==
    ASSUME NEW n \in Nat, NEW s, DOMAIN s = 1..n, s = [k \in 1..n |-> s[k]],
           NEW kinds, ReadsOn \cap kinds = {},
           \A k \in 1..n : \E do \in kinds : Is(s[k], do)
    PROVE  /\ Leading(s)
           /\ "frame" \notin kinds => Frameless(s)
<1>1. \A k \in 1..n : s[k] \in Awaits /\ s[k].do \in kinds
  BY DEF Is
<1>2. s \in Seq(Awaits)
  BY <1>1
<1> QED BY <1>1, <1>2 DEF Leading, Frameless

\* Each client reads on, if at all, at the end; websockets alone have frames.
LEMMA StepsAreOrderly ==
    ASSUME NEW b \in Blocks
    PROVE  /\ Orderly(StepsOf(b)) /\ StepsOf(b) # << >>
           /\ b.kind # "websocket" => Frameless(StepsOf(b))
<1> DEFINE connect == << Await("connect", TRUE, TRUE) >>
           handshake == << Await("handshake", TRUE, TRUE) >>
           refuse == << Await("refuse", TRUE, TRUE) >>
<1>1. /\ b.kind \in {"network", "ssl", "whois", "websocket", "code", "headless"}
      /\ b.size \in Nat \ {0} /\ Len(b.inputs) \in Nat
      /\ DOMAIN b.inputs = 1..Len(b.inputs)
      /\ \A i \in 1..Len(b.inputs) : b.inputs[i].read \in Nat
  <2>1. b.inputs \in Seq([data : BOOLEAN, read : Nat, action : STRING])
    BY ConversationAssumption
  <2>2. \A i \in 1..Len(b.inputs) :
           b.inputs[i] \in [data : BOOLEAN, read : Nat, action : STRING]
    BY <2>1, InRange
  <2> QED BY <2>1, <2>2, ConversationAssumption
<1>2. /\ Leading(connect) /\ Frameless(connect) /\ connect # << >>
      /\ Leading(handshake) /\ Frameless(handshake) /\ Orderly(handshake)
      /\ Leading(refuse) /\ Frameless(refuse) /\ Orderly(refuse)
  <2>2. connect # << >> /\ Leading(connect) /\ Frameless(connect)
    BY DEF Await, Awaits, Acts, Leading, Frameless, ReadsOn
  <2>3. Leading(handshake) /\ Frameless(handshake)
    BY DEF Await, Awaits, Acts, Leading, Frameless, ReadsOn
  <2>4. Leading(refuse) /\ Frameless(refuse)
    BY DEF Await, Awaits, Acts, Leading, Frameless, ReadsOn
  <2>5. Orderly(handshake) /\ Orderly(refuse)
    BY <2>3, <2>4 DEF Leading, Orderly
  <2> QED BY <2>2, <2>3, <2>4, <2>5
<1> HIDE DEF connect, handshake, refuse
<1>3. CASE b.kind = "network"
  <2> DEFINE secure == IF b.tls THEN << Await("handshake", TRUE, TRUE) >> ELSE << >>
             last == << IF b.readAll THEN Await("readAll", TRUE, FALSE) ELSE Read(b.size) >>
  <2>1. Leading(secure) /\ Frameless(secure)
    BY <1>2, NoAwait DEF handshake
  <2>2. Leading(Exchange(b)) /\ Frameless(Exchange(b))
    <3> DEFINE Turn(k) == LET input == b.inputs[(k + 2) \div 3]
                          IN  CASE k % 3 = 1 /\ input.data -> Await("write", TRUE, TRUE)
                                [] k % 3 = 2 /\ input.data /\ b.tls -> Await("flush", FALSE, FALSE)
                                [] k % 3 = 0 /\ input.read > 0 -> Read(input.read)
                                [] OTHER -> Skip
               kinds == {"write", "flush", "skip", "read"}
    <3>1. ASSUME NEW k \in 1..(3 * Len(b.inputs))
          PROVE  \E do \in kinds : Is(Turn(k), do)
      <4> DEFINE input == b.inputs[(k + 2) \div 3]
      <4>1. input.read > 0 => Is(Read(input.read), "read")
        <5>1. (k + 2) \div 3 \in 1..Len(b.inputs)
          BY <1>1
        <5>2. input.read \in Nat
          BY <1>1, <5>1
        <5> QED BY <5>2, ReadMade
      <4>2. \/ Turn(k) = Await("write", TRUE, TRUE)
            \/ Turn(k) = Await("flush", FALSE, FALSE)
            \/ input.read > 0 /\ Turn(k) = Read(input.read)
            \/ Turn(k) = Skip
        <5> DEFINE p == k % 3 = 1 /\ input.data
                   q == k % 3 = 2 /\ input.data /\ b.tls
                   r == k % 3 = 0 /\ input.read > 0
        <5>1. Turn(k) = CASE p -> Await("write", TRUE, TRUE)
                          [] q -> Await("flush", FALSE, FALSE)
                          [] r -> Read(input.read)
                          [] OTHER -> Skip
          OBVIOUS
        <5>2. ~(p /\ q) /\ ~(p /\ r) /\ ~(q /\ r) /\ (r => input.read > 0)
          OBVIOUS
        <5> HIDE DEF p, q, r, Turn, input
        <5> QED BY <5>1, <5>2
      <4> HIDE DEF Turn, input
      <4> QED BY <4>1, <4>2, AwaitsMade
    <3>2. 3 * Len(b.inputs) \in Nat
      BY <1>1
    <3>3. ReadsOn \cap kinds = {} /\ "frame" \notin kinds
      BY DEF ReadsOn
    <3>4. Exchange(b) = [k \in 1..(3 * Len(b.inputs)) |-> Turn(k)]
      BY DEF Exchange
    <3>5. /\ DOMAIN Exchange(b) = 1..(3 * Len(b.inputs))
          /\ \A k \in 1..(3 * Len(b.inputs)) : Exchange(b)[k] = Turn(k)
      BY <3>4
    <3> HIDE DEF Turn, kinds
    <3>6. Exchange(b) = [k \in 1..(3 * Len(b.inputs)) |-> Exchange(b)[k]]
      BY <3>4
    <3>7. \A k \in 1..(3 * Len(b.inputs)) : \E do \in kinds : Is(Exchange(b)[k], do)
      BY <3>1, <3>5
    <3> QED BY <3>2, <3>3, <3>5, <3>6, <3>7, AwaitsBy
  <2>3. Orderly(last) /\ last # << >> /\ Frameless(last)
    <3> DEFINE a == IF b.readAll THEN Await("readAll", TRUE, FALSE) ELSE Read(b.size)
    <3>1. Is(Read(b.size), "read")
      BY <1>1, ReadMade
    <3>2. \E do \in {"readAll", "read"} : Is(a, do)
      BY <3>1, AwaitsMade
    <3>3. last = << a >>
      OBVIOUS
    <3> HIDE DEF a, last
    <3> QED BY <3>2, <3>3, OneAwait
  <2> HIDE DEF secure, last
  <2>4. Leading(connect \o secure) /\ Frameless(connect \o secure)
    BY <1>2, <2>1, Joined DEF Leading
  <2>5. Leading((connect \o secure) \o Exchange(b)) /\ Frameless((connect \o secure) \o Exchange(b))
    BY <2>2, <2>4, Joined DEF Leading
  <2>6. /\ Orderly(((connect \o secure) \o Exchange(b)) \o last)
        /\ Frameless(((connect \o secure) \o Exchange(b)) \o last)
    BY <2>3, <2>5, Joined DEF Orderly
  <2>7. StepsOf(b) = ((connect \o secure) \o Exchange(b)) \o last
    BY <1>3 DEF StepsOf, NetworkSteps, connect, secure, last
  <2>8. ((connect \o secure) \o Exchange(b)) \o last # << >>
    BY <2>3, <2>5 DEF Leading, Orderly
  <2> QED BY <2>6, <2>7, <2>8
<1>4. CASE b.kind = "ssl"
  <2>1. Leading(ResolveTlsVersions(b)) /\ Frameless(ResolveTlsVersions(b))
    BY <1>2, NoAwait DEF ResolveTlsVersions, refuse
  <2>2. Leading(connect \o ResolveTlsVersions(b)) /\ Frameless(connect \o ResolveTlsVersions(b))
    BY <1>2, <2>1, Joined DEF Leading
  <2>3. handshake # << >> /\ handshake \in Seq(Awaits)
    BY <1>2 DEF handshake, Leading
  <2>4. /\ Orderly((connect \o ResolveTlsVersions(b)) \o handshake)
        /\ Frameless((connect \o ResolveTlsVersions(b)) \o handshake)
        /\ (connect \o ResolveTlsVersions(b)) \o handshake # << >>
    <3>1. Orderly((connect \o ResolveTlsVersions(b)) \o handshake)
      BY <1>2, <2>2, <2>3, Joined
    <3>2. Frameless((connect \o ResolveTlsVersions(b)) \o handshake)
      BY <1>2, <2>2, <2>3, Joined
    <3> QED BY <3>1, <3>2, <2>2, <2>3 DEF Leading
  <2> QED BY <1>4, <2>4 DEF StepsOf, SslSteps, connect, handshake
<1>5. CASE b.kind = "whois"
  <2>1. StepsOf(b) = << Await("connect", TRUE, TRUE), Await("put", FALSE, TRUE),
                        Await("readToEnd", TRUE, FALSE) >>
    BY <1>5 DEF StepsOf, WhoisSteps
  <2> QED BY <2>1 DEF Await, Awaits, Reads, Acts, Orderly, Frameless, ReadsOn
<1>6. CASE b.kind = "websocket"
  <2> DEFINE Turn(k) == IF k % 2 = 1 THEN Await("write", FALSE, TRUE)
                                     ELSE Await("frame", TRUE, FALSE)
             turns == [k \in 1..(2 * Len(b.inputs)) |-> Turn(k)]
             last == << Await("close", FALSE, FALSE) >>
  <2>1. Leading(turns)
    <3> DEFINE kinds == {"write", "frame"}
    <3>1. \A k \in 1..(2 * Len(b.inputs)) : \E do \in kinds : Is(turns[k], do)
      BY AwaitsMade
    <3>2. 2 * Len(b.inputs) \in Nat /\ ReadsOn \cap kinds = {}
      BY <1>1 DEF ReadsOn
    <3>3. DOMAIN turns = 1..(2 * Len(b.inputs))
      OBVIOUS
    <3>4. turns = [k \in 1..(2 * Len(b.inputs)) |-> turns[k]]
      OBVIOUS
    <3> HIDE DEF turns, kinds
    <3> QED BY <3>1, <3>2, <3>3, <3>4, AwaitsBy
  <2>2. Orderly(last) /\ last # << >>
    BY DEF Await, Awaits, Acts, Orderly, ReadsOn
  <2> HIDE DEF turns, last
  <2>3. Leading(connect \o turns)
    BY <1>2, <2>1, Joined
  <2>4. Orderly((connect \o turns) \o last) /\ (connect \o turns) \o last # << >>
    <3>1. Orderly((connect \o turns) \o last)
      BY <2>2, <2>3, Joined
    <3> QED BY <3>1, <2>2, <2>3 DEF Leading, Orderly
  <2>5. StepsOf(b) = (connect \o turns) \o last
    BY <1>6 DEF StepsOf, WebSocketSteps, connect, turns, last
  <2> QED BY <1>6, <2>4, <2>5
<1>7. CASE b.kind = "code"
  <2>1. CASE CodeEnabled
    <3>1. StepsOf(b) = << Await("put", FALSE, TRUE), Await("output", FALSE, TRUE) >>
      BY <1>7, <2>1 DEF StepsOf, CodeSteps
    <3> QED BY <3>1 DEF Await, Awaits, Reads, Acts, Orderly, Frameless, ReadsOn
  <2>2. CASE ~CodeEnabled
    <3>1. StepsOf(b) = refuse /\ refuse # << >>
      BY <1>7, <2>2 DEF StepsOf, CodeSteps, refuse
    <3> QED BY <1>2, <3>1
  <2> QED BY <2>1, <2>2
<1>8. CASE b.kind = "headless"
  <2> DEFINE first == << Await("launch", TRUE, TRUE), Await("command", TRUE, TRUE) >>
             acts == [i \in DOMAIN b.inputs |-> HeadlessAction(b.inputs[i])]
             last == << Await("command", TRUE, TRUE), Await("close", TRUE, FALSE) >>
  <2>2. Leading(first) /\ Frameless(first)
    BY DEF Await, Awaits, Acts, Leading, Frameless, ReadsOn
  <2>3. Leading(last) /\ Orderly(last) /\ last # << >> /\ Frameless(last)
    BY DEF Await, Awaits, Acts, Leading, Frameless, ReadsOn, Orderly
  <2>4. Leading(acts) /\ Frameless(acts)
    <3> DEFINE kinds == {"poll", "command", "refuse", "skip"}
    <3>1. \A act : \E do \in kinds : Is(HeadlessAction(act), do)
      BY AwaitsMade DEF HeadlessAction
    <3>2. DOMAIN acts = 1..Len(b.inputs)
      BY <1>1
    <3>3. ReadsOn \cap kinds = {} /\ "frame" \notin kinds
      BY DEF ReadsOn
    <3>4. \A i \in 1..Len(b.inputs) : \E do \in kinds : Is(acts[i], do)
      BY <1>1, <3>1
    <3>5. acts = [i \in 1..Len(b.inputs) |-> acts[i]]
      BY <3>2
    <3> HIDE DEF kinds, acts
    <3> QED BY <1>1, <3>2, <3>3, <3>4, <3>5, AwaitsBy
  <2> HIDE DEF first, acts, last
  <2>5. Leading(first \o acts) /\ Frameless(first \o acts)
    BY <2>2, <2>4, Joined DEF Leading
  <2>6. /\ Orderly((first \o acts) \o last) /\ Frameless((first \o acts) \o last)
        /\ (first \o acts) \o last # << >>
    <3>1. Orderly((first \o acts) \o last) /\ Frameless((first \o acts) \o last)
      BY <2>3, <2>5, Joined DEF Orderly
    <3> QED BY <3>1, <2>3, <2>5 DEF Leading, Orderly
  <2>7. StepsOf(b) = (first \o acts) \o last
    BY <1>8 DEF StepsOf, HeadlessSteps, first, acts, last
  <2> QED BY <2>6, <2>7
<1> QED BY <1>1, <1>3, <1>4, <1>5, <1>6, <1>7, <1>8

\* No conversation has begun.
LEMMA TalkInitially == TalkInit => TalkInv
<1> SUFFICES ASSUME TalkInit PROVE TalkInv
  OBVIOUS
<1>1. /\ steps = << >> /\ outcome = "idle" /\ arrived = 0 /\ consumed = 0
      /\ raw = << >> /\ data = << >> /\ closed = FALSE
      /\ bounded = FALSE /\ framed = FALSE
  BY DEF TalkInit
<1>2. TalkTypeOK
  <2>1. 0 \in 0..MaxBytes /\ 0 \in 0..0
    BY ConversationAssumption
  <2>2. steps \in Seq([do : Reads \cup Acts \cup {"put", "refuse", "skip"}, timed : BOOLEAN,
                      must : BOOLEAN, len : Nat \ {0}])
    BY <1>1
  <2>3. raw \in Seq(1..MaxBytes) /\ data \in Seq(1..MaxBytes)
    BY <1>1
  <2> QED BY <1>1, <2>1, <2>2, <2>3 DEF TalkTypeOK
<1>3. Orderly(steps)
  BY <1>1 DEF Orderly
<1>6. Frameless(steps)
  BY <1>1, NoAwait
<1>4. DataInv
  <2>1. 0 \in 0..Len(raw) /\ data = SubSeq(raw, 1, Len(raw))
    BY <1>1
  <2> QED BY <1>1, <2>1 DEF DataInv
<1>5. RawInv
  BY <1>1 DEF RawInv
<1> QED BY <1>1, <1>2, <1>3, <1>4, <1>5, <1>6 DEF TalkInv

\* Steps are taken from the front.
LEMMA RestIsOrderly ==
    ASSUME NEW s, Orderly(s), s # << >>
    PROVE  /\ Orderly(Tail(s)) /\ (Frameless(s) => Frameless(Tail(s)))
           /\ (Tail(s) = << >> <=> Len(s) = 1)
           /\ s[1].do \in ReadsOn => Len(s) = 1
<1>1. /\ Tail(s) \in Seq(Awaits) /\ Len(Tail(s)) = Len(s) - 1 /\ Len(s) \in Nat /\ Len(s) > 0
      /\ \A i \in DOMAIN Tail(s) : i + 1 \in DOMAIN s /\ Tail(s)[i] = s[i + 1] /\ i \in Nat
      /\ 1 \in DOMAIN s
  BY DEF Orderly
<1>2. Orderly(Tail(s))
  BY <1>1 DEF Orderly
<1>3. Frameless(s) => Frameless(Tail(s))
  BY <1>1 DEF Frameless
<1>4. s[1].do \in ReadsOn => Len(s) = 1
  BY <1>1 DEF Orderly
<1>5. Tail(s) = << >> <=> Len(s) = 1
  <2>1. Tail(s) = << >> <=> Len(Tail(s)) = 0
    BY <1>1, EmptySeq
  <2> QED BY <1>1, <2>1
<1> QED BY <1>2, <1>3, <1>4, <1>5

\* What a step that goes on, or gives up, keeps.
LEMMA TalkAdvance ==
    ASSUME TalkInv, outcome = "running", Advance \/ Abort
    PROVE  /\ steps' \in Seq(Awaits) /\ Orderly(steps') /\ (Frameless(steps) => Frameless(steps'))
           /\ outcome' \in {"ok", "running", "error"}
           /\ outcome' # "running" => steps' = << >>
           /\ outcome' = "running" => steps' # << >>
           /\ Len(steps) = 1 => steps' = << >>
<1>1. steps # << >> /\ Orderly(steps)
  BY DEF TalkInv
<1>2. CASE Advance
  BY <1>1, <1>2, RestIsOrderly DEF Advance, Orderly
<1>3. CASE Abort
  BY <1>3, NoAwait DEF Abort, Orderly, Frameless
<1> QED BY <1>2, <1>3

\* A step that reads nothing keeps the invariant.
LEMMA TalkQuiet ==
    ASSUME TalkInv, outcome = "running", Advance \/ Abort,
           UNCHANGED <<arrived, closed, consumed, raw, data, bounded, framed>>
    PROVE  TalkInv'
<1> USE DEF TalkInv
<1>1. /\ steps' \in Seq(Awaits) /\ Orderly(steps') /\ (~framed' => Frameless(steps'))
      /\ outcome' \in {"ok", "running", "error"}
      /\ outcome' # "running" => steps' = << >>
      /\ outcome' = "running" => steps' # << >>
  BY TalkAdvance
<1>2. TalkTypeOK'
  BY <1>1 DEF TalkTypeOK, Awaits
<1>3. DataInv'
  <2>1. \E k \in 0..Len(raw') : data' = SubSeq(raw', k + 1, Len(raw'))
    BY DEF DataInv
  <2>2. data # << >> => Len(steps) = 1
    BY DEF DataInv
  <2>3. data' # << >> => steps' = << >>
    BY <2>2, TalkAdvance
  <2> QED BY <2>1, <2>3 DEF DataInv
<1>4. RawInv'
  BY DEF RawInv
<1> QED BY <1>1, <1>2, <1>3, <1>4

\* The n bytes that come next.
LEMMA NextBytes ==
    ASSUME TalkInv, NEW n \in 1..Unread
    PROVE  /\ Bytes(n) \in Seq(1..MaxBytes) /\ Len(Bytes(n)) = n
           /\ \A i \in 1..n : Bytes(n)[i] = consumed + i
           /\ n \in Nat /\ n > 0 /\ consumed \in Nat /\ consumed + n <= arrived
           /\ arrived \in Nat /\ arrived <= MaxBytes
<1>1. arrived \in 0..MaxBytes /\ consumed \in 0..arrived /\ MaxBytes \in Nat
  BY ConversationAssumption DEF TalkInv, TalkTypeOK
<1>2. arrived \in Nat /\ consumed \in Nat /\ n \in Nat /\ n > 0 /\ consumed + n <= arrived
  BY <1>1 DEF Unread
<1>3. \A i \in 1..n : consumed + i \in 1..MaxBytes
  BY <1>1, <1>2
<1>4. Bytes(n) \in [1..n -> 1..MaxBytes]
  BY <1>3 DEF Bytes
<1> QED BY <1>1, <1>2, <1>4 DEF Bytes

\* Numbers that go on where a sequence ends.
LEMMA Continued ==
    ASSUME NEW m \in Nat, NEW s \in Seq(1..m), NEW t \in Seq(1..m), NEW c \in Nat,
           Len(t) > 0,
           \A i \in 1..Len(s) : s[i] <= c,
           \A i \in 1..(Len(s) - 1) : s[i] < s[i + 1],
           \A i \in 1..Len(t) : t[i] = c + i
    PROVE  /\ s \o t \in Seq(1..m) /\ Len(s \o t) = Len(s) + Len(t)
           /\ \A i \in 1..Len(s \o t) : (s \o t)[i] <= c + Len(t)
           /\ \A i \in 1..(Len(s \o t) - 1) : (s \o t)[i] < (s \o t)[i + 1]
           /\ s = [i \in 1..c |-> i] => s \o t = [i \in 1..(c + Len(t)) |-> i]
<1> DEFINE u == s \o t
<1>1. /\ u \in Seq(1..m) /\ Len(u) = Len(s) + Len(t)
      /\ \A i \in 1..(Len(s) + Len(t)) : u[i] = IF i <= Len(s) THEN s[i] ELSE t[i - Len(s)]
  BY ConcatProperties
<1>2. Len(s) \in Nat /\ Len(t) \in Nat /\ \A i \in 1..Len(s) : s[i] \in Nat
  OBVIOUS
<1> HIDE DEF u
<1>3. ASSUME NEW i \in 1..Len(u)
      PROVE  /\ i \in Nat
             /\ i <= Len(s) => u[i] = s[i] /\ u[i] <= c /\ u[i] \in Nat
             /\ i > Len(s) => u[i] = c + (i - Len(s)) /\ i - Len(s) <= Len(t)
  <2>1. CASE i <= Len(s)
    <3>1. i \in 1..Len(s) /\ u[i] = s[i]
      BY <1>1, <1>2, <2>1
    <3> QED BY <1>2, <2>1, <3>1
  <2>2. CASE i > Len(s)
    <3>1. i - Len(s) \in 1..Len(t) /\ u[i] = t[i - Len(s)]
      BY <1>1, <1>2, <2>2
    <3> QED BY <1>1, <1>2, <2>2, <3>1
  <2> QED BY <1>1, <1>2, <2>1, <2>2
<1>4. ASSUME NEW i \in 1..Len(u) PROVE u[i] <= c + Len(t)
  <2>1. CASE i <= Len(s)
    <3>1. u[i] <= c /\ u[i] \in Nat
      BY <1>3, <2>1
    <3> QED BY <1>2, <3>1
  <2>2. CASE i > Len(s)
    <3>1. u[i] = c + (i - Len(s)) /\ i - Len(s) <= Len(t) /\ i \in Nat
      BY <1>3, <2>2
    <3> QED BY <1>2, <3>1
  <2> QED BY <1>2, <1>3, <2>1, <2>2
<1>5. ASSUME NEW i \in 1..(Len(u) - 1) PROVE u[i] < u[i + 1]
  <2>1. i \in 1..Len(u) /\ i + 1 \in 1..Len(u) /\ i \in Nat
    BY <1>1, <1>2
  <2>2. CASE i + 1 <= Len(s)
    <3>1. i \in 1..(Len(s) - 1) /\ u[i] = s[i] /\ u[i + 1] = s[i + 1]
      BY <1>2, <1>3, <2>1, <2>2
    <3> QED BY <3>1
  <2>3. CASE i = Len(s)
    <3>1. u[i] <= c /\ u[i] \in Nat /\ u[i + 1] = c + 1
      BY <1>2, <1>3, <2>1, <2>3
    <3> QED BY <3>1
  <2>4. CASE i > Len(s)
    <3>1. u[i] = c + (i - Len(s)) /\ u[i + 1] = c + (i + 1 - Len(s))
      BY <1>2, <1>3, <2>1, <2>4
    <3> QED BY <1>2, <2>1, <3>1
  <2> QED BY <1>2, <2>1, <2>2, <2>3, <2>4
<1>6. ASSUME s = [i \in 1..c |-> i] PROVE u = [i \in 1..(c + Len(t)) |-> i]
  <2>1. Len(s) = c /\ \A i \in 1..c : s[i] = i
    <3>1. DOMAIN s = 1..c /\ DOMAIN s = 1..Len(s)
      BY <1>6
    <3> QED BY <1>2, <1>6, <3>1
  <2>2. Len(u) = c + Len(t) /\ \A i \in 1..Len(u) : u[i] = i
    BY <1>1, <1>2, <1>3, <2>1
  <2>3. u = [i \in 1..Len(u) |-> u[i]]
    BY <1>1
  <2> QED BY <2>2, <2>3
<1> QED BY <1>1, <1>4, <1>5, <1>6 DEF u

\* The end of a sequence grows with it.
LEMMA EndContinued ==
    ASSUME NEW S, NEW s \in Seq(S), NEW t \in Seq(S), NEW k \in 0..Len(s)
    PROVE  SubSeq(s, k + 1, Len(s)) \o t = SubSeq(s \o t, k + 1, Len(s \o t))
<1> DEFINE d == SubSeq(s, k + 1, Len(s))
           u == s \o t
           e == SubSeq(u, k + 1, Len(u))
<1>1. Len(s) \in Nat /\ Len(t) \in Nat /\ k \in Nat /\ k <= Len(s)
  OBVIOUS
<1>2. /\ u \in Seq(S) /\ Len(u) = Len(s) + Len(t)
      /\ \A i \in 1..(Len(s) + Len(t)) : u[i] = IF i <= Len(s) THEN s[i] ELSE t[i - Len(s)]
  BY ConcatProperties
<1>3. /\ d \in Seq(S) /\ Len(d) = Len(s) - k
      /\ \A i \in 1..(Len(s) - k) : d[i] = s[k + i]
  <2>1. \A i \in (k + 1)..Len(s) : s[i] \in S
    BY <1>1
  <2>2. k + 1 \in Int /\ Len(s) \in Int
    BY <1>1
  <2>3. /\ d \in Seq(S)
        /\ Len(d) = IF k + 1 <= Len(s) THEN Len(s) - (k + 1) + 1 ELSE 0
        /\ \A i \in 1..(Len(s) - (k + 1) + 1) : d[i] = s[k + 1 + i - 1]
    BY <2>1, <2>2, SubSeqProperties
  <2> HIDE DEF d
  <2>4. Len(d) = Len(s) - k /\ Len(s) - (k + 1) + 1 = Len(s) - k
    BY <1>1, <2>3
  <2>5. \A i \in 1..(Len(s) - k) : k + 1 + i - 1 = k + i
    BY <1>1
  <2> QED BY <2>3, <2>4, <2>5
<1> HIDE DEF u, d
<1>4. /\ e \in Seq(S) /\ Len(e) = Len(u) - k
      /\ \A i \in 1..(Len(u) - k) : e[i] = u[k + i]
  <2>1. \A i \in (k + 1)..Len(u) : u[i] \in S
    BY <1>1, <1>2
  <2>2. k + 1 \in Int /\ Len(u) \in Int
    BY <1>1, <1>2
  <2>3. /\ e \in Seq(S)
        /\ Len(e) = IF k + 1 <= Len(u) THEN Len(u) - (k + 1) + 1 ELSE 0
        /\ \A i \in 1..(Len(u) - (k + 1) + 1) : e[i] = u[k + 1 + i - 1]
    BY <2>1, <2>2, SubSeqProperties
  <2> HIDE DEF e
  <2>4. Len(e) = Len(u) - k /\ Len(u) - (k + 1) + 1 = Len(u) - k
    BY <1>1, <1>2, <2>3
  <2>5. \A i \in 1..(Len(u) - k) : k + 1 + i - 1 = k + i
    BY <1>1, <1>2
  <2> QED BY <2>3, <2>4, <2>5
<1>5. /\ d \o t \in Seq(S) /\ Len(d \o t) = Len(d) + Len(t)
      /\ \A i \in 1..(Len(d) + Len(t)) : (d \o t)[i] = IF i <= Len(d) THEN d[i] ELSE t[i - Len(d)]
  BY <1>3, ConcatProperties
<1> HIDE DEF e
<1>6. Len(d \o t) = Len(e)
  BY <1>1, <1>2, <1>3, <1>4, <1>5
<1>7. ASSUME NEW i \in 1..Len(e) PROVE (d \o t)[i] = e[i]
  <2>0. i \in Nat /\ i >= 1 /\ i <= Len(s) - k + Len(t)
    BY <1>1, <1>2, <1>4
  <2>1. CASE i <= Len(d)
    <3>0. i \in 1..(Len(d) + Len(t)) /\ i \in 1..(Len(s) - k)
      BY <1>1, <1>3, <2>0, <2>1
    <3>1. (d \o t)[i] = d[i] /\ d[i] = s[k + i]
      BY <1>3, <1>5, <2>1, <3>0
    <3>2. e[i] = u[k + i]
      BY <1>4
    <3>3. k + i \in 1..(Len(s) + Len(t)) /\ k + i <= Len(s)
      BY <1>1, <1>3, <2>0, <2>1
    <3>4. u[k + i] = s[k + i]
      BY <1>2, <3>3
    <3> QED BY <3>1, <3>2, <3>4
  <2>2. CASE i > Len(d)
    <3>0. i \in 1..(Len(d) + Len(t)) /\ ~(i <= Len(d))
      BY <1>1, <1>3, <2>0, <2>2
    <3>1. (d \o t)[i] = t[i - Len(d)]
      BY <1>5, <3>0
    <3>2. e[i] = u[k + i]
      BY <1>4
    <3>4. /\ k + i \in 1..(Len(s) + Len(t)) /\ ~(k + i <= Len(s))
      BY <1>1, <1>3, <2>0, <2>2
    <3>5. u[k + i] = t[k + i - Len(s)]
      BY <1>2, <3>4
    <3>3. i - Len(d) = k + i - Len(s)
      BY <1>1, <1>3
    <3> QED BY <3>1, <3>2, <3>3, <3>5
  <2> QED BY <1>1, <1>3, <2>0, <2>1, <2>2
<1> QED BY <1>4, <1>5, <1>6, <1>7, SeqEqual DEF d, e, u

\* The bytes that are read are put behind what was kept.
LEMMA KeptLonger ==
    ASSUME TalkInv, NEW n \in 1..Unread, raw' = raw \o Bytes(n), consumed' = consumed + n,
           framed' = framed
    PROVE  RawInv' /\ raw' \in Seq(1..MaxBytes) /\ Len(raw') = Len(raw) + n
<1>1. /\ Bytes(n) \in Seq(1..MaxBytes) /\ Len(Bytes(n)) = n /\ n \in Nat /\ n > 0
      /\ consumed \in Nat /\ \A i \in 1..n : Bytes(n)[i] = consumed + i
  BY NextBytes
<1>2. raw \in Seq(1..MaxBytes) /\ MaxBytes \in Nat
  BY ConversationAssumption DEF TalkInv, TalkTypeOK
<1>3. /\ \A i \in 1..Len(raw) : raw[i] <= consumed
      /\ \A i \in 1..(Len(raw) - 1) : raw[i] < raw[i + 1]
      /\ ~framed => raw = [i \in 1..consumed |-> i]
  BY DEF TalkInv, RawInv
<1> DEFINE t == Bytes(n)
<1>4. t \in Seq(1..MaxBytes) /\ Len(t) = n /\ Len(t) > 0 /\ \A i \in 1..Len(t) : t[i] = consumed + i
  BY <1>1
<1> HIDE DEF t
<1>5. /\ raw \o t \in Seq(1..MaxBytes) /\ Len(raw \o t) = Len(raw) + Len(t)
      /\ \A i \in 1..Len(raw \o t) : (raw \o t)[i] <= consumed + Len(t)
      /\ \A i \in 1..(Len(raw \o t) - 1) : (raw \o t)[i] < (raw \o t)[i + 1]
      /\ raw = [i \in 1..consumed |-> i] => raw \o t = [i \in 1..(consumed + Len(t)) |-> i]
  <2>1. \A i \in 1..Len(raw) : raw[i] <= consumed
    BY <1>3
  <2>2. \A i \in 1..(Len(raw) - 1) : raw[i] < raw[i + 1]
    BY <1>3
  <2>3. consumed \in Nat /\ Len(t) > 0 /\ \A i \in 1..Len(t) : t[i] = consumed + i
    BY <1>1, <1>4
  <2>4. t \in Seq(1..MaxBytes)
    BY <1>4
  <2>5. raw \o t \in Seq(1..MaxBytes) /\ Len(raw \o t) = Len(raw) + Len(t)
    BY <1>2, <2>1, <2>2, <2>3, <2>4, Continued
  <2>6. \A i \in 1..Len(raw \o t) : (raw \o t)[i] <= consumed + Len(t)
    BY <1>2, <2>1, <2>2, <2>3, <2>4, Continued
  <2>7. \A i \in 1..(Len(raw \o t) - 1) : (raw \o t)[i] < (raw \o t)[i + 1]
    BY <1>2, <2>1, <2>2, <2>3, <2>4, Continued
  <2>8. raw = [i \in 1..consumed |-> i] => raw \o t = [i \in 1..(consumed + Len(t)) |-> i]
    BY <1>2, <2>1, <2>2, <2>3, <2>4, Continued
  <2> QED BY <2>5, <2>6, <2>7, <2>8
<1>6. raw' = raw \o t /\ consumed' = consumed + Len(t) /\ Len(raw') = Len(raw) + n
  BY <1>1, <1>5 DEF t
<1> QED BY <1>3, <1>5, <1>6 DEF RawInv

\* Every step of a conversation keeps its invariant.
LEMMA TalkKept == TalkInv /\ [TalkNext]_talkVars => TalkInv'
<1> SUFFICES ASSUME TalkInv, [TalkNext]_talkVars PROVE TalkInv'
  OBVIOUS
<1>0. /\ raw \in Seq(1..MaxBytes) /\ data \in Seq(1..MaxBytes) /\ Len(raw) \in Nat
      /\ steps \in Seq(Awaits) /\ Orderly(steps)
  BY DEF TalkInv, TalkTypeOK, Orderly
<1>1. CASE UNCHANGED talkVars
  BY <1>1 DEF talkVars, TalkInv, TalkTypeOK, DataInv, RawInv, Orderly, Frameless
<1>2. CASE StartTalk
  <2>1. PICK b \in Blocks :
           /\ steps' = StepsOf(b)
           /\ bounded' = Bounded(b) /\ framed' = (b.kind = "websocket")
    BY <1>2 DEF StartTalk
  <2>2. /\ outcome = "idle" /\ outcome' = "running" /\ raw = << >> /\ data = << >>
        /\ consumed = 0 /\ UNCHANGED <<arrived, closed, consumed, raw, data>>
    BY <1>2 DEF StartTalk, TalkInv
  <2>3. /\ Orderly(steps') /\ steps' # << >> /\ (~framed' => Frameless(steps'))
    BY <2>1, StepsAreOrderly
  <2>4. TalkTypeOK'
    <3>1. steps' \in Seq(Awaits) /\ bounded' \in BOOLEAN /\ framed' \in BOOLEAN
      BY <2>1, <2>3 DEF Orderly, Bounded
    <3> QED BY <2>2, <3>1 DEF TalkInv, TalkTypeOK, Awaits
  <2>5. DataInv'
    BY <2>2 DEF TalkInv, DataInv
  <2>6. RawInv'
    BY <2>2 DEF RawInv
  <2> QED BY <2>2, <2>3, <2>4, <2>5, <2>6 DEF TalkInv
<1>3. CASE Answer
  BY <1>3, TalkQuiet DEF Answer, Awaiting
<1>4. CASE ActAlone
  BY <1>4, TalkQuiet DEF ActAlone, Awaiting
<1>5. CASE PeerSends \/ PeerCloses
  <2>0. arrived \in 0..MaxBytes /\ MaxBytes \in Nat /\ closed \in BOOLEAN
    BY ConversationAssumption DEF TalkInv, TalkTypeOK
  <2>1. /\ UNCHANGED <<steps, outcome, consumed, raw, data, bounded, framed>>
        /\ arrived' \in 0..MaxBytes /\ arrived <= arrived' /\ closed' \in BOOLEAN
    <3>1. CASE PeerSends
      <4>1. arrived < MaxBytes /\ arrived' = arrived + 1 /\ closed' = closed
            /\ UNCHANGED <<steps, outcome, consumed, raw, data, bounded, framed>>
        BY <3>1 DEF PeerSends
      <4> QED BY <2>0, <4>1
    <3>2. CASE PeerCloses
      BY <2>0, <3>2 DEF PeerCloses
    <3> QED BY <1>5, <3>1, <3>2
  <2>2. TalkTypeOK'
    <3>1. consumed' \in 0..arrived'
      BY <2>1, ConversationAssumption DEF TalkInv, TalkTypeOK
    <3> QED BY <2>1, <3>1 DEF TalkInv, TalkTypeOK
  <2>3. DataInv' /\ RawInv'
    BY <2>1 DEF TalkInv, DataInv, RawInv
  <2> QED BY <2>1, <2>2, <2>3 DEF TalkInv, Orderly, Frameless
<1>6. CASE ReadChunk
  <2>1. PICK n \in 1..Unread :
           /\ data' = IF Len(steps) = 1 THEN Bytes(n) ELSE data
           /\ raw' = raw \o Bytes(n)
           /\ consumed' = consumed + n
    BY <1>6 DEF ReadChunk
  <2>2. /\ outcome = "running" /\ Advance /\ steps # << >> /\ steps[1].do = "read"
        /\ UNCHANGED <<arrived, closed, bounded, framed>>
    BY <1>6 DEF ReadChunk, Awaiting
  <2>3. /\ Bytes(n) \in Seq(1..MaxBytes) /\ Len(Bytes(n)) = n /\ n \in Nat /\ n > 0
        /\ consumed + n <= arrived /\ consumed \in Nat /\ arrived \in Nat
    BY NextBytes
  <2>4. RawInv' /\ raw' \in Seq(1..MaxBytes) /\ Len(raw') = Len(raw) + n
    BY <2>1, <2>2, KeptLonger
  <2>5. TalkTypeOK'
    <3>1. steps' \in Seq(Awaits) /\ outcome' \in {"ok", "running", "error"}
      BY <2>2, TalkAdvance
    <3>2. data' \in Seq(1..MaxBytes)
      BY <1>0, <2>1, <2>3
    <3>3. consumed' \in 0..arrived'
      BY <2>1, <2>2, <2>3
    <3> QED BY <2>2, <2>4, <3>1, <3>2, <3>3 DEF TalkInv, TalkTypeOK, Awaits
  <2>6. DataInv'
    <3>1. CASE Len(steps) = 1
      <4>1. data' = SubSeq(raw', Len(raw) + 1, Len(raw'))
        BY <1>0, <2>1, <2>3, <2>4, <3>1
      <4>2. Len(raw) \in 0..Len(raw')
        BY <1>0, <2>3, <2>4
      <4>3. steps' = << >>
        BY <2>2, <3>1, TalkAdvance
      <4> QED BY <4>1, <4>2, <4>3 DEF DataInv
    <3>2. CASE Len(steps) # 1
      <4>1. data' = << >>
        BY <2>1, <2>2, <3>2 DEF TalkInv, DataInv
      <4>2. Len(raw') \in 0..Len(raw') /\ SubSeq(raw', Len(raw') + 1, Len(raw')) = << >>
        BY <1>0, <2>3, <2>4
      <4> QED BY <4>1, <4>2 DEF DataInv
    <3> QED BY <3>1, <3>2
  <2> QED BY <2>2, <2>4, <2>5, <2>6, TalkAdvance DEF TalkInv
<1>7. CASE ReadOn
  <2>1. /\ outcome = "running" /\ steps # << >> /\ steps[1].do \in ReadsOn /\ Unread > 0
        /\ data' = data \o Bytes(Unread) /\ raw' = raw \o Bytes(Unread)
        /\ consumed' = arrived /\ UNCHANGED <<steps, outcome, arrived, closed, bounded, framed>>
    BY <1>7 DEF ReadOn, Awaiting, ReadsOn
  <2>2. Unread \in 1..Unread /\ consumed' = consumed + Unread
    <3>1. arrived \in 0..MaxBytes /\ consumed \in 0..arrived
      BY DEF TalkInv, TalkTypeOK
    <3> QED BY <2>1, <3>1 DEF Unread
  <2>3. Bytes(Unread) \in Seq(1..MaxBytes) /\ Len(Bytes(Unread)) = Unread
    BY <2>2, NextBytes
  <2>4. RawInv' /\ raw' \in Seq(1..MaxBytes) /\ Len(raw') = Len(raw) + Unread
    BY <2>1, <2>2, KeptLonger
  <2>5. TalkTypeOK'
    <3>1. data' \in Seq(1..MaxBytes)
      BY <1>0, <2>1, <2>3
    <3>2. consumed' \in 0..arrived'
      BY <2>1 DEF TalkInv, TalkTypeOK
    <3> QED BY <2>1, <2>4, <3>1, <3>2 DEF TalkInv, TalkTypeOK
  <2>6. DataInv'
    <3>1. PICK k \in 0..Len(raw) : data = SubSeq(raw, k + 1, Len(raw))
      BY DEF TalkInv, DataInv
    <3> DEFINE bytes == Bytes(Unread)
    <3>2. bytes \in Seq(1..MaxBytes) /\ Len(bytes) \in Nat /\ raw' = raw \o bytes
          /\ data' = data \o bytes
      BY <2>1, <2>3
    <3> HIDE DEF bytes
    <3>3. data \o bytes = SubSeq(raw \o bytes, k + 1, Len(raw \o bytes))
      BY <1>0, <3>1, <3>2, EndContinued
    <3>4. k \in 0..Len(raw')
      BY <1>0, <2>2, <2>4
    <3>5. Len(steps') = 1 /\ steps'[1].do \in ReadsOn
      BY <1>0, <2>1, RestIsOrderly
    <3> QED BY <3>2, <3>3, <3>4, <3>5 DEF DataInv
  <2> QED BY <2>1, <2>4, <2>5, <2>6 DEF TalkInv, Orderly, Frameless
<1>8. CASE ReadFrame
  <2>1. /\ outcome = "running" /\ steps # << >> /\ steps[1].do = "frame" /\ Unread > 0
        /\ consumed' = consumed + 1 /\ raw' \in {raw, raw \o Bytes(1)} /\ Advance
        /\ UNCHANGED <<arrived, closed, data, bounded, framed>>
    BY <1>8 DEF ReadFrame, Awaiting
  <2>2. /\ 1 \in 1..Unread /\ consumed \in Nat /\ consumed + 1 <= arrived
        /\ arrived \in Nat
    <3>1. arrived \in 0..MaxBytes /\ consumed \in 0..arrived
      BY DEF TalkInv, TalkTypeOK
    <3> QED BY <2>1, <3>1 DEF Unread
  <2>3. framed
    <3>1. 1 \in DOMAIN steps
      BY <1>0, <2>1
    <3> QED BY <2>1, <3>1 DEF TalkInv, Frameless
  <2>4. RawInv' /\ raw' \in Seq(1..MaxBytes)
    <3>1. CASE raw' = raw
      <4>1. \A i \in 1..Len(raw) : raw[i] <= consumed + 1
        <5>1. \A i \in 1..Len(raw) : raw[i] \in 1..MaxBytes
          BY <1>0, ElementOfSeq
        <5>2. \A i \in 1..Len(raw) : raw[i] <= consumed
          BY DEF TalkInv, RawInv
        <5> QED BY <2>2, <5>1, <5>2, ConversationAssumption
      <4> QED BY <1>0, <2>1, <2>3, <3>1, <4>1 DEF TalkInv, RawInv
    <3>2. CASE raw' = raw \o Bytes(1)
      BY <2>1, <2>2, <3>2, KeptLonger
    <3> QED BY <2>1, <3>1, <3>2
  <2>5. TalkTypeOK'
    <3>1. steps' \in Seq(Awaits) /\ outcome' \in {"ok", "running", "error"}
      BY <2>1, TalkAdvance
    <3>2. consumed' \in 0..arrived'
      BY <2>1, <2>2
    <3> QED BY <2>1, <2>4, <3>1, <3>2 DEF TalkInv, TalkTypeOK, Awaits
  <2>6. DataInv'
    <3>1. data' = << >>
      BY <2>1 DEF TalkInv, DataInv, ReadsOn
    <3>2. Len(raw') \in 0..Len(raw') /\ SubSeq(raw', Len(raw') + 1, Len(raw')) = << >>
      BY <2>4
    <3> QED BY <3>1, <3>2 DEF DataInv
  <2> QED BY <2>1, <2>3, <2>4, <2>5, <2>6, TalkAdvance DEF TalkInv
<1>9. CASE ReadNothing
  BY <1>9, TalkQuiet DEF ReadNothing, Awaiting
<1>10. CASE TimedOut
  BY <1>10, TalkQuiet DEF TimedOut, Awaiting
<1> QED BY <1>1, <1>2, <1>3, <1>4, <1>5, <1>6, <1>7, <1>8, <1>9, <1>10 DEF TalkNext

\* Whatever the block, and however the peer deals its bytes out, what the client keeps
\* is the stream of the peer, and the last read is the end of it.
THEOREM RawIsTranscriptHolds == TalkSpec => []RawIsTranscript
<1>1. TalkInv => RawIsTranscript
  BY DEF TalkInv, DataInv, RawInv, RawIsTranscript
<1> QED BY <1>1, TalkInitially, TalkKept, PTL DEF TalkSpec

(***************************************************************************)
(* JsRuntime: no handle of a script reaches an object the script did not    *)
(* make with it.                                                           *)
(***************************************************************************)
\* The behaviours of the runtime while javascript blocks are at work.
JsSpec == JsInit /\ [][JsNext]_jsVars

(***************************************************************************)
(* The inductive invariant.                                                *)
(***************************************************************************)
\* What the steps need of the types.
Shape ==
    /\ running \in [Threads -> Nat]
    /\ started \in Nat
    /\ tables \in [Threads -> [Tables -> SUBSET Object]]
    /\ nextId \in [Threads -> [Tables -> Nat]]
    /\ handles \in [Scripts -> Seq(Handle)]

\* A script runs on one thread, and has no handles before it started.
OneThread ==
    /\ \A t \in Threads : running[t] \in {0} \cup Scripts /\ running[t] <= started
    /\ \A t, u \in Threads : running[t] = running[u] /\ running[t] # 0 => t = u
    /\ \A s \in Scripts : s > started => handles[s] = << >>

\* Ids are given once in the life of a thread: the tables and the handles of its
\* script know only ids given before.
IdsBelow ==
    /\ \A t \in Threads, k \in Tables : \A o \in tables[t][k] : o.id < nextId[t][k]
    /\ \A t \in Threads : running[t] # 0 =>
          \A i \in DOMAIN handles[running[t]] :
             LET h == handles[running[t]][i] IN h.id < nextId[t][h.table]

\* The strengthening of HandlesStayOwn.
JsInv == Shape /\ OneThread /\ IdsBelow /\ HandlesStayOwn

(***************************************************************************)
(* Each step preserves the invariant.                                      *)
(***************************************************************************)
\* HandlesStayOwn, of one handle and one object.
LEMMA Reaches ==
    ASSUME HandlesStayOwn, NEW t \in Threads, running[t] # 0,
           NEW i \in DOMAIN handles[running[t]],
           NEW o \in tables[t][handles[running[t]][i].table],
           o.id = handles[running[t]][i].id
    PROVE  o.by = running[t] /\ o.n = i
BY DEF HandlesStayOwn

\* Scripts are numbered from 1.
LEMMA ScriptsAreNumbers == \A s \in Scripts : s \in Nat \ {0}
BY JsAssumption

\* A script starts with no handles, so it reaches nothing left in the tables.
LEMMA ExecuteStep ==
    ASSUME JsInv, NEW t \in Threads, Execute(t)
    PROVE  JsInv'
<1> USE DEF JsInv
<1>0. /\ running[t] = 0 /\ started + 1 \in Scripts /\ started' = started + 1
      /\ running' = [running EXCEPT ![t] = started + 1]
      /\ UNCHANGED <<tables, nextId, handles>>
  BY DEF Execute
<1>1. started \in Nat /\ handles[started + 1] = << >>
  BY <1>0 DEF Shape, OneThread
<1>2. Shape'
  <2>1. running' \in [Threads -> Nat] /\ started' \in Nat
    BY <1>0, <1>1 DEF Shape
  <2> QED BY <1>0, <2>1 DEF Shape
<1>3. running'[t] = started + 1 /\ \A u \in Threads \ {t} : running'[u] = running[u]
  BY <1>0 DEF Shape
<1>4. OneThread'
  <2>1. ASSUME NEW u \in Threads
        PROVE  running'[u] \in {0} \cup Scripts /\ running'[u] <= started'
    BY <1>0, <1>1, <1>3 DEF OneThread, Shape
  <2>2. ASSUME NEW u \in Threads, NEW v \in Threads, running'[u] = running'[v],
               running'[u] # 0
        PROVE  u = v
    <3>1. \A w \in Threads : running[w] \in Nat /\ running[w] <= started
      BY DEF OneThread, Shape
    <3> QED BY <1>1, <1>3, <2>2, <3>1 DEF OneThread
  <2>3. ASSUME NEW s \in Scripts, s > started' PROVE handles'[s] = << >>
    BY <1>0, <1>1, <2>3, ScriptsAreNumbers DEF OneThread
  <2> QED BY <2>1, <2>2, <2>3 DEF OneThread
<1>5. \A u \in Threads : \A i \in DOMAIN handles'[running'[u]] : u # t
  BY <1>0, <1>1, <1>3
<1>6. IdsBelow'
  BY <1>0, <1>3, <1>5 DEF IdsBelow
<1>7. HandlesStayOwn'
  BY <1>0, <1>3, <1>5 DEF HandlesStayOwn
<1> QED BY <1>2, <1>4, <1>6, <1>7

\* An object is made under an id no table and no handle of the thread has.
LEMMA RegisterStep ==
    ASSUME JsInv, NEW t \in Threads, NEW k \in Tables, MayMake(t), Register(t, k),
           UNCHANGED <<running, started>>
    PROVE  JsInv'
<1> DEFINE s == running[t]
           id == nextId[t][k]
           n == Len(handles[s]) + 1
           object == [id |-> id, by |-> s, n |-> n]
           handle == [table |-> k, id |-> id]
           kept == {o \in tables[t][k] : o.id # id}
<1> USE DEF JsInv
<1>0. /\ s # 0 /\ Len(handles[s]) < MaxObjects
      /\ tables' = [tables EXCEPT ![t][k] = kept \cup {object}]
      /\ handles' = [handles EXCEPT ![s] = Append(handles[s], handle)]
      /\ nextId' = [nextId EXCEPT ![t][k] = id + 1]
  BY DEF MayMake, Register
<1>1. s \in Scripts /\ s <= started
  BY <1>0 DEF OneThread
<1>2. /\ handles[s] \in Seq(Handle) /\ id \in Nat
      /\ n \in 1..MaxObjects /\ handle \in Handle
      /\ object \in Object
  <2>1. handles[s] \in Seq(Handle) /\ id \in Nat
    BY <1>1 DEF Shape
  <2>2. n \in 1..MaxObjects
    BY <1>0, <2>1, JsAssumption
  <2> QED BY <1>1, <2>1, <2>2 DEF Object, Handle
<1>3. /\ tables'[t][k] = kept \cup {object}
      /\ \A l \in Tables \ {k} : tables'[t][l] = tables[t][l]
      /\ \A u \in Threads \ {t} : tables'[u] = tables[u]
  BY <1>0 DEF Shape
<1>4. /\ nextId'[t][k] = id + 1
      /\ \A l \in Tables \ {k} : nextId'[t][l] = nextId[t][l]
      /\ \A u \in Threads \ {t} : nextId'[u] = nextId[u]
  BY <1>0 DEF Shape
<1>5. /\ DOMAIN handles'[s] = 1..n
      /\ handles'[s][n] = handle
      /\ \A i \in 1..n : i # n => i \in DOMAIN handles[s] /\ handles'[s][i] = handles[s][i]
      /\ \A q \in Scripts \ {s} : handles'[q] = handles[q]
  BY <1>0, <1>1, <1>2 DEF Shape
<1>6. Shape'
  <2>1. kept \cup {object} \in SUBSET Object
    BY <1>2 DEF Shape
  <2>2. tables' \in [Threads -> [Tables -> SUBSET Object]]
    BY <1>0, <2>1 DEF Shape
  <2>3. nextId' \in [Threads -> [Tables -> Nat]]
    BY <1>0, <1>2 DEF Shape
  <2>4. handles' \in [Scripts -> Seq(Handle)]
    <3>1. Append(handles[s], handle) \in Seq(Handle)
      BY <1>2
    <3> QED BY <1>0, <3>1 DEF Shape
  <2> QED BY <2>2, <2>3, <2>4 DEF Shape
<1>7. OneThread'
  BY <1>1, <1>5, ScriptsAreNumbers DEF OneThread, Shape
<1>8. \A u \in Threads \ {t} : running[u] # 0 => running[u] \in Scripts \ {s}
  BY <1>0 DEF OneThread
<1>9. \A i \in DOMAIN handles[s] :
         /\ handles[s][i].table \in Tables /\ handles[s][i].id \in Nat
         /\ handles[s][i].id < nextId[t][handles[s][i].table]
  <2>1. \A i \in DOMAIN handles[s] : handles[s][i] \in Handle
    BY <1>2
  <2> QED BY <1>0, <2>1 DEF IdsBelow, Handle
<1>10. \A l \in Tables : \A o \in tables[t][l] : o.id \in Nat /\ o.id < nextId[t][l]
  BY DEF IdsBelow, Shape, Object
<1>11. IdsBelow'
  <2>1. ASSUME NEW u \in Threads, NEW l \in Tables, NEW o \in tables'[u][l]
        PROVE  o.id < nextId'[u][l]
    <3>1. CASE u # t
      BY <1>3, <1>4, <2>1, <3>1 DEF IdsBelow
    <3>2. CASE u = t /\ l # k
      BY <1>3, <1>4, <2>1, <3>2 DEF IdsBelow
    <3>3. CASE u = t /\ l = k /\ o = object
      BY <1>2, <1>4, <3>3
    <3>4. CASE u = t /\ l = k /\ o # object
      <4>1. o \in tables[t][k]
        BY <1>3, <2>1, <3>4
      <4> QED BY <1>2, <1>4, <1>10, <3>4, <4>1
    <3> QED BY <3>1, <3>2, <3>3, <3>4
  <2>2. ASSUME NEW u \in Threads, running[u] # 0, NEW i \in DOMAIN handles'[running[u]]
        PROVE  handles'[running[u]][i].id < nextId'[u][handles'[running[u]][i].table]
    <3>1. CASE u # t
      BY <1>4, <1>5, <1>8, <2>2, <3>1 DEF IdsBelow
    <3>2. CASE u = t /\ i = n
      BY <1>2, <1>4, <1>5, <3>2
    <3>3. CASE u = t /\ i # n
      <4> DEFINE h == handles[s][i]
      <4>1. /\ i \in DOMAIN handles[s] /\ handles'[s][i] = h
            /\ h.table \in Tables /\ h.id \in Nat /\ h.id < nextId[t][h.table]
        BY <1>5, <1>9, <2>2, <3>3
      <4>2. nextId'[t][h.table] = nextId[t][h.table] \/ (h.table = k /\ nextId'[t][h.table] = id + 1)
        BY <1>4, <4>1
      <4>3. h.id < nextId'[t][h.table]
        <5>1. PICK x : x = nextId[t][h.table]
          OBVIOUS
        <5>2. x \in Nat
          BY <4>1, <5>1 DEF Shape
        <5>3. h.id < x /\ (nextId'[t][h.table] = x \/ nextId'[t][h.table] = x + 1)
          BY <4>1, <4>2, <5>1
        <5>4. h.id \in Nat
          BY <4>1
        <5> HIDE DEF h
        <5> QED BY <5>2, <5>3, <5>4
      <4> QED BY <3>3, <4>1, <4>3
    <3> QED BY <3>1, <3>2, <3>3
  <2> QED BY <2>1, <2>2 DEF IdsBelow
<1>12. HandlesStayOwn'
  <2> SUFFICES ASSUME NEW u \in Threads, running[u] # 0,
                      NEW i \in DOMAIN handles'[running[u]],
                      NEW o \in tables'[u][handles'[running[u]][i].table],
                      o.id = handles'[running[u]][i].id
               PROVE  o.by = running[u] /\ o.n = i
    BY DEF HandlesStayOwn
  <2>1. CASE u # t
    <3>1. running[u] \in Scripts \ {s} /\ tables'[u] = tables[u]
      BY <1>3, <1>8, <2>1
    <3>2. handles'[running[u]] = handles[running[u]]
      BY <1>5, <3>1
    <3> QED BY <3>1, <3>2, Reaches
  <2>2. CASE u = t /\ i = n
    <3>1. o.id = id /\ o \in kept \cup {object}
      BY <1>3, <1>5, <2>2
    <3> QED BY <2>2, <3>1
  <2>3. CASE u = t /\ i # n
    <3> DEFINE h == handles[s][i]
    <3>1. /\ i \in DOMAIN handles[s] /\ handles'[s][i] = h
          /\ h.table \in Tables /\ h.id \in Nat /\ h.id < nextId[t][h.table]
      BY <1>5, <1>9, <2>3
    <3>2. o # object \/ h.table # k
      BY <1>2, <2>3, <3>1
    <3>3. o \in tables[t][h.table]
      BY <1>3, <2>3, <3>1, <3>2
    <3>4. o.id = h.id
      BY <2>3, <3>1
    <3> QED BY <1>0, <2>3, <3>1, <3>3, <3>4, Reaches
  <2> QED BY <1>5, <2>1, <2>2, <2>3
<1> QED BY <1>6, <1>7, <1>11, <1>12

\* Closing only takes objects away.
LEMMA CloseStep ==
    ASSUME JsInv, NEW t \in Threads, Close(t)
    PROVE  JsInv'
<1> USE DEF JsInv
<1>0. UNCHANGED <<running, started, nextId, handles>>
  BY DEF Close
<1>1. PICK id : tables' = [tables EXCEPT ![t]["conns"] = {o \in tables[t]["conns"] : o.id # id}]
  BY DEF Close
<1>2. \A u \in Threads, l \in Tables : tables'[u][l] \subseteq tables[u][l]
  BY <1>1 DEF Shape, Tables
<1>3. tables' \in [Threads -> [Tables -> SUBSET Object]]
  BY <1>1 DEF Shape, Tables
<1>4. Shape' /\ OneThread'
  BY <1>0, <1>3 DEF Shape, OneThread
<1>5. IdsBelow'
  BY <1>0, <1>2 DEF IdsBelow
<1>6. \A u \in Threads : running[u] # 0 =>
        \A i \in DOMAIN handles[running[u]] : handles[running[u]][i].table \in Tables
  <2> SUFFICES ASSUME NEW u \in Threads, running[u] # 0, NEW i \in DOMAIN handles[running[u]]
               PROVE  handles[running[u]][i].table \in Tables
    OBVIOUS
  <2>1. handles[running[u]] \in Seq(Handle)
    BY DEF Shape, OneThread
  <2>2. handles[running[u]][i] \in Handle
    BY <2>1
  <2> QED BY <2>2 DEF Handle
<1>7. HandlesStayOwn'
  BY <1>0, <1>2, <1>6 DEF HandlesStayOwn
<1> QED BY <1>4, <1>5, <1>7

\* The end of a script takes its handles away.
LEMMA FinishStep ==
    ASSUME JsInv, NEW t \in Threads, Finish(t)
    PROVE  JsInv'
<1> USE DEF JsInv
<1>0. /\ running[t] # 0
      /\ running' = [running EXCEPT ![t] = 0]
      /\ handles' = [handles EXCEPT ![running[t]] = << >>]
      /\ UNCHANGED <<started, tables, nextId>>
  BY DEF Finish
<1>1. running'[t] = 0 /\ \A u \in Threads \ {t} : running'[u] = running[u]
  BY <1>0 DEF Shape
<1>2. /\ running[t] \in Scripts
      /\ \A q \in Scripts : handles'[q] = (IF q = running[t] THEN << >> ELSE handles[q])
  BY <1>0 DEF Shape, OneThread
<1>3. << >> \in Seq(Handle)
  OBVIOUS
<1>4. Shape'
  BY <1>0, <1>3 DEF Shape
<1>5. OneThread'
  BY <1>0, <1>1, <1>2, ScriptsAreNumbers DEF OneThread, Shape
<1>6. \A u \in Threads : running'[u] # 0 =>
        /\ u # t /\ running'[u] = running[u] /\ handles'[running'[u]] = handles[running[u]]
  BY <1>1, <1>2 DEF OneThread
<1>7. IdsBelow'
  BY <1>0, <1>6 DEF IdsBelow
<1>8. HandlesStayOwn'
  <2> SUFFICES ASSUME NEW u \in Threads, running'[u] # 0,
                      NEW i \in DOMAIN handles'[running'[u]],
                      NEW o \in tables'[u][handles'[running'[u]][i].table],
                      o.id = handles'[running'[u]][i].id
               PROVE  o.by = running'[u] /\ o.n = i
    BY DEF HandlesStayOwn
  <2>1. running'[u] = running[u] /\ handles'[running'[u]] = handles[running[u]]
    BY <1>6
  <2> QED BY <1>0, <2>1, Reaches
<1> QED BY <1>4, <1>5, <1>7, <1>8

\* A thread that ends runs no script, so the ids that begin anew meet no handle.
LEMMA ThreadStep ==
    ASSUME JsInv, NEW t \in Threads, ThreadEnds(t)
    PROVE  JsInv'
<1> USE DEF JsInv
<1>0. /\ running[t] = 0
      /\ tables' = [tables EXCEPT ![t] = [k \in Tables |-> {}]]
      /\ nextId' = [nextId EXCEPT ![t] = [k \in Tables |-> 0]]
      /\ UNCHANGED <<running, started, handles>>
  BY DEF ThreadEnds
<1>1. Shape'
  BY <1>0 DEF Shape
<1>2. OneThread'
  BY <1>0 DEF OneThread
<1>3. /\ \A k \in Tables : tables'[t][k] = {}
      /\ \A u \in Threads \ {t} : tables'[u] = tables[u] /\ nextId'[u] = nextId[u]
  BY <1>0 DEF Shape
<1>4. IdsBelow'
  <2>1. ASSUME NEW u \in Threads, NEW k \in Tables, NEW o \in tables'[u][k]
        PROVE  o.id < nextId'[u][k]
    <3>1. u # t
      BY <1>3, <2>1
    <3> QED BY <1>3, <2>1, <3>1 DEF IdsBelow
  <2>2. ASSUME NEW u \in Threads, running[u] # 0, NEW i \in DOMAIN handles[running[u]]
        PROVE  handles[running[u]][i].id < nextId'[u][handles[running[u]][i].table]
    BY <1>0, <1>3, <2>2 DEF IdsBelow
  <2> QED BY <1>0, <2>1, <2>2 DEF IdsBelow
<1>5. HandlesStayOwn'
  BY <1>0, <1>3 DEF HandlesStayOwn
<1> QED BY <1>1, <1>2, <1>4, <1>5

(***************************************************************************)
(* The theorem.                                                            *)
(***************************************************************************)
\* The runtime begins with empty tables and idle threads.
LEMMA JsInitially == JsInit => JsInv
<1> SUFFICES ASSUME JsInit PROVE JsInv
  OBVIOUS
<1>1. << >> \in Seq(Handle)
  OBVIOUS
<1>2. Shape
  BY <1>1 DEF JsInit, Shape
<1>3. OneThread
  BY DEF JsInit, OneThread
<1>4. IdsBelow
  BY DEF JsInit, IdsBelow
<1>5. HandlesStayOwn
  BY DEF JsInit, HandlesStayOwn
<1> QED BY <1>2, <1>3, <1>4, <1>5 DEF JsInv

\* One case for each action.
LEMMA JsKept == JsInv /\ [JsNext]_jsVars => JsInv'
<1> SUFFICES ASSUME JsInv, [JsNext]_jsVars PROVE JsInv'
  OBVIOUS
<1>1. CASE UNCHANGED jsVars
  BY <1>1 DEF jsVars, JsInv, Shape, OneThread, IdsBelow, HandlesStayOwn
<1>2. ASSUME NEW t \in Threads, Open(t) PROVE JsInv'
  BY <1>2, RegisterStep DEF Open, Tables
<1>3. ASSUME NEW t \in Threads, NewBuffer(t) PROVE JsInv'
  BY <1>3, RegisterStep DEF NewBuffer, Tables
<1> QED BY <1>1, <1>2, <1>3, ExecuteStep, CloseStep, FinishStep, ThreadStep DEF JsNext

\* Handles never outlive or change what they were made for, whatever threads the
\* scripts run on and however often threads end.
THEOREM HandlesStayOwnHolds == JsSpec => []HandlesStayOwn
<1>1. JsInv => HandlesStayOwn
  BY DEF JsInv
<1> QED BY <1>1, JsInitially, JsKept, PTL DEF JsSpec

(***************************************************************************)
(* Matching: word matchers report what is in the text, names what matched.  *)
(***************************************************************************)
\* The order of the numbers, as a relation.
Less == {p \in Nat \X Nat : p[1] < p[2]}

\* The order of the numbers is well-founded.
LEMMA LessIsWellFounded == IsWellFoundedOn(Less, Nat)
<1>1. IsWellFoundedOn(OpToRel(<, Nat), Nat)
  BY NatLessThanWellFounded
<1>2. OpToRel(<, Nat) = Less
  BY DEF OpToRel, Less
<1> QED
  BY <1>1, <1>2

\* The minimum of numbers is one of them, and the least.
LEMMA LeastOf ==
    ASSUME NEW S \in SUBSET Nat, S # {}
    PROVE  Min(S) \in S /\ \A m \in S : Min(S) <= m
<1>1. PICK n \in S : \A m \in S : <<m, n>> \notin Less
  BY LessIsWellFounded, WFMin
<1>2. ASSUME NEW m \in S PROVE n <= m
  <2>1. ~(m < n)
    BY <1>1 DEF Less
  <2> QED
    BY <2>1
<1> QED
  BY <1>2 DEF Min

\* The words that are in a text.
Present(words, text) == {k \in DOMAIN words : HasWord(text, words[k])}

\* Words and texts are sequences, and no word is empty.
LEMMA WordFacts ==
    ASSUME NEW words \in Seq(Seq(Letters) \ {<< >>}), NEW text \in Seq(Letters)
    PROVE  /\ Len(text) \in Nat /\ DOMAIN text = 1..Len(text)
           /\ Len(words) \in Nat /\ DOMAIN words = 1..Len(words)
           /\ \A k \in DOMAIN words : Len(words[k]) \in Nat \ {0}
<1>1. ASSUME NEW k \in DOMAIN words PROVE Len(words[k]) \in Nat \ {0}
  <2>1. words[k] \in Seq(Letters) /\ words[k] # << >>
    BY ElementOfSeq, LenProperties
  <2> QED
    BY <2>1, LenProperties, EmptySeq
<1> QED
  BY <1>1, LenProperties

\* Where a pattern ends, from anywhere on, its word is in the text.
LEMMA EndingIsPresent ==
    ASSUME NEW words \in Seq(Seq(Letters) \ {<< >>}), NEW text \in Seq(Letters),
           NEW p \in Nat \ {0}, NEW e \in Nat
    PROVE  Ending(words, text, p, e) \subseteq Present(words, text)
<1> SUFFICES ASSUME NEW k \in Ending(words, text, p, e) PROVE k \in Present(words, text)
  OBVIOUS
<1> DEFINE i == e - Len(words[k]) + 1
<1>1. k \in DOMAIN words /\ i >= p /\ OccursAt(words[k], text, i)
  BY DEF Ending
<1>2. Len(words[k]) \in Nat \ {0}
  BY <1>1, WordFacts
<1>3. i \in Int /\ i >= 1 /\ i + Len(words[k]) - 1 <= Len(text)
  BY <1>1, <1>2 DEF OccursAt
<1> HIDE DEF i
<1>4. i \in DOMAIN text
  BY <1>2, <1>3, WordFacts
<1> QED
  BY <1>1, <1>4 DEF Present, HasWord

\* A word that is in the text ends somewhere in it.
LEMMA PresentIsEnding ==
    ASSUME NEW words \in Seq(Seq(Letters) \ {<< >>}), NEW text \in Seq(Letters),
           NEW k \in Present(words, text)
    PROVE  \E e \in 1..Len(text) : Ending(words, text, 1, e) # {}
<1>1. PICK i \in DOMAIN text : OccursAt(words[k], text, i)
  BY DEF Present, HasWord
<1>2. k \in DOMAIN words /\ Len(words[k]) \in Nat \ {0} /\ i \in Nat /\ Len(text) \in Nat
  BY WordFacts DEF Present
<1>3. PICK e \in Int : e = i + Len(words[k]) - 1
  BY <1>2
<1>4. i >= 1 /\ e <= Len(text)
  BY <1>1, <1>2, <1>3 DEF OccursAt
<1>5. e \in 1..Len(text) /\ e - Len(words[k]) + 1 = i
  BY <1>2, <1>3, <1>4
<1>6. k \in Ending(words, text, 1, e)
  BY <1>1, <1>2, <1>4, <1>5 DEF Ending
<1> QED
  BY <1>5, <1>6

\* Where a pattern ends from p on.
EndsFrom(words, text, p) == {e \in p..Len(text) : Ending(words, text, p, e) # {}}

\* Nothing is found from p on; or k, that ends at e, and what is found behind it.
FindsNothing(words, text, p) == \A found : FoundFrom(words, text, p, found) = {}
FindsFirst(words, text, p, k, e) ==
    \A found : FoundFrom(words, text, p, found) = {k} \cup found[e + 1]

\* What is found from p on: nothing if no pattern ends, or else a word that is in the text
\* and what is found behind it.
LEMMA FoundStep ==
    ASSUME NEW words \in Seq(Seq(Letters) \ {<< >>}), NEW text \in Seq(Letters),
           NEW p \in 1..(Len(text) + 1)
    PROVE  \/ EndsFrom(words, text, p) = {} /\ FindsNothing(words, text, p)
           \/ \E e \in p..Len(text), k \in Present(words, text) : FindsFirst(words, text, p, k, e)
<1>1. CASE EndsFrom(words, text, p) = {}
  BY <1>1 DEF EndsFrom, FoundFrom, FindsNothing
<1>2. CASE EndsFrom(words, text, p) # {}
  <2>1. p \in Nat \ {0} /\ Len(text) \in Nat
    BY WordFacts
  <2>2. PICK e : e = Min(EndsFrom(words, text, p))
    OBVIOUS
  <2>3. e \in EndsFrom(words, text, p)
    <3>1. EndsFrom(words, text, p) \in SUBSET Nat
      BY <2>1 DEF EndsFrom
    <3> QED
      BY <1>2, <2>2, <3>1, LeastOf
  <2>4. e \in p..Len(text) /\ e \in Nat /\ Ending(words, text, p, e) # {}
    BY <2>1, <2>3 DEF EndsFrom
  <2>5. PICK candidates : candidates = Ending(words, text, p, e)
    OBVIOUS
  <2>6. candidates \subseteq Present(words, text) /\ candidates # {}
    BY <2>1, <2>4, <2>5, EndingIsPresent
  <2>7. \A k \in candidates : k \in Nat /\ Len(words[k]) \in Nat /\ e - Len(words[k]) \in Nat
    <3> SUFFICES ASSUME NEW k \in candidates
                 PROVE  k \in Nat /\ Len(words[k]) \in Nat /\ e - Len(words[k]) \in Nat
      OBVIOUS
    <3>1. k \in DOMAIN words /\ e - Len(words[k]) + 1 >= p
      BY <2>5 DEF Ending
    <3>2. k \in Nat /\ Len(words[k]) \in Nat
      BY <3>1, WordFacts
    <3> QED
      BY <2>1, <2>4, <3>1, <3>2
  <2> DEFINE long == {k \in candidates : \A j \in candidates : Len(words[j]) <= Len(words[k])}
             starts == {e - Len(words[k]) : k \in candidates}
  <2>8. long # {}
    <3>1. starts \in SUBSET Nat /\ starts # {}
      BY <2>6, <2>7
    <3>2. PICK s \in starts : \A m \in starts : s <= m
      <4> HIDE DEF starts
      <4> QED
        BY <3>1, LeastOf
    <3>3. PICK k \in candidates : s = e - Len(words[k])
      BY <3>2
    <3>4. ASSUME NEW j \in candidates PROVE Len(words[j]) <= Len(words[k])
      <4>1. e - Len(words[k]) <= e - Len(words[j])
        BY <3>2, <3>3
      <4>2. e \in Int /\ Len(words[k]) \in Int /\ Len(words[j]) \in Int
        BY <2>4, <2>7
      <4> QED
        BY <4>1, <4>2
    <3> QED
      BY <3>3, <3>4
  <2>9. long \in SUBSET Nat /\ long \subseteq candidates
    BY <2>7
  <2>10. PICK k : k = Min(long)
    OBVIOUS
  <2>11. k \in long
    <3> HIDE DEF long
    <3> QED
      BY <2>8, <2>9, <2>10, LeastOf
  <2>12. ASSUME NEW found PROVE FoundFrom(words, text, p, found) = {k} \cup found[e + 1]
    BY <1>2, <2>2, <2>5, <2>10 DEF FoundFrom, EndsFrom
  <2> QED
    BY <2>4, <2>6, <2>9, <2>11, <2>12 DEF FindsFirst
<1> QED
  BY <1>1, <1>2

\* What a search finds from every position on.
Solves(words, text, w) ==
    \A p \in 1..(Len(text) + 1) : w[p] = FoundFrom(words, text, p, w)

\* The recursive definition of a search has a solution: it goes on behind what it found.
LEMMA SearchEnds ==
    ASSUME NEW words \in Seq(Seq(Letters) \ {<< >>}), NEW text \in Seq(Letters)
    PROVE  \E w \in [1..(Len(text) + 1) -> SUBSET Present(words, text)] :
              Solves(words, text, w)
<1> DEFINE L == Len(text) + 1
           V == SUBSET Present(words, text)
           From(q) == \E w \in [1..L -> V] :
                         \A p \in 1..L : p >= q => w[p] = FoundFrom(words, text, p, w)
           S == {q \in Nat : q >= 1 /\ From(q)}
<1>0. L \in Nat /\ L >= 1
  BY WordFacts
<1>1. L + 1 \in S
  <2>1. PICK w : w = [p \in 1..L |-> {}]
    OBVIOUS
  <2>2. w \in [1..L -> V]
    BY <2>1
  <2>3. \A p \in 1..L : ~(p >= L + 1)
    BY <1>0
  <2> HIDE DEF L
  <2> QED
    BY <1>0, <2>2, <2>3
<1>2. ASSUME NEW q \in S, q # 1 PROVE q - 1 \in S
  <2>1. q - 1 \in Nat /\ q - 1 >= 1 /\ q \in Nat
    BY <1>2
  <2>2. CASE q - 1 \notin 1..L
    <3>1. \A p \in 1..L : ~(p >= q - 1)
      BY <1>0, <2>1, <2>2
    <3>2. PICK w \in [1..L -> V] : \A p \in 1..L : p >= q => w[p] = FoundFrom(words, text, p, w)
      OBVIOUS
    <3> QED
      BY <2>1, <3>1, <3>2
  <2>3. CASE q - 1 \in 1..L
    <3>1. PICK w \in [1..L -> V] : \A p \in 1..L : p >= q => w[p] = FoundFrom(words, text, p, w)
      OBVIOUS
    <3> DEFINE u == [p \in 1..L |-> IF p = q - 1 THEN FoundFrom(words, text, q - 1, w) ELSE w[p]]
    <3>2. ASSUME NEW p \in 1..L, p >= q - 1
          PROVE  FoundFrom(words, text, p, u) = FoundFrom(words, text, p, w)
                 /\ FoundFrom(words, text, p, w) \in V
      <4>1. CASE FindsNothing(words, text, p)
        BY <4>1 DEF FindsNothing
      <4>2. CASE \E e \in p..Len(text), k \in Present(words, text) :
                   FindsFirst(words, text, p, k, e)
        <5>1. PICK e \in p..Len(text), k \in Present(words, text) :
                   FindsFirst(words, text, p, k, e)
          BY <4>2
        <5>2. Len(text) \in Nat /\ p \in Nat /\ p >= 1
          BY WordFacts
        <5>3. e + 1 \in 1..L /\ e + 1 # q - 1
          BY <2>1, <3>2, <5>2
        <5>4. u[e + 1] = w[e + 1] /\ w[e + 1] \in V
          BY <3>1, <5>3
        <5>5. FoundFrom(words, text, p, u) = {k} \cup u[e + 1]
          BY <5>1 DEF FindsFirst
        <5>6. FoundFrom(words, text, p, w) = {k} \cup w[e + 1]
          BY <5>1 DEF FindsFirst
        <5> QED
          BY <5>4, <5>5, <5>6
      <4> QED
        BY <4>1, <4>2, FoundStep
    <3>3. u \in [1..L -> V]
      <4>1. FoundFrom(words, text, q - 1, w) \in V
        <5>1. PICK r \in 1..L : r = q - 1
          BY <2>3
        <5>2. r >= q - 1
          BY <2>1, <5>1
        <5>3. FoundFrom(words, text, r, w) \in V
          <6> HIDE DEF V, u, L
          <6> QED
            BY <3>2, <5>2
        <5> QED
          BY <5>1, <5>3
      <4> QED
        BY <3>1, <4>1
    <3>4. ASSUME NEW p \in 1..L, p >= q - 1 PROVE u[p] = FoundFrom(words, text, p, u)
      <4>1. p = q - 1 \/ p >= q
        BY <2>1, <3>4
      <4>2. u[p] = FoundFrom(words, text, p, w)
        BY <3>1, <4>1
      <4> QED
        BY <3>2, <3>4, <4>2
    <3>5. From(q - 1)
      <4> HIDE DEF u
      <4> QED
        BY <3>3, <3>4
    <3> QED
      BY <2>1, <3>5
  <2> QED
    BY <2>2, <2>3
<1>3. 1 \in S
  <2>1. S \in SUBSET Nat /\ S # {}
    BY <1>1
  <2>2. PICK q \in S : \A m \in S : q <= m
    <3> HIDE DEF S
    <3> QED
      BY <2>1, LeastOf
  <2>3. q = 1
    <3>1. q \in Nat
      OBVIOUS
    <3>2. SUFFICES ASSUME q # 1 PROVE FALSE
      OBVIOUS
    <3>3. q <= q - 1
      BY <1>2, <2>2, <3>2
    <3> QED
      BY <3>1, <3>3
  <2> QED
    BY <2>2, <2>3
<1>4. PICK w \in [1..L -> V] : \A p \in 1..L : p >= 1 => w[p] = FoundFrom(words, text, p, w)
  BY <1>3
<1>5. \A p \in 1..L : p >= 1
  BY <1>0
<1> QED
  BY <1>4, <1>5 DEF Solves

\* A search finds no word that is not in the text, and one if one is.
LEMMA FoundIsPresent ==
    ASSUME NEW words \in Seq(Seq(Letters) \ {<< >>}), NEW text \in Seq(Letters)
    PROVE  /\ Found(words, text) \subseteq Present(words, text)
           /\ Present(words, text) # {} => Found(words, text) # {}
<1> DEFINE L == Len(text) + 1
<1>0. L \in Nat /\ L >= 1
  BY WordFacts
<1>1. PICK w : w = CHOOSE v : v = [p \in 1..L |-> FoundFrom(words, text, p, v)]
  OBVIOUS
<1>2. Found(words, text) = w[1]
  BY <1>1 DEF Found
<1>3. w = [p \in 1..L |-> FoundFrom(words, text, p, w)]
  <2>1. PICK v \in [1..L -> SUBSET Present(words, text)] : Solves(words, text, v)
    BY SearchEnds
  <2>2. v = [p \in 1..L |-> FoundFrom(words, text, p, v)]
    BY <2>1 DEF Solves
  <2> QED
    BY <1>1, <2>2
<1> DEFINE Bad == {n \in Nat : \E p \in 1..L : n = L - p /\ ~(w[p] \subseteq Present(words, text))}
<1>4. Bad = {}
  <2>1. SUFFICES ASSUME Bad # {} PROVE FALSE
    OBVIOUS
  <2>2. PICK n \in Bad : \A m \in Bad : n <= m
    <3>1. Bad \in SUBSET Nat
      OBVIOUS
    <3> HIDE DEF Bad
    <3> QED
      BY <2>1, <3>1, LeastOf
  <2>3. PICK p \in 1..L : n = L - p /\ ~(w[p] \subseteq Present(words, text))
    OBVIOUS
  <2>4. w[p] = FoundFrom(words, text, p, w)
    BY <1>3
  <2>5. ~FindsNothing(words, text, p)
    BY <2>3, <2>4 DEF FindsNothing
  <2>6. PICK e \in p..Len(text), k \in Present(words, text) : FindsFirst(words, text, p, k, e)
    BY <2>5, FoundStep
  <2>7. w[p] = {k} \cup w[e + 1]
    BY <2>4, <2>6 DEF FindsFirst
  <2>8. e + 1 \in 1..L /\ L - (e + 1) \in Nat /\ L - (e + 1) < L - p
    BY <1>0, WordFacts
  <2>9. ~(w[e + 1] \subseteq Present(words, text))
    BY <2>3, <2>6, <2>7
  <2>10. L - (e + 1) \in Bad
    BY <2>8, <2>9
  <2>11. L - p <= L - (e + 1)
    BY <2>2, <2>3, <2>10
  <2>12. L - p \in Int /\ L - (e + 1) \in Int
    BY <2>8, <1>0
  <2> QED
    BY <2>8, <2>11, <2>12
<1>5. 1 \in 1..L
  BY <1>0
<1>6. w[1] \subseteq Present(words, text)
  <2>1. L - 1 \in Nat
    BY <1>0
  <2>2. L - 1 \notin Bad
    BY <1>4
  <2> HIDE DEF L
  <2> QED
    BY <1>5, <2>1, <2>2
<1>7. ASSUME Present(words, text) # {} PROVE w[1] # {}
  <2>1. 1 \in 1..L /\ w[1] = FoundFrom(words, text, 1, w)
    BY <1>3, <1>5
  <2>2. PICK e \in 1..Len(text) : Ending(words, text, 1, e) # {}
    BY <1>7, PresentIsEnding
  <2>3. EndsFrom(words, text, 1) # {}
    BY <2>2 DEF EndsFrom
  <2>4. PICK d \in 1..Len(text), k \in Present(words, text) : FindsFirst(words, text, 1, k, d)
    BY <2>1, <2>3, FoundStep
  <2>5. FoundFrom(words, text, 1, w) = {k} \cup w[d + 1]
    BY <2>4 DEF FindsFirst
  <2> QED
    BY <2>1, <2>5
<1> QED
  BY <1>2, <1>6, <1>7

\* What a word matcher says of any words and text.
LEMMA WordsTell ==
    ASSUME NEW words \in Seq(Seq(Letters) \ {<< >>}), NEW text \in Seq(Letters),
           NEW all \in BOOLEAN
    PROVE  WordsAreThere(words, text, all)
<1>1. \A k \in DOMAIN words : k \in Present(words, text) <=> HasWord(text, words[k])
  BY DEF Present
<1>2. Present(words, text) \subseteq DOMAIN words
  BY DEF Present
<1>3. /\ Found(words, text) \subseteq Present(words, text)
      /\ Present(words, text) # {} => Found(words, text) # {}
  BY FoundIsPresent
<1>4. Len(words) = 1 => DOMAIN words = {1}
  BY LenProperties
<1>5. Present(words, text) # {} => words # << >>
  BY <1>2
<1>6. ASSUME MatchWords(words, text, all), all
      PROVE  \A k \in DOMAIN words : HasWord(text, words[k])
  BY <1>1, <1>3, <1>6 DEF MatchWords
<1>7. ASSUME MatchWords(words, text, all), ~all
      PROVE  \E k \in DOMAIN words : HasWord(text, words[k])
  BY <1>1, <1>2, <1>3, <1>7 DEF MatchWords
<1>8. ASSUME ~all, NEW k \in DOMAIN words, HasWord(text, words[k])
      PROVE  MatchWords(words, text, all)
  BY <1>1, <1>3, <1>5, <1>8 DEF MatchWords
<1>9. ASSUME all, Len(words) = 1, \A k \in DOMAIN words : HasWord(text, words[k])
      PROVE  MatchWords(words, text, all)
  <2>1. Present(words, text) = {1}
    BY <1>1, <1>2, <1>4, <1>9
  <2>2. Found(words, text) = DOMAIN words
    BY <1>3, <1>4, <1>9, <2>1
  <2> QED
    BY <1>5, <1>9, <2>1, <2>2 DEF MatchWords
<1>10. ASSUME Len(words) = 1, NEW k \in DOMAIN words, HasWord(text, words[k])
       PROVE  \A j \in DOMAIN words : HasWord(text, words[j])
  BY <1>4, <1>10
<1> QED
  BY <1>6, <1>7, <1>8, <1>9 DEF WordsAreThere

\* What the name of a finding says of any block of matchers.
LEMMA NamesTell ==
    ASSUME NEW matchers \in Seq([outOfBand : BOOLEAN, met : BOOLEAN, negative : BOOLEAN,
                                 name : STRING]),
           NEW all \in BOOLEAN, NEW interaction \in BOOLEAN
    PROVE  NamesAreEarned(matchers, all, interaction)
<1> DEFINE named == {i \in DOMAIN matchers :
                       Evaluate(matchers[i], interaction) /\ matchers[i].name # ""}
           name == MatchedMatcherName(matchers, all, interaction)
<1>1. SUFFICES ASSUME name # ""
      PROVE  /\ EvaluateAll(matchers, all, interaction)
             /\ \E i \in DOMAIN matchers :
                   /\ matchers[i].name = name
                   /\ matchers[i].met # matchers[i].negative
                   /\ ~interaction => ~matchers[i].outOfBand
  BY DEF NamesAreEarned
<1>2. /\ named # {} /\ (all => EvaluateAll(matchers, all, interaction))
      /\ name = matchers[Min(named)].name
  BY <1>1 DEF MatchedMatcherName
<1>3. PICK i : i = Min(named)
  OBVIOUS
<1>4. named \in SUBSET Nat
  <2>1. DOMAIN matchers = 1..Len(matchers) /\ Len(matchers) \in Nat
    BY LenProperties
  <2>2. 1..Len(matchers) \in SUBSET Nat
    BY <2>1
  <2> QED
    BY <2>1, <2>2
<1>5. i \in named
  <2> HIDE DEF named
  <2> QED
    BY <1>2, <1>3, <1>4, LeastOf
<1>6. Evaluate(matchers[i], interaction) /\ i \in DOMAIN matchers
  BY <1>5
<1>7. ASSUME ~all PROVE EvaluateAll(matchers, all, interaction)
  <2>1. matchers # << >>
    BY <1>6
  <2> QED
    BY <1>6, <1>7, <2>1 DEF EvaluateAll
<1>8. matchers[i].name = name
  BY <1>2, <1>3
<1> QED
  BY <1>2, <1>6, <1>7, <1>8 DEF Evaluate

\* What word matchers report is in the text, and the name of a finding is that of a matcher
\* that made the block match (match_words, evaluate_all, matched_matcher_name).
THEOREM MatchersTellHolds == MatchSpec => []MatchersTell
<1>1. MatchInit => MatchersTell
  <2> SUFFICES ASSUME MatchInit PROVE MatchersTell
    OBVIOUS
  <2>1. CASE asked = NoQuestion
    <3>1. asked.kind = "none"
      BY <2>1 DEF NoQuestion
    <3> QED
      BY <3>1 DEF MatchersTell
  <2>2. CASE asked \in [kind : {"words"}, of : WordInputs]
    <3>1. asked.kind = "words" /\ asked.of \in WordInputs
      BY <2>2
    <3>2. /\ asked.of.words \in Seq(Seq(Letters) \ {<< >>})
          /\ asked.of.text \in Seq(Letters) /\ asked.of.all \in BOOLEAN
      BY <3>1, MatchingAssumption
    <3>3. WordsAreThere(asked.of.words, asked.of.text, asked.of.all)
      BY <3>2, WordsTell
    <3> QED
      BY <3>1, <3>3 DEF MatchersTell
  <2>3. CASE asked \in [kind : {"matchers"}, of : MatcherInputs]
    <3>1. asked.kind = "matchers" /\ asked.of \in MatcherInputs
      BY <2>3
    <3>2. /\ asked.of.matchers \in Seq([outOfBand : BOOLEAN, met : BOOLEAN,
                                        negative : BOOLEAN, name : STRING])
          /\ asked.of.all \in BOOLEAN /\ asked.of.interaction \in BOOLEAN
      BY <3>1, MatchingAssumption
    <3>3. NamesAreEarned(asked.of.matchers, asked.of.all, asked.of.interaction)
      BY <3>2, NamesTell
    <3> QED
      BY <3>1, <3>3 DEF MatchersTell
  <2> QED
    BY <2>1, <2>2, <2>3 DEF MatchInit, Questions
<1>2. MatchersTell /\ [FALSE]_asked => MatchersTell'
  BY DEF MatchersTell
<1> QED
  BY <1>1, <1>2, PTL DEF MatchSpec
===================================================================================
