---------------------------------- MODULE Helpers ----------------------------------
(***************************************************************************)
(* What the workers of a scan use: the clients of the protocols (requests on *)
(* the HTTP client they share, a DNS query, a conversation with one peer,    *)
(* scripts on the threads of the runtime), and the pure functions that read  *)
(* expressions, judge answers and make the requests of fuzzing blocks.  They *)
(* share no state, so each behaviour has one of them at work; input is what a *)
(* function is given.                                                      *)
(***************************************************************************)
EXTENDS HttpClient, DnsClient, Conversation, JsRuntime, Expressions, Matching, Fuzzing

CONSTANTS
    Trees,          \* expressions
    TokenSequences, \* what may be written as a flow
    FuzzInputs      \* block, base, keys

VARIABLES helper, input

vars == <<helper, input, asked, httpVars, dnsVars, talkVars, jsVars>>

Inputs == [tree |-> Trees, tokens |-> TokenSequences, fuzz |-> FuzzInputs]

Clients == {"http", "dns", "talk", "javascript"}

HelpersTypeOK ==
    /\ helper \in Clients \cup {"matching"} \cup DOMAIN Inputs
    /\ helper \in DOMAIN Inputs => input \in Inputs[helper]
    /\ asked \in Questions \cup {NoQuestion}
    /\ HttpTypeOK /\ DnsTypeOK /\ TalkTypeOK /\ JsTypeOK

Init ==
    /\ \/ helper \in Clients \cup {"matching"} /\ input = << >>
       \/ helper \in DOMAIN Inputs /\ input \in Inputs[helper]
    /\ MatchInit /\ (helper = "matching" <=> asked # NoQuestion)
    /\ HttpInit /\ (helper = "http" \/ requests = CHOOSE s \in Scenarios : TRUE)
    /\ DnsInit /\ TalkInit /\ JsInit

Over ==
    CASE helper = "http" -> \A r \in Workers : RequestOver(r)
      [] helper = "dns" -> DnsOver
      [] helper = "talk" -> TalkOver
      [] helper = "javascript" -> \A t \in Threads : running[t] = 0
      [] OTHER -> TRUE

Ended == Over /\ UNCHANGED vars

OnlyHttp == UNCHANGED <<helper, input, asked, dnsVars, talkVars, jsVars>>
OnlyDns == UNCHANGED <<helper, input, asked, httpVars, talkVars, jsVars>>
OnlyTalk == UNCHANGED <<helper, input, asked, httpVars, dnsVars, jsVars>>
OnlyJs == UNCHANGED <<helper, input, asked, httpVars, dnsVars, talkVars>>

Next ==
    \/ helper = "http" /\ HttpNext /\ OnlyHttp
    \/ helper = "dns" /\ DnsNext /\ OnlyDns
    \/ helper = "talk" /\ TalkNext /\ OnlyTalk
    \/ helper = "javascript" /\ JsNext /\ OnlyJs
    \/ Ended

\* Nothing is asked of a peer or of the network; a step with a timeout ends by it, and
\* the timeout of reqwest lets a request wait only so long.
Fairness ==
    /\ \A r \in Workers : WF_vars(helper = "http" /\ HttpStep(r) /\ OnlyHttp)
    /\ WF_vars(helper = "dns" /\ DnsAlone /\ OnlyDns)
    /\ WF_vars(helper = "talk" /\ TalkAlone /\ OnlyTalk)
    /\ WF_vars(helper = "talk" /\ TimedOut /\ OnlyTalk)

Spec == Init /\ [][Next]_vars /\ Fairness

(***************************************************************************)
(* Properties; those of the clients are in their modules.                    *)
(***************************************************************************)
\* A resolver that never answers, and a peer that accepts and then stays silent or
\* trickles, hold a worker only for the retries and the timeouts of the block.
\* (Not so for network blocks with read-all, websockets and code.)
SilentPeerLetsGo ==
    /\ helper = "dns" ~> DnsOver
    /\ bounded ~> TalkOver

\* Every request ends, in an answer or an error, though servers redirect in
\* circles, fail and stay silent (HttpClient).
Ends == \A r \in Workers : helper = "http" ~> RequestOver(r)

\* Flows and DSL matchers mean what is written (Expressions): parentheses, negation
\* and the ranks of the operators are kept by the descent of one and the splitting
\* of the other, and a flow that is accepted has no token that was not read.
ExpressionsRead ==
    /\ helper = "tree" => FlowReads(input) /\ DslReads(input)
    /\ helper = "tokens" => AcceptedAsWritten(input)

\* A fuzzing block tries every combination its attack asks for (Fuzzing).
AttacksCover ==
    helper = "fuzz" => FuzzCovers(input.block, input.base, input.keys)
================================================================================
