--------------------------------- MODULE DnsClient ---------------------------------
(***************************************************************************)
(* DnsClient::execute of src/src/engine/dns_client.rs: one question, asked   *)
(* of each resolver in turn, the whole round several times, over one UDP     *)
(* socket on which answers are lost, late, out of order or unreadable.       *)
(***************************************************************************)
EXTENDS Integers, Sequences

CONSTANTS
    Entries,        \* the resolvers of the template: "ip", "host", "bad" or "empty"
    Nameservers,    \* how many nameservers /etc/resolv.conf has
    DnsRetries      \* retries of the template

ASSUME DnsAssumption ==
    /\ Entries \in Seq({"ip", "host", "bad", "empty"})
    /\ {Nameservers, DnsRetries} \subseteq Nat

VARIABLES
    dnsState,   \* "idle", "sending", "waiting", "answered", "failed"
    resolvers,  \* how many addresses resolver_addresses returned
    turn,       \* how many turns are over
    socket,     \* datagrams not yet received: readable, or not
    pending,    \* questions sent that may still be answered
    \* history, read by the properties only:
    unread,     \* unreadable datagrams received
    inTime      \* a readable answer came while the client was asking

dnsVars == <<dnsState, resolvers, turn, socket, pending, unread, inTime>>

MaxOf(a, b) == IF a > b THEN a ELSE b
Turns == MaxOf(DnsRetries, 1) * resolvers

DnsTypeOK ==
    /\ dnsState \in {"idle", "sending", "waiting", "answered", "failed"}
    /\ resolvers \in Nat /\ turn \in 0..Turns
    /\ socket \in Seq(BOOLEAN)
    /\ pending \in 0..Turns /\ unread \in 0..Turns
    /\ pending + unread + Len(socket) <= Turns
    /\ inTime \in BOOLEAN

DnsInit ==
    /\ dnsState = "idle"
    /\ resolvers = 0 /\ turn = 0
    /\ socket = << >>
    /\ pending = 0 /\ unread = 0
    /\ inTime = FALSE

\* resolver_addresses: entries that are no address are left out, host names may not
\* resolve; if none is left, the nameservers of the system, else two public ones.
ResolverAddresses ==
    /\ dnsState = "idle"
    /\ \E n \in 0..Len(SelectSeq(Entries, LAMBDA e : e = "host")) :
          LET own == Len(SelectSeq(Entries, LAMBDA e : e = "ip")) + n
          IN  resolvers' = CASE own > 0 -> own
                             [] own = 0 /\ Nameservers > 0 -> Nameservers
                             [] OTHER -> 2
    /\ dnsState' = "sending"
    /\ UNCHANGED <<turn, socket, pending, unread, inTime>>

\* One turn is over, of Turns.
TurnOver ==
    /\ turn' = turn + 1
    /\ dnsState' = IF turn + 1 = Turns THEN "failed" ELSE "sending"

DnsSend ==
    /\ dnsState = "sending"
    /\ \/ dnsState' = "waiting" /\ pending' = pending + 1 /\ UNCHANGED turn
       \/ TurnOver /\ UNCHANGED pending
    /\ UNCHANGED <<resolvers, socket, unread, inTime>>

\* The network: an answer to a question asked now or before.
DnsArrive ==
    /\ dnsState \in {"sending", "waiting"}
    /\ pending > 0
    /\ \E readable \in BOOLEAN :
          /\ socket' = Append(socket, readable)
          /\ inTime' = (inTime \/ (readable /\ dnsState = "waiting"))
    /\ pending' = pending - 1
    /\ UNCHANGED <<dnsState, resolvers, turn, unread>>

\* Mutant of DnsReceive: an answer is taken only in the last round.
DnsReceivePicky ==
    /\ dnsState = "waiting"
    /\ socket # << >>
    /\ socket' = Tail(socket)
    /\ IF Head(socket) /\ turn >= resolvers
       THEN dnsState' = "answered" /\ UNCHANGED <<turn, unread>>
       ELSE TurnOver /\ unread' = unread + (IF Head(socket) THEN 0 ELSE 1)
    /\ UNCHANGED <<resolvers, pending, inTime>>

\* Whoever it comes from, a readable datagram answers the question; an unreadable
\* one ends the turn.
DnsReceive ==
    /\ dnsState = "waiting"
    /\ socket # << >>
    /\ socket' = Tail(socket)
    /\ IF Head(socket) THEN dnsState' = "answered" /\ UNCHANGED <<turn, unread>>
       ELSE TurnOver /\ unread' = unread + 1
    /\ UNCHANGED <<resolvers, pending, inTime>>

DnsTimeout ==
    /\ dnsState = "waiting"
    /\ socket = << >>
    /\ TurnOver
    /\ UNCHANGED <<resolvers, socket, pending, unread, inTime>>

DnsOver == dnsState \in {"answered", "failed"}

DnsNext == ResolverAddresses \/ DnsSend \/ DnsArrive \/ DnsReceive \/ DnsTimeout

\* What the client does alone: answers may never come.
DnsAlone == ResolverAddresses \/ DnsSend \/ DnsReceive \/ DnsTimeout

(***************************************************************************)
(* Property.                                                               *)
(***************************************************************************)
\* A readable answer that comes while the client waits is not lost on it, though
\* it be the answer of an earlier turn: the query fails only if none came while
\* it waited, or if an unreadable datagram took the turn.
AnswerHeard == dnsState = "failed" => ~inTime \/ unread > 0
================================================================================
