------------------------------- MODULE Conversation -------------------------------
(***************************************************************************)
(* The clients that hold a conversation with one peer: network_client.rs,   *)
(* ssl_client.rs, whois_client.rs, websocket_client.rs, code_client.rs and   *)
(* headless_client of src/src/engine.  A block is compiled into the steps    *)
(* its client awaits in order, each with or without a timeout; the peer may  *)
(* answer, send bytes, close, or do nothing.  The bytes of the peer are      *)
(* numbered in the order they are sent.                                    *)
(***************************************************************************)
EXTENDS Integers, Sequences

CONSTANTS
    Blocks,         \* the blocks that may be run
    MaxBytes,       \* bound: bytes the peer sends
    CodeEnabled     \* --enable-code-templates

\* inputs: what is sent (nothing, if ~data) and how many bytes, 0 for none, are
\* read after it; of headless the actions, with data if they name an element or code.
\* versions: TLS versions in range; suites: those the cipher suites allowed belong to.
ASSUME ConversationAssumption ==
    /\ \A b \in Blocks :
          /\ b.kind \in {"network", "ssl", "whois", "websocket", "code", "headless"}
          /\ b.inputs \in Seq([data : BOOLEAN, read : Nat, action : STRING])
          /\ b.tls \in BOOLEAN /\ b.readAll \in BOOLEAN /\ b.size \in Nat \ {0}
          /\ b.versions \cup b.suites \subseteq {"tls12", "tls13"}
    /\ MaxBytes \in Nat
    /\ CodeEnabled \in BOOLEAN

VARIABLES
    steps,      \* the steps left
    outcome,    \* "idle", "running", "ok" or "error"
    arrived,    \* bytes the peer has sent
    closed,     \* the peer has closed
    consumed,   \* bytes taken from the stream
    raw,        \* all_reads, received_messages
    data,       \* final_chunk: what the last step of all read
    bounded,    \* history: every step of the block has a timeout
    framed      \* history: the block is a websocket, whose messages are taken whole

talkVars == <<steps, outcome, arrived, closed, consumed, raw, data, bounded, framed>>

Reads == {"read", "readAll", "readToEnd", "frame"}
Acts == {"connect", "handshake", "write", "flush", "close", "output", "launch", "poll",
         "command"}

(***************************************************************************)
(* The steps of a block.  must: failing it is an error of the block; timed:  *)
(* whether there is a timeout; of a "read", len bytes at most are taken.     *)
(***************************************************************************)
Await(do, timed, must) == [do |-> do, timed |-> timed, must |-> must, len |-> 1]
Read(len) == [Await("read", TRUE, FALSE) EXCEPT !.len = len]
Skip == Await("skip", TRUE, FALSE)

\* run_conversation: of each input what is sent, flushed, and what is read then; either
\* may be absent.  A TLS stream takes what is written into its buffer: it is the flush
\* that waits for the peer, and that has no timeout.  A plain stream has no flush.
Exchange(b) ==
    [k \in 1..(3 * Len(b.inputs)) |->
        LET input == b.inputs[(k + 2) \div 3]
        IN  CASE k % 3 = 1 /\ input.data -> Await("write", TRUE, TRUE)
              [] k % 3 = 2 /\ input.data /\ b.tls -> Await("flush", FALSE, FALSE)
              [] k % 3 = 0 /\ input.read > 0 -> Read(input.read)
              [] OTHER -> Skip]

\* NetworkClient::execute: always a last read.
NetworkSteps(b) ==
    << Await("connect", TRUE, TRUE) >>
    \o (IF b.tls THEN << Await("handshake", TRUE, TRUE) >> ELSE << >>)
    \o Exchange(b)
    \o << IF b.readAll THEN Await("readAll", TRUE, FALSE) ELSE Read(b.size) >>

\* resolve_tls_versions, with_protocol_versions: no version in the range of the block,
\* or no cipher suite for one, is an error.
ResolveTlsVersions(b) ==
    IF b.versions \cap b.suites = {} THEN << Await("refuse", TRUE, TRUE) >> ELSE << >>

\* SslClient::execute: the versions are looked at only after the connect.
SslSteps(b) ==
    << Await("connect", TRUE, TRUE) >>
    \o ResolveTlsVersions(b)
    \o << Await("handshake", TRUE, TRUE) >>

\* Mutant of WhoisSteps: no timeout around the reading.
WhoisStepsUntimed(b) ==
    << Await("connect", TRUE, TRUE), Await("put", FALSE, TRUE),
       Await("readToEnd", FALSE, FALSE) >>

\* WhoisClient::execute: one timeout around all the reading.  The write has none,
\* but a line put on a fresh connection does not wait for the peer.
WhoisSteps(b) ==
    << Await("connect", TRUE, TRUE), Await("put", FALSE, TRUE),
       Await("readToEnd", TRUE, FALSE) >>

\* WebSocketClient::execute: neither sending nor closing has a timeout.
WebSocketSteps(b) ==
    << Await("connect", TRUE, TRUE) >>
    \o [k \in 1..(2 * Len(b.inputs)) |->
            IF k % 2 = 1 THEN Await("write", FALSE, TRUE) ELSE Await("frame", TRUE, FALSE)]
    \o << Await("close", FALSE, FALSE) >>

\* CodeClient::execute: the process may run for ever.
CodeSteps(b) ==
    IF CodeEnabled THEN << Await("put", FALSE, TRUE), Await("output", FALSE, TRUE) >>
                   ELSE << Await("refuse", TRUE, TRUE) >>

\* execute_step: waits are polled fifty times, or last as long as the block says, and
\* never fail; chromiumoxide gives each command a timeout, and its error counts or not.
\* An action that needs an element is refused without, others then do nothing.
HeadlessAction(input) ==
    LET command == Await("command", TRUE, TRUE)
        attempt == Await("command", TRUE, FALSE)
        refuse == Await("refuse", TRUE, TRUE)
        wait == Await("poll", TRUE, FALSE)
    IN  CASE input.action \in {"wait", "waitload", "waitidle", "sleep"} -> wait
          [] input.action = "waitvisible" -> IF input.data THEN wait ELSE refuse
          [] input.action \in {"navigate", "script", "keyboard", "screenshot"} -> command
          [] input.action \in {"click", "rightclick", "text", "select"} ->
                IF input.data THEN command ELSE refuse
          [] input.action = "time" -> IF input.data THEN command ELSE wait
          [] input.action = "extract" -> IF input.data THEN command ELSE Skip
          [] input.action \in {"setheader", "addheader", "debug", "getresource",
                               "waitevent", "waitdialog"} -> attempt
          [] input.action \in {"deleteheader", "files"} -> IF input.data THEN attempt ELSE Skip
          [] OTHER -> refuse

\* HeadlessClient::execute
HeadlessSteps(b) ==
    << Await("launch", TRUE, TRUE), Await("command", TRUE, TRUE) >>
    \o [i \in DOMAIN b.inputs |-> HeadlessAction(b.inputs[i])]
    \o << Await("command", TRUE, TRUE), Await("close", TRUE, FALSE) >>

StepsOf(b) ==
    CASE b.kind = "network" -> NetworkSteps(b)
      [] b.kind = "ssl" -> SslSteps(b)
      [] b.kind = "whois" -> WhoisSteps(b)
      [] b.kind = "websocket" -> WebSocketSteps(b)
      [] b.kind = "code" -> CodeSteps(b)
      [] b.kind = "headless" -> HeadlessSteps(b)

TalkTypeOK ==
    /\ outcome \in {"idle", "running", "ok", "error"}
    /\ steps \in Seq([do : Reads \cup Acts \cup {"put", "refuse", "skip"}, timed : BOOLEAN,
                     must : BOOLEAN, len : Nat \ {0}])
    /\ arrived \in 0..MaxBytes /\ consumed \in 0..arrived
    /\ raw \in Seq(1..MaxBytes) /\ data \in Seq(1..MaxBytes)
    /\ {closed, bounded, framed} \subseteq BOOLEAN

TalkInit ==
    /\ steps = << >> /\ outcome = "idle"
    /\ arrived = 0 /\ consumed = 0 /\ closed = FALSE
    /\ raw = << >> /\ data = << >>
    /\ bounded = FALSE /\ framed = FALSE

\* Not bounded: a network block with read-all, where each chunk gets a new timeout, and
\* one that flushes what it sends over TLS.
Bounded(b) ==
    /\ b.kind \in {"network", "ssl", "whois", "headless"}
    /\ b.kind = "network" =>
          ~b.readAll /\ \A i \in DOMAIN b.inputs : ~(b.tls /\ b.inputs[i].data)

StartTalk ==
    /\ outcome = "idle"
    /\ \E b \in Blocks :
          /\ steps' = StepsOf(b)
          /\ bounded' = Bounded(b)
          /\ framed' = (b.kind = "websocket")
    /\ outcome' = "running"
    /\ UNCHANGED <<arrived, closed, consumed, raw, data>>

Awaiting(kinds) == outcome = "running" /\ steps # << >> /\ steps[1].do \in kinds

Advance ==
    /\ steps' = Tail(steps)
    /\ outcome' = IF Len(steps) = 1 THEN "ok" ELSE "running"
Abort == steps' = << >> /\ outcome' = "error"

\* The peer, or the process or browser, lets a step succeed or fail.
Answer ==
    /\ Awaiting(Acts)
    /\ Advance \/ (IF steps[1].must THEN Abort ELSE Advance)
    /\ UNCHANGED <<arrived, closed, consumed, raw, data, bounded, framed>>

\* What needs no answer of a peer: to put a line or start a process, which may fail,
\* what the block asks for and cannot be done, and what it does not ask for.
ActAlone ==
    /\ Awaiting({"put", "refuse", "skip"})
    /\ (steps[1].do # "skip" /\ Abort) \/ (steps[1].do # "refuse" /\ Advance)
    /\ UNCHANGED <<arrived, closed, consumed, raw, data, bounded, framed>>

\* The peer of a stream, once that stands.
Streaming == /\ outcome = "running" /\ ~closed
             /\ steps[1].do \notin {"connect", "handshake"}
             /\ \E i \in DOMAIN steps : steps[i].do \in Reads

PeerSends ==
    /\ Streaming
    /\ arrived < MaxBytes
    /\ arrived' = arrived + 1
    /\ UNCHANGED <<steps, outcome, closed, consumed, raw, data, bounded, framed>>

PeerCloses ==
    /\ Streaming
    /\ closed' = TRUE
    /\ UNCHANGED <<steps, outcome, arrived, consumed, raw, data, bounded, framed>>

Bytes(n) == [i \in 1..n |-> consumed + i]
Unread == arrived - consumed

\* Mutant of ReadChunk: the last read is data, but not added to raw.
ReadChunkLastApart ==
    /\ Awaiting({"read"})
    /\ Unread > 0
    /\ \E n \in 1..Unread :
          /\ n <= steps[1].len
          /\ data' = IF Len(steps) = 1 THEN Bytes(n) ELSE data
          /\ raw' = IF Len(steps) = 1 THEN raw ELSE raw \o Bytes(n)
          /\ consumed' = consumed + n
    /\ Advance
    /\ UNCHANGED <<arrived, closed, bounded, framed>>

\* read_chunk: what is there, up to the length asked for; the last one is data.
ReadChunk ==
    /\ Awaiting({"read"})
    /\ Unread > 0
    /\ \E n \in 1..Unread :
          /\ n <= steps[1].len
          /\ data' = IF Len(steps) = 1 THEN Bytes(n) ELSE data
          /\ raw' = raw \o Bytes(n)
          /\ consumed' = consumed + n
    /\ Advance
    /\ UNCHANGED <<arrived, closed, bounded, framed>>

\* The reads that go on: final_read with read-all, read_to_end.
ReadOn ==
    /\ Awaiting({"readAll", "readToEnd"})
    /\ Unread > 0
    /\ data' = data \o Bytes(Unread)
    /\ raw' = raw \o Bytes(Unread)
    /\ consumed' = arrived
    /\ UNCHANGED <<steps, outcome, arrived, closed, bounded, framed>>

\* One message of a websocket; of what is neither text nor binary the turn is lost.
ReadFrame ==
    /\ Awaiting({"frame"})
    /\ Unread > 0
    /\ consumed' = consumed + 1
    /\ raw' \in {raw, raw \o Bytes(1)}
    /\ Advance
    /\ UNCHANGED <<arrived, closed, data, bounded, framed>>

\* A read that finds the stream at its end has nothing.
ReadNothing ==
    /\ Awaiting(Reads)
    /\ Unread = 0 /\ closed
    /\ Advance
    /\ UNCHANGED <<arrived, closed, consumed, raw, data, bounded, framed>>

\* The timeout of a step; of a read, if there is nothing to read.
TimedOut ==
    /\ Awaiting(Reads \cup Acts)
    /\ steps[1].timed
    /\ steps[1].do \in Reads \ {"readToEnd"} => Unread = 0
    /\ IF steps[1].must THEN Abort ELSE Advance
    /\ UNCHANGED <<arrived, closed, consumed, raw, data, bounded, framed>>

TalkOver == outcome \in {"ok", "error"}

TalkNext ==
    \/ StartTalk \/ Answer \/ ActAlone \/ PeerSends \/ PeerCloses
    \/ ReadChunk \/ ReadOn \/ ReadFrame \/ ReadNothing \/ TimedOut

\* What the client does alone; nothing is asked of the peer.
TalkAlone == ActAlone \/ ReadChunk \/ ReadOn \/ ReadFrame \/ ReadNothing

(***************************************************************************)
(* Properties.                                                             *)
(***************************************************************************)
\* What a client keeps is the stream of the peer, in order and without a gap, and
\* data is the end of it: no chunk is lost between the reads of the inputs and
\* the last one, though the peer sends at any moment and some reads time out.
\* (Of a websocket, messages that are neither text nor binary are missing.)
RawIsTranscript ==
    /\ \A i \in 1..(Len(raw) - 1) : raw[i] < raw[i + 1]
    /\ ~framed => raw = [i \in 1..consumed |-> i]
    /\ \E k \in 0..Len(raw) : data = SubSeq(raw, k + 1, Len(raw))
================================================================================
