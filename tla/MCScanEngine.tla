------------------------------ MODULE MCScanEngine ------------------------------
(***************************************************************************)
(* Small instances of ScanEngine.                                          *)
(***************************************************************************)
EXTENDS ScanEngine

CONSTANTS w1, w2

TwoWorkers == {w1, w2}

HttpRequest(m, s, l) ==
    [kind |-> "http", matchers |-> m, stop |-> s, last |-> l, timed |-> TRUE]
Block(k, m, p) ==
    [kind |-> k, matchers |-> m, stop |-> FALSE, last |-> p,
     timed |-> k \notin {"code", "javascript", "websocket"}]

\* Three tasks: an http block with two requests and its own
\* stop-at-first-match, a block of internal matchers on the same host, and a
\* task with a code block, which may hang and reports its internal matchers,
\* before an http block without matchers.
MixedProbes ==
    << << HttpRequest("public", TRUE, 2), HttpRequest("public", TRUE, 2) >>,
       << HttpRequest("internal", FALSE, 1) >>,
       << Block("code", "internal", 1), HttpRequest("none", FALSE, 2) >> >>
MixedTargets == <<"http://a/", "http://a/", "http://b/">>
MixedKeys == {"http://a/", "http://b/"}
================================================================================
