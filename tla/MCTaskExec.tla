------------------------------- MODULE MCTaskExec -------------------------------
(***************************************************************************)
(* Small instances of TaskExec: two plain templates that have a block of     *)
(* each protocol between them, two flows, and a workflow that runs flows,    *)
(* plain templates and (to no effect) itself.                              *)
(***************************************************************************)
EXTENDS TaskExec

MCNames == {"token", "panel", "javascript_response"}

Free == [needs |-> {}, race |-> 1]
Plain(p, m) == [proto |-> p, matchers |-> m, name |-> "", stop |-> FALSE, gives |-> {},
                requests |-> << Free >>]
Named(p, m, name) == [Plain(p, m) EXCEPT !.name = name]
Giving(block) == [block EXCEPT !.gives = {"token"}]

OfBlocks(blocks) ==
    [blocks |-> blocks, flow |-> 0, workflow |-> << >>, tags |-> {}, paths |-> {}]

\* 1..6: dns(1) && !http(1) || code(1)
\* 7..15: (javascript(1) || true && network(1)) && ssl(1) || http(1), which is missing
MCNodes ==
    LET node(op, l, r, b) == [op |-> op, left |-> l, right |-> r, b |-> b, bool |-> TRUE]
        call(b) == node("call", 0, 0, b)
    IN  << call(1), call(3), node("negate", 2, 0, 0), node("and", 1, 3, 0), call(2),
           node("or", 4, 5, 0),
           call(3), node("bool", 0, 0, 0), call(1), node("and", 8, 9, 0),
           node("or", 7, 10, 0), call(2), node("and", 11, 12, 0), call(0),
           node("or", 13, 14, 0) >>

Racing == [Plain("http", "public") EXCEPT
              !.requests = << Free, [needs |-> {"token"}, race |-> 2] >>]
OwnStop == [Plain("http", "internal") EXCEPT !.stop = TRUE]
TwoFiles == [Plain("file", "public") EXCEPT !.requests = << Free, Free >>]

MCTemplates ==
    << OfBlocks(<< Giving(Plain("dns", "public")), Plain("network", "none"),
                   Plain("ssl", "internal"), Plain("whois", "internal"), TwoFiles,
                   Plain("http", "none") >>),
       OfBlocks(<< Plain("code", "public"), Plain("websocket", "public"),
                   Plain("headless", "public"), Plain("javascript", "public"),
                   Giving(OwnStop), Racing >>),
       [OfBlocks(<< Giving(Plain("dns", "public")), Plain("code", "none"),
                    [Racing EXCEPT !.stop = TRUE] >>)
           EXCEPT !.flow = 6, !.paths = {"flow.yaml"}],
       [OfBlocks(<< Plain("network", "none"), Plain("ssl", "internal"),
                    Plain("javascript", "public") >>)
           EXCEPT !.flow = 15, !.tags = {"net"}],
       [OfBlocks(<< >>) EXCEPT !.workflow = << 1, 2 >>, !.tags = {"net"}],
       [OfBlocks(<< Giving(Named("http", "public", "panel")) >>)
           EXCEPT !.paths = {"login.yaml"}] >>

MCSteps ==
    LET step(tags, path) == [tags |-> tags, path |-> path, subs |-> << >>, gates |-> << >>]
        gate(names, all, subs) == [names |-> names, all |-> all, subs |-> subs]
    IN  << [step({}, "login.yaml") EXCEPT
               !.subs = << 3 >>,
               !.gates = << gate({"panel"}, FALSE, << 4 >>),
                            gate({"panel", "token"}, TRUE, << 5 >>) >>],
           [step({"net"}, "login.yaml") EXCEPT !.subs = << 6 >>],
           step({}, "flow.yaml"), step({}, "login.yaml"), step({"net"}, ""),
           step({}, "login.yaml") >>
================================================================================
