-------------------------------- MODULE MCHelpers --------------------------------
(***************************************************************************)
(* Small instances of the helpers.                                         *)
(***************************************************************************)
EXTENDS Helpers

\* Two requests of one policy, one of which leaves the cap to the default; two that
\* differ in disable-cookie only; one that stays on its host next to two that do not
\* follow; a raw request without a request line.
Url(scheme, host, port) == [scheme |-> scheme, host |-> host, port |-> port]
Here == Url("http", "a", 0)
MCUrls == {Url("https", "a", 0), Url("http", "a", 8080), Url("http", "b", 0)}

Policy(flow, max, cookies) == [flow |-> flow, max |-> max, cookies |-> cookies]
Req(policy) == [url |-> Here, policy |-> policy, wellFormed |-> TRUE]

MCScenarios ==
    {<< Req(Policy("FollowAll", 0, TRUE)), Req(Policy("FollowAll", 1, TRUE)),
        [Req(Policy("FollowAll", 1, TRUE)) EXCEPT !.wellFormed = FALSE] >>,
     << Req(Policy("FollowAll", 1, TRUE)), Req(Policy("FollowAll", 1, FALSE)),
        [Req(Policy("FollowAll", 0, TRUE)) EXCEPT !.wellFormed = FALSE] >>,
     << Req(Policy("FollowSameHost", 2, TRUE)), Req(Policy("DontFollow", 2, TRUE)),
        Req(Policy("DontFollow", 2, TRUE)) >>}

MCEntries == << "host", "bad", "ip" >>

Input(sends, reads, act) == [data |-> sends, read |-> reads, action |-> act]
Talk(kind, inputs) ==
    [kind |-> kind, inputs |-> inputs, tls |-> FALSE, readAll |-> FALSE, size |-> 2,
     versions |-> {"tls12", "tls13"}, suites |-> {"tls12", "tls13"}]

MCBlocks ==
    {Talk("network", << Input(TRUE, 1, ""), Input(TRUE, 0, ""), Input(FALSE, 2, "") >>),
     [Talk("network", << Input(TRUE, 1, "") >>) EXCEPT !.tls = TRUE, !.readAll = TRUE],
     [Talk("network", << Input(TRUE, 1, "") >>) EXCEPT !.tls = TRUE],
     [Talk("network", << Input(FALSE, 1, "") >>) EXCEPT !.tls = TRUE],
     Talk("ssl", << >>), [Talk("ssl", << >>) EXCEPT !.versions = {}],
     [Talk("ssl", << >>) EXCEPT !.versions = {"tls13"}, !.suites = {"tls12"}],
     Talk("whois", << >>),
     Talk("websocket", << Input(TRUE, 1, ""), Input(TRUE, 1, "") >>),
     Talk("code", << >>),
     Talk("headless", << Input(FALSE, 0, "navigate"), Input(FALSE, 0, "wait"),
                         Input(TRUE, 0, "time"), Input(FALSE, 0, "extract"),
                         Input(TRUE, 0, "deleteheader"), Input(TRUE, 0, "click") >>),
     Talk("headless", << Input(FALSE, 0, "debug"), Input(FALSE, 0, "rightclick") >>),
     Talk("headless", << Input(FALSE, 0, "unknown") >>)}

BoundedSeqs(set, n) == UNION {[1..k -> set] : k \in 0..n}

\* Negations, and one operator over them; then one more of either.
Smaller ==
    LET leaves == {FlowLeaf(x) : x \in Leaves}
        negated == leaves \cup {FlowNot(t) : t \in leaves}
    IN  negated \cup {FlowBinary(op, l, r) : op \in {"&&", "||"}, l \in negated, r \in negated}
MCTrees ==
    Smaller \cup {FlowNot(t) : t \in Smaller}
            \cup {FlowBinary(op, l, r) : op \in {"&&", "||"}, l \in Smaller, r \in Smaller}
MCTokenSequences == BoundedSeqs(Token, 5)

MCWordInputs ==
    [words : BoundedSeqs(BoundedSeqs({"a", "b"}, 2) \ {<< >>}, 2),
     text : BoundedSeqs({"a", "b"}, 4), all : BOOLEAN]
MCMatcherInputs ==
    [matchers : BoundedSeqs([outOfBand : BOOLEAN, met : BOOLEAN, negative : BOOLEAN,
                             name : {"", "panel"}], 2)
                \cup {<< x, [x EXCEPT !.name = "login"] >> :
                        x \in [outOfBand : BOOLEAN, met : BOOLEAN, negative : BOOLEAN,
                               name : {"panel"}]},
     all : BOOLEAN, interaction : BOOLEAN]

\* Keys of which one ends with another one, a payload with a key in it, and wide letters.
MCSpelled ==
    [id |-> << "i", "d" >>, uid |-> << "u", "i", "d" >>, ref |-> << "r", "e" >>,
     p1 |-> << "<", "1" >>, p2 |-> << "w", "2" >>, q |-> << "q", "i", "d" >>]
MCFuzzInputs ==
  {x \in
    [block : [attack : {"sniper", "pitchfork", "clusterbomb"},
              part : {"query", "header", "body"},
              mode : {"replace", "prefix", "postfix", "infix"},
              payloads : {[id |-> << "p1", "p2" >>], [id |-> << "p1", "p2" >>, uid |-> << "q" >>],
                          [id |-> << "p1", "p2" >>, uid |-> << "p1", "p2" >>],
                          [id |-> << "p1" >>, ref |-> << "p1", "p2" >>]}],
     base : [query : {<< >>, << [name |-> "uid", value |-> << "1" >>],
                              [name |-> "id", value |-> << "2", "3" >>] >>},
             headers : {<< >>, [id |-> << "x", "y" >>], [id |-> << "w" >>]},
             body : {<< >>, << "w", "a" >>, << "a", "i", "d" >>, << "i", "d", "u", "i", "d" >>,
                     << "i", "d", "r", "e", "w" >>}],
     keys : UNION {SetToSeqs(k) : k \in {{"id"}, {"id", "uid"}, {"id", "ref"}}}] :
        ToSet(x.keys) = DOMAIN x.block.payloads}
================================================================================
