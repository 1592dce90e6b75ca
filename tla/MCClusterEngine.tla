---------------------------- MODULE MCClusterEngine -----------------------------
(***************************************************************************)
(* Small instances of ClusterEngine.                                       *)
(***************************************************************************)
EXTENDS ClusterEngine

CONSTANTS w1, w2

TwoWorkers == {w1, w2}
Loaded(r, s, m) == [request |-> r, shareable |-> s, matchers |-> m]

\* Two templates that share a request, one with another, and one of its own.
FourTemplates == << Loaded("GET /", TRUE, "public"), Loaded("GET /x", TRUE, "internal"),
                    Loaded("GET /", TRUE, "public"), Loaded("POST /", FALSE, "none") >>
OneHost == <<"http://a/">>
TwoHosts == <<"http://a/", "http://b/">>
HostKeys == {"http://a/", "http://b/"}
================================================================================
