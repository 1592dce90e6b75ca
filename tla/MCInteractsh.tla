------------------------------ MODULE MCInteractsh ------------------------------
(***************************************************************************)
(* Small instances of Interactsh.                                          *)
(***************************************************************************)
EXTENDS Interactsh

\* One request, with two markers or with one.
OneRequest == {"r1"}
TwoUrls == [r \in OneRequest |-> <<"u1", "u2">>]
OneUrl == [r \in OneRequest |-> <<"u1">>]
================================================================================
