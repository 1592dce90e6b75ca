------------------------------- MODULE MCUiBridge -------------------------------
(***************************************************************************)
(* Small instances of UiBridge.                                            *)
(***************************************************************************)
EXTENDS UiBridge

\* One raw template that parses and one that does not.
BadThenGood == <<FALSE, TRUE>>
================================================================================
