---------------------------- MODULE MCTemplateCache -----------------------------
(***************************************************************************)
(* Small instances of TemplateCache.                                       *)
(***************************************************************************)
EXTENDS TemplateCache

\* The branch and a directory in it, asked for one after the other, by runs of their
\* own or by one run: a file comes, a file goes, and version 3 has no http directory.
MovingFiles ==
    << [s \in {"", "http"} |-> IF s = "" THEN {"a", "b", "x"} ELSE {"a", "b"}],
       [s \in {"", "http"} |-> IF s = "" THEN {"b", "x"} ELSE {"b"}],
       [s \in {"", "http"} |-> IF s = "" THEN {"x"} ELSE {}] >>
MovingPaths == {<<"http">>, <<"">>, <<"http", "">>}

\* One directory of one version.
StillFiles == << [s \in {"http"} |-> {"a", "b"}] >>
OnePath == {<<"http">>}

\* Two directories, asked for by different runs or by one run.
TwoDirectories == << [s \in {"http", "dns"} |-> IF s = "http" THEN {"a", "b"} ELSE {"c"}] >>
BothPaths == {<<"http", "dns">>}
================================================================================
