------------------------------ MODULE MCInput ------------------------------
(* Input for TLC: the files there are, and what is typed.                  *)
EXTENDS Input

\* a needs two reads; b begins with `source a`, c something that is not there, and d
\* is empty.
SomeFiles == [f \in {"a", "b", "c", "d"} |->
                 CASE f = "a" -> <<"none", "none", "none">>
                   [] f = "b" -> <<"a", "none", "none">>
                   [] f = "c" -> <<"missing", "none">>
                   [] f = "d" -> <<>>]
TypedLines == {"none", "empty", "a", "b", "missing"}
SomeScripts == {<<"a", "none", "none">>, <<"missing", "none", "none">>, <<"d", "none", "none">>}
Startups == {"none", "b", "c"}
=============================================================================
