------------------------------ MODULE MCSubshell ------------------------------
(* Subshell for TLC: texts that fit and texts that do not.                     *)
EXTENDS Subshell

Says(puts) == Line(puts, FALSE, <<>>)
Quit == Line(<<"Bye!">>, TRUE, <<>>)

\* Nothing; two lines, with more output than a pipe holds; two programs left in the
\* background at once; `exit` before a line; more lines than the pipe holds, with `exit`
\* first, and with little output; too much output.
SomeTexts == {<<Says(<<>>)>>, <<Says(<<"a">>), Says(<<"b", "c">>)>>,
              <<Line(<<"a">>, FALSE, <<"y">>), Line(<<>>, FALSE, <<"z">>)>>,
              <<Says(<<"a">>), Quit>>, <<Quit, Says(<<"a">>)>>,
              <<Says(<<>>), Quit, Says(<<"a">>), Says(<<"b">>), Says(<<"c">>)>>,
              <<Says(<<>>), Says(<<"a">>), Says(<<>>)>>,
              <<Says(<<"a", "b", "c", "d">>)>>}
OneWord == <<"rc">>
=============================================================================
