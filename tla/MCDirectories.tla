---------------------------- MODULE MCDirectories ----------------------------
(* Directories for TLC: a directory named like the one it is in, so that a  *)
(* name taken from the wrong place may lead somewhere.                       *)
EXTENDS Directories

SmallTree == {<<>>, <<"a">>, <<"a", "a">>, <<"b">>}
OneFile == {<<"b", "c">>}
Sorted == <<"a", "b", "c">>
Root == <<>>
HomeDir == <<"b">>

TypedWords == {Empty, Relative(<<"a">>), Relative(<<"b">>), Relative(<<"..">>),
               Absolute(<<"a">>), Relative(<<"..", "b">>)}
=============================================================================
