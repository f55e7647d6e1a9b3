---------------------------- MODULE MCCommandLine ----------------------------
(* CommandLine for TLC: the words that are typed, and the names they match.   *)
EXTENDS CommandLine

\* As arguments they are words like any other, one of them in quotes; as command words
\* both set their flags.
PlainWords == {"fg"}
QuotedWords == {"pushd"}

\* A pattern that matches two names; as a command word it is taken as it is.
TwoFiles == [p \in {"*"} |-> <<"a", "b">>]

\* What tab finds: nothing (which ends like one name) or two names
Found == {<<>>, <<"a", "b">>}

\* alias *= "": the word then stands for nothing where it is not expanded.
OneAlias == {<<"*", <<>>>>}

\* The operator that sets all there is to set
OneOperator == {">>&"}
=============================================================================
