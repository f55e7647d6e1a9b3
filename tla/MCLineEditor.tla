---------------------------- MODULE MCLineEditor ----------------------------
(* LineEditor for TLC: what is typed, and the histories it starts with.    *)
EXTENDS LineEditor

OneLetter == {"a"}
Letters == {"a", " "}

\* The keys that leave the screen as it should be: all but ctrl+w, ctrl+l and "!"
TextKeys == {"char", "left", "right", "ctrl_a", "ctrl_e", "ctrl_right", "ctrl_left",
             "backspace", "ctrl_d", "delete", "ctrl_delete", "ctrl_k",
             "enter", "up", "down", "tab"}

\* The keys that work on the history, those with a known bad effect on the
\* screen, and some to have text on both sides of the cursor; the tab key there
HistoryKeys == {"char", "left", "backspace", "ctrl_w", "ctrl_k", "ctrl_l", "bang",
                "enter", "up", "down", "tab_inside"}

\* Those that it takes to submit a line after ctrl+k
KillKeys == {"char", "left", "ctrl_k", "enter"}

\* What tab finds: nothing; two files or programs, which may be on the line
TwoFiles == {<<>>, << <<"a">>, <<"a", "a">> >>}

NoHistory == {<<>>}
OneLine == {<<>>, << <<"a">> >>}
SomeHistory == {<<>>, << <<"a">>, <<"a", " ">> >>}
=============================================================================
