----------------------------- MODULE LineEditor -----------------------------
(***************************************************************************)
(* The line editor of YaSh, class read_line: one action for each key that  *)
(* read_line::operator() reads, the text it edits (the string _line left   *)
(* of the cursor, the stack m_buff right of it), the history it recalls    *)
(* from, what it has written to the screen, and the two things that run    *)
(* beside it: the detached thread that each ctrl+k leaves behind and the   *)
(* process that ctrl+l starts.                                             *)
(*                                                                         *)
(* The terminal and the history file take all that is written to them, and *)
(* the terminal is wider than the line, so that no handler goes up a row.  *)
(* Of the tab key this module has what it does to the line; CommandLine    *)
(* has what it does to the command that is being read.                     *)
(***************************************************************************)
EXTENDS Integers, Sequences, SequencesExt, FiniteSetsExt

CONSTANTS
    Chars,      \* the printable characters that are typed, but for "!"
    Keys,       \* the keys that are typed
    RevSearch,  \* the environment variable REV_SEARCH_MODE
    Paced,      \* the next key comes when the thread of ctrl+k is done
    Stale,      \* characters that may still lie above the top of m_buff
    MaxKillers, \* bound: such threads at a time
    Loaded,     \* the histories that load_history may find
    Listings,   \* what a directory may hold: names, in order
    Drawn,      \* the screen is part of the model: no key but those that keep it
    MaxText,    \* bound: characters of a line, and of m_current_line_copy
    MaxHist     \* bound: lines of the history

ASSUME CharsAssumption == {"!", "\n"} \cap Chars = {}
ASSUME SearchAssumption == RevSearch \in {"unset", "UP_ARROW", "other"}
ASSUME ModeAssumption == Paced \in BOOLEAN /\ Drawn \in BOOLEAN
ASSUME BoundAssumption == MaxText \in Nat /\ MaxHist \in Nat /\ MaxKillers \in Nat

\* What a line is made of: what is typed, and what the tab key and "!" add
Characters == Chars \cup {"!", "\n", "\"", "/"}
Lines == Seq(Characters)

ASSUME DataAssumption ==
    Stale \subseteq Characters /\ Loaded \subseteq Seq(Lines) /\ Listings \subseteq Seq(Lines)

VARIABLES
    line,      \* _line: the text left of the cursor
    buff,      \* m_buff, from the top: the text right of the cursor
    killers,   \* the number of threads of ctrl+k that are at work on m_buff
    hist,      \* m_history, each line without the newline at its end
    index,     \* history_index
    copy,      \* the size of m_current_line_copy; Underflow: pop_back() when empty
    search, found, sindex,   \* search_str, m_rev_search, search_index
    screen,    \* the row of the terminal: its characters and the cursor
    clearing,  \* the process that ctrl+l has started will clear the screen
    crashed

editVars == <<line, buff, copy, screen>>
searchVars == <<search, found, sindex>>
besideVars == <<killers, clearing, crashed>>
vars == <<editVars, hist, index, searchVars, besideVars>>

Width == MaxText + 2
Underflow == -1
Text == line \o buff

\* The elements of s that are in S, in their order
Among(s, S) ==
    LET f[i \in 0 .. Len(s)] == IF i = 0 THEN <<>>
                                ELSE IF s[i] \in S THEN Append(f[i - 1], s[i]) ELSE f[i - 1]
    IN  f[Len(s)]

-----------------------------------------------------------------------------
(* The terminal.                                                           *)

BlankRow == [cells |-> [i \in 1 .. Width |-> " "], col |-> 0]

Put(s, t) ==
    [cells |-> [i \in 1 .. Width |-> IF i - s.col \in 1 .. Len(t) THEN t[i - s.col]
                                     ELSE s.cells[i]],
     col |-> s.col + Len(t)]

Back(s, n) == [s EXCEPT !.col = @ - n]
Spaces(n) == [i \in 1 .. n |-> " "]

\* t printed over what stands right of the cursor, which stays where it is
Reprint(s, t) == Back(Put(s, t), Len(t))

\* [mutant] the characters left of the cursor are not blanked
RubNothing(s, n) == Back(s, n)

\* n characters left of the cursor, blanked
Rub(s, n) == Back(Put(Back(s, n), Spaces(n)), n)

Draw(s) == screen' = IF Drawn THEN s ELSE screen

-----------------------------------------------------------------------------
Init == /\ line = <<>> /\ buff = <<>> /\ killers = 0
        /\ hist \in Loaded /\ index = Len(hist) /\ copy = 0
        /\ search = <<>> /\ found = <<>> /\ sindex = 0
        /\ screen = BlankRow /\ clearing = FALSE /\ crashed = FALSE

\* A key k is read by operator().
Key(k) == k \in Keys /\ ~crashed /\ (Paced => killers = 0)

Newest == index = Len(hist)

\* A printable character.  An appended one is also kept in m_current_line_copy
\* while no line of the history is shown, which throws once its size has wrapped.
Type(c) ==
    /\ Key("char") /\ Len(Text) < MaxText /\ copy < MaxText
    /\ line' = Append(line, c)
    /\ Draw(Reprint(Put(screen, <<c>>), buff))
    /\ LET kept == buff = <<>> /\ Newest
       IN  /\ copy' = IF kept /\ copy # Underflow THEN copy + 1 ELSE copy
           /\ crashed' = (kept /\ copy = Underflow)
    /\ UNCHANGED <<buff, hist, index, searchVars, killers, clearing>>

\* Moves the cursor to where t is left of it and u right of it.
MoveTo(t, u) ==
    /\ line' = t /\ buff' = u
    /\ Draw(IF Len(t) < Len(line) THEN Back(screen, Len(line) - Len(t))
                 ELSE Put(screen, SubSeq(t, Len(line) + 1, Len(t))))
    /\ UNCHANGED <<copy, hist, index, searchVars, besideVars>>

Cursor(n) == MoveTo(SubSeq(Text, 1, n), SubSeq(Text, n + 1, Len(Text)))

LeftArrow == Key("left") /\ line # <<>> /\ Cursor(Len(line) - 1)
RightArrow == Key("right") /\ buff # <<>> /\ Cursor(Len(line) + 1)
CtrlA == Key("ctrl_a") /\ line # <<>> /\ Cursor(0)
CtrlE == Key("ctrl_e") /\ Cursor(Len(Text))

IsSpace(c) == c = " "

\* What ctrl+right leaves left of the cursor: the next space goes with it.
WordRight == LET s == SelectInSeq(buff, IsSpace)
             IN  IF s = 0 THEN Len(Text) ELSE Len(line) + s

\* What ctrl+left and ctrl+w leave left of the cursor: the space does not.
WordLeft == LET s == SelectLastInSeq(line, IsSpace)
            IN  IF s = 0 THEN 0 ELSE s - 1

CtrlRight == Key("ctrl_right") /\ buff # <<>> /\ Cursor(WordRight)
CtrlLeft == Key("ctrl_left") /\ line # <<>> /\ Cursor(WordLeft)

\* [mutant] m_current_line_copy.pop_back() unasked
PopCopyUnchecked == copy' = IF Newest THEN copy - 1 ELSE copy

\* m_current_line_copy.pop_back() if there is something, as backspace does
PopCopy == copy' = IF Newest /\ copy > 0 THEN copy - 1 ELSE copy

Backspace ==
    /\ Key("backspace") /\ line # <<>>
    /\ line' = Front(line)
    /\ Draw(Reprint(Back(screen, 1), Append(buff, " ")))
    /\ PopCopy
    /\ UNCHANGED <<buff, hist, index, searchVars, besideVars>>

\* ctrl+d and the delete key: what they share
EraseRight ==
    /\ buff # <<>>
    /\ buff' = Tail(buff)
    /\ Draw(Reprint(screen, Append(buff', " ")))
    /\ UNCHANGED <<line, hist, index, searchVars, killers, clearing>>

CtrlD == Key("ctrl_d") /\ EraseRight /\ UNCHANGED <<copy, crashed>>

\* The delete key pops m_current_line_copy unasked.  When that is empty the
\* build may check and abort, or the size wraps around.
Delete ==
    /\ Key("delete") /\ EraseRight
    /\ IF line # <<>> /\ Newest
       THEN IF copy > 0 THEN copy' = copy - 1 /\ UNCHANGED crashed
                        ELSE copy' = Underflow /\ crashed' \in BOOLEAN
       ELSE UNCHANGED <<copy, crashed>>

\* ctrl+delete: up to and with the next space
CtrlDelete ==
    /\ Key("ctrl_delete")
    /\ buff' = SubSeq(buff, WordRight - Len(line) + 1, Len(buff))
    /\ Draw(Reprint(Reprint(screen, Spaces(Len(buff))), buff'))
    /\ UNCHANGED <<line, copy, hist, index, searchVars, besideVars>>

\* [mutant] ctrl+w takes what is right of the cursor along
CtrlWTakesRest ==
    /\ Key("ctrl_w") /\ line # <<>>
    /\ line' = SubSeq(line, 1, WordLeft) /\ buff' = <<>>
    /\ Draw(Rub(Reprint(screen, Spaces(Len(buff))), Len(line) - WordLeft))
    /\ UNCHANGED <<copy, hist, index, searchVars, besideVars>>

\* ctrl+w: the word to the left, with the space before it.  If nothing is left
\* before the cursor, the rest is written one column to the right.
CtrlW ==
    /\ Key("ctrl_w") /\ line # <<>>
    /\ line' = SubSeq(line, 1, WordLeft)
    /\ LET s == Rub(Reprint(screen, Spaces(Len(buff))), Len(line) - WordLeft)
       IN  Draw(Reprint(s, IF line' = <<>> THEN <<" ">> \o buff ELSE buff))
    /\ UNCHANGED <<buff, copy, hist, index, searchVars, besideVars>>

\* ctrl+k blanks the rest of the line and leaves m_buff to one more detached thread.
CtrlK ==
    /\ Key("ctrl_k") /\ buff # <<>> /\ killers < MaxKillers
    /\ killers' = killers + 1
    /\ Draw(Reprint(screen, Spaces(Len(buff) + 1)))
    /\ UNCHANGED <<line, buff, copy, hist, index, searchVars, clearing, crashed>>

\* One round of such a thread that nobody disturbs: it pops whatever is on top by
\* then, or it ends.
Killer ==
    /\ killers > 0 /\ ~crashed
    /\ IF buff = <<>> THEN killers' = killers - 1 /\ UNCHANGED buff
                      ELSE buff' = Tail(buff) /\ UNCHANGED killers
    /\ UNCHANGED <<line, copy, screen, hist, index, searchVars, clearing, crashed>>

\* Nothing locks m_buff.  When the next key does not wait for the thread, size(), top(),
\* push() and pop() of several may overlap: a pop after somebody else has taken the last
\* character, an update that is lost.  Then m_buff holds any of the characters about, or
\* those popped before, the threads come to an end in between or not, or the shell
\* crashes.
Race ==
    /\ killers > 0 /\ ~Paced /\ ~crashed
    /\ \/ /\ buff' \in SeqOf(ToSet(Text) \cup Stale, MaxText - Len(line))
          /\ killers' \in 0 .. killers /\ UNCHANGED crashed
       \/ crashed' = TRUE /\ UNCHANGED <<buff, killers>>
    /\ UNCHANGED <<line, copy, screen, hist, index, searchVars, clearing>>

\* ctrl+l: waitpid refuses WEXITED, so the line is shown again at once, and the
\* process that clears the screen has done so before, or does it later.
CtrlL ==
    /\ Key("ctrl_l")
    /\ Draw(Reprint(Put(BlankRow, line), buff))
    /\ clearing' \in {clearing, TRUE}
    /\ UNCHANGED <<line, buff, copy, hist, index, searchVars, killers, crashed>>

ClearScreen ==
    /\ clearing /\ ~crashed
    /\ clearing' = FALSE /\ Draw(BlankRow)
    /\ UNCHANGED <<line, buff, copy, hist, index, searchVars, killers, crashed>>

-----------------------------------------------------------------------------
(* Completion.                                                             *)

\* string_split drops one space at the end.
Stem == IF line # <<>> /\ IsSpace(Last(line)) THEN Front(line) ELSE line
WordStart == SelectLastInSeq(Stem, IsSpace)
Word == SubSeq(Stem, WordStart + 1, Len(Stem))

Matching(names) == Among(names, {n \in ToSet(names) : IsPrefix(Word, n)})

\* A name with a space is put in quotes.
Quote(n) == IF \E i \in 1 .. Len(n) : IsSpace(n[i]) THEN <<"\"">> \o n \o <<"\"">> ELSE n

\* longest_substring: what all names begin with
LongestCommon(names) ==
    LET same(n) == \A i \in 1 .. Len(names) :
                       n <= Len(names[i]) /\ SubSeq(names[i], 1, n) = SubSeq(names[1], 1, n)
    IN  SubSeq(names[1], 1, Max({n \in 0 .. Len(names[1]) : same(n)}))

\* One match takes the place of the last word.  On an empty line there is no word,
\* and a loop counts to size() - 1 of no words.
CompleteOne(n) ==
    /\ IF line = <<>> THEN crashed' = TRUE /\ UNCHANGED editVars
       ELSE /\ line' = SubSeq(Stem, 1, WordStart) \o Quote(n)
            /\ Draw(Put(Rub(screen, Len(line)), line'))
            /\ copy' = Len(line') /\ UNCHANGED <<buff, crashed>>
    /\ UNCHANGED <<hist, index, searchVars, killers, clearing>>

\* More matches are listed.  What they have in common is added to the line, to the
\* space at its end if there is one, and the line is shown below a new prompt.
CompleteMany(names) ==
    LET common == LongestCommon(names) IN
    /\ line' = line \o SubSeq(common, Len(Word) + 1, Len(common))
    /\ copy' = IF common = <<>> THEN copy ELSE Len(line')
    /\ Draw(Put(BlankRow, line'))
    /\ UNCHANGED <<buff, hist, index, searchVars, besideVars>>

\* The tab key.  Programs are looked for if no file matches, each found with its
\* directory; more than one, or none, is not shown.  The text right of the cursor is
\* not shown again: a tab before it is a key of its own here.
Tab(files, programs) ==
    LET here == Matching(files)
        inPath == Matching(programs)
    IN  /\ Key(IF buff = <<>> THEN "tab" ELSE "tab_inside")
        /\ CASE Len(here) = 1 -> CompleteOne(here[1])
             [] Len(here) > 1 -> CompleteMany(here)
             [] Len(here) = 0 /\ Len(inPath) = 1 -> CompleteOne(<<"/">> \o inPath[1])
             [] OTHER -> UNCHANGED vars
        /\ Len(line') + Len(buff) <= MaxText

-----------------------------------------------------------------------------
(* The history.                                                            *)

\* The end of operator(): the position in the history is that before the push.
Submit(t) ==
    /\ Len(hist) < MaxHist
    /\ line' = <<>> /\ buff' = <<>>
    /\ Draw(BlankRow)
    /\ index' = Len(hist)
    /\ hist' = Append(hist, t) /\ copy' = 0
    /\ UNCHANGED <<searchVars, besideVars>>

\* [mutant] what is right of the cursor is not submitted
EnterLeft == Key("enter") /\ Submit(line)

Enter == Key("enter") /\ Submit(Text)

\* "!" in an empty history is a character.
Bang(t, shown) ==
    /\ Key("bang") /\ Len(Text) + Len(t) <= MaxText
    /\ line' = line \o t
    /\ Draw(IF "\n" \in {shown[i] : i \in 1 .. Len(shown)}
                 THEN BlankRow ELSE Put(screen, shown))
    /\ UNCHANGED <<buff, copy, hist, index, searchVars, besideVars>>

BangAlone == hist = <<>> /\ Bang(<<"!">>, <<"!">>)

\* ... otherwise the next character decides; newline is one like the others.
BangOther(c) == hist # <<>> /\ Bang(<<"!", c>>, <<"!", c>>)

BangBang == hist # <<>> /\ Bang(Last(hist), <<"!", "!">>)

\* The line n lines ago, or the oldest
Ago(n) == hist[IF n < Len(hist) THEN Len(hist) - n + 1 ELSE 1]

\* "!-", the number n and the key c that ends it, which is swallowed; with a
\* newline the line is run, unless there was no number.
BangNumber(n, c) ==
    /\ hist # <<>>
    /\ IF n > 0 /\ c = "\n"
       THEN /\ Key("bang") /\ Len(Text) + Len(Ago(n)) <= MaxText
            /\ Submit(line \o Ago(n) \o buff)
       ELSE Bang(IF n > 0 THEN Ago(n) ELSE <<>>, <<"!", "-", "0", c>>)

\* REV_SEARCH_MODE=UP_ARROW, and there is something to search for
Searching == RevSearch = "UP_ARROW" /\ line # <<>>

\* The newline at the end of a line of the history takes part.
BeginsWithLine(h) == IsPrefix(line, Append(h, "\n"))

Starting == Among(hist, {h \in ToSet(hist) : BeginsWithLine(h)})

\* [mutant] the position of the last search is kept
FindKeepsIndex == IF Searching /\ line # search
                  THEN [str |-> line, res |-> Starting,
                        i |-> sindex]
                  ELSE [str |-> search, res |-> found, i |-> sindex]

\* A new search if the text left of the cursor is not the one searched for
Find == IF Searching /\ line # search
        THEN LET f == Starting
             IN  [str |-> line, res |-> f, i |-> Len(f)]
        ELSE [str |-> search, res |-> found, i |-> sindex]

\* The list of lines that the arrows walk, and the position in it, from 0
Walked(f) == IF Searching THEN f.res ELSE hist
At(f) == IF Searching THEN f.i ELSE index

Stay(f) == /\ search' = f.str /\ found' = f.res /\ sindex' = f.i
           /\ UNCHANGED <<editVars, hist, index, besideVars>>

\* Shows the line t with the cursor at its end or, if REV_SEARCH_MODE is set,
\* after the text that is searched for.  The loop that moves the rest into m_buff
\* only ends where that text does: without it, it runs out of the string.
Show(f, t, i) ==
  IF Searching /\ ~IsPrefix(f.str, t)
  THEN crashed' = TRUE /\ UNCHANGED <<editVars, hist, index, searchVars, killers, clearing>>
  ELSE
      /\ search' = IF Searching THEN f.str ELSE <<>>
      /\ found' = f.res
      /\ IF Searching THEN sindex' = i /\ UNCHANGED index ELSE index' = i /\ sindex' = f.i
      /\ LET at == IF RevSearch = "unset" THEN Len(t) ELSE Len(search')
         IN  line' = SubSeq(t, 1, at) /\ buff' = SubSeq(t, at + 1, Len(t))
      /\ Draw(Reprint(Put(Rub(Put(screen, buff), Len(Text)), line'), buff'))
      /\ UNCHANGED <<copy, hist, besideVars>>

\* The position is moved on after the line is shown ...
UpArrow ==
    /\ Key("up")
    /\ LET f == Find
           h == Walked(f)
           i == IF At(f) = Len(h) THEN At(f) - 1 ELSE At(f)
       IN  IF h = <<>> THEN Stay(f) ELSE Show(f, h[i + 1], IF i > 0 THEN i - 1 ELSE 0)

\* ... and here before; the last line stays what the user has made of it.
DownArrow ==
    /\ Key("down")
    /\ LET f == Find
           h == Walked(f)
           i == At(f)
       IN  IF i = Len(h) THEN Stay(f)
           ELSE IF i = Len(h) - 1 THEN Show(f, Text, i) ELSE Show(f, h[i + 2], i + 1)

-----------------------------------------------------------------------------
Edit == \/ \E c \in Chars : Type(c)
        \/ LeftArrow \/ RightArrow \/ CtrlA \/ CtrlE \/ CtrlRight \/ CtrlLeft
        \/ Backspace \/ CtrlD \/ Delete \/ CtrlDelete \/ CtrlW \/ CtrlK \/ CtrlL
        \/ \E files, programs \in Listings : Tab(files, programs)

History == \/ Enter \/ UpArrow \/ DownArrow
           \/ BangAlone \/ BangBang \/ \E c \in Chars \cup {"\n"} : BangOther(c)
           \/ \E n \in 0 .. MaxHist, c \in {" ", "\n"} : BangNumber(n, c)

Next == Edit \/ History \/ Killer \/ Race \/ ClearScreen

Spec == Init /\ [][Next]_vars

-----------------------------------------------------------------------------
(* Properties.                                                             *)

\* Every variable keeps to its domain; the size of m_current_line_copy wraps
\* around once at most.
TypeOK == /\ line \in Lines /\ buff \in Lines
          /\ hist \in Seq(Lines) /\ found \in Seq(Lines) /\ search \in Lines
          /\ index \in Nat /\ sindex \in Nat
          /\ copy \in Nat \cup {Underflow}
          /\ screen.col \in Int
          /\ killers \in Nat /\ clearing \in BOOLEAN /\ crashed \in BOOLEAN

\* vector::at in handle_up_arrow and handle_down_arrow does not throw, which
\* nobody would catch: both positions stay in their lists; and every line found
\* begins with what was searched for, so that the loops that take the rest of it
\* off again come to an end (unless a newline got into the line, which "!" does).
RecallInBounds ==
    /\ index <= Len(hist) /\ sindex <= Len(found)
    /\ search # <<>> /\ Last(search) # "\n" =>
          \A i \in 1 .. Len(found) : IsPrefix(search, found[i])

\* Nobody else is at work on m_buff than whoever takes this step.
Undisturbed == Paced \/ killers = 0

\* What operator() edits is a text field, while no thread of ctrl+k is in its way: no
\* key, in whatever state of the two halves of the line, loses, duplicates or reorders
\* text away from the cursor, and all of the text is submitted.  The thread itself, if
\* no key comes in between, only takes from what is right of the cursor.
TF == INSTANCE TextField WITH text <- Text, cur <- Len(line), past <- hist
EditsText == TF!Init /\ [][Undisturbed => [TF!Next]_<<Text, Len(line), hist>>]_vars

\* "ctrl + k clears the remaining parts of the line": when a line is submitted, nothing
\* is left of what a thread of ctrl+k is there to take away.
KilledIsGone == [][hist' # hist /\ killers > 0 => buff = <<>>]_vars

\* The screen shows the line, the cursor where the next character will go.
ScreenFaithful ==
    killers = 0 =>
        screen = [cells |-> [i \in 1 .. Width |-> IF i <= Len(Text) THEN Text[i] ELSE " "],
                  col |-> Len(line)]
=============================================================================
