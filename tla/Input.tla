------------------------------- MODULE Input -------------------------------
(***************************************************************************)
(* Where YaSh's parser gets its lines from: main and read_line::setFile,   *)
(* which call yyparse within yyparse, the buffer of the scanner between    *)
(* them and the streams, the editor's hand-over of a typed line by way of  *)
(* the history (operator(), get and mygetc), and the history file, which   *)
(* another shell appends to at the same time.                              *)
(*                                                                         *)
(* A line is taken as a whole.  The grammar is that of module CommandLine: *)
(* here a line is `source f` or something else.                            *)
(***************************************************************************)
EXTENDS Naturals, Sequences, SequencesExt, FiniteSets

CONSTANTS
    Files,      \* each file, and for each line what it sources, or "none"
    Typed,      \* what the lines that are typed may source; "empty": an empty line
    Scripts,    \* what standard input may hold when it is not a terminal
    RcFiles,    \* the files ~/.yashrc may be, "none" among them if there may be none
    Terminals,  \* whether standard input may be a terminal
    Faults,     \* what may go wrong: "write"
    Block,      \* the lines that a read from a file brings into the buffer
    MaxTyped,   \* bound: lines typed
    MaxOther    \* bound: lines the other shell appends

ASSUME TerminalAssumption == Terminals \subseteq BOOLEAN
ASSUME FilesAssumption ==
    /\ DOMAIN Files \cap {"stdin", "null", "typed", "old", "none", "empty"} = {}
    /\ \A f \in DOMAIN Files : Files[f] \in Seq(STRING)
    /\ Scripts \subseteq Seq(STRING)
    /\ RcFiles \subseteq DOMAIN Files \cup {"none"}
ASSUME BoundAssumption == Block \in Nat \ {0} /\ MaxTyped \in Nat /\ MaxOther \in Nat

VARIABLES
    tty, script,  \* is standard input a terminal, and if not, its lines
    stack,        \* the calls of yyparse, the innermost first: who waits for them
    yyin,         \* the stream that is read: "null", "stdin" or a file
    pos,          \* how many lines of each stream have been read
    buf,          \* the lines in the buffer of the scanner
    linewise,     \* that buffer is filled line by line, through mygetc
    interactive,  \* currentCommand.m_interactive
    open,         \* standard input is open
    state,        \* of the process: "run", "ended" or "crashed"
    editor,       \* how far operator() and get() are: "idle", "text", "newline",
                  \* "push", "get"
    hist,         \* m_history
    submitted,    \* the lines that were typed
    failed,       \* which of them could not be written to the history file
    got,          \* what get() has returned for each of them
    handed,       \* the lines the parser was given
    log,          \* the history file: what was written to it, by whom
    other         \* how many of its two writes for each line the other shell has made

streamVars == <<tty, script, yyin, pos, open>>
scannerVars == <<stack, buf, linewise, interactive, state>>
editorVars == <<editor, hist, submitted, failed, got>>
vars == <<streamVars, scannerVars, editorVars, handed, log, other>>

Line(from, n, src) == [from |-> from, n |-> n, src |-> src]
Old == Line("old", 1, "none")

Exists(f) == f \in DOMAIN Files
Lines(f) == IF f = "stdin" THEN script ELSE Files[f]

\* The next lines of stream f that one read brings
Read(f) == LET m == IF pos[f] + Block < Len(Lines(f)) THEN pos[f] + Block ELSE Len(Lines(f))
           IN  [i \in 1 .. m - pos[f] |-> Line(f, pos[f] + i, Lines(f)[pos[f] + i])]

Init == /\ tty \in Terminals /\ script \in (IF tty THEN {<<>>} ELSE Scripts)
        /\ \E rc \in RcFiles :
              IF rc = "none"
              THEN stack = <<"main">> /\ yyin = "stdin" /\ linewise = tty /\ interactive = tty
              ELSE stack = <<"rc">> /\ yyin = rc /\ linewise = FALSE /\ interactive = FALSE
        /\ pos = [f \in DOMAIN Files \cup {"stdin"} |-> 0]
        /\ buf = <<>> /\ open = TRUE /\ state = "run"
        /\ editor = "idle" /\ hist \in {<<>>, <<Old>>} /\ submitted = <<>> /\ failed = {}
        /\ got = <<>> /\ handed = <<>> /\ log = <<>> /\ other = 0

-----------------------------------------------------------------------------
(* The scanner and the parser.                                             *)

Running == state = "run" /\ editor = "idle"
Crash == state' = "crashed"

\* yyrestart: the buffer is emptied, and filled in the way that fits the stream.
Restart(f) == buf' = <<>> /\ linewise' = (f = "stdin" /\ tty /\ open')

\* [mutant] setFile does not restart the scanner
SourceUnflushed(f) ==
    IF Exists(f)
    THEN /\ yyin' = f /\ pos' = [pos EXCEPT ![f] = 0] /\ stack' = <<"file">> \o stack
         /\ buf' = Tail(buf) /\ linewise' = FALSE /\ UNCHANGED open
    ELSE UNCHANGED <<yyin, pos, stack, open, linewise>> /\ buf' = Tail(buf)

\* setFile: with the file, the rest of the buffer is dropped and a yyparse of its own
\* reads it; without, yyin is null and the second yyparse goes on with the buffer.
Source(f) ==
    /\ UNCHANGED open
    /\ IF Exists(f)
       THEN /\ yyin' = f /\ pos' = [pos EXCEPT ![f] = 0] /\ stack' = <<"file">> \o stack
            /\ Restart(f)
       ELSE /\ yyin' = "null" /\ stack' = <<"rest">> \o stack
            /\ buf' = Tail(buf) /\ UNCHANGED <<pos, linewise>>

\* The parser is given the next line.
Parse ==
    /\ Running /\ buf # <<>>
    /\ handed' = Append(handed, Head(buf))
    /\ IF Head(buf).src \in {"none", "empty"}
       THEN buf' = Tail(buf) /\ UNCHANGED <<yyin, pos, stack, open, linewise>>
       ELSE Source(Head(buf).src)
    /\ UNCHANGED <<tty, script, interactive, state, editorVars, log, other>>

\* A file is read by the block.  fread does not look for a null stream.
Fill ==
    /\ Running /\ buf = <<>> /\ ~linewise
    /\ \/ /\ yyin = "null" \/ (yyin = "stdin" /\ ~open)
          /\ Crash /\ UNCHANGED <<buf, pos>>
       \/ /\ yyin # "null" /\ (yyin = "stdin" => open)
          /\ Read(yyin) # <<>>
          /\ buf' = Read(yyin) /\ pos' = [pos EXCEPT ![yyin] = @ + Len(buf')]
          /\ UNCHANGED state
    /\ UNCHANGED <<tty, script, yyin, open, stack, linewise, interactive, editorVars,
                   handed, log, other>>

\* Before main has set m_interactive, mygetc reads the terminal as it is.
Cooked(src) ==
    /\ Running /\ buf = <<>> /\ linewise /\ ~interactive /\ Len(submitted) < MaxTyped
    /\ IF yyin = "null" THEN Crash /\ UNCHANGED <<buf, submitted, got>>
       ELSE /\ submitted' = Append(submitted, Line("typed", Len(submitted) + 1, src))
            /\ got' = Append(got, Last(submitted')) /\ buf' = <<Last(submitted')>>
            /\ UNCHANGED state
    /\ UNCHANGED <<streamVars, stack, linewise, interactive, editor, hist, failed, handed,
                   log, other>>

\* The end of what is read: of a file, of a script, or of a terminal that is read as it is
AtEnd == /\ Running /\ buf = <<>>
         /\ IF linewise THEN ~interactive /\ yyin # "null"
            ELSE yyin # "null" /\ (yyin = "stdin" => open) /\ Read(yyin) = <<>>

\* [mutant] the scanner is not restarted for the terminal
CloseNoRestart == /\ open' = (open /\ yyin # "stdin")
                  /\ yyin' = "stdin" /\ UNCHANGED <<buf, linewise>>

\* fclose(yyin), whatever that is by now, and back to standard input
CloseStream == /\ open' = (open /\ yyin # "stdin")
               /\ yyin' = "stdin" /\ Restart("stdin")

\* yyparse returns to main, to setFile after the file, or to the end of setFile, from
\* where the yyparse around it goes on.
Return ==
    /\ AtEnd
    /\ CASE Head(stack) = "rc" ->
              CloseStream /\ stack' = <<"main">> /\ interactive' = (tty /\ open') /\ UNCHANGED state
         [] Head(stack) = "file" ->
              CloseStream /\ stack' = <<"rest">> \o Tail(stack) /\ UNCHANGED <<interactive, state>>
         [] Head(stack) = "rest" ->
              stack' = Tail(stack) /\ UNCHANGED <<open, yyin, buf, linewise, interactive, state>>
         [] Head(stack) = "main" ->
              state' = "ended" /\ UNCHANGED <<open, yyin, buf, linewise, stack, interactive>>
    /\ UNCHANGED <<tty, script, pos, editorVars, handed, log, other>>

-----------------------------------------------------------------------------
(* The line editor.  The history file is opened with O_APPEND.             *)

\* [mutant] the file is opened without O_APPEND, and both write at offsets of their own
Overwritten(who, x) ==
    LET mine == SelectSeq(log, LAMBDA e : e.by = who)
    IN  IF Len(mine) < Len(log) THEN [log EXCEPT ![Len(mine) + 1] = [by |-> who, x |-> x]]
        ELSE Append(log, [by |-> who, x |-> x])

Appended(who, x) == Append(log, [by |-> who, x |-> x])

\* operator() reads a line; only one with text goes to the file.
Enter(src) ==
    /\ Running /\ buf = <<>> /\ linewise /\ interactive /\ Len(submitted) < MaxTyped
    /\ submitted' = Append(submitted, Line("typed", Len(submitted) + 1, src))
    /\ editor' = IF src = "empty" THEN "push" ELSE "text"
    /\ UNCHANGED <<streamVars, scannerVars, hist, failed, got, handed, log, other>>

\* [mutant] after a write that fails the editor waits for another line
WriteReadsOn(now, x, next) ==
    /\ state = "run" /\ editor = now
    /\ \/ log' = Appended("me", x) /\ editor' = next
       \/ "write" \in Faults /\ editor' = "idle" /\ UNCHANGED log
    /\ UNCHANGED <<streamVars, scannerVars, hist, submitted, failed, got, handed, other>>

\* The text, and then the newline.  If either cannot be written, operator() returns
\* before the line is in m_history.
Write(now, x, next) ==
    /\ state = "run" /\ editor = now
    /\ \/ log' = Appended("me", x) /\ editor' = next /\ UNCHANGED failed
       \/ /\ "write" \in Faults
          /\ editor' = "get" /\ failed' = failed \cup {Len(submitted)} /\ UNCHANGED log
    /\ UNCHANGED <<streamVars, scannerVars, hist, submitted, got, handed, other>>

WriteText == Write("text", Len(submitted), "newline")
WriteNewline == Write("newline", 0, "push")

\* [mutant] an empty line is not kept
PushText ==
    /\ state = "run" /\ editor = "push"
    /\ hist' = IF Last(submitted).src = "empty" THEN hist ELSE Append(hist, Last(submitted))
    /\ editor' = "get"
    /\ UNCHANGED <<streamVars, scannerVars, submitted, failed, got, handed, log, other>>

Push ==
    /\ state = "run" /\ editor = "push"
    /\ hist' = Append(hist, Last(submitted)) /\ editor' = "get"
    /\ UNCHANGED <<streamVars, scannerVars, submitted, failed, got, handed, log, other>>

\* [mutant] the line is asked for once more
GetAgain ==
    /\ state = "run" /\ editor = "get" /\ hist # <<>>
    /\ got' = Append(got, Last(hist)) /\ buf' = <<Last(hist)>>
    /\ UNCHANGED <<streamVars, stack, linewise, interactive, state, editor, hist, submitted,
                   failed, handed, log, other>>

\* get() takes the last line of the history, and mygetc gives it to the scanner.
Get ==
    /\ state = "run" /\ editor = "get"
    /\ IF hist = <<>> THEN Crash /\ UNCHANGED <<editor, got, buf>>
       ELSE /\ editor' = "idle" /\ got' = Append(got, Last(hist)) /\ buf' = <<Last(hist)>>
            /\ UNCHANGED state
    /\ UNCHANGED <<streamVars, stack, linewise, interactive, hist, submitted, failed, handed,
                   log, other>>

\* Another shell at the end of its operator(): what it writes for the n-th time, the
\* number of a line or 0, a newline
OtherUnit(n) == IF n % 2 = 1 THEN n \div 2 + 1 ELSE 0

OtherWrites ==
    /\ other < 2 * MaxOther
    /\ other' = other + 1
    /\ log' = Appended("other", OtherUnit(other'))
    /\ UNCHANGED <<streamVars, scannerVars, editorVars, handed>>

-----------------------------------------------------------------------------
Reads == Parse \/ Fill \/ Return
Hands == WriteText \/ WriteNewline \/ Push \/ Get

Next == \/ Reads \/ Hands
        \/ \E src \in Typed : Cooked(src) \/ Enter(src)
        \/ OtherWrites

Spec == Init /\ [][Next]_vars

\* The shell is scheduled; nobody has to type, and a terminal need not end.
LiveSpec == Spec /\ WF_vars(Parse \/ Fill \/ Hands) /\ WF_vars(Return /\ ~linewise)

-----------------------------------------------------------------------------
(* Properties.                                                             *)

Streams == DOMAIN Files \cup {"stdin"}
Sources == {"none"} \cup Typed
           \cup UNION {Range(s) : s \in Scripts \cup {Files[f] : f \in DOMAIN Files}}
LineType == [from : Streams \cup {"typed", "old"}, n : Nat, src : Sources]

\* Every variable keeps to its domain.
TypeOK ==
    /\ stack \in Seq({"rc", "main", "file", "rest"}) /\ stack # <<>>
    /\ yyin \in Streams \cup {"null"} /\ pos \in [Streams -> Nat]
    /\ buf \in Seq(LineType) /\ hist \in Seq(LineType) /\ handed \in Seq(LineType)
    /\ tty \in BOOLEAN /\ linewise \in BOOLEAN /\ interactive \in BOOLEAN /\ open \in BOOLEAN
    /\ state \in {"run", "ended", "crashed"}
    /\ editor \in {"idle", "text", "newline", "push", "get"}
    /\ failed \subseteq 1 .. Len(submitted) /\ Len(got) <= Len(submitted)

InFile(a) == a.from \in Streams /\ a.n < Len(Lines(a.from))

\* What comes after line a: the file it sources or, if that is not there, the next
\* line of the file that a is in.
HasSuccessor(a) == IF Exists(a.src) THEN Files[a.src] # <<>> ELSE InFile(a)
Successor(a) == IF Exists(a.src) THEN Line(a.src, 1, Files[a.src][1])
                ELSE Line(a.from, a.n + 1, Lines(a.from)[a.n + 1])

\* source and .yashrc run a file from its first line on, without a gap, and no line of
\* where they were called in between: yyrestart has dropped what was in the buffer.
\* (What has followed a `source` in a file or in a script may be lost after it.)
FilesRunInOrder ==
    \A i \in 1 .. Len(handed) - 1 :
        HasSuccessor(handed[i]) => handed[i + 1] = Successor(handed[i])

\* A call of operator() reads the next line of the user (read_line): get() returns the
\* line that was typed.  A write to the history that fails costs that line alone, which
\* is replaced by the one before it, and none of those typed later.
TypedLineIsRun ==
    \A k \in 1 .. Len(got) :
        IF k \in failed THEN got[k] = Old \/ (got[k].from = "typed" /\ got[k].n < k)
                        ELSE got[k] = submitted[k]

\* How much of the first n units of the history file is from `who`
CountOf(who, n) == Cardinality({i \in 1 .. n : log[i].by = who})

\* The text of a line of this shell
OwnText(i) == log[i].by = "me" /\ log[i].x # 0

\* Whatever two shells write at the same time, what each has written to the history
\* file stays there, in its order, each line once: O_APPEND.  And every line of this
\* shell is there that has a text, that the editor is done with, and that no write failed
\* for.
HistoryFileKeeps ==
    /\ CountOf("other", Len(log)) = other
    /\ \A i \in 1 .. Len(log) :
           log[i].by = "other" => log[i].x = OtherUnit(CountOf("other", i))
    /\ \A i, j \in 1 .. Len(log) : i < j /\ OwnText(i) /\ OwnText(j) => log[i].x < log[j].x
    /\ \A k \in 1 .. Len(submitted) :
           (k < Len(submitted) /\ k \notin failed /\ submitted[k].src # "empty" /\ interactive)
               => \E i \in 1 .. Len(log) : log[i] = [by |-> "me", x |-> k]

\* The shell only crashes where a stream is null or standard input was closed under it,
\* after a `source` that was not typed by hand, or where a line could not be written and
\* there is no line before it; and it ends only when what it reads does: never while it
\* reads lines from its editor.
EndsOnPurpose ==
    /\ state = "crashed" =>
           \/ \E i \in 1 .. Len(handed) : handed[i].from # "typed" /\ handed[i].src # "none"
           \/ failed # {}
    /\ state = "ended" => ~interactive

\* Every line that is typed reaches the parser, through however many calls of yyparse
\* within yyparse, unless the shell dies.
TypedReachesParser ==
    \A k \in 1 .. MaxTyped :
        Len(submitted) = k ~> (state # "run" \/ (Len(got) >= k /\ buf = <<>>))
=============================================================================
