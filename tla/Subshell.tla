------------------------------ MODULE Subshell ------------------------------
(***************************************************************************)
(* Command substitution: a text in backticks is given to another YaSh over *)
(* one pipe, and what that prints on a second pipe is read and put back    *)
(* before the scanner.  Both pipes block when they are full, and the shell *)
(* reads nothing before it has written everything.                         *)
(*                                                                         *)
(* A unit of the first pipe is a command of the text, here called a line   *)
(* though `&&` separates them, too; one of the second is an output of a    *)
(* program.  That the shell moves single bytes, and that the second YaSh   *)
(* reads ahead, changes the bounds only.  Programs do not read the text    *)
(* themselves.  The start-up file, which each YaSh runs first, may print,  *)
(* too.                                                                    *)
(***************************************************************************)
EXTENDS Naturals, Sequences, SequencesExt, FiniteSetsExt

CONSTANTS
    Texts,      \* the texts in backticks: sequences of lines
    Greeting,   \* the outputs of the start-up file
    Capacity,   \* units that a pipe holds
    BufferSize, \* units that `buffer` holds
    MaxFd,      \* bound: the highest descriptor that a process may have
    MaxSubst    \* bound: substitutions

ASSUME BoundAssumption == /\ MaxFd \in Nat /\ MaxFd >= 2 /\ Capacity \in Nat \ {0}
                          /\ BufferSize \in Nat /\ MaxSubst \in Nat

\* A line: what it prints, whether it is `exit`, and what a program that it leaves in
\* the background prints later, if there is one.
Line(puts, quits, later) == [puts |-> puts, quits |-> quits, later |-> later]

\* The newline that takes the place of the second backtick ends a line: there is one.
ASSUME TextsAssumption ==
    /\ Greeting \in Seq(STRING)
    /\ Texts \subseteq Seq([puts : Seq(STRING), quits : BOOLEAN, later : Seq(STRING)]) \ {<<>>}

Fds == 0 .. MaxFd
None == MaxFd + 1   \* no descriptor: dup() has returned -1

VARIABLES
    shell,   \* where the action of the scanner is
    fd,      \* the descriptors of the shell: what each refers to
    tempIn,  \* the descriptors that keep the standard input
    tempOut, \* ... and the standard output
    text,    \* the text in backticks
    sent,    \* lines of it that are written
    buffer,  \* what was read
    count,   \* substitutions so far
    sub,     \* the second YaSh: "none", "runs" or "dead"
    got,     \* lines that it has read
    prints,  \* what it prints before it reads on
    out,     \* the contents of the second pipe
    late     \* the programs in the background, one for each line that was read: what
             \* each still prints, <<>> if it has ended or there is none

shellVars == <<shell, fd, tempIn, tempOut, text, sent, buffer, count>>
subVars == <<sub, got, prints, late>>
vars == <<shellVars, subVars, out>>

Init == /\ shell = "idle" /\ fd = [n \in Fds |-> IF n < 3 THEN "tty" ELSE "free"]
        /\ tempIn = None /\ tempOut = None /\ text = <<>> /\ sent = 0 /\ buffer = <<>>
        /\ count = 0 /\ sub = "none" /\ got = 0 /\ prints = <<>> /\ out = <<>> /\ late = <<>>

-----------------------------------------------------------------------------
(* Descriptors.                                                            *)

Free(f) == {n \in Fds : f[n] = "free"}
Lowest(f) == IF Free(f) = {} THEN None ELSE Min(Free(f))

Open(f, file) == IF Free(f) = {} THEN f ELSE [f EXCEPT ![Lowest(f)] = file]
Dup2(f, from, to) == IF from \in Fds THEN [f EXCEPT ![to] = f[from]] ELSE f
Close(f, n) == IF n \in Fds THEN [f EXCEPT ![n] = "free"] ELSE f

\* pipe(): both ends, or none
Pipe(f, reader, writer) ==
    IF Cardinality(Free(f)) < 2 THEN f ELSE Open(Open(f, reader), writer)

FdOf(f, file) == CHOOSE n \in Fds : f[n] = file

-----------------------------------------------------------------------------
(* The shell.                                                              *)

\* The pipes are made, standard input and output kept, and replaced: the shell writes
\* to the first pipe and reads from the second.  Its own read end of the first one
\* stays open.  Without a descriptor for a pipe the token is an error; without a
\* process the shell exits.
Substitute(t, forked) ==
    LET one == Pipe(fd, "oneRead", "oneWrite")
        two == Pipe(one, "twoRead", "twoWrite")
        writer == Lowest(Open(fd, "oneRead"))
        reader == Lowest(one)
        in == Lowest(two)
        keptIn == Open(two, fd[0])
        res == Lowest(keptIn)
        kept == Open(keptIn, fd[1])
        output == Close(Dup2(kept, writer, 1), writer)
        input == Close(Dup2(output, reader, 0), reader)
        child == Cardinality(Free(fd)) >= 4
    IN  /\ shell = "idle" /\ count < MaxSubst /\ count' = count + 1
        /\ IF ~child
           THEN /\ fd' = [n \in Fds |-> IF fd[n] = "free" /\ one[n] # "free" THEN "left" ELSE fd[n]]
                /\ forked
                /\ UNCHANGED <<shell, tempIn, tempOut, text, sent, buffer, subVars, out>>
           ELSE /\ text' = t /\ sent' = 0 /\ buffer' = <<>>
                /\ fd' = input /\ tempIn' = in /\ tempOut' = res
                /\ shell' = IF forked THEN "writes" ELSE "exited"
                /\ sub' = IF forked THEN "runs" ELSE "none"
                /\ got' = 0 /\ prints' = Greeting /\ out' = <<>> /\ late' = <<>>

\* [mutant] the shell keeps the write end of the second pipe
CloseOutputKeeps(f) == Close(Dup2(f, tempOut, 1), tempOut)

\* After the last byte: standard output comes back, which closes the write end of the
\* first pipe, and the write end of the second is closed.
CloseOutput(f) == LET o == Close(Dup2(f, tempOut, 1), tempOut)
                  IN  Close(o, FdOf(o, "twoWrite"))

\* [mutant] the zero that ends the text is written, too
WriteZero ==
    /\ shell = "writes" /\ sent - got < Capacity
    /\ sent' = sent + 1
    /\ IF sent = Len(text) THEN shell' = "reads" /\ fd' = CloseOutput(fd)
                           ELSE UNCHANGED <<shell, fd>>
    /\ UNCHANGED <<tempIn, tempOut, text, buffer, count, subVars, out>>

Write ==
    /\ shell = "writes" /\ sent - got < Capacity
    /\ sent' = sent + 1
    /\ IF sent' = Len(text) THEN shell' = "reads" /\ fd' = CloseOutput(fd)
                            ELSE UNCHANGED <<shell, fd>>
    /\ UNCHANGED <<tempIn, tempOut, text, buffer, count, subVars, out>>

\* Nothing checks for the end of the buffer.
Read ==
    /\ shell = "reads" /\ out # <<>>
    /\ out' = Tail(out)
    /\ IF Len(buffer) < BufferSize THEN buffer' = Append(buffer, Head(out)) /\ UNCHANGED shell
                                   ELSE shell' = "crashed" /\ UNCHANGED buffer
    /\ UNCHANGED <<fd, tempIn, tempOut, text, sent, count, subVars>>

\* Who may still write to the second pipe: the second YaSh, what it left in the
\* background, and the shell itself
HasWriter == \/ sub = "runs" \/ \E i \in DOMAIN late : late[i] # <<>>
             \/ \E n \in Fds : fd[n] = "twoWrite"

\* [mutant] an empty pipe is taken for its end
EndOfOutputEarly ==
    /\ shell = "reads" /\ out = <<>>
    /\ shell' = "waits" /\ fd' = Close(Dup2(fd, tempIn, 0), tempIn)
    /\ UNCHANGED <<tempIn, tempOut, text, sent, buffer, count, subVars, out>>

\* [mutant] what kept the standard input is not closed
EndOfOutputKeeps ==
    /\ shell = "reads" /\ out = <<>> /\ ~HasWriter
    /\ shell' = "waits" /\ fd' = Dup2(fd, tempIn, 0)
    /\ UNCHANGED <<tempIn, tempOut, text, sent, buffer, count, subVars, out>>

\* End of file: what was read goes before the scanner, and standard input comes back.
EndOfOutput ==
    /\ shell = "reads" /\ out = <<>> /\ ~HasWriter
    /\ shell' = "waits" /\ fd' = Close(Dup2(fd, tempIn, 0), tempIn)
    /\ UNCHANGED <<tempIn, tempOut, text, sent, buffer, count, subVars, out>>

\* waitpid.  What was the read end of the first pipe is nobody's from here on.
Wait ==
    /\ shell = "waits" /\ sub = "dead"
    /\ shell' = "idle" /\ sub' = "none"
    /\ fd' = [n \in Fds |-> IF fd[n] = "oneRead" THEN "left" ELSE fd[n]]
    /\ UNCHANGED <<tempIn, tempOut, text, sent, buffer, count, got, prints, late, out>>

-----------------------------------------------------------------------------
(* The second YaSh.                                                        *)

\* It, or a program it waits for, writes.
Puts ==
    /\ sub = "runs" /\ prints # <<>> /\ Len(out) < Capacity
    /\ out' = Append(out, Head(prints)) /\ prints' = Tail(prints)
    /\ UNCHANGED <<shellVars, sub, got, late>>

Quits == got > 0 /\ text[got].quits

\* The next line: its program is run, and not waited for if it ends in `&`.  `exit`
\* prints and ends it without another one.
NextLine ==
    /\ sub = "runs" /\ prints = <<>> /\ got < sent /\ ~Quits
    /\ got' = got + 1 /\ prints' = text[got'].puts
    /\ late' = Append(late, text[got'].later)
    /\ UNCHANGED <<shellVars, sub, out>>

\* `exit`, or the end of its input: nobody has the write end of the first pipe.
Exit ==
    /\ sub = "runs" /\ prints = <<>>
    /\ \/ Quits
       \/ got = sent /\ \A n \in Fds : fd[n] # "oneWrite"
    /\ sub' = "dead"
    /\ UNCHANGED <<shellVars, got, prints, late, out>>

\* What runs in the background ends when it has printed.  All that do run at once.
PutsLate(i) ==
    /\ late[i] # <<>> /\ Len(out) < Capacity
    /\ out' = Append(out, Head(late[i])) /\ late' = [late EXCEPT ![i] = Tail(@)]
    /\ UNCHANGED <<shellVars, sub, got, prints>>

-----------------------------------------------------------------------------
Sub == Puts \/ NextLine \/ Exit
Next == \/ \E t \in Texts, forked \in BOOLEAN : Substitute(t, forked)
        \/ Write \/ Read \/ EndOfOutput \/ Wait \/ Sub
        \/ \E i \in DOMAIN late : PutsLate(i)

Spec == Init /\ [][Next]_vars

\* The processes are scheduled, and what runs in the background goes on.
LiveSpec == Spec /\ WF_vars(Write \/ Read \/ EndOfOutput \/ Wait) /\ WF_vars(Sub)
                 /\ WF_vars(\E i \in DOMAIN late : PutsLate(i))

-----------------------------------------------------------------------------
(* Properties.                                                             *)

\* The lines that the second YaSh runs: it stops at the first `exit`.
Runs(t) == {i \in 1 .. Len(t) : \A j \in 1 .. i - 1 : ~t[j].quits}

\* What is printed for t: by the second YaSh and the programs that it waits for, 0, and
\* by the program that line i leaves in the background
Printed(t) == [i \in Runs(t) \cup {0} |-> IF i # 0 THEN t[i].later
                                      ELSE FlattenSeq(<<Greeting>> \o [j \in Runs(t) |-> t[j].puts])]

\* Every variable keeps to its domain; a line is not read before it is written.
TypeOK ==
    /\ shell \in {"idle", "writes", "reads", "waits", "exited", "crashed"}
    /\ fd \in [Fds -> {"tty", "free", "oneRead", "oneWrite", "twoRead", "twoWrite", "left"}]
    /\ {tempIn, tempOut} \subseteq Fds \cup {None}
    /\ sub \in {"none", "runs", "dead"}
    /\ sent \in 0 .. Len(text) /\ got \in 0 .. sent

\* Of the first n units those that w printed
From(who, w, n) == {i \in 1 .. n : who[i] = w}

\* z is made of what each w prints, ss[w]: the outputs of each are whole and in their
\* order, those of different ones in any.
Merges(z, ss) ==
    \E who \in [1 .. Len(z) -> DOMAIN ss] :
        /\ \A w \in DOMAIN ss : Cardinality(From(who, w, Len(z))) = Len(ss[w])
        /\ \A i \in 1 .. Len(z) : z[i] = ss[who[i]][Cardinality(From(who, who[i], i))]

\* The scanner is given the whole output, each unit once, and each program's in its
\* order: what the start-up file and the lines print up to `exit`, among it what is
\* printed in the background, which the shell waits for, too.
WholeOutput == shell = "waits" => Merges(buffer, Printed(text))

\* Between substitutions the shell has its standard input and output back, unless
\* there was no descriptor to keep them.  Of all that was opened only the read end
\* of the first pipe is left, one for each: after about a thousand of them there are
\* none for another.
Restored ==
    shell = "idle" /\ tempOut # None =>
        /\ \A n \in 0 .. 2 : fd[n] = "tty"
        /\ \A n \in Fds \ (0 .. 2) : fd[n] \in {"free", "left"}
        /\ Cardinality({n \in Fds : fd[n] = "left"}) <= count

\* A substitution comes to its end if there are descriptors for it, `buffer` holds its
\* output, and one of the pipes never fills: the first holds all lines, or the second
\* the whole output, while `exit` does not end what reads the first.
Volume(t) == MapThenSumSet(LAMBDA w : Len(Printed(t)[w]), DOMAIN Printed(t))
Fits == /\ tempOut # None /\ tempIn # None
        /\ Volume(text) <= BufferSize
        /\ \/ Len(text) <= Capacity
           \/ Volume(text) <= Capacity /\ \A i \in 1 .. Len(text) : ~text[i].quits

Returns == (shell = "writes" /\ Fits) ~> (shell = "idle")
=============================================================================
