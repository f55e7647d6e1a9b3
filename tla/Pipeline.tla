------------------------------ MODULE Pipeline ------------------------------
(***************************************************************************)
(* File descriptors in YaSh: the redirections the grammar opens, the pipes *)
(* and forks of Command::execute, SimpleCommand::setup_process_io in the   *)
(* child and, for a builtin, save_io / setup_process_io / resume_io in the *)
(* shell itself, and Command::clear.  A descriptor is a number that is     *)
(* given out again once it is closed: what goes wrong here is a number     *)
(* closed twice, kept for too long, or used after it has changed hands.    *)
(*                                                                         *)
(* Groups, signals and & belong to JobControl: here a line is waited for.  *)
(***************************************************************************)
EXTENDS Integers, Sequences, FiniteSets, FiniteSetsExt

CONSTANTS
    MaxFd,    \* bound: the largest descriptor number
    MaxLen,   \* bound: simple commands of one line
    Kinds,    \* the kinds of simple command that are typed
    Redirections,  \* the kinds of redirection that are typed
    Faults    \* what may fail: "open", "pipe", "fork"; or be typed: "ambiguous"

\* "ext" is forked; a "builtin" succeeds (cd, setenv, unsetenv, cl); "usage" is
\* setenv or unsetenv with wrong arguments; "early" is a cd whose replacement is
\* not found or an unsetenv that fails.
ASSUME KindAssumption == Kinds \subseteq {"ext", "builtin", "usage", "early"}
\* "both" is >& and >>& on any line, "both_forked" on a line without a builtin
\* that redirects the shell.
ASSUME RedirectionAssumption == Redirections \subseteq {"in", "out", "both", "both_forked"}
ASSUME FaultAssumption == Faults \subseteq {"open", "pipe", "fork", "ambiguous"}
\* A line of any length needs nine descriptors at most besides 0, 1 and 2; POSIX
\* promises a process twenty.
ASSUME BoundAssumption == MaxLen \in Nat \ {0} /\ MaxFd \in Nat /\ MaxFd >= 11

VARIABLES
    fds,       \* the shell's descriptor table
    io,        \* <<m_stdin, m_stdout, m_stderr>>
    want,      \* what the line's redirections asked for, in that order
    set,       \* inSet, outSet, errSet
    cmds,      \* simpleCommands, by kind
    x,         \* the index of execute()'s loop, from 1
    fdin, fdout, fdpipe,  \* locals of execute()
    kids,      \* the processes forked for the line, by stage
    last,      \* execute()'s local pid, as a stage: 0 if nothing was forked
    pc

vars == <<fds, io, want, set, cmds, x, fdin, fdout, fdpipe, kids, last, pc>>

Fd == 0 .. MaxFd
Stage == 1 .. MaxLen
NoFd == -1

-----------------------------------------------------------------------------
(* The operating system: open files and descriptor tables.                 *)

Free == <<"free", 0>>
Tty == <<"tty", 0>>
File(i) == <<"file", i>>
ReadEnd(k) == <<"read", k>>     \* of the pipe between stages k and k + 1
WriteEnd(k) == <<"write", k>>
Old == <<"old", 0>>             \* left open by an earlier line
Object == {Free, Tty, Old} \cup {File(i) : i \in 1 .. 3}
          \cup {ReadEnd(k) : k \in Stage} \cup {WriteEnd(k) : k \in Stage}

Fresh == [f \in Fd |-> IF f <= 2 THEN Tty ELSE Free]
Empty == [f \in Fd |-> Free]

\* bound: what leaks only does while a whole line still fits into the table
Room == Cardinality({f \in Fd : fds[f] = Free}) >= 9

Lowest(t) == Min({f \in Fd : t[f] = Free})
Open(t, o) == [t EXCEPT ![Lowest(t)] = o]
Close(t, f) == IF f \in Fd THEN [t EXCEPT ![f] = Free] ELSE t
Dup2(t, f, g) == IF f \in Fd /\ t[f] # Free THEN [t EXCEPT ![g] = t[f]] ELSE t

-----------------------------------------------------------------------------
(* SimpleCommand's handling of descriptors.                                *)

\* dup2(f, g), close(f), unless they are the same
Move(t, f, g) == IF f = g THEN t ELSE Close(Dup2(t, f, g), f)

\* [mutant] the error output is left alone
SetupIoNoErr(t, i, o, e) == Move(Move(t, i, 0), o, 1)

\* setup_process_io
SetupIo(t, i, o, e) == Move(Move(Move(t, i, 0), o, 1), e, 2)

\* save_io for one of the three: a duplicate of g, if f is to take its place
Save(s, f, g) ==
    IF f = g \/ s.t[g] = Free
    THEN [s EXCEPT !.saved = Append(@, NoFd)]
    ELSE [t |-> Open(s.t, s.t[g]), saved |-> Append(s.saved, Lowest(s.t))]

SaveIo(t, i, o, e) == Save(Save(Save([t |-> t, saved |-> <<>>], i, 0), o, 1), e, 2)

ResumeIo(t, s) == Move(Move(Move(t, s[1], 0), s[2], 1), s[3], 2)

\* handle_builtins: the table of the shell after the builtin
RunBuiltin(kind, t, i, o, e) ==
    LET s == SaveIo(t, i, o, e)
        ran == SetupIo(s.t, i, o, e)
    IN  CASE kind = "builtin" -> ResumeIo(ran, s.saved)
          [] kind = "early" -> ran
          [] kind = "usage" -> t

-----------------------------------------------------------------------------
NoKids == [k \in Stage |-> [live |-> FALSE, fds |-> Empty]]

Init == /\ fds = Fresh /\ io = <<0, 1, 2>>
        /\ want = <<Tty, Tty, Tty>> /\ set = <<FALSE, FALSE, FALSE>>
        /\ cmds = <<>> /\ x = 1 /\ last = 0
        /\ fdin = 0 /\ fdout = 1 /\ fdpipe = <<NoFd, NoFd>>
        /\ kids = NoKids
        /\ pc = "parse"

locals == <<x, fdin, fdout, fdpipe, kids, last>>

\* [mutant] clear() does not close m_stdout
ClearLeavesOut ==
    /\ fds' = [f \in Fd |-> IF f > 2 /\ f \in {io[1], io[3]} THEN Free ELSE fds[f]]
    /\ io' = <<0, 1, 2>>
    /\ want' = <<Tty, Tty, Tty>> /\ set' = <<FALSE, FALSE, FALSE>>
    /\ cmds' = <<>> /\ x' = 1 /\ last' = 0
    /\ fdin' = 0 /\ fdout' = 1 /\ fdpipe' = <<NoFd, NoFd>>
    /\ pc' = "parse"

\* [mutant] clear() closes m_stdin, m_stdout and m_stderr whatever they are
ClearUnguarded ==
    /\ fds' = [f \in Fd |-> IF f \in {io[1], io[2], io[3]} THEN Free ELSE fds[f]]
    /\ io' = <<0, 1, 2>>
    /\ want' = <<Tty, Tty, Tty>> /\ set' = <<FALSE, FALSE, FALSE>>
    /\ cmds' = <<>> /\ x' = 1 /\ last' = 0
    /\ fdin' = 0 /\ fdout' = 1 /\ fdpipe' = <<NoFd, NoFd>>
    /\ pc' = "parse"

\* Command::clear, when execute() returns
Clear ==
    /\ fds' = [f \in Fd |-> IF \E k \in 1 .. 3 : f = io[k] /\ io[k] # k - 1
                            THEN Free ELSE fds[f]]
    /\ io' = <<0, 1, 2>>
    /\ want' = <<Tty, Tty, Tty>> /\ set' = <<FALSE, FALSE, FALSE>>
    /\ cmds' = <<>> /\ x' = 1 /\ last' = 0
    /\ fdin' = 0 /\ fdout' = 1 /\ fdpipe' = <<NoFd, NoFd>>
    /\ pc' = "parse"

\* pipe_list: the simple commands of a line.  The processes and the open files
\* that an earlier line has left are told apart from this line's.
PipeList(line) ==
    /\ pc = "parse"
    /\ cmds' = line /\ pc' = "modifiers"
    /\ kids' = NoKids
    /\ fds' = [f \in Fd |-> IF fds[f] \in {Free, Tty} THEN fds[f] ELSE Old]
    /\ UNCHANGED <<io, want, set, x, fdin, fdout, fdpipe, last>>

\* set_in_file (k = 1), set_out_file (k = 2), set_err_file (k = 3): open the file
\* o, or go back to the terminal.
SetFile(k, o) ==
    \/ /\ fds' = Open(fds, o) /\ io' = [io EXCEPT ![k] = Lowest(fds)]
       /\ want' = [want EXCEPT ![k] = o] /\ set' = [set EXCEPT ![k] = TRUE]
    \/ /\ "open" \in Faults
       /\ io' = [io EXCEPT ![k] = k - 1] /\ UNCHANGED fds
       /\ want' = [want EXCEPT ![k] = Tty] /\ set' = [set EXCEPT ![k] = FALSE]

\* < (k = 1), > and >> (k = 2).  A second redirection of the same stream is
\* reported as ambiguous and done.
Redirect(k) ==
    /\ pc = "modifiers"
    /\ (IF k = 1 THEN "in" ELSE "out") \in Redirections
    /\ ~set[k] \/ ("ambiguous" \in Faults /\ Room)
    /\ SetFile(k, File(k))
    /\ UNCHANGED <<cmds, locals, pc>>

Redirectable == \/ "both" \in Redirections
                \/ "both_forked" \in Redirections /\ \A i \in 1 .. Len(cmds) : cmds[i] \in {"ext", "usage"}

\* >& and >>&: the file is opened for m_stderr ...
RedirectErr ==
    /\ pc = "modifiers" /\ Redirectable
    /\ (~set[2] /\ ~set[3]) \/ ("ambiguous" \in Faults /\ Room)
    /\ SetFile(3, File(3))
    /\ pc' = "both"
    /\ UNCHANGED <<cmds, locals>>

\* ... and once more for m_stdout, whatever came of the first.
RedirectOut ==
    /\ pc = "both"
    /\ SetFile(2, File(3))
    /\ pc' = "modifiers"
    /\ UNCHANGED <<cmds, locals>>

\* Entry of execute()
Execute == /\ pc = "modifiers"
           /\ fdin' = io[1] /\ pc' = "stage"
           /\ UNCHANGED <<fds, io, want, set, cmds, x, fdout, fdpipe, kids, last>>

\* [mutant] every stage writes to the pipe
PlumbToPipe ==
    /\ pc = "stage"
    /\ \/ /\ x < Len(cmds)
          /\ LET t == Open(fds, ReadEnd(x))
             IN  /\ fds' = Open(t, WriteEnd(x))
                 /\ fdpipe' = <<Lowest(fds), Lowest(t)>> /\ fdout' = Lowest(t)
       \/ /\ x = Len(cmds)
          /\ fdout' = fdpipe[2] /\ UNCHANGED <<fds, fdpipe>>
    /\ pc' = "run"
    /\ UNCHANGED <<io, want, set, cmds, x, fdin, kids, last>>

\* The pipe to the next stage and fdout
Plumb ==
    /\ pc = "stage"
    /\ \/ /\ x < Len(cmds)
          /\ LET t == Open(fds, ReadEnd(x))
             IN  /\ fds' = Open(t, WriteEnd(x))
                 /\ fdpipe' = <<Lowest(fds), Lowest(t)>> /\ fdout' = Lowest(t)
       \/ /\ x = Len(cmds)
          /\ fdout' = io[2] /\ UNCHANGED <<fds, fdpipe>>
    /\ pc' = "run"
    /\ UNCHANGED <<io, want, set, cmds, x, fdin, kids, last>>

\* execute() returns at once: what it has open for the next stage stays open.
PipeFails == /\ pc = "stage" /\ x < Len(cmds) /\ "pipe" \in Faults /\ Room
             /\ Clear /\ UNCHANGED kids

\* handle_builtins, in the shell
Builtin == /\ pc = "run" /\ cmds[x] # "ext"
           /\ fds' = RunBuiltin(cmds[x], fds, fdin, fdout, io[3])
           /\ pc' = "clean"
           /\ UNCHANGED <<io, want, set, cmds, locals>>

\* fork(), and launch() in the child up to exec
Fork == /\ pc = "run" /\ cmds[x] = "ext"
        /\ kids' = [kids EXCEPT ![x] =
                      [live |-> TRUE, fds |-> SetupIo(fds, fdin, fdout, io[3])]]
        /\ last' = x
        /\ pc' = "clean"
        /\ UNCHANGED <<fds, io, want, set, cmds, x, fdin, fdout, fdpipe>>

ForkFails == /\ pc = "run" /\ cmds[x] = "ext" /\ "fork" \in Faults /\ Room
             /\ Clear /\ UNCHANGED kids

\* [mutant] the parent keeps the write end of the pipe
CleanKeepsOut ==
    /\ pc = "clean"
    /\ fds' = IF fdin # io[1] THEN Close(fds, fdin) ELSE fds
    /\ fdin' = fdpipe[1]
    /\ x' = x + 1
    /\ pc' = IF x = Len(cmds) THEN "wait" ELSE "stage"
    /\ UNCHANGED <<io, want, set, cmds, fdout, fdpipe, kids, last>>

\* [mutant] the next stage reads what this stage has read
CleanSameInput ==
    /\ pc = "clean"
    /\ fds' = IF fdout # io[2] THEN Close(fds, fdout) ELSE fds
    /\ UNCHANGED fdin
    /\ x' = x + 1
    /\ pc' = IF x = Len(cmds) THEN "wait" ELSE "stage"
    /\ UNCHANGED <<io, want, set, cmds, fdout, fdpipe, kids, last>>

\* "cleanup": the parent's copies are closed, the next stage reads the pipe.
Clean ==
    /\ pc = "clean"
    /\ LET t == IF fdin # io[1] THEN Close(fds, fdin) ELSE fds
       IN  fds' = IF fdout # io[2] THEN Close(t, fdout) ELSE t
    /\ fdin' = fdpipe[1]
    /\ x' = x + 1
    /\ pc' = IF x = Len(cmds) THEN "wait" ELSE "stage"
    /\ UNCHANGED <<io, want, set, cmds, fdout, fdpipe, kids, last>>

\* waitpid for the last process forked, and the end of execute()
Return == /\ pc = "wait"
          /\ last # 0 => ~kids[last].live
          /\ Clear /\ UNCHANGED kids

-----------------------------------------------------------------------------
(* The processes: each reads its input to the end.                         *)

Tables == {fds} \cup {kids[k].fds : k \in {j \in Stage : kids[j].live}}
Held(t, o) == \E f \in Fd : t[f] = o

\* End of file: nobody is left who could write into the pipe.
AtEof(k) == LET o == kids[k].fds[0]
            IN  o[1] = "read" => ~\E t \in Tables : Held(t, WriteEnd(o[2]))

Exit(k) == /\ kids[k].live /\ AtEof(k)
           /\ kids' = [kids EXCEPT ![k] = [live |-> FALSE, fds |-> Empty]]
           /\ UNCHANGED <<fds, io, want, set, cmds, x, fdin, fdout, fdpipe, last, pc>>

Lines == UNION {[1 .. n -> Kinds] : n \in Stage}

Parser == (\E line \in Lines : PipeList(line)) \/ (\E k \in 1 .. 2 : Redirect(k))
          \/ RedirectErr \/ RedirectOut

Executor == Execute \/ Plumb \/ PipeFails \/ Builtin \/ Fork \/ ForkFails \/ Clean \/ Return

Next == Parser \/ Executor \/ \E k \in Stage : Exit(k)

Spec == Init /\ [][Next]_vars

\* The shell gets on with a line; a process whose input has ended exits.
LiveSpec == Spec /\ WF_vars(Executor) /\ \A k \in Stage : WF_vars(Exit(k))

-----------------------------------------------------------------------------
(* Properties.                                                             *)

\* Every variable keeps to its domain, descriptor numbers included.
TypeOK == /\ fds \in [Fd -> Object]
          /\ io \in Fd \X Fd \X Fd
          /\ want \in Object \X Object \X Object /\ set \in BOOLEAN \X BOOLEAN \X BOOLEAN
          /\ cmds \in {<<>>} \cup Lines
          /\ x \in 1 .. MaxLen + 1 /\ last \in 0 .. MaxLen
          /\ fdin \in Fd \cup {NoFd} /\ fdout \in Fd
          /\ fdpipe \in (Fd \cup {NoFd}) \X (Fd \cup {NoFd})
          /\ kids \in [Stage -> [live : BOOLEAN, fds : [Fd -> Object]]]
          /\ pc \in {"parse", "modifiers", "both", "stage", "run", "clean", "wait"}

\* Between lines the shell has its own three descriptors and no other, whatever
\* pipes, redirections and builtins the line had: nothing has leaked, and
\* nothing that was closed twice was in use under its number.
TableRestored == pc = "parse" => fds = Fresh

\* Whatever fails in a line, the shell's own input, output and error stay.
StdIntact == pc = "parse" => \A f \in 0 .. 2 : fds[f] = Tty

\* The command of stage k reads the line's input or the pipe from the stage
\* before, and writes the line's output or the pipe to the next stage.
Wired ==
    \A k \in Stage : kids[k].live /\ pc # "parse" =>
        /\ kids[k].fds[0] = IF k = 1 THEN want[1] ELSE ReadEnd(k - 1)
        /\ kids[k].fds[1] = IF k = Len(cmds) THEN want[2] ELSE WriteEnd(k)

\* The error output of every command is the pipeline's (execute's comment).
ErrWired == \A k \in Stage : kids[k].live /\ pc # "parse" => kids[k].fds[2] = want[3]

\* Once the whole line is forked, only the command of stage k can keep the next
\* one from reading end of file: nobody else holds the write end of its pipe.
OnlyWriterHolds ==
    pc = "wait" => \A k \in Stage : /\ ~Held(fds, WriteEnd(k))
                                    /\ \A j \in Stage \ {k} : ~Held(kids[j].fds, WriteEnd(k))

\* Every line comes to an end, each command having read its input to the end.
LineReturns == (pc = "stage") ~> (pc = "parse")

=============================================================================
