----------------------------- MODULE JobControl -----------------------------
(***************************************************************************)
(* Processes, process groups, the controlling terminal and the job table   *)
(* of YaSh: Command::execute, Command::send_to_foreground, the grammar     *)
(* actions for fg and bg, SimpleCommand::launch in the forked child, the   *)
(* signal set-up of main and read_line::tty_raw_mode.  The shell and every *)
(* process it has forked interleave; a process may stop or exit whenever   *)
(* it runs, and so before the shell has done its half of a step.           *)
(*                                                                         *)
(* Process ids are not recycled here: a process that is "gone" stays gone. *)
(* Descriptors are the business of Pipeline; the printed job numbers (and  *)
(* with them Command::m_job_map) are left out.                             *)
(***************************************************************************)
EXTENDS Integers, Sequences, FiniteSets, SequencesExt

CONSTANTS
    Child,        \* the process ids that fork() can return
    Shell,        \* the shell's process id, also its process group
    NoPid,        \* the pid 0: "no group yet" in m_pgid, "my group" in waitpid
    Interactive,  \* isatty(0): with job control, or running a script
    MaxLen,       \* bound: simple commands of one line that are forked
    MaxJobs       \* bound: entries of the job table when a line is typed

ASSUME PidAssumption == Shell \notin Child /\ NoPid \notin Child /\ Shell # NoPid
ASSUME ModeAssumption == Interactive \in BOOLEAN
ASSUME BoundAssumption == MaxLen \in Nat /\ MaxJobs \in Nat

VARIABLES
    proc,        \* the forked processes
    tty,         \* the terminal's foreground process group
    jobs,        \* m_p_jobs
    pgid,        \* m_pgid, the group of the pipeline being built
    background,  \* Command::background
    pc,          \* where the shell is
    pid,         \* execute()'s local pid: the last process forked
    todo,        \* simple commands of the line still to be forked
    cur,         \* send_to_foreground's local _job
    after        \* what full_command executes once fg or bg has returned

lineVars == <<pgid, background, pid, todo>>
shellVars == <<lineVars, pc, cur, after, jobs>>
vars == <<proc, tty, shellVars>>

Group == Child \cup {Shell, NoPid}
Status == {"running", "stopped"}
Job == [pgid : Group, status : Status]
NoJob == [pgid |-> NoPid, status |-> "running"]
Nothing == [n |-> 0, bg |-> FALSE]

Unused == [st |-> "new", grp |-> NoPid, want |-> NoPid, bg |-> FALSE, rep |-> FALSE]
Gone == [Unused EXCEPT !.st = "gone"]

-----------------------------------------------------------------------------
(* The operating system: groups, terminal, kill and waitpid.               *)

Alive(p) == proc[p].st \notin {"new", "gone"}

Members(g) == {p \in Child : Alive(p) /\ proc[p].grp = g}

GroupExists(g) == g = Shell \/ Members(g) # {}

\* setpgid(p, g) fails for a group that is neither p's own nor an existing one.
CanJoin(p, g) == g = p \/ GroupExists(g)

\* tcsetpgrp(0, g) on a terminal whose foreground group is t.
Foreground(g, t) == IF Interactive /\ GroupExists(g) THEN g ELSE t

\* kill(g, SIGCONT): a positive number names one process, 0 the caller's group.
Continue(g) ==
    LET sent == IF g = NoPid THEN Members(Shell) ELSE {g}
    IN  [p \in Child |-> IF p \in sent /\ proc[p].st = "stop"
                         THEN [proc[p] EXCEPT !.st = "run", !.rep = FALSE]
                         ELSE proc[p]]

\* The children waitpid(i, ...) waits for.
Waited(i) == IF i = NoPid THEN Members(Shell) ELSE {p \in Child : p = i /\ Alive(p)}

\* waitpid reports an exit, or fails: with SIGCHLD ignored no exit is ever
\* reported, the call fails once no child is left to wait for.
WaitExit(i) ==
    \/ Waited(i) = {} /\ proc' = proc
    \/ \E p \in Waited(i) : proc[p].st = "dead" /\ proc' = [proc EXCEPT ![p] = Gone]

\* waitpid (WUNTRACED) reports each stop once.
WaitStop(i) ==
    \E p \in Waited(i) : /\ proc[p].st = "stop" /\ ~proc[p].rep
                         /\ proc' = [proc EXCEPT ![p].rep = TRUE]

-----------------------------------------------------------------------------
(* The shell.                                                              *)

\* main() leaves its own process group in m_pgid; a script starts with 0.
Init == /\ proc = [p \in Child |-> Unused]
        /\ tty = Shell
        /\ jobs = <<>>
        /\ pgid = IF Interactive THEN Shell ELSE NoPid
        /\ background = FALSE
        /\ pc = "prompt"
        /\ pid = NoPid
        /\ todo = 0
        /\ cur = NoJob
        /\ after = Nothing

\* Command::clear
Clear == /\ pgid' = NoPid /\ background' = FALSE
         /\ pid' = NoPid /\ todo' = 0
         /\ pc' = "prompt"

\* Entry of execute() with n commands to fork (0: builtins only, or nothing).
Begin(n, bg) == /\ todo' = n /\ background' = bg
                /\ pid' = NoPid
                /\ pc' = "loop"
                /\ UNCHANGED pgid

Fresh(n) == Cardinality({p \in Child : proc[p].st = "new"}) >= n

\* tty_raw_mode: the shell takes the terminal before it reads a line.
RawMode == /\ pc = "prompt"
           /\ tty' = Foreground(Shell, tty)
           /\ pc' = "read"
           /\ UNCHANGED <<proc, jobs, lineVars, cur, after>>

\* read() fails in a background group; read_with_error takes -1 for success,
\* the keys are noise, and a noise newline is an empty command.
Noise == /\ pc = "read" /\ tty # Shell
         /\ pc' = "prompt"
         /\ UNCHANGED <<proc, tty, jobs, lineVars, cur, after>>

Line(n, bg) ==
    /\ pc = "read" /\ tty = Shell
    /\ Fresh(n) /\ (bg \/ Interactive => Len(jobs) < MaxJobs)
    /\ Begin(n, bg)
    /\ UNCHANGED <<proc, tty, jobs, cur, after>>

\* [mutant] what fork() returns goes to a variable of the loop's own
ForkShadowsPid(p) ==
    /\ pc = "loop" /\ todo > 0 /\ proc[p].st = "new"
    /\ proc' = [proc EXCEPT ![p] =
                  [st |-> "start", grp |-> Shell, bg |-> background, rep |-> FALSE,
                   want |-> IF ~Interactive THEN NoPid
                            ELSE IF pgid = NoPid THEN p ELSE pgid]]
    /\ todo' = todo - 1
    /\ pc' = IF Interactive THEN "adopt" ELSE "loop"
    /\ UNCHANGED <<tty, jobs, pid, pgid, background, cur, after>>

\* fork(), and the group the child will ask for.
Fork(p) ==
    /\ pc = "loop" /\ todo > 0 /\ proc[p].st = "new"
    /\ proc' = [proc EXCEPT ![p] =
                  [st |-> "start", grp |-> Shell, bg |-> background, rep |-> FALSE,
                   want |-> IF ~Interactive THEN NoPid
                            ELSE IF pgid = NoPid THEN p ELSE pgid]]
    /\ pid' = p /\ todo' = todo - 1
    /\ pc' = IF Interactive THEN "adopt" ELSE "loop"
    /\ UNCHANGED <<tty, jobs, pgid, background, cur, after>>

\* The parent's setpgid, refused once the child has called exec or is gone.
Adopt ==
    /\ pc = "adopt"
    /\ pgid' = IF pgid = NoPid THEN pid ELSE pgid
    /\ proc' = IF proc[pid].st \in {"start", "joined"} /\ CanJoin(pid, pgid')
               THEN [proc EXCEPT ![pid].grp = pgid'] ELSE proc
    /\ pc' = "loop"
    /\ UNCHANGED <<tty, jobs, background, pid, todo, cur, after>>

\* pipe() or fork() failed: return from the middle of the loop.
ExecuteFails == /\ pc = "loop" /\ todo > 0
                /\ Clear
                /\ UNCHANGED <<proc, tty, jobs, cur, after>>

Finish ==
    /\ pc = "loop" /\ todo = 0
    /\ \/ /\ background
          /\ jobs' = Append(jobs, [pgid |-> pgid, status |-> "running"])
          /\ pc' = "reap" /\ UNCHANGED tty
       \/ /\ ~background
          /\ tty' = Foreground(pgid, tty)
          /\ pc' = "wait" /\ UNCHANGED jobs
    /\ UNCHANGED <<proc, lineVars, cur, after>>

\* [mutant] the terminal is not taken back after the wait
WaitReturnsKeepsTty ==
    /\ pc = "wait"
    /\ \/ WaitExit(pid) /\ UNCHANGED jobs
       \/ WaitStop(pid) /\ jobs' = Append(jobs, [pgid |-> pgid, status |-> "stopped"])
    /\ pc' = "reap"
    /\ UNCHANGED <<tty, lineVars, cur, after>>

\* [mutant] waitpid again until it reports something
WaitReturnsInsists ==
    /\ pc = "wait"
    /\ \/ Waited(pid) # {} /\ WaitExit(pid) /\ UNCHANGED jobs
       \/ WaitStop(pid) /\ jobs' = Append(jobs, [pgid |-> pgid, status |-> "stopped"])
    /\ tty' = Foreground(Shell, tty)
    /\ pc' = "reap"
    /\ UNCHANGED <<lineVars, cur, after>>

\* [mutant] a stopped foreground job is not entered into the table
WaitReturnsForgets ==
    /\ pc = "wait"
    /\ WaitExit(pid) \/ WaitStop(pid)
    /\ tty' = Foreground(Shell, tty)
    /\ pc' = "reap"
    /\ UNCHANGED <<jobs, lineVars, cur, after>>

WaitReturns ==
    /\ pc = "wait"
    /\ \/ WaitExit(pid) /\ UNCHANGED jobs
       \/ WaitStop(pid) /\ jobs' = Append(jobs, [pgid |-> pgid, status |-> "stopped"])
    /\ tty' = Foreground(Shell, tty)
    /\ pc' = "reap"
    /\ UNCHANGED <<lineVars, cur, after>>

\* The WNOHANG loop collects what there is to report; then clear().
Reap == /\ pc = "reap"
        /\ proc' = [p \in Child |-> IF proc[p].st = "dead" THEN Gone
                                    ELSE IF proc[p].st = "stop"
                                    THEN [proc[p] EXCEPT !.rep = TRUE] ELSE proc[p]]
        /\ Clear
        /\ UNCHANGED <<tty, jobs, cur, after>>

\* [mutant] the job fg takes stays in the table
FgKeepsEntry(k, n, bg) ==
    /\ pc = "read" /\ tty = Shell
    /\ n = 0 => k = Len(jobs)
    /\ Fresh(n) /\ Len(jobs) < MaxJobs
    /\ UNCHANGED jobs
    /\ proc' = Continue(jobs[k].pgid)
    /\ tty' = Foreground(pgid, Foreground(jobs[k].pgid, tty))
    /\ cur' = jobs[k] /\ after' = [n |-> n, bg |-> bg]
    /\ pc' = "fgwait"
    /\ UNCHANGED lineVars

\* fg takes the last job and executes nothing, fg N takes job N and then
\* executes a simple command whose only word is N.
Fg(k, n, bg) ==
    /\ pc = "read" /\ tty = Shell
    /\ n = 0 => k = Len(jobs)
    /\ Fresh(n) /\ Len(jobs) < MaxJobs
    /\ jobs' = RemoveAt(jobs, k)
    /\ proc' = Continue(jobs[k].pgid)
    /\ tty' = Foreground(pgid, Foreground(jobs[k].pgid, tty))
    /\ cur' = jobs[k] /\ after' = [n |-> n, bg |-> bg]
    /\ pc' = "fgwait"
    /\ UNCHANGED lineVars

FgWaitReturns ==
    /\ pc = "fgwait"
    /\ \/ WaitExit(cur.pgid) /\ UNCHANGED jobs
       \/ WaitStop(cur.pgid) /\ jobs' = Append(jobs, [cur EXCEPT !.status = "stopped"])
    /\ tty' = Foreground(Shell, tty)
    /\ Begin(after.n, after.bg)
    /\ cur' = NoJob /\ after' = Nothing

\* bg: back() of an empty vector is undefined; it reads before the buffer.
Bg(bg) ==
    /\ pc = "read" /\ tty = Shell
    /\ Len(jobs) < MaxJobs
    /\ \/ /\ jobs = <<>>
          /\ pc' = "crashed" /\ UNCHANGED <<proc, lineVars>>
       \/ /\ jobs # <<>>
          /\ proc' = Continue(jobs[Len(jobs)].pgid)
          /\ Begin(0, bg)
    /\ UNCHANGED <<tty, jobs, cur, after>>

-----------------------------------------------------------------------------
(* The processes.                                                          *)

\* launch(): the child's own setpgid ...
Join(p) == /\ Interactive /\ proc[p].st = "start"
           /\ LET to == IF CanJoin(p, proc[p].want) THEN proc[p].want ELSE proc[p].grp
              IN  proc' = [proc EXCEPT ![p].st = "joined", ![p].grp = to]
           /\ UNCHANGED <<tty, shellVars>>

\* [mutant] every child takes the terminal, one in the background too
ExecAlwaysGrabs(p) == /\ proc[p].st = IF Interactive THEN "joined" ELSE "start"
                      /\ tty' = Foreground(proc[p].want, tty)
                      /\ proc' = [proc EXCEPT ![p].st = "run"]
                      /\ UNCHANGED shellVars

\* ... and tcsetpgrp, the default signal handlers, and exec.
Exec(p) == /\ proc[p].st = IF Interactive THEN "joined" ELSE "start"
           /\ tty' = IF proc[p].bg THEN tty ELSE Foreground(proc[p].want, tty)
           /\ proc' = [proc EXCEPT ![p].st = "run"]
           /\ UNCHANGED shellVars

\* Stopped by the terminal (SIGTSTP, SIGTTIN) or by a signal.
Stop(p) == /\ Interactive /\ proc[p].st = "run"
           /\ proc' = [proc EXCEPT ![p].st = "stop", ![p].rep = FALSE]
           /\ UNCHANGED <<tty, shellVars>>

\* An interactive shell ignores SIGCHLD, so its children leave no zombie.
Exit(p) == /\ proc[p].st \in {"run", "stop"}
           /\ proc' = [proc EXCEPT ![p] = IF Interactive THEN Gone
                                          ELSE [@ EXCEPT !.st = "dead"]]
           /\ UNCHANGED <<tty, shellVars>>

-----------------------------------------------------------------------------
(* User: what is typed.  System: what the shell does about it.             *)

User == \/ \E n \in 0 .. MaxLen, bg \in BOOLEAN : Line(n, bg)
        \/ \E k \in 1 .. Len(jobs), n \in 0 .. 1, bg \in BOOLEAN : Fg(k, n, bg)
        \/ \E bg \in BOOLEAN : Bg(bg)

System == \/ RawMode \/ Noise \/ Adopt \/ ExecuteFails \/ Finish
          \/ WaitReturns \/ Reap \/ FgWaitReturns
          \/ \E p \in Child : Fork(p)

Next == \/ User \/ System
        \/ \E p \in Child : Join(p) \/ Exec(p) \/ Stop(p) \/ Exit(p)

Spec == Init /\ [][Next]_vars

\* The shell and a starting child are scheduled, and no command runs for ever;
\* one that is stopped need not go on.
Fairness == /\ WF_vars(System)
            /\ \A p \in Child : WF_vars(Join(p)) /\ WF_vars(Exec(p)) /\ WF_vars(proc[p].st = "run" /\ Exit(p))

LiveSpec == Spec /\ Fairness

-----------------------------------------------------------------------------
(* Properties.                                                             *)

Process == [st : {"new", "start", "joined", "run", "stop", "dead", "gone"},
            grp : Group, want : Group, bg : BOOLEAN, rep : BOOLEAN]

\* Every variable keeps to its domain: the process table, the job table and
\* the locals of execute() and send_to_foreground().
TypeOK == /\ proc \in [Child -> Process]
          /\ \A p \in Child : Alive(p) => proc[p].grp # NoPid
          /\ tty \in Child \cup {Shell}
          /\ jobs \in Seq(Job)
          /\ pgid \in Group /\ background \in BOOLEAN
          /\ pc \in {"prompt", "read", "loop", "adopt", "wait", "reap", "fgwait", "crashed"}
          /\ pid \in Child \cup {NoPid} /\ (pc = "adopt" => pid \in Child)
          /\ todo \in Nat
          /\ cur \in Job /\ after \in [n : 0 .. 1, bg : BOOLEAN]

\* A job started with & never comes to own the terminal: neither execute(), nor
\* its own processes in launch(), nor those of another line make its group the
\* foreground group while the table lists it as running.
BackgroundKeepsOffTerminal ==
    \A i \in 1 .. Len(jobs) :
        jobs[i].status = "running" /\ jobs[i].pgid \in Child => tty # jobs[i].pgid

\* No two entries of the job table name one process group, so that fg and bg
\* act on one job; the job fg has taken out is not listed while it is waited for.
JobsAreDistinct ==
    /\ \A i, j \in 1 .. Len(jobs) :
          jobs[i].pgid = jobs[j].pgid /\ jobs[i].pgid \in Child => i = j
    /\ pc = "fgwait" /\ cur.pgid \in Child =>
          \A i \in 1 .. Len(jobs) : jobs[i].pgid # cur.pgid

\* When the shell prompts, the terminal is its own: execute() and
\* send_to_foreground() have taken it back and no child takes it afterwards.
PromptOwnsTerminal == pc \in {"prompt", "read"} => tty = Shell

\* A process that is stopped when the shell prompts can be continued: its group
\* is listed as a job (the shell's own group, that of the first line, apart).
StoppedIsListed ==
    pc = "read" => \A p \in Child : proc[p].st = "stop" /\ proc[p].grp # Shell =>
                        \E i \in 1 .. Len(jobs) : jobs[i].pgid = proc[p].grp

\* Every line typed or read from a script is done some day: the shell prompts
\* again, or has crashed.
CommandReturns == (pc \notin {"prompt", "read"}) ~> (pc \in {"prompt", "crashed"})
=============================================================================
