-------------------------- MODULE JobControlProofs --------------------------
(***************************************************************************)
(* What holds of JobControl for every set of process ids, with and without *)
(* job control, and for lines of any length: the state is well formed, no  *)
(* two jobs share a process group, and a job started in the background     *)
(* never owns the terminal.                                                *)
(***************************************************************************)
EXTENDS JobControl, SequenceTheorems, TLAPS

-----------------------------------------------------------------------------
(* The inductive invariant.                                                *)

\* The groups the line being executed has taken, or is about to take, for its own.
LineGroups == {pgid} \cup (IF pc = "adopt" THEN {pid} ELSE {})

Starting(p) == proc[p].st \in {"start", "joined"}

\* Every pid in use anywhere was returned by a fork().
Forked ==
    /\ \A i \in 1 .. Len(jobs) : jobs[i].pgid \in Child => proc[jobs[i].pgid].st # "new"
    /\ tty \in Child => proc[tty].st # "new"
    /\ pgid \in Child => proc[pgid].st # "new"
    /\ pid \in Child => proc[pid].st # "new"
    /\ cur.pgid \in Child => proc[cur.pgid].st # "new"
    /\ \A p \in Child : Starting(p) /\ proc[p].want \in Child => proc[proc[p].want].st # "new"

\* m_pgid names a child's group only while a line is executed.
IdleHasNoGroup == pc \notin {"loop", "adopt", "wait", "reap"} => pgid \notin Child

\* A group of the line in progress is not yet in the job table.
LineIsUnlisted ==
    pc \in {"loop", "adopt", "wait"} =>
        \A i \in 1 .. Len(jobs) : jobs[i].pgid \in Child => jobs[i].pgid \notin LineGroups

\* Group g does not have the terminal, and no process on its way to exec takes
\* it for g.
OffTerminal(g) == /\ tty # g
                  /\ \A p \in Child : Starting(p) /\ proc[p].want = g => proc[p].bg

BackgroundLineOff ==
    background /\ pc \in {"loop", "adopt"} => \A g \in LineGroups \cap Child : OffTerminal(g)

RunningJobsOff ==
    \A i \in 1 .. Len(jobs) :
        jobs[i].status = "running" /\ jobs[i].pgid \in Child => OffTerminal(jobs[i].pgid)

IInv == /\ TypeOK /\ Forked /\ IdleHasNoGroup /\ JobsAreDistinct /\ LineIsUnlisted
        /\ BackgroundLineOff /\ RunningJobsOff

-----------------------------------------------------------------------------
(* Sequences.                                                              *)

\* RemoveAt shifts the elements after the removed one down by one.
LEMMA RemoveAtElements ==
    ASSUME NEW S, NEW s \in Seq(S), NEW k \in 1 .. Len(s)
    PROVE  /\ RemoveAt(s, k) \in Seq(S)
           /\ Len(RemoveAt(s, k)) = Len(s) - 1
           /\ \A i \in 1 .. Len(s) - 1 :
                 RemoveAt(s, k)[i] = IF i < k THEN s[i] ELSE s[i + 1]
<1>1. SubSeq(s, 1, k - 1) \in Seq(S) /\ Len(SubSeq(s, 1, k - 1)) = k - 1
  OBVIOUS
<1>2. SubSeq(s, k + 1, Len(s)) \in Seq(S) /\ Len(SubSeq(s, k + 1, Len(s))) = Len(s) - k
  OBVIOUS
<1>3. \A i \in 1 .. k - 1 : SubSeq(s, 1, k - 1)[i] = s[i]
  OBVIOUS
<1>4. \A i \in 1 .. Len(s) - k : SubSeq(s, k + 1, Len(s))[i] = s[k + i]
  OBVIOUS
<1> DEFINE a == SubSeq(s, 1, k - 1)
           b == SubSeq(s, k + 1, Len(s))
<1>5. RemoveAt(s, k) = a \o b
  BY DEF RemoveAt
<1>6. a \in Seq(S) /\ b \in Seq(S) /\ Len(a) = k - 1 /\ Len(b) = Len(s) - k
  BY <1>1, <1>2
<1>7. /\ \A i \in 1 .. k - 1 : a[i] = s[i]
      /\ \A i \in 1 .. Len(s) - k : b[i] = s[k + i]
  BY <1>3, <1>4
<1> HIDE DEF a, b
<1>9. Len(s) \in Nat
  OBVIOUS
<1>10. /\ a \o b \in Seq(S) /\ Len(a \o b) = Len(s) - 1
       /\ \A i \in 1 .. Len(s) - 1 : (a \o b)[i] = IF i <= k - 1 THEN a[i] ELSE b[i - (k - 1)]
  <2>1. /\ a \o b \in Seq(S) /\ Len(a \o b) = Len(a) + Len(b)
        /\ \A i \in 1 .. Len(a) + Len(b) :
              (a \o b)[i] = IF i <= Len(a) THEN a[i] ELSE b[i - Len(a)]
    BY <1>6, ConcatProperties
  <2>2. Len(a) + Len(b) = Len(s) - 1
    BY <1>6, <1>9
  <2> QED
    BY <1>6, <2>1, <2>2
<1>8. ASSUME NEW i \in 1 .. Len(s) - 1
      PROVE  (a \o b)[i] = IF i < k THEN s[i] ELSE s[i + 1]
  <2>1. CASE i < k
    <3>1. i \in 1 .. k - 1 /\ i <= k - 1
      BY <1>9, <2>1
    <3> QED
      BY <1>7, <1>10, <2>1, <3>1
  <2>2. CASE ~(i < k)
    <3>1. i - (k - 1) \in 1 .. Len(s) - k /\ k + (i - (k - 1)) = i + 1
      BY <1>9, <2>2
    <3> QED
      BY <1>7, <1>9, <1>10, <2>2, <3>1
  <2> QED
    BY <2>1, <2>2
<1> QED
  BY <1>5, <1>8, <1>10

-----------------------------------------------------------------------------
(* Type correctness.                                                       *)

LEMMA InitTypeOK == Init => TypeOK
<1> SUFFICES ASSUME Init PROVE TypeOK
  OBVIOUS
<1>1. Unused \in Process
  BY DEF Unused, Process, Group
<1>2. proc \in [Child -> Process]
  BY <1>1 DEF Init
<1>3. pgid \in Group
  BY ModeAssumption DEF Init, Group
<1>4. cur \in Job /\ after \in [n : 0 .. 1, bg : BOOLEAN]
  BY DEF Init, NoJob, Nothing, Job, Group, Status
<1> QED
  BY <1>2, <1>3, <1>4, EmptySeq DEF Init, TypeOK, Alive, Unused

ProcOK(t) == /\ t \in [Child -> Process]
             /\ \A p \in Child : t[p].st \notin {"new", "gone"} => t[p].grp # NoPid

\* Only a group that a process or the shell is in can have the terminal.
LEMMA ForegroundTypeOK ==
    ASSUME TypeOK, NEW g \in Group, NEW t \in Child \cup {Shell}
    PROVE  Foreground(g, t) \in Child \cup {Shell}
BY DEF TypeOK, Foreground, GroupExists, Members, Alive, Group

\* SIGCONT leaves the process table well formed.
LEMMA ContinueTypeOK ==
    ASSUME TypeOK, NEW g
    PROVE  ProcOK(Continue(g))
<1> DEFINE sent == IF g = NoPid THEN Members(Shell) ELSE {g}
<1>1. ASSUME NEW p \in Child
      PROVE  [proc[p] EXCEPT !.st = "run", !.rep = FALSE] \in Process
  BY DEF TypeOK, Process
<1>2. \A p \in Child : proc[p] \in Process
  BY DEF TypeOK
<1>3. Continue(g) \in [Child -> Process]
  BY <1>1, <1>2 DEF Continue
<1>4. ASSUME NEW p \in Child, Continue(g)[p].st \notin {"new", "gone"}
      PROVE  Continue(g)[p].grp # NoPid
  BY <1>2, <1>4 DEF Continue, TypeOK, Alive, Process
<1> QED
  BY <1>3, <1>4 DEF ProcOK

\* So does waitpid, whatever it reports.
LEMMA WaitTypeOK ==
    ASSUME TypeOK, NEW i, WaitExit(i) \/ WaitStop(i)
    PROVE  ProcOK(proc')
<1>1. Gone \in Process /\ Gone.st = "gone"
  BY DEF Gone, Unused, Process, Group
<1>2. Waited(i) \subseteq Child
  BY DEF Waited, Members
<1>3. CASE WaitExit(i)
  BY <1>1, <1>2, <1>3 DEF WaitExit, TypeOK, ProcOK, Alive
<1>4. CASE WaitStop(i)
  <2>1. PICK p \in Child : proc' = [proc EXCEPT ![p].rep = TRUE]
    BY <1>2, <1>4 DEF WaitStop
  <2> QED
    BY <2>1 DEF TypeOK, ProcOK, Alive, Process
<1> QED
  BY <1>3, <1>4

LEMMA NextTypeOK == TypeOK /\ [Next]_vars => TypeOK'
<1> SUFFICES ASSUME TypeOK, [Next]_vars PROVE TypeOK'
  OBVIOUS
<1> USE DEF TypeOK, ProcOK, Alive
<1>1. CASE RawMode
  BY <1>1, ModeAssumption DEF RawMode, Foreground, lineVars
<1>2. CASE Noise
  BY <1>2 DEF Noise, lineVars
<1>3. ASSUME NEW n \in 0 .. MaxLen, NEW bg \in BOOLEAN, Line(n, bg)
      PROVE  TypeOK'
  BY <1>3, BoundAssumption DEF Line, Begin
<1>4. ASSUME NEW p \in Child, Fork(p)
      PROVE  TypeOK'
  <2>0. proc' \in [Child -> Process]
    BY <1>4 DEF Fork, Process, Group
  <2>1. ProcOK(proc')
    BY <1>4, <2>0, PidAssumption DEF Fork
  <2>2. todo' \in Nat
    BY <1>4 DEF Fork
  <2> QED
    BY <1>4, <2>1, <2>2 DEF Fork
<1>5. CASE Adopt
  <2>1. pgid' \in Group
    BY <1>5 DEF Adopt, Group
  <2>0. proc' \in [Child -> Process]
    BY <1>5, <2>1 DEF Adopt, Process
  <2>2. ProcOK(proc')
    BY <1>5, <2>0, <2>1, PidAssumption DEF Adopt, Process
  <2> QED
    BY <1>5, <2>1, <2>2 DEF Adopt
<1>6. CASE ExecuteFails
  BY <1>6 DEF ExecuteFails, Clear, Group
<1>7. CASE Finish
  <2>1. [pgid |-> pgid, status |-> "running"] \in Job
    BY DEF Job, Status
  <2>2. jobs' \in Seq(Job)
    BY <1>7, <2>1 DEF Finish
  <2>3. tty' \in Child \cup {Shell}
    BY <1>7, ForegroundTypeOK DEF Finish
  <2> QED
    BY <1>7, <2>2, <2>3 DEF Finish, lineVars
<1>8. CASE WaitReturns
  <2>1. [pgid |-> pgid, status |-> "stopped"] \in Job
    BY DEF Job, Status
  <2>2. jobs' \in Seq(Job)
    BY <1>8, <2>1 DEF WaitReturns
  <2>3. ProcOK(proc')
    BY <1>8, WaitTypeOK DEF WaitReturns
  <2>4. tty' \in Child \cup {Shell}
    BY <1>8 DEF WaitReturns, Foreground
  <2> QED
    BY <1>8, <2>2, <2>3, <2>4 DEF WaitReturns, lineVars
<1>9. CASE Reap
  <2>1. Gone \in Process /\ Gone.st = "gone"
    BY DEF Gone, Unused, Process, Group
  <2>0. proc' \in [Child -> Process]
    BY <1>9, <2>1 DEF Reap, Process
  <2>2. ProcOK(proc')
    BY <1>9, <2>0, <2>1 DEF Reap, Process
  <2> QED
    BY <1>9, <2>2 DEF Reap, Clear, Group
<1>10. ASSUME NEW k \in 1 .. Len(jobs), NEW n \in 0 .. 1, NEW bg \in BOOLEAN, Fg(k, n, bg)
       PROVE  TypeOK'
  <2>1. jobs[k] \in Job
    BY ElementOfSeq
  <2>2. jobs' \in Seq(Job)
    BY <1>10, RemoveAtElements DEF Fg
  <2>3. ProcOK(proc')
    BY <1>10, ContinueTypeOK DEF Fg
  <2>4. tty' \in Child \cup {Shell}
    BY <1>10, <2>1, ForegroundTypeOK DEF Fg, Job
  <2> QED
    BY <1>10, <2>1, <2>2, <2>3, <2>4 DEF Fg, lineVars
<1>11. CASE FgWaitReturns
  <2>1. [cur EXCEPT !.status = "stopped"] \in Job
    BY DEF Job, Status
  <2>2. jobs' \in Seq(Job)
    BY <1>11, <2>1 DEF FgWaitReturns
  <2>3. ProcOK(proc')
    BY <1>11, WaitTypeOK DEF FgWaitReturns
  <2>4. tty' \in Child \cup {Shell}
    BY <1>11 DEF FgWaitReturns, Foreground
  <2>5. cur' \in Job /\ after' \in [n : 0 .. 1, bg : BOOLEAN]
    BY <1>11 DEF FgWaitReturns, NoJob, Nothing, Job, Group, Status
  <2> QED
    BY <1>11, <2>2, <2>3, <2>4, <2>5 DEF FgWaitReturns, Begin
<1>12. ASSUME NEW bg \in BOOLEAN, Bg(bg)
       PROVE  TypeOK'
  <2>1. ProcOK(proc')
    BY <1>12, ContinueTypeOK DEF Bg
  <2> QED
    BY <1>12, <2>1 DEF Bg, Begin, lineVars
<1>13. ASSUME NEW p \in Child, Join(p)
       PROVE  TypeOK'
  <2>1. CanJoin(p, proc[p].want) => proc[p].want \in Child \cup {Shell}
    BY DEF CanJoin, GroupExists, Members, Process, Group
  <2>0. proc' \in [Child -> Process]
    <3>1. PICK to \in Group : proc' = [proc EXCEPT ![p].st = "joined", ![p].grp = to]
      BY <1>13 DEF Join, Process
    <3>2. [proc[p] EXCEPT !.st = "joined", !.grp = to] \in Process
      BY DEF Process
    <3>3. proc' = [proc EXCEPT ![p] = [proc[p] EXCEPT !.st = "joined", !.grp = to]]
      BY <3>1
    <3> QED
      BY <3>2, <3>3, SMTT(30)
  <2>2. ProcOK(proc')
    BY <1>13, <2>0, <2>1, PidAssumption DEF Join, Process
  <2> QED
    BY <1>13, <2>2 DEF Join, shellVars, lineVars
<1>14. ASSUME NEW p \in Child, Exec(p)
       PROVE  TypeOK'
  <2>1. tty' \in Child \cup {Shell}
    BY <1>14, ForegroundTypeOK DEF Exec, Process
  <2>2. ProcOK(proc')
    BY <1>14 DEF Exec, Process
  <2> QED
    BY <1>14, <2>1, <2>2 DEF Exec, shellVars, lineVars
<1>15. ASSUME NEW p \in Child, Stop(p)
       PROVE  TypeOK'
  BY <1>15 DEF Stop, Process, shellVars, lineVars
<1>16. ASSUME NEW p \in Child, Exit(p)
       PROVE  TypeOK'
  <2>1. Gone \in Process /\ Gone.st = "gone"
    BY DEF Gone, Unused, Process, Group
  <2>0. proc' \in [Child -> Process]
    BY <1>16, <2>1 DEF Exit, Process
  <2>2. ProcOK(proc')
    BY <1>16, <2>0, <2>1 DEF Exit, Process
  <2> QED
    BY <1>16, <2>2 DEF Exit, shellVars, lineVars
<1>17. CASE UNCHANGED vars
  BY <1>17 DEF vars, shellVars, lineVars
<1> QED
  BY <1>1, <1>2, <1>3, <1>4, <1>5, <1>6, <1>7, <1>8, <1>9, <1>10, <1>11, <1>12,
     <1>13, <1>14, <1>15, <1>16, <1>17 DEF Next, User, System

\* The state of the shell, of its processes and of the job table stays well
\* formed, for any set of pids, with or without job control.
THEOREM TypeCorrect == Spec => []TypeOK
<1> QED
  BY InitTypeOK, NextTypeOK, PTL DEF Spec


-----------------------------------------------------------------------------
(* Steps that fork nothing.                                                *)

\* No pid becomes unused again and no process starts anew.
Tame == \A p \in Child :
    /\ proc[p].st # "new" => proc'[p].st # "new"
    /\ Starting(p)' => /\ Starting(p)
                       /\ proc'[p].want = proc[p].want
                       /\ proc'[p].bg = proc[p].bg

LEMMA ContinueTame ==
    ASSUME TypeOK, NEW g, proc' = Continue(g)
    PROVE  Tame
<1> SUFFICES ASSUME NEW p \in Child
             PROVE  /\ proc[p].st # "new" => proc'[p].st # "new"
                    /\ Starting(p)' => /\ Starting(p)
                                       /\ proc'[p].want = proc[p].want
                                       /\ proc'[p].bg = proc[p].bg
  BY DEF Tame
<1>1. \/ proc'[p] = proc[p]
      \/ proc'[p] = [proc[p] EXCEPT !.st = "run", !.rep = FALSE]
  BY DEF Continue
<1>2. proc[p] \in Process
  BY DEF TypeOK
<1> QED
  BY <1>1, <1>2 DEF Starting, Process

LEMMA WaitTame ==
    ASSUME TypeOK, NEW i, WaitExit(i) \/ WaitStop(i)
    PROVE  Tame
<1>1. Waited(i) \subseteq Child
  BY DEF Waited, Members
<1>2. CASE proc' = proc
  BY <1>2 DEF Tame, Starting
<1>3. CASE \E p \in Child : proc' = [proc EXCEPT ![p] = Gone]
  BY <1>3 DEF Tame, Starting, TypeOK, Gone, Unused
<1>4. CASE \E p \in Child : proc' = [proc EXCEPT ![p].rep = TRUE]
  BY <1>4 DEF Tame, Starting, TypeOK, Process
<1> QED
  BY <1>1, <1>2, <1>3, <1>4 DEF WaitExit, WaitStop

\* A group stays off the terminal unless the terminal is given to it.
LEMMA StaysOff ==
    ASSUME Tame, NEW g, OffTerminal(g), tty' # g
    PROVE  OffTerminal(g)'
BY DEF Tame, OffTerminal

Rest == /\ Forked /\ IdleHasNoGroup /\ JobsAreDistinct /\ LineIsUnlisted
        /\ BackgroundLineOff /\ RunningJobsOff

\* What the processes do among themselves; the terminal goes, if anywhere, to
\* the group of a starting process that is not in the background.
LEMMA ChildStep ==
    ASSUME IInv, Tame, UNCHANGED shellVars,
           \/ tty' \in {tty, Shell}
           \/ \E p \in Child : Starting(p) /\ ~proc[p].bg /\ tty' = proc[p].want
    PROVE  Rest'
<1> USE DEF IInv, shellVars, lineVars
<1>1. Forked'
  <2>1. \A i \in 1 .. Len(jobs) : jobs[i].pgid \in Child => proc'[jobs[i].pgid].st # "new"
    BY DEF Forked, Tame
  <2>2. tty' \in Child => proc'[tty'].st # "new"
    BY PidAssumption DEF Forked, Tame
  <2>3. /\ pgid \in Child => proc'[pgid].st # "new"
        /\ pid \in Child => proc'[pid].st # "new"
        /\ cur.pgid \in Child => proc'[cur.pgid].st # "new"
    BY DEF Forked, Tame
  <2>4. \A p \in Child : Starting(p)' /\ proc'[p].want \in Child => proc'[proc'[p].want].st # "new"
    BY DEF Forked, Tame
  <2> QED
    BY <2>1, <2>2, <2>3, <2>4 DEF Forked
<1>2. IdleHasNoGroup' /\ JobsAreDistinct' /\ LineIsUnlisted'
  BY DEF IdleHasNoGroup, JobsAreDistinct, LineIsUnlisted, LineGroups
<1>3. ASSUME NEW g \in Child, OffTerminal(g)
      PROVE  OffTerminal(g)'
  <2>1. tty' # g
    BY <1>3, PidAssumption DEF OffTerminal
  <2> QED
    BY <1>3, <2>1, StaysOff
<1>4. BackgroundLineOff' /\ RunningJobsOff'
  BY <1>3 DEF BackgroundLineOff, RunningJobsOff, LineGroups
<1> QED
  BY <1>1, <1>2, <1>4 DEF Rest


\* What a shell step may write into its variables: no pid it has not seen.
Known(g) == g \in Child => proc[g].st # "new"

LEMMA ForkedKept ==
    ASSUME IInv, Tame,
           \A i \in 1 .. Len(jobs') : Known(jobs'[i].pgid),
           Known(tty'), Known(pgid'), Known(pid'), Known(cur'.pgid)
    PROVE  Forked'
<1>1. \A i \in 1 .. Len(jobs') : jobs'[i].pgid \in Child => proc'[jobs'[i].pgid].st # "new"
  BY DEF Known, Tame
<1>2. /\ tty' \in Child => proc'[tty'].st # "new"
      /\ pgid' \in Child => proc'[pgid'].st # "new"
      /\ pid' \in Child => proc'[pid'].st # "new"
      /\ cur'.pgid \in Child => proc'[cur'.pgid].st # "new"
  BY DEF Known, Tame
<1>3. \A p \in Child : Starting(p)' /\ proc'[p].want \in Child => proc'[proc'[p].want].st # "new"
  BY DEF IInv, Forked, Tame
<1> QED
  BY <1>1, <1>2, <1>3 DEF Forked

LEMMA AllKnown ==
    ASSUME IInv
    PROVE  /\ \A i \in 1 .. Len(jobs) : Known(jobs[i].pgid)
           /\ Known(tty) /\ Known(pgid) /\ Known(pid) /\ Known(cur.pgid)
           /\ Known(Shell) /\ Known(NoPid)
BY PidAssumption DEF IInv, Forked, Known

\* The shell does not touch the job table; only a line being finished keeps its
\* group, and hands it the terminal.
LEMMA KeepJobs ==
    ASSUME IInv, Tame, jobs' = jobs, cur' = cur, pc' \notin {"fgwait", "adopt"},
           pgid' \in {pgid, NoPid}, pid' \in {pid, NoPid}, tty' \in {tty, Shell, pgid},
           tty' = tty \/ tty' # pgid \/ pc \in {"loop", "wait"} \/ pgid \notin Child,
           pgid' \in Child => pc' \in {"wait", "reap"} /\ pc \in {"loop", "wait"}
    PROVE  Rest'
<1>1. Forked'
  BY ForkedKept, AllKnown
<1>2. IdleHasNoGroup'
  BY DEF IdleHasNoGroup
<1>3. JobsAreDistinct'
  BY DEF IInv, JobsAreDistinct
<1>4. LineIsUnlisted'
  BY PidAssumption DEF IInv, LineIsUnlisted, LineGroups
<1>5. BackgroundLineOff'
  BY PidAssumption DEF BackgroundLineOff, LineGroups
<1>6. ASSUME NEW i \in 1 .. Len(jobs), jobs[i].status = "running", jobs[i].pgid \in Child
      PROVE  OffTerminal(jobs[i].pgid)'
  <2>1. OffTerminal(jobs[i].pgid)
    BY <1>6 DEF IInv, RunningJobsOff
  <2>2. tty' # jobs[i].pgid
    BY <1>6, <2>1, PidAssumption DEF OffTerminal, IInv, LineIsUnlisted, LineGroups
  <2> QED
    BY <2>1, <2>2, StaysOff
<1>7. RunningJobsOff'
  BY <1>6 DEF RunningJobsOff, OffTerminal, Starting
<1> QED
  BY <1>1, <1>2, <1>3, <1>4, <1>5, <1>7 DEF Rest

\* The line in progress becomes a job.
LEMMA PushLine ==
    ASSUME IInv, Tame, NEW st \in Status,
           jobs' = Append(jobs, [pgid |-> pgid, status |-> st]),
           pc \in {"loop", "wait"}, pc' = "reap",
           cur' = cur, pgid' = pgid, pid' = pid, tty' \in {tty, Shell},
           st = "running" /\ pgid \in Child => OffTerminal(pgid)
    PROVE  Rest'
<1> DEFINE n == Len(jobs)
<1>1. /\ n \in Nat /\ Len(jobs') = n + 1
      /\ \A i \in 1 .. n : jobs'[i] = jobs[i]
      /\ jobs'[n + 1] = [pgid |-> pgid, status |-> st]
  BY DEF IInv, TypeOK
<1>2. \A i \in 1 .. Len(jobs') : i \in 1 .. n \/ i = n + 1
  BY <1>1
<1>3. jobs'[n + 1].pgid = pgid /\ jobs'[n + 1].status = st
  BY <1>1
<1> HIDE DEF n
<1>4. Forked'
  <2>1. \A i \in 1 .. Len(jobs') : Known(jobs'[i].pgid)
    BY <1>1, <1>2, <1>3, AllKnown DEF n
  <2> QED
    BY <2>1, ForkedKept, AllKnown
<1>5. IdleHasNoGroup' /\ LineIsUnlisted' /\ BackgroundLineOff'
  BY DEF IdleHasNoGroup, LineIsUnlisted, BackgroundLineOff
<1>6. \A i \in 1 .. n : jobs[i].pgid \in Child => jobs[i].pgid # pgid
  BY DEF IInv, LineIsUnlisted, LineGroups, n
<1>7. ASSUME NEW i \in 1 .. Len(jobs'), NEW j \in 1 .. Len(jobs'),
             jobs'[i].pgid = jobs'[j].pgid, jobs'[i].pgid \in Child
      PROVE  i = j
  <2>1. \A a, b \in 1 .. n : jobs[a].pgid = jobs[b].pgid /\ jobs[a].pgid \in Child => a = b
    BY DEF IInv, JobsAreDistinct, n
  <2> QED
    BY <1>1, <1>2, <1>3, <1>6, <1>7, <2>1
<1>8. JobsAreDistinct'
  BY <1>7 DEF JobsAreDistinct
<1>9. ASSUME NEW i \in 1 .. Len(jobs'), NEW g \in Child,
             jobs'[i].status = "running", jobs'[i].pgid = g
      PROVE  OffTerminal(g)'
  <2>1. OffTerminal(g)
    <3>1. CASE i \in 1 .. n
      BY <1>1, <1>9, <3>1 DEF IInv, RunningJobsOff, n
    <3>2. CASE i = n + 1
      BY <1>3, <1>9, <3>2
    <3> QED
      BY <1>2, <3>1, <3>2
  <2>2. tty' # g
    BY <2>1, PidAssumption DEF OffTerminal
  <2> QED
    BY <2>1, <2>2, StaysOff
<1>10. RunningJobsOff'
  BY <1>9 DEF RunningJobsOff, OffTerminal, Starting
<1> QED
  BY <1>4, <1>5, <1>8, <1>10 DEF Rest


-----------------------------------------------------------------------------
(* fork() and the parent's setpgid.                                        *)

LEMMA ForkStep ==
    ASSUME IInv, NEW p \in Child, Fork(p)
    PROVE  Rest'
<1> USE DEF IInv
<1>1. /\ \A q \in Child : q # p => proc'[q] = proc[q]
      /\ Starting(p)' /\ proc[p].st = "new"
      /\ proc'[p].st = "start" /\ proc'[p].bg = background
      /\ proc'[p].want \in {NoPid, p, pgid}
      /\ pc = "loop" /\ pc' \in {"adopt", "loop"} /\ pid' = p
      /\ UNCHANGED <<tty, jobs, pgid, background, cur>>
  BY DEF Fork, TypeOK, Starting
<1>2. \A q \in Child : proc[q].st # "new" => proc'[q].st # "new"
  BY <1>1
<1>3. Forked'
  <2>1. \A j \in 1 .. Len(jobs') : jobs'[j].pgid \in Child => proc'[jobs'[j].pgid].st # "new"
    BY <1>1, <1>2 DEF Forked
  <2>2. /\ tty' \in Child => proc'[tty'].st # "new"
        /\ pgid' \in Child => proc'[pgid'].st # "new"
        /\ pid' \in Child => proc'[pid'].st # "new"
        /\ cur'.pgid \in Child => proc'[cur'.pgid].st # "new"
    BY <1>1, <1>2 DEF Forked
  <2>3. ASSUME NEW q \in Child, Starting(q)', proc'[q].want \in Child
        PROVE  proc'[proc'[q].want].st # "new"
    <3>1. CASE q = p
      BY <1>1, <1>2, <2>3, <3>1, PidAssumption DEF Forked
    <3>2. CASE q # p
      BY <1>1, <1>2, <2>3, <3>2 DEF Forked, Starting
    <3> QED
      BY <3>1, <3>2
  <2> QED
    BY <2>1, <2>2, <2>3 DEF Forked
<1>4. IdleHasNoGroup' /\ JobsAreDistinct'
  BY <1>1 DEF IdleHasNoGroup, JobsAreDistinct
<1>5. LineIsUnlisted'
  <2>1. \A j \in 1 .. Len(jobs) : jobs[j].pgid \in Child => jobs[j].pgid # p
    BY <1>1 DEF Forked
  <2>2. \A j \in 1 .. Len(jobs) : jobs[j].pgid \in Child => jobs[j].pgid # pgid
    BY <1>1 DEF LineIsUnlisted, LineGroups
  <2> QED
    BY <1>1, <2>1, <2>2 DEF LineIsUnlisted, LineGroups
<1>6. ASSUME NEW g \in Child, g # p, OffTerminal(g), g = pgid => background
      PROVE  OffTerminal(g)'
  <2>1. ASSUME NEW q \in Child, Starting(q)', proc'[q].want = g
        PROVE  proc'[q].bg
    <3>1. CASE q = p
      BY <1>1, <1>6, <2>1, <3>1, PidAssumption
    <3>2. CASE q # p
      BY <1>1, <1>6, <2>1, <3>2 DEF OffTerminal, Starting
    <3> QED
      BY <3>1, <3>2
  <2> QED
    BY <1>1, <1>6, <2>1 DEF OffTerminal
<1>7. BackgroundLineOff'
  <2> SUFFICES ASSUME background, NEW g \in Child, g \in {pgid, p}
               PROVE  OffTerminal(g)'
    BY <1>1 DEF BackgroundLineOff, LineGroups
  <2>1. CASE g = p
    <3>1. tty # p
      BY <1>1 DEF Forked
    <3>2. ASSUME NEW q \in Child, Starting(q)', proc'[q].want = p
          PROVE  proc'[q].bg
      <4>1. CASE q = p
        BY <1>1, <4>1
      <4>2. CASE q # p
        BY <1>1, <3>2, <4>2 DEF Forked, Starting
      <4> QED
        BY <4>1, <4>2
    <3> QED
      BY <1>1, <2>1, <3>1, <3>2 DEF OffTerminal
  <2>2. CASE g # p
    BY <1>1, <1>6, <2>2 DEF BackgroundLineOff, LineGroups
  <2> QED
    BY <2>1, <2>2
<1>8. RunningJobsOff'
  <2>1. ASSUME NEW j \in 1 .. Len(jobs), NEW g \in Child,
               jobs[j].status = "running", jobs[j].pgid = g
        PROVE  OffTerminal(g)'
    <3>1. OffTerminal(g)
      BY <2>1 DEF RunningJobsOff
    <3>2. g # p /\ g # pgid
      BY <1>1, <2>1 DEF Forked, LineIsUnlisted, LineGroups
    <3> QED
      BY <1>6, <3>1, <3>2
  <2> QED
    BY <1>1, <2>1 DEF RunningJobsOff, OffTerminal, Starting
<1> QED
  BY <1>3, <1>4, <1>5, <1>7, <1>8 DEF Rest

LEMMA AdoptStep ==
    ASSUME IInv, Adopt
    PROVE  Rest'
<1> USE DEF IInv
<1>1. /\ pc = "adopt" /\ pc' = "loop" /\ pid \in Child
      /\ pgid' \in {pgid, pid}
      /\ UNCHANGED <<tty, jobs, background, pid, cur>>
  BY DEF Adopt, TypeOK
<1>2. Tame
  BY <1>1 DEF Adopt, Tame, Starting, TypeOK, Process
<1>3. Forked'
  BY <1>1, <1>2, ForkedKept, AllKnown
<1>4. IdleHasNoGroup' /\ JobsAreDistinct' /\ LineIsUnlisted'
  BY <1>1 DEF IdleHasNoGroup, JobsAreDistinct, LineIsUnlisted, LineGroups
<1>5. \A g \in Child : OffTerminal(g) => OffTerminal(g)'
  BY <1>1, <1>2, StaysOff DEF OffTerminal
<1>6. BackgroundLineOff'
  BY <1>1, <1>5 DEF BackgroundLineOff, LineGroups
<1>7. RunningJobsOff'
  BY <1>1, <1>5 DEF RunningJobsOff
<1> QED
  BY <1>3, <1>4, <1>6, <1>7 DEF Rest

-----------------------------------------------------------------------------
(* fg.                                                                     *)

LEMMA FgStep ==
    ASSUME IInv, NEW k \in 1 .. Len(jobs), NEW n, NEW bg, Fg(k, n, bg)
    PROVE  Rest'
<1> USE DEF IInv
<1>1. Tame
  BY ContinueTame DEF Fg
<1>2. /\ pc = "read" /\ pc' = "fgwait" /\ pgid' = pgid /\ pgid \notin Child
      /\ pid' = pid /\ cur' = jobs[k]
      /\ tty' \in {tty, pgid, jobs[k].pgid}
  BY DEF Fg, IdleHasNoGroup, Foreground, lineVars
<1>3. /\ Len(jobs') = Len(jobs) - 1 /\ Len(jobs) \in Nat
      /\ \A j \in 1 .. Len(jobs) - 1 : jobs'[j] = IF j < k THEN jobs[j] ELSE jobs[j + 1]
  BY RemoveAtElements DEF Fg, TypeOK
<1>4. \A j \in 1 .. Len(jobs') :
         \E i \in 1 .. Len(jobs) : i # k /\ jobs'[j] = jobs[i] /\ i = IF j < k THEN j ELSE j + 1
  BY <1>3
<1>5. Forked'
  <2>1. \A j \in 1 .. Len(jobs') : Known(jobs'[j].pgid)
    BY <1>4, AllKnown
  <2>2. Known(tty') /\ Known(pgid') /\ Known(pid') /\ Known(cur'.pgid)
    BY <1>2, AllKnown
  <2> QED
    BY <1>1, <2>1, <2>2, ForkedKept
<1>6. IdleHasNoGroup' /\ LineIsUnlisted' /\ BackgroundLineOff'
  BY <1>2 DEF IdleHasNoGroup, LineIsUnlisted, BackgroundLineOff
<1>7. JobsAreDistinct'
  <2>1. ASSUME NEW i \in 1 .. Len(jobs'), NEW j \in 1 .. Len(jobs'),
               jobs'[i].pgid = jobs'[j].pgid, jobs'[i].pgid \in Child
        PROVE  i = j
    <3>1. PICK a \in 1 .. Len(jobs) :
              jobs'[i] = jobs[a] /\ a = IF i < k THEN i ELSE i + 1
      BY <1>4
    <3>2. PICK b \in 1 .. Len(jobs) :
              jobs'[j] = jobs[b] /\ b = IF j < k THEN j ELSE j + 1
      BY <1>4
    <3>3. a = b
      BY <2>1, <3>1, <3>2 DEF JobsAreDistinct
    <3> QED
      BY <1>3, <3>1, <3>2, <3>3
  <2>2. \A i \in 1 .. Len(jobs') : cur'.pgid \in Child => jobs'[i].pgid # cur'.pgid
    BY <1>2, <1>4 DEF JobsAreDistinct
  <2> QED
    BY <2>1, <2>2 DEF JobsAreDistinct
<1>8. ASSUME NEW j \in 1 .. Len(jobs'), NEW g \in Child,
             jobs'[j].status = "running", jobs'[j].pgid = g
      PROVE  OffTerminal(g)'
  <2>1. PICK i \in 1 .. Len(jobs) : i # k /\ jobs'[j] = jobs[i]
    BY <1>4
  <2>2. OffTerminal(g)
    BY <1>8, <2>1 DEF RunningJobsOff
  <2>3. tty' # g
    BY <1>2, <1>8, <2>1, <2>2 DEF OffTerminal, JobsAreDistinct
  <2> QED
    BY <1>1, <2>2, <2>3, StaysOff
<1>9. RunningJobsOff'
  BY <1>8 DEF RunningJobsOff, OffTerminal, Starting
<1> QED
  BY <1>5, <1>6, <1>7, <1>9 DEF Rest

LEMMA FgWaitStep ==
    ASSUME IInv, FgWaitReturns
    PROVE  Rest'
<1> USE DEF IInv
<1>1. Tame
  BY WaitTame DEF FgWaitReturns
<1>2. /\ pc = "fgwait" /\ pc' = "loop" /\ pgid' = pgid /\ pgid \notin Child
      /\ pid' = NoPid /\ cur'.pgid = NoPid /\ tty' \in {tty, Shell}
  BY DEF FgWaitReturns, IdleHasNoGroup, Begin, Foreground, NoJob
<1> DEFINE n == Len(jobs)
<1>3. n \in Nat /\ \A i \in 1 .. Len(jobs') :
          \/ i \in 1 .. n /\ jobs'[i] = jobs[i]
          \/ i = n + 1 /\ jobs'[i].pgid = cur.pgid /\ jobs'[i].status = "stopped"
  BY DEF FgWaitReturns, TypeOK, Job
<1> HIDE DEF n
<1>4. Forked'
  <2>1. \A i \in 1 .. Len(jobs') : Known(jobs'[i].pgid)
    BY <1>3, AllKnown DEF n
  <2> QED
    BY <1>1, <1>2, <2>1, ForkedKept, AllKnown
<1>5. IdleHasNoGroup' /\ LineIsUnlisted' /\ BackgroundLineOff'
  BY <1>2 DEF IdleHasNoGroup, LineIsUnlisted, LineGroups, BackgroundLineOff
<1>6. JobsAreDistinct'
  <2>1. \A i, j \in 1 .. n : jobs[i].pgid = jobs[j].pgid /\ jobs[i].pgid \in Child => i = j
    BY DEF JobsAreDistinct, n
  <2>2. \A i \in 1 .. n : jobs[i].pgid \in Child => jobs[i].pgid # cur.pgid
    BY <1>2 DEF JobsAreDistinct, n
  <2>3. ASSUME NEW i \in 1 .. Len(jobs'), NEW j \in 1 .. Len(jobs'),
               jobs'[i].pgid = jobs'[j].pgid, jobs'[i].pgid \in Child
        PROVE  i = j
    BY <1>3, <2>1, <2>2, <2>3
  <2> QED
    BY <1>2, <2>3 DEF JobsAreDistinct
<1>7. ASSUME NEW i \in 1 .. Len(jobs'), NEW g \in Child,
             jobs'[i].status = "running", jobs'[i].pgid = g
      PROVE  OffTerminal(g)'
  <2>1. OffTerminal(g)
    BY <1>3, <1>7 DEF RunningJobsOff, n
  <2>2. tty' # g
    BY <1>2, <2>1, PidAssumption DEF OffTerminal
  <2> QED
    BY <1>1, <2>1, <2>2, StaysOff
<1>8. RunningJobsOff'
  BY <1>7 DEF RunningJobsOff, OffTerminal, Starting
<1> QED
  BY <1>4, <1>5, <1>6, <1>8 DEF Rest


-----------------------------------------------------------------------------
(* The invariant.                                                          *)

LEMMA InitIInv == Init => IInv
<1> SUFFICES ASSUME Init PROVE IInv
  OBVIOUS
<1>1. jobs = <<>> /\ Len(jobs) = 0
  BY DEF Init
<1>2. \A p \in Child : ~Starting(p)
  BY DEF Init, Starting, Unused
<1>3. Forked /\ IdleHasNoGroup
  BY <1>1, <1>2, PidAssumption, ModeAssumption DEF Init, Forked, IdleHasNoGroup, NoJob
<1>4. JobsAreDistinct /\ LineIsUnlisted /\ BackgroundLineOff /\ RunningJobsOff
  BY <1>1 DEF Init, JobsAreDistinct, LineIsUnlisted, BackgroundLineOff, RunningJobsOff
<1> QED
  BY <1>3, <1>4, InitTypeOK DEF IInv

LEMMA NextIInv == IInv /\ [Next]_vars => IInv'
<1> SUFFICES ASSUME IInv, [Next]_vars PROVE IInv'
  OBVIOUS
<1>1. TypeOK /\ TypeOK'
  BY NextTypeOK DEF IInv
<1> SUFFICES Rest'
  BY <1>1 DEF IInv, Rest
<1>2. IdleHasNoGroup
  BY DEF IInv
<1>3. ASSUME proc' = proc PROVE Tame
  BY <1>3 DEF Tame, Starting
<1>4. CASE RawMode
  <2>1. /\ Tame /\ pc' = "read" /\ tty' \in {tty, Shell} /\ pgid \notin Child
        /\ UNCHANGED <<jobs, cur, pgid, pid>>
    BY <1>2, <1>3, <1>4 DEF RawMode, lineVars, IdleHasNoGroup, Foreground
  <2> QED
    BY <2>1, KeepJobs
<1>5. CASE Noise
  <2>1. /\ Tame /\ pc' = "prompt" /\ pgid \notin Child
        /\ UNCHANGED <<tty, jobs, cur, pgid, pid>>
    BY <1>2, <1>3, <1>5 DEF Noise, lineVars, IdleHasNoGroup
  <2> QED
    BY <2>1, KeepJobs
<1>6. ASSUME NEW n \in 0 .. MaxLen, NEW bg \in BOOLEAN, Line(n, bg)
      PROVE  Rest'
  BY <1>2, <1>3, <1>6, KeepJobs DEF Line, Begin, IdleHasNoGroup
<1>7. CASE ExecuteFails
  <2>1. /\ Tame /\ pc' = "prompt" /\ pgid' = NoPid /\ pid' = NoPid
        /\ UNCHANGED <<tty, jobs, cur>>
    BY <1>3, <1>7 DEF ExecuteFails, Clear
  <2> QED
    BY <2>1, KeepJobs, PidAssumption
<1>8. CASE Finish
  <2>1. Tame
    BY <1>3, <1>8 DEF Finish
  <2>2. CASE background
    <3>1. pgid \in Child => OffTerminal(pgid)
      BY <1>8, <2>2 DEF Finish, IInv, BackgroundLineOff, LineGroups
    <3> QED
      <4>1. /\ pc = "loop" /\ pc' = "reap" /\ "running" \in Status
            /\ jobs' = Append(jobs, [pgid |-> pgid, status |-> "running"])
            /\ UNCHANGED <<tty, cur, pgid, pid>>
        BY <1>8, <2>2 DEF Finish, lineVars, Status
      <4> QED
        BY <2>1, <3>1, <4>1, PushLine
  <2>3. CASE ~background
    <3>1. /\ pc = "loop" /\ pc' = "wait" /\ tty' \in {tty, pgid}
          /\ UNCHANGED <<jobs, cur, pgid, pid>>
      BY <1>8, <2>3 DEF Finish, lineVars, Foreground
    <3> QED
      BY <2>1, <3>1, KeepJobs
  <2> QED
    BY <2>2, <2>3
<1>9. CASE WaitReturns
  <2>1. Tame
    BY <1>1, <1>9, WaitTame DEF WaitReturns
  <2>0. /\ pc = "wait" /\ pc' = "reap" /\ tty' \in {tty, Shell} /\ "stopped" \in Status
        /\ UNCHANGED <<cur, pgid, pid>>
    BY <1>9 DEF WaitReturns, lineVars, Foreground, Status
  <2>2. CASE jobs' = jobs
    BY <2>0, <2>1, <2>2, KeepJobs
  <2>3. CASE jobs' = Append(jobs, [pgid |-> pgid, status |-> "stopped"])
    <3>1. "stopped" # "running"
      OBVIOUS
    <3> QED
      BY <2>0, <2>1, <2>3, <3>1, PushLine
  <2> QED
    BY <1>9, <2>2, <2>3 DEF WaitReturns
<1>10. CASE Reap
  <2>1. Tame
    BY <1>1, <1>10 DEF Reap, Tame, Starting, TypeOK, Process, Gone, Unused
  <2> QED
    <3>1. /\ pc' = "prompt" /\ pgid' = NoPid /\ pid' = NoPid
          /\ UNCHANGED <<tty, jobs, cur>>
      BY <1>10 DEF Reap, Clear
    <3> QED
      BY <2>1, <3>1, KeepJobs, PidAssumption
<1>11. ASSUME NEW bg \in BOOLEAN, Bg(bg)
       PROVE  Rest'
  <2>1. Tame
    BY <1>1, <1>3, <1>11, ContinueTame DEF Bg
  <2> QED
    BY <1>2, <1>11, <2>1, KeepJobs DEF Bg, Begin, lineVars, IdleHasNoGroup
<1>12. ASSUME NEW p \in Child, Join(p)
       PROVE  Rest'
  <2>1. Tame
    BY <1>1, <1>12 DEF Join, Tame, Starting, TypeOK, Process
  <2> QED
    BY <1>12, <2>1, ChildStep DEF Join
<1>13. ASSUME NEW p \in Child, Exec(p)
       PROVE  Rest'
  <2>1. Tame
    BY <1>1, <1>13 DEF Exec, Tame, Starting, TypeOK, Process
  <2>2. Starting(p) /\ (tty' = tty \/ (~proc[p].bg /\ tty' = proc[p].want))
    <3>1. Starting(p)
      BY <1>13 DEF Exec, Starting
    <3>2. CASE proc[p].bg
      <4>1. tty' = tty
        BY <1>13, <3>2 DEF Exec
      <4> QED
        BY <3>1, <4>1
    <3>3. CASE ~proc[p].bg
      <4>1. tty' = Foreground(proc[p].want, tty)
        BY <1>13, <3>3 DEF Exec
      <4> QED
        <5>1. tty' = tty \/ tty' = proc[p].want
          BY <4>1 DEF Foreground
        <5> QED
          BY <3>1, <3>3, <5>1
    <3> QED
      BY <3>2, <3>3
  <2> QED
    BY <1>13, <2>1, <2>2, ChildStep DEF Exec
<1>14. ASSUME NEW p \in Child, Stop(p)
       PROVE  Rest'
  <2>1. Tame
    BY <1>1, <1>14 DEF Stop, Tame, Starting, TypeOK, Process
  <2> QED
    BY <1>14, <2>1, ChildStep DEF Stop
<1>15. ASSUME NEW p \in Child, Exit(p)
       PROVE  Rest'
  <2>1. Tame
    BY <1>1, <1>15 DEF Exit, Tame, Starting, TypeOK, Process, Gone, Unused
  <2> QED
    BY <1>15, <2>1, ChildStep DEF Exit
<1>16. CASE UNCHANGED vars
  <2>1. Tame /\ UNCHANGED shellVars /\ tty' = tty
    BY <1>3, <1>16 DEF vars
  <2> QED
    BY <2>1, ChildStep
<1> QED
  BY <1>4, <1>5, <1>6, <1>7, <1>8, <1>9, <1>10, <1>11, <1>12, <1>13, <1>14, <1>15,
     <1>16, ForkStep, AdoptStep, FgStep, FgWaitStep DEF Next, User, System

LEMMA Invariance == Spec => []IInv
<1> QED
  BY InitIInv, NextIInv, PTL DEF Spec

-----------------------------------------------------------------------------
(* Theorems.                                                               *)

\* No two jobs of the table share a process group, and the job brought to the
\* foreground is not listed while it is waited for: fg and bg act on one job,
\* for pipelines of any length and any number of jobs.
THEOREM JobsStayDistinct == Spec => []JobsAreDistinct
<1>1. IInv => JobsAreDistinct
  BY DEF IInv
<1> QED
  BY <1>1, Invariance, PTL

\* A job started with & never owns the terminal while it is listed as running,
\* however late its processes get to run launch() and whatever lines follow.
THEOREM BackgroundStaysOffTerminal == Spec => []BackgroundKeepsOffTerminal
<1>1. IInv => BackgroundKeepsOffTerminal
  BY DEF IInv, RunningJobsOff, OffTerminal, BackgroundKeepsOffTerminal
<1> QED
  BY <1>1, Invariance, PTL

-----------------------------------------------------------------------------
(***************************************************************************)
(* What holds of JobControl while every line forks one process at most,    *)
(* for every set of process ids, with and without job control, and for a   *)
(* job table of any size: the shell owns the terminal when it prompts, and *)
(* what is stopped can be reached through the table.  With a pipeline the  *)
(* first of the two fails: the shell waits for the last process only, and  *)
(* a slow first one takes the terminal later.                              *)
(***************************************************************************)
(* The inductive invariant.                                                *)

\* Once the process of a line is forked there is no more to do.
OneAtATime == /\ todo <= 1
              /\ pc = "loop" /\ todo > 0 => pid = NoPid
              /\ pc = "adopt" => todo = 0

\* A process that will take the terminal in launch() is that of the line in progress,
\* which the shell waits for.
GrabsInLine == \A p \in Child : Starting(p) /\ ~proc[p].bg =>
                   pc \in {"loop", "adopt", "wait"} /\ p = pid /\ ~background

\* The shell has the terminal until such a process is forked, and after the wait.
ShellInFront == /\ ~Interactive => tty = Shell
                /\ pc \in {"prompt", "read", "reap"} => tty = Shell
                /\ pc \in {"loop", "adopt"} /\ (background \/ pid = NoPid) => tty = Shell

\* The processes that can stop, and the groups of children they are in or will join
Live(p) == proc[p].st \in {"start", "joined", "run", "stop"}
Claims(p) == ({proc[p].grp} \cup (IF Starting(p) THEN {proc[p].want} ELSE {})) \cap Child
Leads(p) == Live(p) /\ p \in Claims(p)

\* Nobody joins the group of another child.
OwnGroup == \A p \in Child : Live(p) => Claims(p) \subseteq {p}

\* The group of the line, if it has one, is that of its process.
LineGroup ==
    /\ pgid \in Child => pid = pgid /\ pc \in {"loop", "adopt", "wait", "reap"}
    /\ pid \in Child /\ Leads(pid) => /\ pc \in {"loop", "wait"} => pgid = pid
                                      /\ pc = "adopt" => pgid = NoPid

Listed(js, g) == \E i \in 1 .. Len(js) : js[i].pgid = g

\* A process with a group of its own is in the table, or fg waits for it, or it is
\* that of the line in progress.
Reachable ==
    \A p \in Child : Leads(p) =>
        \/ Listed(jobs, p)
        \/ pc = "fgwait" /\ cur.pgid = p
        \/ pc \in {"loop", "adopt", "wait"} /\ pid = p

FrontInv == OneAtATime /\ GrabsInLine /\ ShellInFront
GroupInv == OwnGroup /\ LineGroup /\ Reachable
SingleInv == TypeOK /\ FrontInv /\ GroupInv

-----------------------------------------------------------------------------
(* Steps in which no process comes into being and none joins a new group.  *)

Calm == \A p \in Child :
    Live(p)' => /\ Live(p) /\ Claims(p)' \subseteq Claims(p)
                /\ Starting(p)' => Starting(p) /\ proc'[p].bg = proc[p].bg

\* A change of one process
CalmAt(p) == /\ proc' = [proc EXCEPT ![p] = proc'[p]]
             /\ Live(p)' => /\ Live(p) /\ Claims(p)' \subseteq Claims(p)
                            /\ Starting(p)' => Starting(p) /\ proc'[p].bg = proc[p].bg

LEMMA CalmSame == proc' = proc => Calm
BY DEF Calm, Live, Claims, Starting

LEMMA CalmOne == ASSUME TypeOK, NEW p \in Child, CalmAt(p) PROVE Calm
<1>1. ASSUME NEW q \in Child, q # p PROVE proc'[q] = proc[q]
  BY <1>1 DEF CalmAt, TypeOK
<1> QED
  BY <1>1 DEF Calm, CalmAt, Live, Claims, Starting

LEMMA CalmGone == ASSUME TypeOK, NEW p \in Child, proc' = [proc EXCEPT ![p] = Gone] PROVE Calm
<1>1. proc'[p].st = "gone" /\ proc' = [proc EXCEPT ![p] = proc'[p]]
  BY DEF TypeOK, Gone, Unused
<1> QED
  BY <1>1, CalmOne DEF CalmAt, Live

\* What stops, goes on, or is reported stays in its groups.
LEMMA CalmSignal ==
    ASSUME TypeOK, NEW p \in Child, Live(p), ~Starting(p)',
           proc'[p].grp = proc[p].grp, proc' = [proc EXCEPT ![p] = proc'[p]]
    PROVE  Calm
BY CalmOne DEF CalmAt, Claims

LEMMA CalmWait == ASSUME TypeOK, NEW i, WaitExit(i) \/ WaitStop(i) PROVE Calm
<1>1. Waited(i) \subseteq Child
  BY DEF Waited, Members
<1>2. CASE proc' = proc
  BY <1>2, CalmSame
<1>3. ASSUME NEW p \in Child, proc' = [proc EXCEPT ![p] = Gone] PROVE Calm
  BY <1>3, CalmGone
<1>4. ASSUME NEW p \in Child, proc[p].st = "stop", proc' = [proc EXCEPT ![p].rep = TRUE]
      PROVE  Calm
  <2>1. proc'[p] = [proc[p] EXCEPT !.rep = TRUE]
    BY <1>4 DEF TypeOK
  <2>2. proc'[p].grp = proc[p].grp /\ proc'[p].st = "stop"
    BY <1>4, <2>1 DEF TypeOK, Process
  <2>3. proc' = [proc EXCEPT ![p] = proc'[p]]
    BY <1>4, <2>1
  <2> QED
    BY <1>4, <2>2, <2>3, CalmSignal DEF Live, Starting
<1> QED
  BY <1>1, <1>2, <1>3, <1>4 DEF WaitExit, WaitStop

LEMMA CalmContinue == ASSUME TypeOK, NEW g, proc' = Continue(g) PROVE Calm
<1> SUFFICES ASSUME NEW p \in Child, Live(p)'
             PROVE  /\ Live(p) /\ Claims(p)' \subseteq Claims(p)
                    /\ Starting(p)' => Starting(p) /\ proc'[p].bg = proc[p].bg
  BY DEF Calm
<1>1. CASE proc'[p] = proc[p]
  BY <1>1 DEF Live, Claims, Starting
<1>2. CASE proc[p].st = "stop" /\ proc'[p] = [proc[p] EXCEPT !.st = "run", !.rep = FALSE]
  <2>1. proc'[p].st = "run" /\ proc'[p].grp = proc[p].grp
    BY <1>2 DEF TypeOK, Process
  <2> QED
    BY <1>2, <2>1 DEF Live, Claims, Starting
<1> QED
  BY <1>1, <1>2 DEF Continue

LEMMA CalmReap == ASSUME TypeOK, Reap PROVE Calm
<1> SUFFICES ASSUME NEW p \in Child, Live(p)'
             PROVE  /\ Live(p) /\ Claims(p)' \subseteq Claims(p)
                    /\ Starting(p)' => Starting(p) /\ proc'[p].bg = proc[p].bg
  BY DEF Calm
<1>1. CASE proc'[p] = proc[p]
  BY <1>1 DEF Live, Claims, Starting
<1>2. CASE proc[p].st = "stop" /\ proc'[p] = [proc[p] EXCEPT !.rep = TRUE]
  <2>1. proc'[p].st = "stop" /\ proc'[p].grp = proc[p].grp
    BY <1>2 DEF TypeOK, Process
  <2> QED
    BY <1>2, <2>1 DEF Live, Claims, Starting
<1>3. proc'[p] # Gone
  BY DEF Live, Gone, Unused
<1> QED
  BY <1>1, <1>2, <1>3 DEF Reap

\* The processes of their own accord
LEMMA CalmChild ==
    ASSUME TypeOK, NEW p \in Child, Join(p) \/ Exec(p) \/ Stop(p) \/ Exit(p)
    PROVE  Calm
<1>1. proc[p] \in Process
  BY DEF TypeOK
<1>2. CASE Join(p)
  <2> DEFINE to == IF CanJoin(p, proc[p].want) THEN proc[p].want ELSE proc[p].grp
  <2>1. proc' = [proc EXCEPT ![p].st = "joined", ![p].grp = to] /\ proc[p].st = "start"
    BY <1>2 DEF Join
  <2>2. to \in {proc[p].want, proc[p].grp}
    OBVIOUS
  <2> HIDE DEF to
  <2>3. proc'[p] = [proc[p] EXCEPT !.st = "joined", !.grp = to]
        /\ proc' = [proc EXCEPT ![p] = proc'[p]]
    BY <2>1 DEF TypeOK
  <2>4. /\ proc'[p].st = "joined" /\ proc'[p].grp = to /\ proc'[p].want = proc[p].want
        /\ proc'[p].bg = proc[p].bg
    BY <1>1, <2>3 DEF Process
  <2> QED
    BY <2>1, <2>2, <2>3, <2>4, CalmOne DEF CalmAt, Live, Claims, Starting
<1>3. CASE Exec(p)
  <2>1. proc' = [proc EXCEPT ![p].st = "run"] /\ Live(p)
    BY <1>3 DEF Exec, Live
  <2>2. proc'[p] = [proc[p] EXCEPT !.st = "run"] /\ proc' = [proc EXCEPT ![p] = proc'[p]]
    BY <2>1 DEF TypeOK
  <2>3. proc'[p].st = "run" /\ proc'[p].grp = proc[p].grp
    BY <1>1, <2>2 DEF Process
  <2> QED
    BY <2>1, <2>2, <2>3, CalmSignal DEF Starting
<1>4. CASE Stop(p)
  <2>1. proc' = [proc EXCEPT ![p].st = "stop", ![p].rep = FALSE] /\ Live(p)
    BY <1>4 DEF Stop, Live
  <2>2. /\ proc'[p] = [proc[p] EXCEPT !.st = "stop", !.rep = FALSE]
        /\ proc' = [proc EXCEPT ![p] = proc'[p]]
    BY <2>1 DEF TypeOK
  <2>3. proc'[p].st = "stop" /\ proc'[p].grp = proc[p].grp
    BY <1>1, <2>2 DEF Process
  <2> QED
    BY <2>1, <2>2, <2>3, CalmSignal DEF Starting
<1>5. CASE Exit(p)
  <2>1. CASE proc' = [proc EXCEPT ![p] = Gone]
    BY <2>1, CalmGone
  <2>2. CASE proc' = [proc EXCEPT ![p] = [@ EXCEPT !.st = "dead"]]
    <3>1. proc'[p] = [proc[p] EXCEPT !.st = "dead"] /\ proc' = [proc EXCEPT ![p] = proc'[p]]
      BY <2>2 DEF TypeOK
    <3>2. proc'[p].st = "dead"
      BY <1>1, <3>1 DEF Process
    <3> QED
      BY <3>1, <3>2, CalmOne DEF CalmAt, Live
  <2> QED
    BY <1>5, <2>1, <2>2 DEF Exit
<1> QED
  BY <1>2, <1>3, <1>4, <1>5

-----------------------------------------------------------------------------
(* The terminal.                                                           *)

LEMMA InitFront == Init => FrontInv
BY DEF Init, FrontInv, OneAtATime, GrabsInLine, ShellInFront, Starting, Unused

\* tcsetpgrp to the shell's own group succeeds; a script has no terminal to give.
LEMMA TakesBack ==
    ASSUME ShellInFront
    PROVE  Foreground(Shell, tty) = Shell
BY ModeAssumption DEF ShellInFront, Foreground, GroupExists

\* A line begins, with one process to fork at most.
LEMMA BeginFront ==
    ASSUME FrontInv, Calm, NEW n, n <= 1, NEW bg, Begin(n, bg),
           pc \notin {"loop", "adopt", "wait"}, tty' = Shell
    PROVE  FrontInv'
<1>1. todo' = n /\ pid' = NoPid /\ pc' = "loop"
  BY DEF Begin
<1>2. \A p \in Child : ~(Starting(p)' /\ ~proc'[p].bg)
  BY DEF FrontInv, GrabsInLine, Calm, Live, Starting
<1> QED
  BY <1>1, <1>2 DEF FrontInv, OneAtATime, GrabsInLine, ShellInFront

\* A step after which no line is in progress
LEMMA IdleFront ==
    ASSUME FrontInv, Calm, pc' \notin {"loop", "adopt", "wait"}, todo' \in {0, todo},
           \A p \in Child : p = pid => ~Starting(p)' \/ pc \notin {"loop", "adopt", "wait"}
                                       \/ background,
           pc' \in {"prompt", "read", "reap"} => tty' = Shell, ~Interactive => tty' = Shell
    PROVE  FrontInv'
<1>1. \A p \in Child : ~(Starting(p)' /\ ~proc'[p].bg)
  BY DEF FrontInv, GrabsInLine, Calm, Live, Starting
<1> QED
  BY <1>1 DEF FrontInv, OneAtATime, GrabsInLine, ShellInFront

\* The terminal of processes that run beside the shell
LEMMA ChildFront ==
    ASSUME TypeOK, FrontInv, NEW p \in Child, Join(p) \/ Exec(p) \/ Stop(p) \/ Exit(p)
    PROVE  FrontInv'
<1>1. Calm
  BY CalmChild
<1>2. UNCHANGED <<todo, pc, pid, background>>
  BY DEF Join, Exec, Stop, Exit, shellVars, lineVars
<1>3. \/ tty' = tty
      \/ /\ Interactive /\ Starting(p) /\ ~proc[p].bg
  BY ModeAssumption DEF Join, Exec, Stop, Exit, Foreground, Starting
<1>4. GrabsInLine'
  BY <1>1, <1>2 DEF FrontInv, GrabsInLine, Calm, Live, Starting
<1>5. ShellInFront'
  BY <1>2, <1>3, PidAssumption DEF FrontInv, GrabsInLine, ShellInFront
<1> QED
  BY <1>2, <1>4, <1>5 DEF FrontInv, OneAtATime

LEMMA ForkFront ==
    ASSUME TypeOK, FrontInv, NEW p \in Child, Fork(p)
    PROVE  FrontInv'
<1>1. /\ todo = 1 /\ pid = NoPid /\ tty = Shell /\ tty' = tty /\ todo' = 0 /\ pid' = p
      /\ pc' \in {"loop", "adopt"} /\ pc = "loop" /\ background' = background
  BY DEF Fork, FrontInv, OneAtATime, ShellInFront, TypeOK
<1>2. proc'[p].bg = background /\ \A q \in Child : q # p => proc'[q] = proc[q]
  BY DEF Fork, TypeOK
<1>3. \A q \in Child : ~(Starting(q) /\ ~proc[q].bg)
  BY <1>1, PidAssumption DEF FrontInv, GrabsInLine
<1>4. GrabsInLine'
  BY <1>1, <1>2, <1>3 DEF GrabsInLine, Starting
<1>5. OneAtATime' /\ ShellInFront'
  BY <1>1 DEF OneAtATime, ShellInFront
<1> QED
  BY <1>4, <1>5 DEF FrontInv

LEMMA AdoptFront ==
    ASSUME TypeOK, FrontInv, Adopt
    PROVE  FrontInv'
<1>1. UNCHANGED <<tty, background, pid, todo>> /\ pc = "adopt" /\ pc' = "loop"
  BY DEF Adopt
<1>2. \A q \in Child : proc'[q].st = proc[q].st /\ proc'[q].bg = proc[q].bg
  BY DEF Adopt, TypeOK, Process
<1>3. GrabsInLine'
  BY <1>1, <1>2 DEF FrontInv, GrabsInLine, Starting
<1>4. OneAtATime' /\ ShellInFront'
  BY <1>1 DEF FrontInv, OneAtATime, ShellInFront
<1> QED
  BY <1>3, <1>4 DEF FrontInv

LEMMA FinishFront ==
    ASSUME TypeOK, FrontInv, Finish
    PROVE  FrontInv'
<1>1. Calm /\ UNCHANGED <<todo, pid, background>> /\ pc = "loop"
  BY CalmSame DEF Finish, lineVars
<1>2. CASE background
  BY <1>1, <1>2, IdleFront DEF Finish, FrontInv, ShellInFront
<1>3. CASE ~background
  <2>1. pc' = "wait" /\ proc' = proc /\ tty' = Foreground(pgid, tty)
    BY <1>3 DEF Finish
  <2>2. ~Interactive => tty' = tty
    BY <2>1 DEF Foreground
  <2> QED
    BY <1>1, <1>3, <2>1, <2>2 DEF FrontInv, OneAtATime, GrabsInLine, ShellInFront, Starting
<1> QED
  BY <1>2, <1>3

\* waitpid on the process of the line: whatever it reports, that process has got
\* through launch().
LEMMA WaitedIsThrough ==
    ASSUME TypeOK, NEW i \in Child, WaitExit(i) \/ WaitStop(i)
    PROVE  ~Starting(i)'
<1>1. Waited(i) \subseteq {i} /\ (Alive(i) => Waited(i) = {i})
  BY PidAssumption DEF Waited
<1>2. CASE Waited(i) = {} /\ proc' = proc
  BY <1>1, <1>2 DEF Alive, Starting
<1>3. CASE proc' = [proc EXCEPT ![i] = Gone]
  BY <1>3 DEF TypeOK, Gone, Unused, Starting
<1>4. CASE proc[i].st = "stop" /\ proc' = [proc EXCEPT ![i].rep = TRUE]
  BY <1>4 DEF TypeOK, Process, Starting
<1> QED
  BY <1>1, <1>2, <1>3, <1>4 DEF WaitExit, WaitStop

LEMMA NextFront == ASSUME MaxLen <= 1 PROVE TypeOK /\ FrontInv /\ [Next]_vars => FrontInv'
<1> SUFFICES ASSUME TypeOK, FrontInv, [Next]_vars
             PROVE  FrontInv'
  OBVIOUS
<1>1. ShellInFront /\ Foreground(Shell, tty) = Shell
  BY TakesBack DEF FrontInv
<1>2. CASE RawMode
  BY <1>1, <1>2, CalmSame, IdleFront DEF RawMode, lineVars
<1>3. CASE Noise
  BY <1>3, <1>1 DEF Noise, ShellInFront
<1>4. ASSUME NEW n \in 0 .. MaxLen, NEW bg \in BOOLEAN, Line(n, bg) PROVE FrontInv'
  <2>1. n <= 1
    BY BoundAssumption
  <2> QED
    BY <1>4, <2>1, CalmSame, BeginFront DEF Line
<1>5. CASE ExecuteFails
  BY <1>1, <1>5, CalmSame, IdleFront, PidAssumption
     DEF ExecuteFails, Clear, FrontInv, OneAtATime, ShellInFront
<1>6. CASE WaitReturns
  <2>1. Calm /\ tty' = Shell /\ pc' = "reap" /\ todo' = todo
    BY <1>1, <1>6, CalmWait DEF WaitReturns, lineVars
  <2>2. \A p \in Child : p = pid => ~Starting(p)'
    BY <1>6, WaitedIsThrough DEF WaitReturns
  <2> QED
    BY <2>1, <2>2, IdleFront
<1>7. CASE Reap
  BY <1>1, <1>7, CalmReap, IdleFront DEF Reap, Clear, ShellInFront
<1>8. ASSUME NEW k \in 1 .. Len(jobs), NEW n \in 0 .. 1, NEW bg \in BOOLEAN, Fg(k, n, bg)
      PROVE  FrontInv'
  <2>1. Calm /\ pc = "read" /\ pc' = "fgwait" /\ todo' = todo
    BY <1>8, CalmContinue DEF Fg, lineVars
  <2>2. ~Interactive => tty' = Shell
    BY <1>1, <1>8 DEF Fg, Foreground, ShellInFront
  <2> QED
    BY <2>1, <2>2, IdleFront
<1>9. CASE FgWaitReturns
  <2>1. Calm /\ tty' = Shell /\ pc = "fgwait" /\ Begin(after.n, after.bg)
    BY <1>1, <1>9, CalmWait DEF FgWaitReturns
  <2>2. after.n <= 1
    BY DEF TypeOK
  <2> QED
    BY <2>1, <2>2, BeginFront
<1>10. ASSUME NEW bg \in BOOLEAN, Bg(bg) PROVE FrontInv'
  <2>1. CASE pc' = "crashed"
    BY <1>1, <1>10, <2>1, CalmSame, IdleFront DEF Bg, lineVars, Begin
  <2>2. CASE pc' # "crashed"
    <3>1. Calm /\ Begin(0, bg) /\ tty' = Shell /\ pc = "read"
      BY <1>10, <2>2, CalmContinue DEF Bg
    <3> QED
      BY <3>1, BeginFront
  <2> QED
    BY <2>1, <2>2
<1>11. CASE UNCHANGED vars
  BY <1>11 DEF vars, shellVars, lineVars, FrontInv, OneAtATime, GrabsInLine, ShellInFront, Starting
<1> QED
  BY <1>2, <1>3, <1>4, <1>5, <1>6, <1>7, <1>8, <1>9, <1>10, <1>11, ForkFront, AdoptFront,
     FinishFront, ChildFront DEF Next, User, System

-----------------------------------------------------------------------------
(* The table.                                                              *)

LEMMA InitGroup == Init => GroupInv
<1> SUFFICES ASSUME Init PROVE GroupInv
  OBVIOUS
<1>1. \A p \in Child : ~Live(p)
  BY DEF Init, Live, Unused
<1>2. pgid \notin Child /\ pid \notin Child
  BY PidAssumption, ModeAssumption DEF Init
<1> QED
  BY <1>1, <1>2 DEF GroupInv, OwnGroup, LineGroup, Reachable, Leads

\* In a calm step nobody comes to lead a group, or joins another.
LEMMA CalmLeads ==
    ASSUME Calm
    PROVE  /\ \A p \in Child : Leads(p)' => Leads(p)
           /\ OwnGroup => OwnGroup'
BY DEF Calm, Leads, OwnGroup

LEMMA ListedAppend ==
    ASSUME TypeOK, NEW job \in Job, jobs' = Append(jobs, job)
    PROVE  Listed(jobs', job.pgid) /\ \A p \in Child : Listed(jobs, p) => Listed(jobs', p)
<1>1. Len(jobs) \in Nat /\ Len(jobs') = Len(jobs) + 1
      /\ \A i \in 1 .. Len(jobs) : jobs'[i] = jobs[i]
      /\ jobs'[Len(jobs) + 1] = job
  BY DEF TypeOK
<1>2. Listed(jobs', job.pgid)
  BY <1>1 DEF Listed
<1>3. \A i \in 1 .. Len(jobs) : i \in 1 .. Len(jobs') /\ jobs'[i] = jobs[i]
  BY <1>1
<1> QED
  BY <1>2, <1>3 DEF Listed

\* The places of the shell in which a line is in progress
InLine == pc \in {"loop", "adopt", "wait"}

\* No line is in progress, nor is fg, and every process that leads a group is listed.
AllListed == \A p \in Child : Leads(p) => Listed(jobs, p)

LEMMA IdleListed == ASSUME GroupInv, ~InLine, pc # "fgwait" PROVE AllListed
BY DEF GroupInv, Reachable, InLine, AllListed

LEMMA NoneForkedListed == ASSUME GroupInv, pc # "fgwait", pid = NoPid PROVE AllListed
BY PidAssumption DEF GroupInv, Reachable, AllListed

\* A step between lines, or to the beginning or the end of one
LEMMA ListedStep ==
    ASSUME TypeOK, GroupInv, Calm, AllListed, \A p \in Child : Listed(jobs, p) => Listed(jobs', p),
           \/ pgid' \notin Child /\ pid' = NoPid
           \/ pgid' \notin Child /\ ~InLine'
    PROVE  GroupInv'
<1>1. OwnGroup' /\ \A p \in Child : Leads(p)' => Leads(p)
  BY CalmLeads DEF GroupInv
<1>2. Reachable'
  BY <1>1 DEF AllListed, Reachable
<1>3. LineGroup'
  BY PidAssumption DEF LineGroup, InLine
<1> QED
  BY <1>1, <1>2, <1>3 DEF GroupInv

\* m_pgid names a child only while the line of that child is in progress.
LEMMA IdleNoGroup == ASSUME GroupInv, ~InLine, pc # "reap" PROVE pgid \notin Child
BY DEF GroupInv, LineGroup, InLine

LEMMA ChildGroup ==
    ASSUME TypeOK, GroupInv, Calm, UNCHANGED shellVars
    PROVE  GroupInv'
<1>1. OwnGroup' /\ \A p \in Child : Leads(p)' => Leads(p)
  BY CalmLeads DEF GroupInv
<1>2. UNCHANGED <<pc, pid, pgid, cur, jobs>>
  BY DEF shellVars, lineVars
<1>3. LineGroup'
  BY <1>1, <1>2 DEF GroupInv, LineGroup
<1>4. Reachable'
  BY <1>1, <1>2 DEF GroupInv, Reachable, Listed
<1> QED
  BY <1>1, <1>3, <1>4 DEF GroupInv

\* fork(): the child is still in the group of the shell, and will join its own or that
\* which main() has left in m_pgid.
LEMMA ForkGroup ==
    ASSUME TypeOK, FrontInv, GroupInv, NEW p \in Child, Fork(p)
    PROVE  GroupInv'
<1>1. /\ pid = NoPid /\ pc = "loop" /\ pid' = p /\ UNCHANGED <<pgid, jobs, cur>>
      /\ pc' = (IF Interactive THEN "adopt" ELSE "loop")
  BY DEF Fork, FrontInv, OneAtATime
<1>2. pgid \notin Child
  BY <1>1, PidAssumption DEF GroupInv, LineGroup
<1>3. \A q \in Child : q # p => proc'[q] = proc[q]
  BY DEF Fork, TypeOK
<1>4. /\ proc'[p].grp = Shell
      /\ proc'[p].want = IF ~Interactive THEN NoPid ELSE IF pgid = NoPid THEN p ELSE pgid
  BY DEF Fork, TypeOK
<1>5. Claims(p)' \subseteq {p} /\ (p \in Claims(p)' => Interactive /\ pgid = NoPid)
  BY <1>2, <1>4, PidAssumption DEF Claims
<1>6. OwnGroup'
  BY <1>3, <1>5 DEF GroupInv, OwnGroup, Live, Claims, Starting
<1>7. LineGroup'
  BY <1>1, <1>2, <1>5 DEF LineGroup, Leads
<1>8. Reachable'
  <2>1. \A q \in Child : q # p /\ Leads(q)' => Leads(q)
    BY <1>3 DEF Leads, Live, Claims, Starting
  <2>2. AllListed
    BY <1>1, NoneForkedListed
  <2> QED
    BY <1>1, <2>1, <2>2 DEF AllListed, Reachable, Listed
<1> QED
  BY <1>6, <1>7, <1>8 DEF GroupInv

\* The parent's setpgid puts the child where it wants to go.
LEMMA AdoptGroup ==
    ASSUME TypeOK, GroupInv, Adopt
    PROVE  GroupInv'
<1>1. /\ pc = "adopt" /\ pc' = "loop" /\ UNCHANGED <<pid, jobs, cur>> /\ pid \in Child
      /\ pgid' = IF pgid = NoPid THEN pid ELSE pgid
  BY DEF Adopt, TypeOK
<1>2. \A q \in Child : q # pid => proc'[q] = proc[q]
  BY <1>1 DEF Adopt, TypeOK
<1>3. \/ proc' = proc
      \/ /\ proc'[pid].grp = pgid' /\ proc'[pid].want = proc[pid].want
         /\ proc'[pid].st = proc[pid].st
  BY <1>1 DEF Adopt, TypeOK, Process
<1>4. /\ Live(pid)' => Live(pid)
      /\ Claims(pid)' \subseteq Claims(pid) \cup ({pgid'} \cap Child)
  <2>1. CASE proc' = proc
    BY <1>1, <2>1 DEF Live, Claims, Starting
  <2>2. CASE /\ proc'[pid].grp = pgid' /\ proc'[pid].want = proc[pid].want
             /\ proc'[pid].st = proc[pid].st
    BY <1>1, <2>2 DEF Live, Claims, Starting
  <2> QED
    BY <1>3, <2>1, <2>2
<1>5. pgid' \in Child => pgid' = pid
  BY <1>1 DEF GroupInv, LineGroup
<1>6. Leads(pid)' => pgid' = pid
  BY <1>1, <1>4, <1>5 DEF GroupInv, LineGroup, Leads
<1>7. OwnGroup'
  BY <1>1, <1>2, <1>4, <1>5 DEF GroupInv, OwnGroup, Live, Claims, Starting
<1>8. LineGroup'
  BY <1>1, <1>5, <1>6 DEF LineGroup
<1>9. Reachable'
  <2>1. \A q \in Child : q # pid /\ Leads(q)' => Leads(q)
    BY <1>2 DEF Leads, Live, Claims, Starting
  <2> QED
    BY <1>1, <2>1 DEF GroupInv, Reachable, Listed
<1> QED
  BY <1>7, <1>8, <1>9 DEF GroupInv

\* The process of the line is entered into the table with its group, or is through.
LEMMA EntersTable ==
    ASSUME TypeOK, GroupInv, Calm, pc \in {"loop", "wait"}, pc' = "reap",
           UNCHANGED <<pgid, pid>>, \A p \in Child : Listed(jobs, p) => Listed(jobs', p),
           \A p \in Child : p = pid => ~Leads(p)' \/ Listed(jobs', pgid)
    PROVE  GroupInv'
<1>1. OwnGroup' /\ \A p \in Child : Leads(p)' => Leads(p)
  BY CalmLeads DEF GroupInv
<1>2. LineGroup'
  BY DEF GroupInv, LineGroup
<1>3. \A p \in Child : p = pid /\ Leads(p)' => Listed(jobs', p)
  BY <1>1 DEF GroupInv, LineGroup
<1>4. Reachable'
  BY <1>1, <1>3 DEF GroupInv, Reachable
<1> QED
  BY <1>1, <1>2, <1>4 DEF GroupInv

LEMMA FinishGroup ==
    ASSUME TypeOK, GroupInv, Finish
    PROVE  GroupInv'
<1>1. Calm /\ UNCHANGED <<pgid, pid, cur>> /\ pc = "loop"
  BY CalmSame DEF Finish, lineVars
<1>2. CASE background
  <2>1. [pgid |-> pgid, status |-> "running"] \in Job
    BY DEF TypeOK, Job, Status
  <2>2. jobs' = Append(jobs, [pgid |-> pgid, status |-> "running"]) /\ pc' = "reap"
    BY <1>2 DEF Finish
  <2>3. Listed(jobs', pgid) /\ \A p \in Child : Listed(jobs, p) => Listed(jobs', p)
    BY <2>1, <2>2, ListedAppend
  <2> QED
    BY <1>1, <2>2, <2>3, EntersTable
<1>3. CASE ~background
  <2>1. pc' = "wait" /\ jobs' = jobs
    BY <1>3 DEF Finish
  <2>2. OwnGroup' /\ \A p \in Child : Leads(p)' => Leads(p)
    BY <1>1, CalmLeads DEF GroupInv
  <2>3. LineGroup' /\ Reachable'
    BY <1>1, <2>1, <2>2 DEF GroupInv, LineGroup, Reachable, Listed
  <2> QED
    BY <2>2, <2>3 DEF GroupInv
<1> QED
  BY <1>2, <1>3

\* waitpid on a child reports a stop, or that child is gone.
LEMMA WaitedIsGone ==
    ASSUME TypeOK, NEW i \in Child, WaitExit(i)
    PROVE  ~Leads(i)'
<1>1. Waited(i) \subseteq {i} /\ (Alive(i) => Waited(i) = {i})
  BY PidAssumption DEF Waited
<1>2. CASE Waited(i) = {} /\ proc' = proc
  BY <1>1, <1>2 DEF Alive, Leads, Live
<1>3. CASE proc' = [proc EXCEPT ![i] = Gone]
  BY <1>3 DEF TypeOK, Gone, Unused, Leads, Live
<1> QED
  BY <1>1, <1>2, <1>3 DEF WaitExit

LEMMA WaitGroup ==
    ASSUME TypeOK, GroupInv, WaitReturns
    PROVE  GroupInv'
<1>1. Calm /\ UNCHANGED <<pgid, pid>> /\ pc = "wait" /\ pc' = "reap"
  BY CalmWait DEF WaitReturns, lineVars
<1>2. CASE WaitExit(pid) /\ UNCHANGED jobs
  <2>1. \A p \in Child : p = pid => ~Leads(p)'
    BY <1>2, WaitedIsGone
  <2>2. \A p \in Child : Listed(jobs, p) => Listed(jobs', p)
    BY <1>2 DEF Listed
  <2> QED
    BY <1>1, <2>1, <2>2, EntersTable
<1>3. CASE jobs' = Append(jobs, [pgid |-> pgid, status |-> "stopped"])
  <2>1. [pgid |-> pgid, status |-> "stopped"] \in Job
    BY DEF TypeOK, Job, Status
  <2>2. Listed(jobs', pgid) /\ \A p \in Child : Listed(jobs, p) => Listed(jobs', p)
    BY <1>3, <2>1, ListedAppend
  <2> QED
    BY <1>1, <2>2, EntersTable
<1> QED
  BY <1>2, <1>3 DEF WaitReturns

\* fg takes one job out of the table and waits for its group.
LEMMA FgGroup ==
    ASSUME TypeOK, GroupInv, NEW k \in 1 .. Len(jobs), NEW n, NEW bg, Fg(k, n, bg)
    PROVE  GroupInv'
<1>1. /\ Calm /\ UNCHANGED <<pgid, pid>> /\ pc = "read" /\ pc' = "fgwait" /\ cur' = jobs[k]
  BY CalmContinue DEF Fg, lineVars
<1>2. OwnGroup' /\ \A p \in Child : Leads(p)' => Leads(p)
  BY <1>1, CalmLeads DEF GroupInv
<1>3. LineGroup'
  BY <1>1, IdleNoGroup DEF InLine, LineGroup
<1>4. AllListed
  BY <1>1, IdleListed DEF InLine
<1>5. ASSUME NEW p \in Child, Listed(jobs, p) PROVE Listed(jobs', p) \/ cur'.pgid = p
  <2>1. PICK i \in 1 .. Len(jobs) : jobs[i].pgid = p
    BY <1>5 DEF Listed
  <2>2. /\ Len(jobs) \in Nat /\ Len(jobs') = Len(jobs) - 1
        /\ \A j \in 1 .. Len(jobs) - 1 : jobs'[j] = IF j < k THEN jobs[j] ELSE jobs[j + 1]
    <3>1. jobs \in Seq(Job) /\ jobs' = RemoveAt(jobs, k)
      BY DEF Fg, TypeOK
    <3>2. Len(jobs) \in Nat
      BY <3>1
    <3> QED
      BY <3>1, <3>2, RemoveAtElements
  <2>3. CASE i = k
    BY <1>1, <2>1, <2>3
  <2>4. CASE i < k
    <3>1. i \in 1 .. Len(jobs') /\ jobs'[i] = jobs[i]
      BY <2>2, <2>4
    <3> QED
      BY <2>1, <3>1 DEF Listed
  <2>5. CASE i > k
    <3>1. PICK j \in 1 .. Len(jobs') : j = i - 1
      BY <2>2, <2>5
    <3>2. j \in 1 .. Len(jobs) - 1 /\ ~(j < k) /\ j + 1 = i
      BY <2>2, <2>5, <3>1
    <3>3. jobs'[j] = jobs[i]
      BY <2>2, <3>2
    <3> QED
      BY <2>1, <3>1, <3>3 DEF Listed
  <2> QED
    BY <2>3, <2>4, <2>5
<1>6. Reachable'
  BY <1>1, <1>2, <1>4, <1>5 DEF AllListed, Reachable
<1> QED
  BY <1>2, <1>3, <1>6 DEF GroupInv

\* ... and puts it back if it stops.
LEMMA FgWaitGroup ==
    ASSUME TypeOK, GroupInv, FgWaitReturns
    PROVE  GroupInv'
<1>1. /\ Calm /\ UNCHANGED pgid /\ pc = "fgwait" /\ pc' = "loop" /\ pid' = NoPid
  BY CalmWait DEF FgWaitReturns, Begin
<1>2. OwnGroup' /\ \A p \in Child : Leads(p)' => Leads(p)
  BY <1>1, CalmLeads DEF GroupInv
<1>3. LineGroup'
  BY <1>1, IdleNoGroup, PidAssumption DEF InLine, LineGroup
<1>4. \A p \in Child : Listed(jobs, p) => Listed(jobs', p)
  <2>1. [cur EXCEPT !.status = "stopped"] \in Job
    BY DEF TypeOK, Job, Status
  <2> QED
    BY <2>1, ListedAppend DEF FgWaitReturns, Listed
<1>5. ASSUME NEW p \in Child, p = cur.pgid, Leads(p)' PROVE Listed(jobs', p)
  <2>1. jobs' = Append(jobs, [cur EXCEPT !.status = "stopped"])
    BY <1>5, WaitedIsGone DEF FgWaitReturns
  <2>2. [cur EXCEPT !.status = "stopped"] \in Job
        /\ [cur EXCEPT !.status = "stopped"].pgid = cur.pgid
    BY DEF TypeOK, Job, Status
  <2> QED
    BY <1>5, <2>1, <2>2, ListedAppend
<1>6. Reachable'
  BY <1>1, <1>2, <1>4, <1>5 DEF GroupInv, Reachable
<1> QED
  BY <1>2, <1>3, <1>6 DEF GroupInv

LEMMA NextGroup == TypeOK /\ FrontInv /\ GroupInv /\ [Next]_vars => GroupInv'
<1> SUFFICES ASSUME TypeOK, FrontInv, GroupInv, [Next]_vars
             PROVE  GroupInv'
  OBVIOUS
<1>1. ASSUME jobs' = jobs PROVE \A p \in Child : Listed(jobs, p) => Listed(jobs', p)
  BY <1>1 DEF Listed
<1>2. CASE RawMode \/ Noise
  <2>1. Calm /\ UNCHANGED <<jobs, pgid>> /\ pc \in {"prompt", "read"} /\ pc' \in {"prompt", "read"}
    BY <1>2, CalmSame DEF RawMode, Noise, lineVars
  <2> QED
    BY <1>1, <2>1, IdleListed, IdleNoGroup, ListedStep DEF InLine
<1>3. ASSUME NEW n \in 0 .. MaxLen, NEW bg \in BOOLEAN, Line(n, bg) PROVE GroupInv'
  <2>1. Calm /\ UNCHANGED <<jobs, pgid>> /\ pc = "read" /\ pid' = NoPid
    BY <1>3, CalmSame DEF Line, Begin
  <2> QED
    BY <1>1, <2>1, IdleListed, IdleNoGroup, ListedStep DEF InLine
<1>4. CASE ExecuteFails
  <2>1. Calm /\ UNCHANGED jobs /\ pc = "loop" /\ pid = NoPid /\ pid' = NoPid /\ pgid' = NoPid
    BY <1>4, CalmSame DEF ExecuteFails, Clear, FrontInv, OneAtATime
  <2> QED
    BY <1>1, <2>1, NoneForkedListed, ListedStep, PidAssumption
<1>5. CASE Reap
  <2>1. Calm /\ UNCHANGED jobs /\ pc = "reap" /\ pid' = NoPid /\ pgid' = NoPid
    BY <1>5, CalmReap DEF Reap, Clear
  <2> QED
    BY <1>1, <2>1, IdleListed, ListedStep, PidAssumption DEF InLine
<1>6. ASSUME NEW bg \in BOOLEAN, Bg(bg) PROVE GroupInv'
  <2>1. UNCHANGED <<jobs, pgid>> /\ pc = "read" /\ (pc' = "crashed" \/ pid' = NoPid)
    BY <1>6 DEF Bg, lineVars, Begin
  <2>2. Calm
    BY <1>6, CalmSame, CalmContinue DEF Bg
  <2> QED
    BY <1>1, <2>1, <2>2, IdleListed, IdleNoGroup, ListedStep DEF InLine
<1>7. ASSUME NEW p \in Child, Join(p) \/ Exec(p) \/ Stop(p) \/ Exit(p) PROVE GroupInv'
  BY <1>7, CalmChild, ChildGroup DEF Join, Exec, Stop, Exit
<1>8. CASE UNCHANGED vars
  BY <1>8, CalmSame, ChildGroup DEF vars
<1> QED
  BY <1>2, <1>3, <1>4, <1>5, <1>6, <1>7, <1>8, ForkGroup, AdoptGroup, FinishGroup,
     WaitGroup, FgGroup, FgWaitGroup DEF Next, User, System

-----------------------------------------------------------------------------
(* Theorems.                                                               *)

LEMMA SingleInvariance == ASSUME MaxLen <= 1 PROVE Spec => []SingleInv
<1>1. Init => SingleInv
  BY InitTypeOK, InitFront, InitGroup DEF SingleInv
<1>2. SingleInv /\ [Next]_vars => SingleInv'
  BY NextTypeOK, NextFront, NextGroup DEF SingleInv
<1> QED
  BY <1>1, <1>2, PTL DEF Spec

\* Where no line forks more than one process, the shell owns the terminal whenever it
\* prompts, however late its children get through launch() and whatever is stopped,
\* continued, or left in the background.
THEOREM PromptHasTerminal == ASSUME MaxLen <= 1 PROVE Spec => []PromptOwnsTerminal
<1>1. SingleInv => PromptOwnsTerminal
  BY DEF SingleInv, FrontInv, ShellInFront, PromptOwnsTerminal
<1> QED
  BY <1>1, SingleInvariance, PTL

\* ... and every process that is stopped then, but for those in the shell's own group,
\* is in the job table, where fg and bg find it.
THEOREM StoppedStaysListed == ASSUME MaxLen <= 1 PROVE Spec => []StoppedIsListed
<1>1. ASSUME SingleInv, pc = "read", NEW p \in Child, proc[p].st = "stop", proc[p].grp # Shell
      PROVE  Listed(jobs, proc[p].grp)
  <2>1. proc[p].grp \in Child /\ Live(p)
    BY <1>1 DEF SingleInv, TypeOK, Process, Group, Alive, Live
  <2>2. proc[p].grp = p /\ Leads(p)
    BY <1>1, <2>1 DEF SingleInv, GroupInv, OwnGroup, Claims, Leads
  <2> QED
    BY <1>1, <2>2 DEF SingleInv, GroupInv, Reachable
<1>2. SingleInv => StoppedIsListed
  BY <1>1 DEF StoppedIsListed, Listed
<1> QED
  BY <1>2, SingleInvariance, PTL

=============================================================================
