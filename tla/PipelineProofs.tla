--------------------------- MODULE PipelineProofs ---------------------------
(***************************************************************************)
(* What holds of Pipeline for lines of any length and a descriptor table   *)
(* of any size: the shell keeps its own three descriptors, every command   *)
(* is wired as typed, only the command of a stage can write into its pipe, *)
(* and, if nothing fails, nothing is left open after the line.             *)
(*                                                                         *)
(* Two things a line may be typed with break that, and are left out by     *)
(* Sound: a builtin that returns early, and a builtin of a line with >&.   *)
(***************************************************************************)
EXTENDS Pipeline, FiniteSetTheorems, SequenceTheorems, WellFoundedInduction, TLAPS

Sound == /\ "early" \notin Kinds
         /\ "builtin" \notin Kinds \/ "both" \notin Redirections

-----------------------------------------------------------------------------
(* The inductive invariant.                                                *)

Redirecting == pc \in {"modifiers", "both"}
Forking == pc \in {"stage", "run", "clean"}
Plumbed == pc \in {"run", "clean"}

\* Where execute() is in the line
Phase ==
    /\ pc = "parse" => /\ io = <<0, 1, 2>> /\ set = <<FALSE, FALSE, FALSE>>
                       /\ want = <<Tty, Tty, Tty>>
    /\ pc = "parse" \/ Redirecting => x = 1
    /\ pc # "parse" => cmds \in Lines
    /\ Forking => x \in 1 .. Len(cmds)

\* The shell's own descriptors are never touched by more than a duplicate put back.
ShellsOwn == \A f \in 0 .. 2 : fds[f] = Tty

\* m_stdin, m_stdout and m_stderr are the defaults or have a number of their own.
OwnNumbers ==
    /\ \A k \in 1 .. 3 : (io[k] = k - 1 \/ io[k] > 2) /\ (~set[k] => io[k] = k - 1)
    /\ io[1] # io[2] /\ io[1] # io[3] /\ io[2] # io[3]
    /\ io[3] # 2 => Redirectable
    /\ \A k \in 1 .. 3 : want[k] \in {Tty} \cup {File(i) : i \in 1 .. 3}

\* Nothing runs before the line is complete.
NoneForked == Redirecting => \A k \in Stage : ~kids[k].live

\* A redirection is open under its number for as long as a stage will need it.
Redirected ==
    /\ Redirecting => fds[io[1]] = want[1]
    /\ Redirecting \/ pc \in {"stage", "run"} \/ (pc = "clean" /\ x < Len(cmds)) =>
          fds[io[2]] = want[2] /\ fds[io[3]] = want[3]

\* What stage x reads, and under which number
Source == IF x = 1 THEN want[1] ELSE ReadEnd(x - 1)
Reading ==
    /\ Forking => /\ fdin \in Fd /\ fdin \notin {io[2], io[3]}
                  /\ IF x = 1 THEN fdin = io[1] ELSE fdin > 2
    /\ pc \in {"stage", "run"} => fds[fdin] = Source

\* What stage x writes; the read end that the next stage will get
Sink == IF x = Len(cmds) THEN want[2] ELSE WriteEnd(x)
Writing ==
    /\ Plumbed => /\ fdout \notin {fdin, io[3]}
                  /\ x = Len(cmds) => fdout = io[2]
                  /\ x < Len(cmds) =>
                        /\ fdout > 2 /\ fdout # io[2]
                        /\ fdpipe[1] > 2 /\ fdpipe[1] \notin {fdin, fdout, io[2], io[3]}
                        /\ fds[fdpipe[1]] = ReadEnd(x)
    /\ pc = "run" => fds[fdout] = Sink

\* The shell holds one write end at most: that of the stage it is about to close.
OneWriteEnd ==
    pc # "parse" => \A f \in Fd, k \in Stage :
        fds[f] = WriteEnd(k) => Plumbed /\ x < Len(cmds) /\ k = x /\ f = fdout

\* A command holds no write end but that of its own stage.
OwnWriteEnd ==
    pc # "parse" => \A j, k \in Stage : Held(kids[j].fds, WriteEnd(k)) => j = k

\* The numbers that the line will still use or close
Named(f) == /\ f > 2
            /\ \/ \E k \in 1 .. 3 : f = io[k]
               \/ Forking /\ f = fdin
               \/ Plumbed /\ f = fdout
               \/ Plumbed /\ x < Len(cmds) /\ f = fdpipe[1]

\* What is not free is named: nothing leaks.
Tidy == Faults = {} => \A f \in Fd : f > 2 /\ fds[f] # Free => Named(f)

\* What a line needs is free or already its own.
Spare == {f \in Fd : fds[f] = Free \/ Named(f)}
Roomy == Cardinality(Spare) >= 9

\* What is free, and what streams other than k have open
Kept(k) == {f \in Fd : fds[f] = Free \/ (f > 2 /\ \E j \in 1 .. 3 : j # k /\ f = io[j])}

\* The file that > has opened is lost to the second open of >& only if there is room.
Spares(k) == ~set[k] \/ ("ambiguous" \in Faults /\ Cardinality(Kept(k)) >= 9)
Halfway == pc = "both" => Spares(2)

IInv == /\ TypeOK /\ Phase /\ ShellsOwn /\ OwnNumbers /\ Redirected
        /\ Reading /\ Writing /\ OneWriteEnd /\ OwnWriteEnd /\ NoneForked
        /\ Wired /\ ErrWired /\ Tidy /\ Roomy /\ Halfway

-----------------------------------------------------------------------------
(* Descriptor tables.                                                      *)

\* A set of numbers that is not empty has a least one.
LEMMA LeastOf ==
    ASSUME NEW S \in SUBSET Nat, S # {}
    PROVE  Min(S) \in S
<1> DEFINE Below == {ss \in Nat \X Nat : ss[1] < ss[2]}
<1>1. OpToRel(<, Nat) = Below
  BY DEF OpToRel
<1>2. IsWellFoundedOn(Below, Nat)
  BY <1>1, NatLessThanWellFounded
<1>3. PICK m \in S : \A y \in S : ~ (<<y, m>> \in Below)
  <2> HIDE DEF Below
  <2> QED
    BY <1>2, WFMin
<1>4. ASSUME NEW y \in S
      PROVE  m <= y
  <2>1. <<y, m>> \notin Below /\ y \in Nat /\ m \in Nat
    BY <1>3
  <2> QED
    BY <2>1
<1> QED
  BY <1>4 DEF Min

Table == [Fd -> Object]

\* open, pipe and dup take a descriptor that is free, if there is one.
LEMMA LowestIsFree ==
    ASSUME NEW t, \E f \in Fd : t[f] = Free
    PROVE  Lowest(t) \in Fd /\ t[Lowest(t)] = Free
BY LeastOf, BoundAssumption DEF Lowest, Fd

LEMMA Objects ==
    /\ Free \in Object /\ Tty \in Object /\ Old \in Object
    /\ \A i \in 1 .. 3 : File(i) \in Object
    /\ \A k \in Stage : ReadEnd(k) \in Object /\ WriteEnd(k) \in Object
    /\ Tty # Free /\ Old # Free
    /\ \A i : File(i) # Free /\ ReadEnd(i) # Free /\ WriteEnd(i) # Free
    /\ \A i, j : WriteEnd(i) = WriteEnd(j) => i = j
    /\ \A i, j : WriteEnd(i) \notin {Free, Tty, Old, File(j), ReadEnd(j)}
BY DEF Object, Free, Tty, Old, File, ReadEnd, WriteEnd

LEMMA MoveTable ==
    ASSUME NEW t \in Table, NEW f \in Fd, NEW g \in Fd, t[f] # Free
    PROVE  Move(t, f, g) = [h \in Fd |-> IF h = g THEN t[f]
                                         ELSE IF h = f THEN Free ELSE t[h]]
BY DEF Move, Close, Dup2, Table

LEMMA OpenTable ==
    ASSUME NEW t \in Table, NEW o \in Object, \E f \in Fd : t[f] = Free
    PROVE  /\ Open(t, o) \in Table
           /\ Open(t, o) = [f \in Fd |-> IF f = Lowest(t) THEN o ELSE t[f]]
BY LowestIsFree DEF Open, Table

LEMMA CloseTable ==
    ASSUME NEW t \in Table, NEW f
    PROVE  /\ Close(t, f) \in Table
           /\ Close(t, f) = [g \in Fd |-> IF g = f THEN Free ELSE t[g]]
BY Objects DEF Close, Table

\* The three streams of a process, and how they lie in a table
Streams(t, i, o, e) ==
    /\ {i, o, e} \subseteq Fd
    /\ i = 0 \/ i > 2
    /\ o = 1 \/ o > 2
    /\ e = 2 \/ e > 2
    /\ i # o /\ i # e /\ o # e
    /\ t[i] # Free /\ t[o] # Free /\ t[e] # Free

\* setup_process_io puts the streams at 0, 1 and 2 and closes their other numbers.
LEMMA SetupTable ==
    ASSUME NEW t \in Table, NEW i, NEW o, NEW e, Streams(t, i, o, e)
    PROVE  SetupIo(t, i, o, e) =
               [f \in Fd |-> IF f = 0 THEN t[i] ELSE IF f = 1 THEN t[o]
                             ELSE IF f = 2 THEN t[e]
                             ELSE IF f \in {i, o, e} THEN Free ELSE t[f]]
<1>0. {0, 1, 2, i, o, e} \subseteq Fd
  BY BoundAssumption DEF Streams, Fd
<1> DEFINE t1 == [f \in Fd |-> IF f = 0 THEN t[i] ELSE IF f = i THEN Free ELSE t[f]]
           t2 == [f \in Fd |-> IF f = 1 THEN t1[o] ELSE IF f = o THEN Free ELSE t1[f]]
           t3 == [f \in Fd |-> IF f = 2 THEN t2[e] ELSE IF f = e THEN Free ELSE t2[f]]
<1>1. Move(t, i, 0) = t1
  BY <1>0, MoveTable DEF Streams
<1>2. t1 \in Table /\ t1[o] = t[o] /\ t1[e] = t[e] /\ t1[o] # Free
  BY <1>0, Objects DEF Streams, Table
<1>3. Move(t1, o, 1) = t2
  <2> HIDE DEF t1, t2
  <2> QED
    BY <1>0, <1>2, MoveTable DEF t2
<1>4. t2 \in Table /\ t2[e] = t[e] /\ t2[e] # Free
  BY <1>0, <1>2, Objects DEF Streams, Table
<1>5. Move(t2, e, 2) = t3
  <2> HIDE DEF t1, t2, t3
  <2> QED
    BY <1>0, <1>4, MoveTable DEF t3
<1>6. SetupIo(t, i, o, e) = t3
  BY <1>1, <1>3, <1>5 DEF SetupIo
<1>7. \A f \in Fd : t3[f] = IF f = 0 THEN t[i] ELSE IF f = 1 THEN t[o]
                             ELSE IF f = 2 THEN t[e]
                             ELSE IF f \in {i, o, e} THEN Free ELSE t[f]
  BY <1>0, <1>2, <1>4 DEF Streams, Fd
<1> QED
  BY <1>6, <1>7

\* save_io for one stream: nothing, or a duplicate at a number that was free
Saved(T, Q, f, g, A, U) ==
    /\ Save([t |-> T, saved |-> Q], f, g) = [t |-> U, saved |-> Append(Q, A)]
    /\ \/ f = g /\ A = NoFd /\ U = T
       \/ /\ f # g /\ A \in Fd /\ T[A] = Free
          /\ U = [h \in Fd |-> IF h = A THEN Tty ELSE T[h]]

LEMMA SaveOne ==
    ASSUME NEW T \in Table, NEW Q, NEW f, NEW g \in Fd, T[g] = Tty, \E h \in Fd : T[h] = Free
    PROVE  \E A \in Fd \cup {NoFd}, U \in Table : Saved(T, Q, f, g, A, U)
<1>1. CASE f = g
  <2>1. Save([t |-> T, saved |-> Q], f, g) = [t |-> T, saved |-> Append(Q, NoFd)]
    BY <1>1 DEF Save
  <2>2. Saved(T, Q, f, g, NoFd, T)
    BY <1>1, <2>1 DEF Saved
  <2> QED
    BY <2>2
<1>2. CASE f # g
  <2>1. Save([t |-> T, saved |-> Q], f, g) = [t |-> Open(T, Tty), saved |-> Append(Q, Lowest(T))]
    BY <1>2, Objects DEF Save
  <2>2. /\ Open(T, Tty) \in Table
        /\ Open(T, Tty) = [h \in Fd |-> IF h = Lowest(T) THEN Tty ELSE T[h]]
        /\ Lowest(T) \in Fd /\ T[Lowest(T)] = Free
    BY OpenTable, LowestIsFree, Objects
  <2>3. Saved(T, Q, f, g, Lowest(T), Open(T, Tty))
    BY <1>2, <2>1, <2>2 DEF Saved
  <2> QED
    BY <2>2, <2>3
<1> QED
  BY <1>1, <1>2

\* resume_io for one stream: what was saved goes back, if anything was.
LEMMA ResumeOne ==
    ASSUME NEW T \in Table, NEW A \in Fd \cup {NoFd}, NEW g \in Fd, A # g,
           A # NoFd => T[A] # Free
    PROVE  Move(T, A, g) = [h \in Fd |-> IF h = g /\ A # NoFd THEN T[A]
                                         ELSE IF h = A THEN Free ELSE T[h]]
<1>1. CASE A = NoFd
  <2>1. NoFd \notin Fd
    BY BoundAssumption DEF NoFd, Fd
  <2> QED
    BY <1>1, <2>1 DEF Move, Close, Dup2, Table
<1>2. CASE A # NoFd
  BY <1>2, MoveTable
<1> QED
  BY <1>1, <1>2

\* A builtin leaves the shell's own descriptors as they were, and closes the numbers it
\* was given for its input and output.
LEMMA BuiltinTable ==
    ASSUME NEW T \in Table, NEW i, NEW o, Streams(T, i, o, 2),
           \A f \in 0 .. 2 : T[f] = Tty,
           NEW a \in Fd, NEW b \in Fd, a # b, T[a] = Free, T[b] = Free
    PROVE  RunBuiltin("builtin", T, i, o, 2) =
               [f \in Fd |-> IF f > 2 /\ f \in {i, o} THEN Free ELSE T[f]]
<1>0. /\ 0 \in Fd /\ 1 \in Fd /\ 2 \in Fd /\ i \in Fd /\ o \in Fd /\ NoFd \notin Fd
      /\ T[0] = Tty /\ T[1] = Tty /\ T[2] = Tty
  BY BoundAssumption DEF Streams, Fd, NoFd
<1>1. PICK A \in Fd \cup {NoFd}, U \in Table : Saved(T, <<>>, i, 0, A, U)
  <2>1. \E h \in Fd : T[h] = Free
    OBVIOUS
  <2> QED
    BY <1>0, <2>1, SaveOne
<1>2. /\ \A f \in Fd : U[f] = IF f = A THEN Tty ELSE T[f]
      /\ U[1] = Tty /\ U[2] = Tty /\ A # 0
  BY <1>0, <1>1, Objects DEF Saved
<1>3. \E h \in Fd : U[h] = Free
  BY <1>2, Objects
<1>4. PICK B \in Fd \cup {NoFd}, V \in Table : Saved(U, Append(<<>>, A), o, 1, B, V)
  BY <1>0, <1>2, <1>3, SaveOne
<1>5. /\ \A f \in Fd : V[f] = IF f = A \/ f = B THEN Tty ELSE T[f]
      /\ A \in Fd => T[A] = Free
      /\ B \in Fd => T[B] = Free /\ A # B
  BY <1>0, <1>1, <1>2, <1>4, Objects DEF Saved
<1> DEFINE S == Append(Append(Append(<<>>, A), B), NoFd)
<1>6. SaveIo(T, i, o, 2) = [t |-> V, saved |-> S] /\ S[1] = A /\ S[2] = B /\ S[3] = NoFd
  <2>1. Save([t |-> V, saved |-> Append(Append(<<>>, A), B)], 2, 2)
          = [t |-> V, saved |-> S]
    BY DEF Save
  <2>2. S[1] = A /\ S[2] = B /\ S[3] = NoFd
    <3>1. A \in Int /\ B \in Int /\ NoFd \in Int
      BY BoundAssumption DEF Fd, NoFd
    <3>2. /\ Append(<<>>, A) \in Seq(Int) /\ Len(Append(<<>>, A)) = 1
          /\ Append(<<>>, A)[1] = A
      BY <3>1, AppendProperties
    <3>3. /\ Append(Append(<<>>, A), B) \in Seq(Int)
          /\ Len(Append(Append(<<>>, A), B)) = 2
          /\ Append(Append(<<>>, A), B)[1] = A /\ Append(Append(<<>>, A), B)[2] = B
      BY <3>1, <3>2, AppendProperties
    <3> QED
      BY <3>1, <3>3, AppendProperties
  <2>3. SaveIo(T, i, o, 2) = [t |-> V, saved |-> S]
    BY <1>1, <1>4, <2>1 DEF SaveIo, Saved
  <2> QED
    BY <2>2, <2>3
<1> DEFINE R == SetupIo(V, i, o, 2)
<1>7. Streams(V, i, o, 2)
  BY <1>0, <1>5, Objects DEF Streams
<1>8. R = [f \in Fd |-> IF f = 0 THEN V[i] ELSE IF f = 1 THEN V[o]
                        ELSE IF f = 2 THEN V[2]
                        ELSE IF f \in {i, o, 2} THEN Free ELSE V[f]]
  BY <1>7, SetupTable
<1>9. /\ R \in Table
      /\ A \in Fd => R[A] = Tty /\ A \notin {0, 1, 2, i, o}
      /\ B \in Fd => R[B] = Tty /\ B \notin {0, 1, 2, i, o}
      /\ \A f \in Fd : f \notin {0, 1, 2, i, o, A, B} => R[f] = T[f]
      /\ \A f \in Fd : f > 2 /\ f \in {i, o} => R[f] = Free
      /\ R[2] = Tty /\ (i = 0 => R[0] = Tty) /\ (o = 1 => R[1] = Tty)
  <2>1. A \in Fd => A \notin {0, 1, 2, i, o}
    BY <1>0, <1>5, Objects DEF Streams
  <2>2. B \in Fd => B \notin {0, 1, 2, i, o}
    BY <1>0, <1>5, Objects DEF Streams
  <2>3. V[i] \in Object /\ V[o] \in Object
    BY <1>0 DEF Table
  <2> HIDE DEF R
  <2>4. R \in Table
    BY <1>0, <1>8, <2>3, Objects DEF Table
  <2> QED
    BY <1>0, <1>5, <1>8, <2>1, <2>2, <2>4 DEF Streams, Fd
<1> DEFINE R1 == Move(R, A, 0)
           R2 == Move(R1, B, 1)
           R3 == Move(R2, NoFd, 2)
<1> HIDE DEF R
<1>10. R1 = [h \in Fd |-> IF h = 0 /\ A # NoFd THEN R[A] ELSE IF h = A THEN Free ELSE R[h]]
  BY <1>0, <1>9, ResumeOne, Objects
<1>11. R1 \in Table
  <2> HIDE DEF R1
  <2> QED
    BY <1>0, <1>9, <1>10, Objects DEF Table
<1>12. B \in Fd => R1[B] = Tty
  <2> HIDE DEF R1
  <2> QED
    BY <1>0, <1>5, <1>9, <1>10
<1>13. R2 = [h \in Fd |-> IF h = 1 /\ B # NoFd THEN R1[B] ELSE IF h = B THEN Free ELSE R1[h]]
  <2> HIDE DEF R1
  <2> QED
    BY <1>0, <1>9, <1>11, <1>12, ResumeOne, Objects
<1>14. R2 \in Table
  <2> HIDE DEF R1, R2
  <2> QED
    BY <1>0, <1>11, <1>12, <1>13, Objects DEF Table
<1>15. R3 = [h \in Fd |-> IF h = NoFd THEN Free ELSE R2[h]]
  <2> HIDE DEF R1, R2
  <2>1. R3 = [h \in Fd |-> IF h = 2 /\ NoFd # NoFd THEN R2[NoFd] ELSE IF h = NoFd THEN Free ELSE R2[h]]
    BY <1>0, <1>14, ResumeOne
  <2> HIDE DEF R3
  <2> QED
    BY <2>1
<1>16. RunBuiltin("builtin", T, i, o, 2) = R3
  BY <1>6 DEF RunBuiltin, ResumeIo, R
<1>17. \A f \in Fd : R3[f] = IF f > 2 /\ f \in {i, o} THEN Free ELSE T[f]
  <2> HIDE DEF R1, R2, R3
  <2>1. \A f \in Fd : R3[f] = IF f = 1 /\ B # NoFd THEN Tty ELSE IF f = B THEN Free
                              ELSE IF f = 0 /\ A # NoFd THEN Tty ELSE IF f = A THEN Free
                              ELSE R[f]
    BY <1>0, <1>9, <1>10, <1>12, <1>13, <1>15
  <2>2. \A f \in Fd : f \in {0, 1, 2} \/ f > 2
    BY DEF Fd
  <2>3. (A = NoFd <=> i = 0) /\ (B = NoFd <=> o = 1)
    BY <1>0, <1>1, <1>4 DEF Saved
  <2>4. (i = 0 \/ i > 2) /\ (o = 1 \/ o > 2)
    BY DEF Streams
  <2> QED
    BY <1>0, <1>5, <1>9, <2>1, <2>2, <2>3, <2>4
<1>18. R3 = [f \in Fd |-> R3[f]]
  <2> HIDE DEF R1, R2
  <2> HIDE DEF R3
  <2> QED
    BY <1>15
<1> QED
  <2> HIDE DEF R1, R2, R3
  <2> QED
    BY <1>16, <1>17, <1>18

-----------------------------------------------------------------------------
(* Counting.                                                               *)

LEMMA TwoOf ==
    ASSUME NEW S, IsFiniteSet(S), Cardinality(S) >= 2
    PROVE  \E a, b \in S : a # b
<1>1. PICK a : a \in S
  BY FS_EmptySet
<1>2. IsFiniteSet(S \ {a}) /\ Cardinality(S \ {a}) = Cardinality(S) - 1
  BY <1>1, FS_RemoveElement
<1>3. PICK b : b \in S \ {a}
  BY <1>2, FS_EmptySet, FS_CardinalityType
<1> QED
  BY <1>1, <1>3

LEMMA FdIsFinite == IsFiniteSet(Fd)
BY FS_Interval, BoundAssumption DEF Fd

LEMMA SixAtMost ==
    ASSUME NEW a, NEW b, NEW c, NEW d, NEW e, NEW f
    PROVE  IsFiniteSet({a, b, c, d, e, f}) /\ Cardinality({a, b, c, d, e, f}) <= 6
<1> DEFINE M == {a, b, c, d, e, f}
           g == <<a, b, c, d, e, f>>
<1>1. g \in Surjection(1 .. 6, M)
  <2>1. g \in [1 .. 6 -> M]
    OBVIOUS
  <2>2. \A m \in M : \E n \in 1 .. 6 : g[n] = m
    OBVIOUS
  <2> QED
    BY <2>1, <2>2 DEF Surjection
<1>2. IsFiniteSet(1 .. 6) /\ Cardinality(1 .. 6) = 6
  <2>1. ASSUME NEW n \in Nat
        PROVE  IsFiniteSet(1 .. n) /\ Cardinality(1 .. n) = n
    BY FS_Interval
  <2> QED
    BY <2>1
<1> HIDE DEF M, g
<1>3. IsFiniteSet(M) /\ Cardinality(M) <= Cardinality(1 .. 6)
  BY <1>1, <1>2, FS_Surjection
<1> QED
  BY <1>2, <1>3 DEF M

\* No more than six numbers have a name, so that two descriptors at least are free
\* whenever two are to be opened: for a pipe, for >&, and for what a builtin saves.
LEMMA TwoAreFree ==
    ASSUME Roomy
    PROVE  \E a, b \in Fd : a # b /\ fds[a] = Free /\ fds[b] = Free
<1> DEFINE F == {f \in Fd : fds[f] = Free}
           N == {f \in Fd : Named(f)}
           M == {io[1], io[2], io[3], fdin, fdout, fdpipe[1]}
<1>1. Spare = F \cup N
  BY DEF Spare
<1>2. IsFiniteSet(F) /\ IsFiniteSet(N)
  BY FdIsFinite, FS_Subset
<1>3. Cardinality(N) <= 6
  <2>1. N \subseteq M
    BY DEF Named
  <2>2. IsFiniteSet(M) /\ Cardinality(M) <= 6
    BY SixAtMost
  <2> HIDE DEF M, N
  <2>3. Cardinality(N) <= Cardinality(M)
    BY <2>1, <2>2, FS_Subset
  <2> QED
    BY <2>2, <2>3, <1>2, FS_CardinalityType
<1> HIDE DEF N
<1>4. Cardinality(F \cup N) = Cardinality(F) + Cardinality(N) - Cardinality(F \cap N)
  BY <1>2, FS_Union
<1>5. /\ Cardinality(F) \in Nat /\ Cardinality(N) \in Nat
      /\ Cardinality(F \cap N) \in Nat
  BY <1>2, FS_CardinalityType, FS_Intersection
<1>6. Cardinality(F) >= 2
  BY <1>1, <1>3, <1>4, <1>5 DEF Roomy
<1> QED
  BY <1>2, <1>6, TwoOf

\* What was enough stays enough while it does not shrink.
LEMMA MoreIsEnough ==
    ASSUME NEW S \in SUBSET Fd, NEW U \in SUBSET Fd, S \subseteq U, Cardinality(S) >= 9
    PROVE  Cardinality(U) >= 9
<1>1. IsFiniteSet(U) /\ IsFiniteSet(S)
  BY FdIsFinite, FS_Subset
<1>2. Cardinality(S) <= Cardinality(U)
  BY <1>1, FS_Subset
<1> QED
  BY <1>1, <1>2, FS_CardinalityType

LEMMA LineLength ==
    ASSUME NEW line \in Lines
    PROVE  Len(line) \in Stage /\ line \in [1 .. Len(line) -> Kinds]
<1>1. PICK n \in Stage : line \in [1 .. n -> Kinds]
  BY DEF Lines
<1>2. n \in Nat
  BY BoundAssumption DEF Stage
<1>3. Len(line) = n
  BY <1>1, <1>2, LenProperties
<1> QED
  BY <1>1, <1>3

-----------------------------------------------------------------------------
(* The steps.                                                              *)

LEMMA InitInv == Init => IInv
<1> SUFFICES ASSUME Init PROVE IInv
  OBVIOUS
<1> USE DEF Init
<1>1. fds \in Table /\ Empty \in Table /\ kids = NoKids
  BY Objects DEF Fresh, Empty, Table
<1>2. TypeOK
  <2>1. fds \in [Fd -> Object] /\ kids \in [Stage -> [live : BOOLEAN, fds : [Fd -> Object]]]
    BY <1>1 DEF Table, NoKids
  <2>2. io \in Fd \X Fd \X Fd /\ fdin \in Fd \cup {NoFd} /\ fdout \in Fd
    BY BoundAssumption DEF Fd
  <2>3. /\ want \in Object \X Object \X Object /\ set \in BOOLEAN \X BOOLEAN \X BOOLEAN
        /\ fdpipe \in (Fd \cup {NoFd}) \X (Fd \cup {NoFd})
    BY Objects
  <2>4. x \in 1 .. MaxLen + 1 /\ last \in 0 .. MaxLen
    BY BoundAssumption
  <2> QED
    BY <2>1, <2>2, <2>3, <2>4 DEF TypeOK
<1>3. Phase /\ ShellsOwn /\ Redirected /\ Reading /\ Writing /\ OneWriteEnd /\ OwnWriteEnd
      /\ NoneForked /\ Wired /\ ErrWired
  BY BoundAssumption, Objects DEF Phase, ShellsOwn, Redirected, Reading, Writing, OneWriteEnd,
     OwnWriteEnd, NoneForked, Wired, ErrWired, Forking, Plumbed, Fresh, Fd, NoKids, Redirecting
<1>4. OwnNumbers
  BY DEF OwnNumbers
<1>5. Tidy
  <2>1. \A f \in Fd : f > 2 => fds[f] = Free
    BY DEF Fresh, Fd
  <2> QED
    BY <2>1 DEF Tidy
<1>6. Roomy
  <2>1. 3 .. MaxFd \subseteq Spare /\ Spare \in SUBSET Fd
    BY BoundAssumption DEF Spare, Fresh, Fd
  <2>2. Cardinality(3 .. MaxFd) >= 9 /\ 3 .. MaxFd \in SUBSET Fd
    BY BoundAssumption, FS_Interval DEF Fd
  <2> QED
    BY <2>1, <2>2, MoreIsEnough DEF Roomy
<1>h. Halfway
  BY DEF Halfway
<1> QED
  BY <1>h, <1>2, <1>3, <1>4, <1>5, <1>6 DEF IInv

\* What was free or named stays so, or so much was free that nothing had to be.
LEMMA KeepsRoom ==
    ASSUME Roomy, \A f \in Fd : fds[f] = Free \/ Named(f) => fds'[f] = Free \/ Named(f)'
    PROVE  Roomy'
<1>1. Spare \subseteq Spare' /\ Spare \in SUBSET Fd /\ Spare' \in SUBSET Fd
  BY DEF Spare
<1> QED
  BY <1>1, MoreIsEnough DEF Roomy

LEMMA RoomIsEnough ==
    ASSUME Room, \A f \in Fd : fds[f] = Free => fds'[f] = Free
    PROVE  Roomy'
<1> DEFINE F == {f \in Fd : fds[f] = Free}
<1>1. F \subseteq Spare' /\ F \in SUBSET Fd /\ Spare' \in SUBSET Fd
  BY DEF Spare
<1> QED
  BY <1>1, MoreIsEnough DEF Roomy, Room

LEMMA KeptIsEnough ==
    ASSUME NEW k \in 1 .. 3, Cardinality(Kept(k)) >= 9, \A f \in Kept(k) : f \in Spare'
    PROVE  Roomy'
<1>1. Kept(k) \subseteq Spare' /\ Kept(k) \in SUBSET Fd /\ Spare' \in SUBSET Fd
  BY DEF Kept, Spare
<1> QED
  BY <1>1, MoreIsEnough DEF Roomy

LEMMA RoomSpares ==
    ASSUME NEW k \in 1 .. 3, ~set[k] \/ ("ambiguous" \in Faults /\ Room)
    PROVE  Spares(k)
<1> DEFINE F == {f \in Fd : fds[f] = Free}
<1>1. F \subseteq Kept(k) /\ F \in SUBSET Fd /\ Kept(k) \in SUBSET Fd
  BY DEF Kept
<1> QED
  BY <1>1, MoreIsEnough DEF Spares, Room

\* A new line: what is left from the line before is told apart.
LEMMA PipeListInv ==
    ASSUME IInv, NEW line \in Lines, PipeList(line)
    PROVE  IInv'
<1>1. /\ pc = "parse" /\ pc' = "modifiers" /\ cmds' = line /\ kids' = NoKids
      /\ UNCHANGED <<io, want, set, x, fdin, fdout, fdpipe, last>>
      /\ fds' = [f \in Fd |-> IF fds[f] \in {Free, Tty} THEN fds[f] ELSE Old]
      /\ io = <<0, 1, 2>> /\ set = <<FALSE, FALSE, FALSE>> /\ x = 1
      /\ want = <<Tty, Tty, Tty>>
  BY DEF PipeList, IInv, Phase, Redirecting
<1>2. TypeOK'
  <2>1. fds' \in [Fd -> Object]
    BY <1>1, Objects DEF IInv, TypeOK
  <2>2. kids' \in [Stage -> [live : BOOLEAN, fds : [Fd -> Object]]]
    BY <1>1, Objects DEF NoKids, Empty
  <2> QED
    BY <1>1, <2>1, <2>2 DEF IInv, TypeOK
<1>3. /\ \A f \in 0 .. 2 : fds'[f] = Tty
      /\ \A f \in Fd : fds'[f] = Free <=> fds[f] = Free
      /\ \A f \in Fd : fds'[f] \in {Free, Tty, Old}
  <2>1. \A f \in 0 .. 2 : f \in Fd /\ fds[f] = Tty
    BY BoundAssumption DEF Fd, IInv, ShellsOwn
  <2> QED
    BY <1>1, <2>1, Objects
<1>4. Phase' /\ ShellsOwn' /\ Reading' /\ Writing'
  BY <1>1, <1>3 DEF Phase, ShellsOwn, Reading, Writing, Forking, Plumbed, Redirecting
<1>5. OwnNumbers'
  BY <1>1 DEF IInv, OwnNumbers, Redirectable
<1>6. Redirected'
  BY <1>1, <1>3 DEF IInv, OwnNumbers, Redirected, Redirecting
<1>7. OneWriteEnd'
  BY <1>3, Objects DEF OneWriteEnd
<1>8. OwnWriteEnd' /\ NoneForked' /\ Wired' /\ ErrWired'
  BY <1>1, Objects DEF OwnWriteEnd, NoneForked, Wired, ErrWired, NoKids, Empty, Held, Redirecting
<1>9. \A f \in Fd : Named(f)' <=> Named(f)
  BY <1>1 DEF Named, Forking, Plumbed
<1>10. Tidy'
  BY <1>3, <1>9 DEF IInv, Tidy
<1>11. Roomy'
  BY <1>3, <1>9, KeepsRoom DEF IInv
<1>h. Halfway'
  BY <1>1 DEF Halfway
<1> QED
  BY <1>h, <1>2, <1>4, <1>5, <1>6, <1>7, <1>8, <1>10, <1>11 DEF IInv

LEMMA Triple ==
    ASSUME NEW S, NEW u \in S \X S \X S, NEW k \in 1 .. 3, NEW v \in S
    PROVE  /\ [u EXCEPT ![k] = v] \in S \X S \X S
           /\ \A j \in 1 .. 3 : [u EXCEPT ![k] = v][j] = IF j = k THEN v ELSE u[j]
OBVIOUS

LEMMA TripleFlags ==
    ASSUME NEW u \in BOOLEAN \X BOOLEAN \X BOOLEAN, NEW k \in 1 .. 3
    PROVE  /\ [u EXCEPT ![k] = TRUE] \in BOOLEAN \X BOOLEAN \X BOOLEAN
           /\ [u EXCEPT ![k] = FALSE] \in BOOLEAN \X BOOLEAN \X BOOLEAN
           /\ \A j \in 1 .. 3 : ~[u EXCEPT ![k] = TRUE][j] => j # k /\ ~u[j]
           /\ \A j \in 1 .. 3 : ~[u EXCEPT ![k] = FALSE][j] => j = k \/ ~u[j]
           /\ \A j \in 1 .. 3 : j # k /\ ~u[j] =>
                 ~[u EXCEPT ![k] = TRUE][j] /\ ~[u EXCEPT ![k] = FALSE][j]
<1>1. \A S : \A w \in S \X S \X S, e \in S : [w EXCEPT ![k] = e] \in S \X S \X S
  OBVIOUS
<1>2. TRUE \in BOOLEAN /\ FALSE \in BOOLEAN
  OBVIOUS
<1>3. /\ [u EXCEPT ![k] = TRUE] \in BOOLEAN \X BOOLEAN \X BOOLEAN
      /\ [u EXCEPT ![k] = FALSE] \in BOOLEAN \X BOOLEAN \X BOOLEAN
  BY <1>1, <1>2, Zenon
<1>4. \A j \in 1 .. 3 : ~[u EXCEPT ![k] = TRUE][j] => j # k /\ ~u[j]
  OBVIOUS
<1>5. \A j \in 1 .. 3 : ~[u EXCEPT ![k] = FALSE][j] => j = k \/ ~u[j]
  OBVIOUS
<1>6. \A j \in 1 .. 3 : j # k /\ ~u[j] =>
         ~[u EXCEPT ![k] = TRUE][j] /\ ~[u EXCEPT ![k] = FALSE][j]
  OBVIOUS
<1> QED
  BY <1>3, <1>4, <1>5, <1>6

\* While the redirections are read, each stream is open.
LEMMA AreOpen ==
    ASSUME IInv, Redirecting, NEW k \in 1 .. 3
    PROVE  fds[io[k]] = want[k] /\ io[k] \in Fd
<1>1. k = 1 \/ k = 2 \/ k = 3
  OBVIOUS
<1> QED
  BY <1>1 DEF IInv, TypeOK, Redirected, Redirecting

\* What open takes for o, and two calls for o and q: descriptors that were free
Opens(a, o, T) == /\ a \in Fd /\ a > 2 /\ fds[a] = Free /\ Lowest(fds) = a
                  /\ T = Open(fds, o) /\ T \in Table
                  /\ \A f \in Fd : T[f] = IF f = a THEN o ELSE fds[f]

OpensTwo(a, b, o, q, T) ==
    /\ {a, b} \subseteq Fd /\ a > 2 /\ b > 2 /\ a # b /\ fds[a] = Free /\ fds[b] = Free
    /\ Lowest(fds) = a /\ Lowest(Open(fds, o)) = b
    /\ T = Open(Open(fds, o), q) /\ T \in Table
    /\ \A f \in Fd : T[f] = IF f = a THEN o ELSE IF f = b THEN q ELSE fds[f]

LEMMA OpenOne ==
    ASSUME IInv, NEW o \in Object
    PROVE  \E a, T : Opens(a, o, T)
<1>1. fds \in Table /\ \E f \in Fd : fds[f] = Free
  BY TwoAreFree DEF IInv, TypeOK, Table
<1>2. /\ Lowest(fds) \in Fd /\ fds[Lowest(fds)] = Free
      /\ Open(fds, o) \in Table
      /\ Open(fds, o) = [f \in Fd |-> IF f = Lowest(fds) THEN o ELSE fds[f]]
  BY <1>1, LowestIsFree, OpenTable
<1>3. Lowest(fds) > 2
  BY <1>2, Objects DEF IInv, ShellsOwn, Fd
<1>4. Opens(Lowest(fds), o, Open(fds, o))
  BY <1>2, <1>3 DEF Opens
<1> QED
  BY <1>4

LEMMA OpenTwo ==
    ASSUME IInv, NEW o \in Object, o # Free, NEW q \in Object
    PROVE  \E a, b, T : OpensTwo(a, b, o, q, T)
<1>1. PICK a, T : Opens(a, o, T)
  BY OpenOne
<1>2. \E f \in Fd : T[f] = Free
  BY <1>1, TwoAreFree DEF IInv, Opens
<1>3. /\ Lowest(T) \in Fd /\ T[Lowest(T)] = Free
      /\ Open(T, q) \in Table
      /\ Open(T, q) = [f \in Fd |-> IF f = Lowest(T) THEN q ELSE T[f]]
  BY <1>1, <1>2, LowestIsFree, OpenTable DEF Opens
<1>4. Lowest(T) # a /\ fds[Lowest(T)] = Free
  BY <1>1, <1>3 DEF Opens
<1>5. Lowest(T) > 2
  BY <1>3, <1>4, Objects DEF IInv, ShellsOwn, Fd
<1>6. OpensTwo(a, Lowest(T), o, q, Open(T, q))
  BY <1>1, <1>3, <1>4, <1>5 DEF OpensTwo, Opens
<1> QED
  BY <1>6

\* set_in_file, set_out_file and set_err_file are called while a line is read.
ForFile(k) ==
    /\ Redirecting /\ Redirecting' /\ UNCHANGED <<cmds, x, fdin, fdout, fdpipe, kids, last>>
    /\ Spares(k) /\ Halfway'

\* A redirection that opens its file
LEMMA FileOpens ==
    ASSUME IInv, NEW k \in 1 .. 3, NEW i \in 1 .. 3, ForFile(k), k # 3 \/ Redirectable,
           fds' = Open(fds, File(i)), io' = [io EXCEPT ![k] = Lowest(fds)],
           want' = [want EXCEPT ![k] = File(i)], set' = [set EXCEPT ![k] = TRUE]
    PROVE  IInv'
<1>0. /\ Redirecting /\ Redirecting' /\ UNCHANGED <<cmds, x, fdin, fdout, fdpipe, kids, last>>
      /\ Spares(k) /\ Halfway'
  BY DEF ForFile
<1>p. ~Forking /\ ~Forking' /\ ~Plumbed /\ ~Plumbed' /\ pc # "parse" /\ pc' # "parse"
  BY <1>0 DEF Redirecting, Forking, Plumbed
<1>1. PICK L : /\ L \in Fd /\ L > 2 /\ fds[L] = Free /\ Lowest(fds) = L
               /\ fds' \in [Fd -> Object]
               /\ \A f \in Fd : fds'[f] = IF f = L THEN File(i) ELSE fds[f]
  BY OpenOne, Objects DEF Opens, Table
<1>2. \A j \in 1 .. 3 : L # io[j]
  BY <1>p, <1>0, <1>1, AreOpen, Objects DEF IInv, OwnNumbers
<1>3. /\ io' \in Fd \X Fd \X Fd /\ \A j \in 1 .. 3 : io'[j] = IF j = k THEN L ELSE io[j]
      /\ want' \in Object \X Object \X Object
      /\ \A j \in 1 .. 3 : want'[j] = IF j = k THEN File(i) ELSE want[j]
      /\ set' \in BOOLEAN \X BOOLEAN \X BOOLEAN
      /\ \A j \in 1 .. 3 : ~set'[j] => j # k /\ ~set[j]
  <2>1. k \in 1 .. 3 /\ io \in Fd \X Fd \X Fd /\ want \in Object \X Object \X Object
        /\ set \in BOOLEAN \X BOOLEAN \X BOOLEAN /\ File(i) \in Object
    BY Objects DEF IInv, TypeOK
  <2>2. io' \in Fd \X Fd \X Fd /\ \A j \in 1 .. 3 : io'[j] = IF j = k THEN L ELSE io[j]
    BY <1>1, <2>1, Triple
  <2>3. /\ want' \in Object \X Object \X Object
        /\ \A j \in 1 .. 3 : want'[j] = IF j = k THEN File(i) ELSE want[j]
    BY <2>1, Triple
  <2>4. /\ set' \in BOOLEAN \X BOOLEAN \X BOOLEAN
        /\ \A j \in 1 .. 3 : ~set'[j] => j # k /\ ~set[j]
    BY <2>1, TripleFlags, Zenon
  <2> QED
    BY <2>2, <2>3, <2>4
<1>4. TypeOK'
  BY <1>p, <1>0, <1>1, <1>3 DEF IInv, TypeOK, Redirecting
<1>5. Phase' /\ Reading' /\ Writing'
  BY <1>p, <1>0 DEF IInv, Phase, Reading, Writing, Forking, Plumbed, Redirecting
<1>6. ShellsOwn'
  BY <1>1, <1>2, BoundAssumption DEF IInv, ShellsOwn, Fd
<1>7. OwnNumbers'
  BY <1>0, <1>1, <1>2, <1>3 DEF IInv, OwnNumbers, Redirectable
<1>8. Redirected'
  <2>1. \A j \in 1 .. 3 : fds'[io'[j]] = want'[j]
    BY <1>p, <1>0, <1>1, <1>2, <1>3, AreOpen
  <2> QED
    BY <2>1, <1>0 DEF Redirected, Redirecting
<1>9. OneWriteEnd' /\ OwnWriteEnd'
  BY <1>p, <1>0, <1>1, Objects DEF IInv, OneWriteEnd, OwnWriteEnd, Held, Plumbed
<1>10. NoneForked' /\ Wired' /\ ErrWired'
  BY <1>p, <1>0 DEF IInv, NoneForked, Wired, ErrWired, Redirecting
<1>11. /\ \A f \in Fd : f > 2 /\ (\E j \in 1 .. 3 : j # k /\ f = io[j]) => Named(f)'
       /\ Named(L)'
       /\ ~set[k] => \A f \in Fd : Named(f) => Named(f)'
  <2>1. \A f : Named(f) => f > 2 /\ \E j \in 1 .. 3 : f = io[j]
    BY <1>p, <1>0 DEF Named
  <2>2. \A f : f > 2 /\ (\E j \in 1 .. 3 : f = io'[j]) => Named(f)'
    BY DEF Named
  <2>3. ~set[k] => ~ (io[k] > 2)
    BY DEF IInv, OwnNumbers
  <2> QED
    BY <1>1, <1>3, <2>1, <2>2, <2>3
<1>12. Tidy'
  BY <1>p, <1>0, <1>1, <1>11 DEF IInv, Tidy, Spares
<1>13. Roomy'
  <2>1. CASE ~set[k]
    BY <1>1, <1>11, <2>1, KeepsRoom DEF IInv
  <2>2. CASE Cardinality(Kept(k)) >= 9
    <3>1. \A f \in Kept(k) : f \in Spare'
      BY <1>1, <1>11 DEF Kept, Spare
    <3> QED
      BY <3>1, <2>2, KeptIsEnough
  <2> QED
    BY <1>p, <1>0, <2>1, <2>2 DEF Spares
<1> QED
  BY <1>p, <1>0, <1>4, <1>5, <1>6, <1>7, <1>8, <1>9, <1>10, <1>12, <1>13 DEF IInv

\* One that cannot be opened: back to the terminal.
LEMMA FileFails ==
    ASSUME IInv, NEW k \in 1 .. 3, ForFile(k), "open" \in Faults,
           fds' = fds, io' = [io EXCEPT ![k] = k - 1],
           want' = [want EXCEPT ![k] = Tty], set' = [set EXCEPT ![k] = FALSE]
    PROVE  IInv'
<1>0. /\ Redirecting /\ Redirecting' /\ UNCHANGED <<cmds, x, fdin, fdout, fdpipe, kids, last>>
      /\ Spares(k) /\ Halfway'
  BY DEF ForFile
<1>p. ~Forking /\ ~Forking' /\ ~Plumbed /\ ~Plumbed' /\ pc # "parse" /\ pc' # "parse"
  BY <1>0 DEF Redirecting, Forking, Plumbed
<1>1. k - 1 \in Fd /\ k - 1 \in 0 .. 2 /\ fds[k - 1] = Tty
  BY BoundAssumption DEF IInv, ShellsOwn, Fd
<1>2. /\ k \in 1 .. 3 /\ io \in Fd \X Fd \X Fd /\ want \in Object \X Object \X Object
      /\ set \in BOOLEAN \X BOOLEAN \X BOOLEAN /\ Tty \in Object
  BY Objects DEF IInv, TypeOK
<1>3. io' \in Fd \X Fd \X Fd /\ \A j \in 1 .. 3 : io'[j] = IF j = k THEN k - 1 ELSE io[j]
  BY <1>1, <1>2, Triple
<1>4. /\ want' \in Object \X Object \X Object
      /\ \A j \in 1 .. 3 : want'[j] = IF j = k THEN Tty ELSE want[j]
  BY <1>2, Triple
<1>5. /\ set' \in BOOLEAN \X BOOLEAN \X BOOLEAN
      /\ \A j \in 1 .. 3 : ~set'[j] => j = k \/ ~set[j]
  BY <1>2, TripleFlags, Zenon
<1>6. TypeOK'
  BY <1>p, <1>0, <1>3, <1>4, <1>5 DEF IInv, TypeOK, Redirecting
<1>7. Phase' /\ Reading' /\ Writing' /\ ShellsOwn'
  BY <1>p, <1>0 DEF IInv, Phase, Reading, Writing, Forking, Plumbed, ShellsOwn, Redirecting
<1>8. OwnNumbers'
  BY <1>0, <1>3, <1>4, <1>5 DEF IInv, OwnNumbers, Redirectable
<1>9. Redirected'
  <2>1. \A j \in 1 .. 3 : fds'[io'[j]] = want'[j]
    BY <1>p, <1>0, <1>1, <1>3, <1>4, AreOpen
  <2> QED
    BY <2>1, <1>0 DEF Redirected, Redirecting
<1>10. OneWriteEnd' /\ OwnWriteEnd' /\ NoneForked' /\ Wired' /\ ErrWired'
  BY <1>p, <1>0 DEF IInv, OneWriteEnd, OwnWriteEnd, Held, Plumbed, NoneForked, Wired, ErrWired, Redirecting
<1>11. Tidy'
  BY DEF Tidy
<1>12. Roomy'
  <2>0. \A f \in Fd : f > 2 /\ (\E j \in 1 .. 3 : j # k /\ f = io[j]) => Named(f)'
    BY <1>3 DEF Named
  <2>1. CASE ~set[k]
    <3>1. \A f : Named(f) => f > 2 /\ \E j \in 1 .. 3 : f = io[j]
      BY <1>p, <1>0 DEF Named
    <3>2. ~ (io[k] > 2)
      BY <2>1 DEF IInv, OwnNumbers
    <3>3. \A f \in Fd : Named(f) => Named(f)'
      BY <2>0, <3>1, <3>2
    <3> QED
      BY <3>3, KeepsRoom DEF IInv
  <2>2. CASE Cardinality(Kept(k)) >= 9
    <3>1. \A f \in Kept(k) : f \in Spare'
      BY <2>0 DEF Kept, Spare
    <3> QED
      BY <3>1, <2>2, KeptIsEnough
  <2> QED
    BY <1>p, <1>0, <2>1, <2>2 DEF Spares
<1> QED
  BY <1>p, <1>0, <1>6, <1>7, <1>8, <1>9, <1>10, <1>11, <1>12 DEF IInv

\* A redirection finds what it needs.
LEMMA RedirectInv ==
    ASSUME IInv, NEW k \in 1 .. 2, Redirect(k)
    PROVE  IInv'
<1>1. pc = "modifiers" /\ pc' = "modifiers" /\ Spares(k)
      /\ UNCHANGED <<cmds, x, fdin, fdout, fdpipe, kids, last>>
  BY RoomSpares DEF Redirect, locals
<1>2. ForFile(k)
  BY <1>1 DEF ForFile, Redirecting, Halfway
<1> QED
  BY <1>2, FileOpens, FileFails DEF Redirect, SetFile

\* The first half of >& leaves room for the second.
LEMMA RedirectErrInv ==
    ASSUME IInv, RedirectErr
    PROVE  IInv'
<1>1. /\ pc = "modifiers" /\ pc' = "both" /\ Redirectable
      /\ UNCHANGED <<cmds, x, fdin, fdout, fdpipe, kids, last>>
      /\ SetFile(3, File(3))
      /\ (~set[2] /\ ~set[3]) \/ ("ambiguous" \in Faults /\ Room)
  BY DEF RedirectErr, locals
<1>2. Spares(3)
  BY <1>1, RoomSpares DEF Spares
<1>3. Halfway'
  <2>2. CASE ~set[2]
    <3>1. set \in BOOLEAN \X BOOLEAN \X BOOLEAN
      BY DEF IInv, TypeOK
    <3>2. ~[set EXCEPT ![3] = TRUE][2] /\ ~[set EXCEPT ![3] = FALSE][2]
      BY <2>2, <3>1, TripleFlags
    <3>3. set' = [set EXCEPT ![3] = TRUE] \/ set' = [set EXCEPT ![3] = FALSE]
      BY <1>1 DEF SetFile
    <3>4. ~set'[2]
      BY <3>2, <3>3
    <3> QED
      BY <3>4 DEF Halfway, Spares
  <2>3. CASE "ambiguous" \in Faults /\ Room
    <3>1. \A f \in Fd : fds[f] = Free => f \in Kept(2)'
      <4>1. CASE fds' = fds
        BY <4>1 DEF Kept
      <4>2. CASE fds' = Open(fds, File(3)) /\ io' = [io EXCEPT ![3] = Lowest(fds)]
        <5>1. PICK L : /\ L \in Fd /\ L > 2 /\ Lowest(fds) = L
                       /\ \A f \in Fd : fds'[f] = IF f = L THEN File(3) ELSE fds[f]
          BY <4>2, OpenOne, Objects DEF Opens
        <5>2. io'[3] = L
          BY <4>2, <5>1 DEF IInv, TypeOK
        <5> QED
          BY <5>1, <5>2 DEF Kept
      <4>3. \/ fds' = fds
            \/ fds' = Open(fds, File(3)) /\ io' = [io EXCEPT ![3] = Lowest(fds)]
        BY <1>1, Zenon DEF SetFile
      <4> QED
        BY <4>1, <4>2, <4>3
    <3>2. {f \in Fd : fds[f] = Free} \subseteq Kept(2)' /\ Kept(2)' \in SUBSET Fd
      BY <3>1 DEF Kept
    <3>3. Cardinality(Kept(2)') >= 9
      BY <2>3, <3>2, MoreIsEnough DEF Room
    <3>4. Cardinality(Kept(2))' >= 9
      BY <3>3 DEF Kept
    <3> QED
      BY <2>3, <3>4 DEF Halfway, Spares
  <2> QED
    BY <1>1, <2>2, <2>3
<1>4. ForFile(3)
  <2>1. Redirecting /\ Redirecting'
    BY <1>1 DEF Redirecting
  <2>2. UNCHANGED <<cmds, x, fdin, fdout, fdpipe, kids, last>>
    BY <1>1
  <2>3. Spares(3) /\ Halfway'
    BY <1>2, <1>3
  <2> QED
    BY <2>1, <2>2, <2>3 DEF ForFile
<1>5. CASE /\ fds' = Open(fds, File(3)) /\ io' = [io EXCEPT ![3] = Lowest(fds)]
           /\ want' = [want EXCEPT ![3] = File(3)] /\ set' = [set EXCEPT ![3] = TRUE]
  BY <1>1, <1>4, <1>5, FileOpens
<1>6. CASE /\ "open" \in Faults /\ fds' = fds /\ io' = [io EXCEPT ![3] = 3 - 1]
           /\ want' = [want EXCEPT ![3] = Tty] /\ set' = [set EXCEPT ![3] = FALSE]
  BY <1>4, <1>6, FileFails
<1> QED
  BY <1>1, <1>5, <1>6 DEF SetFile

\* The second half, whatever came of the first
LEMMA RedirectOutInv ==
    ASSUME IInv, RedirectOut
    PROVE  IInv'
<1>1. pc = "both" /\ pc' = "modifiers" /\ UNCHANGED <<cmds, x, fdin, fdout, fdpipe, kids, last>>
  BY DEF RedirectOut, locals
<1>2. ForFile(2)
  BY <1>1 DEF ForFile, Redirecting, Halfway, IInv
<1>3. CASE /\ fds' = Open(fds, File(3)) /\ io' = [io EXCEPT ![2] = Lowest(fds)]
           /\ want' = [want EXCEPT ![2] = File(3)] /\ set' = [set EXCEPT ![2] = TRUE]
  BY <1>2, <1>3, FileOpens
<1>4. CASE /\ "open" \in Faults /\ fds' = fds /\ io' = [io EXCEPT ![2] = 2 - 1]
           /\ want' = [want EXCEPT ![2] = Tty] /\ set' = [set EXCEPT ![2] = FALSE]
  BY <1>2, <1>4, FileFails
<1> QED
  BY <1>3, <1>4 DEF RedirectOut, SetFile

\* execute() takes the line's input for its first stage.
LEMMA ExecuteInv ==
    ASSUME IInv, Execute
    PROVE  IInv'
<1>0. /\ pc = "modifiers" /\ pc' = "stage" /\ fdin' = io[1] /\ x = 1 /\ cmds \in Lines
      /\ UNCHANGED <<fds, io, want, set, cmds, x, fdout, fdpipe, kids, last>>
  BY DEF Execute, IInv, Phase, Redirecting
<1>1. fdin' \in Fd /\ fds[io[1]] = want[1] /\ Len(cmds) \in Nat \ {0}
  BY <1>0, AreOpen, LineLength, BoundAssumption DEF Stage, Redirecting
<1>2. TypeOK'
  BY <1>0, <1>1 DEF IInv, TypeOK
<1>3. Phase' /\ ShellsOwn' /\ OwnNumbers' /\ Redirected'
  BY <1>0, <1>1 DEF IInv, Phase, ShellsOwn, OwnNumbers, Redirected, Forking, Redirecting, Redirectable
<1>4. Reading' /\ Writing'
  BY <1>0, <1>1 DEF IInv, OwnNumbers, Reading, Writing, Forking, Plumbed, Source
<1>5. OneWriteEnd' /\ OwnWriteEnd' /\ NoneForked' /\ Wired' /\ ErrWired'
  BY <1>0 DEF IInv, OneWriteEnd, OwnWriteEnd, Held, Plumbed, NoneForked, Wired, ErrWired, Redirecting
<1>6. \A f \in Fd : Named(f) => Named(f)'
  BY <1>0 DEF Named, Forking, Plumbed
<1>7. Tidy' /\ Roomy'
  BY <1>0, <1>6, KeepsRoom DEF IInv, Tidy
<1>h. Halfway'
  BY <1>0 DEF Halfway
<1> QED
  BY <1>h, <1>2, <1>3, <1>4, <1>5, <1>7 DEF IInv

\* The numbers that a stage reads and writes are open and not those of another stream.
LEMMA StageStreams ==
    ASSUME IInv, pc = "run"
    PROVE  /\ Streams(fds, fdin, fdout, io[3])
           /\ x \in Stage /\ Len(cmds) \in Nat /\ x <= Len(cmds) /\ cmds[x] \in Kinds
           /\ fds[fdin] = Source /\ fds[fdout] = Sink /\ fds[io[3]] = want[3]
<1>1. /\ Len(cmds) \in Stage /\ cmds \in [1 .. Len(cmds) -> Kinds] /\ x \in 1 .. Len(cmds)
      /\ Len(cmds) \in Nat /\ x \in Stage
  BY LineLength, BoundAssumption DEF IInv, Phase, Forking, Stage, Redirecting
<1>2. /\ fdin \in Fd /\ fdin \notin {io[2], io[3]} /\ (IF x = 1 THEN fdin = io[1] ELSE fdin > 2)
      /\ fds[fdin] = Source
  BY DEF IInv, Reading, Forking
<1>3. /\ fdout \in Fd /\ fdout \notin {fdin, io[3]} /\ fds[fdout] = Sink
      /\ fdout = io[2] \/ fdout > 2
  <2>1. x = Len(cmds) \/ x < Len(cmds)
    <3>1. \A n \in Nat : \A m \in 1 .. n : m = n \/ m < n
      OBVIOUS
    <3> QED
      BY <1>1, <3>1, Zenon
  <2>2. fdout \in Fd
    BY DEF IInv, TypeOK
  <2> QED
    BY <2>1, <2>2 DEF IInv, Writing, Plumbed
<1>4. /\ io[3] \in Fd /\ io[1] \in Fd /\ (io[1] = 0 \/ io[1] > 2) /\ (io[2] = 1 \/ io[2] > 2)
      /\ (io[3] = 2 \/ io[3] > 2) /\ fds[io[3]] = want[3]
  BY DEF IInv, TypeOK, OwnNumbers, Redirected, Redirecting
<1>5. Source # Free /\ Sink # Free /\ want[3] # Free
  BY Objects DEF IInv, OwnNumbers, Source, Sink
<1> QED
  BY <1>1, <1>2, <1>3, <1>4, <1>5 DEF Streams

\* The pipe to the next stage
LEMMA PlumbPipe ==
    ASSUME IInv, Plumb, x < Len(cmds)
    PROVE  IInv'
<1>0. /\ pc = "stage" /\ pc' = "run"
      /\ UNCHANGED <<io, want, set, cmds, x, fdin, kids, last>>
      /\ fds' = Open(Open(fds, ReadEnd(x)), WriteEnd(x))
      /\ fdpipe' = <<Lowest(fds), Lowest(Open(fds, ReadEnd(x)))>>
      /\ fdout' = Lowest(Open(fds, ReadEnd(x)))
      /\ x \in Stage /\ Len(cmds) \in Nat
  BY LineLength, BoundAssumption DEF Plumb, IInv, Phase, Forking, Stage, Redirecting
<1>1. PICK a, b, T : OpensTwo(a, b, ReadEnd(x), WriteEnd(x), T)
  BY <1>0, OpenTwo, Objects
<1>2. /\ a \in Fd /\ b \in Fd /\ a > 2 /\ b > 2 /\ a # b /\ fds[a] = Free /\ fds[b] = Free
      /\ fdpipe' = <<a, b>> /\ fdout' = b /\ fds' \in [Fd -> Object]
      /\ \A f \in Fd : fds'[f] = IF f = a THEN ReadEnd(x) ELSE IF f = b THEN WriteEnd(x)
                                 ELSE fds[f]
  BY <1>0, <1>1 DEF OpensTwo, Table
<1>3. /\ fdin \in Fd /\ fdin \notin {io[2], io[3]} /\ fds[fdin] = Source
      /\ IF x = 1 THEN fdin = io[1] ELSE fdin > 2
      /\ io[2] \in Fd /\ io[3] \in Fd /\ fds[io[2]] = want[2] /\ fds[io[3]] = want[3]
      /\ Source # Free /\ want[2] # Free /\ want[3] # Free
  BY <1>0, Objects DEF IInv, TypeOK, OwnNumbers, Reading, Redirected, Forking, Source, Redirecting
<1>4. {a, b} \cap {fdin, io[2], io[3]} = {}
  BY <1>2, <1>3
<1>5. TypeOK'
  BY <1>0, <1>2 DEF IInv, TypeOK
<1>6. Phase' /\ OwnNumbers'
  BY <1>0 DEF IInv, Phase, OwnNumbers, Forking, Redirecting, Redirectable
<1>7. ShellsOwn'
  BY <1>2, BoundAssumption DEF IInv, ShellsOwn, Fd
<1>8. Redirected' /\ Reading'
  BY <1>0, <1>2, <1>3, <1>4 DEF Redirected, Reading, Forking, Source, Redirecting
<1>9. Writing'
  <2>1. x # Len(cmds)
    BY <1>0, BoundAssumption DEF Stage
  <2>2. fdpipe'[1] = a /\ fds'[a] = ReadEnd(x) /\ fds'[b] = WriteEnd(x)
    BY <1>2
  <2> QED
    BY <1>0, <1>2, <1>4, <2>1, <2>2 DEF Writing, Plumbed, Sink
<1>10. OneWriteEnd'
  BY <1>0, <1>2, Objects DEF IInv, OneWriteEnd, Plumbed
<1>11. OwnWriteEnd' /\ NoneForked' /\ Wired' /\ ErrWired'
  BY <1>0 DEF IInv, OwnWriteEnd, Held, NoneForked, Wired, ErrWired, Redirecting
<1>12. Named(a)' /\ Named(b)' /\ \A f \in Fd : Named(f) => Named(f)'
  BY <1>0, <1>2 DEF Named, Forking, Plumbed
<1>13. Tidy' /\ Roomy'
  BY <1>2, <1>12, KeepsRoom DEF IInv, Tidy
<1>h. Halfway'
  BY <1>0 DEF Halfway
<1> QED
  BY <1>h, <1>5, <1>6, <1>7, <1>8, <1>9, <1>10, <1>11, <1>13 DEF IInv

\* The last stage writes the line's output.
LEMMA PlumbLast ==
    ASSUME IInv, Plumb, ~ (x < Len(cmds))
    PROVE  IInv'
<1>0. /\ pc = "stage" /\ pc' = "run" /\ x = Len(cmds) /\ fdout' = io[2]
      /\ UNCHANGED <<fds, fdpipe, io, want, set, cmds, x, fdin, kids, last>>
  BY DEF Plumb
<1>1. TypeOK'
  BY <1>0 DEF IInv, TypeOK
<1>2. Phase' /\ ShellsOwn' /\ OwnNumbers' /\ Redirected' /\ Reading'
  BY <1>0 DEF IInv, Phase, ShellsOwn, OwnNumbers, Redirected, Reading, Forking, Source, Redirecting, Redirectable
<1>3. Writing'
  BY <1>0 DEF IInv, Writing, Reading, OwnNumbers, Redirected, Forking, Plumbed, Sink, Redirecting
<1>4. OneWriteEnd' /\ OwnWriteEnd' /\ NoneForked' /\ Wired' /\ ErrWired'
  BY <1>0 DEF IInv, OneWriteEnd, OwnWriteEnd, Held, Plumbed, NoneForked, Wired, ErrWired, Redirecting
<1>5. \A f \in Fd : Named(f) => Named(f)'
  BY <1>0 DEF Named, Forking, Plumbed
<1>6. Tidy' /\ Roomy'
  BY <1>0, <1>5, KeepsRoom DEF IInv, Tidy
<1>h. Halfway'
  BY <1>0 DEF Halfway
<1> QED
  BY <1>h, <1>1, <1>2, <1>3, <1>4, <1>6 DEF IInv

\* The child has its three streams at 0, 1 and 2, and of the write ends its own at most.
LEMMA ForkInv ==
    ASSUME IInv, Fork
    PROVE  IInv'
<1> DEFINE K == SetupIo(fds, fdin, fdout, io[3])
<1>0. /\ pc = "run" /\ pc' = "clean" /\ last' = x
      /\ kids' = [kids EXCEPT ![x] = [live |-> TRUE, fds |-> K]]
      /\ UNCHANGED <<fds, io, want, set, cmds, x, fdin, fdout, fdpipe>>
  BY DEF Fork
<1>1. /\ Streams(fds, fdin, fdout, io[3]) /\ x \in Stage
      /\ fds[fdin] = Source /\ fds[fdout] = Sink /\ fds[io[3]] = want[3]
  BY <1>0, StageStreams
<1>2. /\ fds \in Table /\ 0 \in Fd /\ 1 \in Fd /\ 2 \in Fd
      /\ fdin \in Fd /\ fdout \in Fd /\ io[3] \in Fd
  BY <1>1, BoundAssumption DEF IInv, TypeOK, Table, Fd, Streams
<1>3. K = [f \in Fd |-> IF f = 0 THEN fds[fdin] ELSE IF f = 1 THEN fds[fdout]
                        ELSE IF f = 2 THEN fds[io[3]]
                        ELSE IF f \in {fdin, fdout, io[3]} THEN Free ELSE fds[f]]
  BY <1>1, <1>2, SetupTable
<1> HIDE DEF K
<1>4. K \in [Fd -> Object] /\ K[0] = Source /\ K[1] = Sink /\ K[2] = want[3]
  BY <1>1, <1>2, <1>3, Objects DEF Table
<1>5. ASSUME NEW k \in Stage, Held(K, WriteEnd(k))
      PROVE  k = x
  <2>1. PICK f \in Fd : K[f] = WriteEnd(k)
    BY <1>5 DEF Held
  <2>2. Source # WriteEnd(k) /\ want[3] # WriteEnd(k) /\ want[2] # WriteEnd(k)
    BY Objects DEF IInv, OwnNumbers, Source
  <2>3. CASE f = 1
    BY <1>4, <2>1, <2>2, <2>3, Objects DEF Sink
  <2>4. CASE f # 1
    <3>1. fds[f] = WriteEnd(k) /\ f # fdout
      BY <1>1, <1>2, <1>3, <2>1, <2>2, <2>4, Objects
    <3> QED
      BY <1>0, <3>1 DEF IInv, OneWriteEnd
  <2> QED
    BY <2>3, <2>4
<1>6. \A j \in Stage : kids'[j] = IF j = x THEN [live |-> TRUE, fds |-> K] ELSE kids[j]
  BY <1>0, <1>1 DEF IInv, TypeOK
<1>7. TypeOK'
  <2>1. kids' \in [Stage -> [live : BOOLEAN, fds : [Fd -> Object]]]
    BY <1>0, <1>1, <1>4 DEF IInv, TypeOK
  <2>2. x \in 0 .. MaxLen
    BY <1>1, BoundAssumption DEF Stage
  <2> QED
    BY <1>0, <2>1, <2>2 DEF IInv, TypeOK
<1>8. Phase' /\ ShellsOwn' /\ OwnNumbers' /\ Redirected' /\ Reading' /\ Writing'
  BY <1>0 DEF IInv, Phase, ShellsOwn, OwnNumbers, Redirected, Reading, Writing, Forking, Plumbed, Redirecting, Redirectable
<1>9. OneWriteEnd' /\ NoneForked'
  BY <1>0 DEF IInv, OneWriteEnd, Plumbed, NoneForked, Redirecting
<1>10. OwnWriteEnd'
  <2>1. \A j, k \in Stage : Held(kids'[j].fds, WriteEnd(k)) => j = k
    BY <1>0, <1>5, <1>6 DEF IInv, OwnWriteEnd
  <2> QED
    BY <2>1 DEF OwnWriteEnd
<1>11. Wired' /\ ErrWired'
  BY <1>0, <1>4, <1>6 DEF IInv, Wired, ErrWired, Source, Sink
<1>12. \A f \in Fd : Named(f) => Named(f)'
  BY <1>0 DEF Named, Forking, Plumbed
<1>13. Tidy' /\ Roomy'
  BY <1>0, <1>12, KeepsRoom DEF IInv, Tidy
<1>h. Halfway'
  BY <1>0 DEF Halfway
<1> QED
  BY <1>h, <1>7, <1>8, <1>9, <1>10, <1>11, <1>13 DEF IInv

\* A builtin closes the numbers of its input and output, and those only.
LEMMA BuiltinCloses ==
    ASSUME Sound, IInv, Builtin
    PROVE  /\ fds' \in Table
           /\ \A f \in Fd : fds'[f] # fds[f] => f > 2 /\ f \in {fdin, fdout} /\ fds'[f] = Free
<1>0. pc = "run" /\ cmds[x] # "ext" /\ fds' = RunBuiltin(cmds[x], fds, fdin, fdout, io[3])
  BY DEF Builtin
<1>1. Streams(fds, fdin, fdout, io[3]) /\ cmds[x] \in Kinds /\ fds \in Table
  BY <1>0, StageStreams DEF IInv, TypeOK, Table
<1>2. cmds[x] = "builtin" \/ cmds[x] = "usage"
  BY <1>0, <1>1, KindAssumption DEF Sound
<1>3. CASE cmds[x] = "builtin"
  <2>1. io[3] = 2
    <3>1. "both" \notin Redirections /\ x \in 1 .. Len(cmds)
      BY <1>0, <1>1, <1>3 DEF Sound, IInv, Phase, Forking
    <3>2. ~Redirectable
      BY <1>3, <3>1 DEF Redirectable
    <3> QED
      BY <3>2 DEF IInv, OwnNumbers
  <2>2. PICK a, b \in Fd : a # b /\ fds[a] = Free /\ fds[b] = Free
    BY TwoAreFree DEF IInv
  <2>3. \A f \in 0 .. 2 : fds[f] = Tty
    BY DEF IInv, ShellsOwn
  <2>4. fds' = [f \in Fd |-> IF f > 2 /\ f \in {fdin, fdout} THEN Free ELSE fds[f]]
    BY <1>0, <1>1, <1>3, <2>1, <2>2, <2>3, BuiltinTable
  <2> QED
    BY <1>1, <2>4, Objects DEF Table
<1>4. CASE cmds[x] = "usage"
  BY <1>0, <1>1, <1>4 DEF RunBuiltin
<1> QED
  BY <1>2, <1>3, <1>4

LEMMA BuiltinInv ==
    ASSUME Sound, IInv, Builtin
    PROVE  IInv'
<1>0. /\ pc = "run" /\ pc' = "clean"
      /\ UNCHANGED <<io, want, set, cmds, x, fdin, fdout, fdpipe, kids, last>>
  BY DEF Builtin, locals
<1>1. /\ fds' \in [Fd -> Object]
      /\ \A f \in Fd : fds'[f] # fds[f] => f > 2 /\ f \in {fdin, fdout} /\ fds'[f] = Free
  BY BuiltinCloses DEF Table
<1>2. TypeOK'
  BY <1>0, <1>1 DEF IInv, TypeOK
<1>3. Phase' /\ OwnNumbers'
  BY <1>0 DEF IInv, Phase, OwnNumbers, Forking, Redirecting, Redirectable
<1>4. ShellsOwn'
  BY <1>1, BoundAssumption DEF IInv, ShellsOwn, Fd
<1>5. io[2] \in Fd /\ io[3] \in Fd /\ (x < Len(cmds) => fdpipe[1] \in Fd)
  BY <1>0 DEF IInv, TypeOK, Writing, Plumbed, NoFd
<1>6. Redirected'
  BY <1>0, <1>1, <1>5 DEF IInv, Redirected, Reading, Writing, Forking, Plumbed, Redirecting
<1>7. Reading'
  BY <1>0 DEF IInv, Reading, Forking
<1>8. Writing'
  BY <1>0, <1>1, <1>5 DEF IInv, Writing, Plumbed
<1>9. OneWriteEnd'
  BY <1>0, <1>1, Objects DEF IInv, OneWriteEnd, Plumbed
<1>10. OwnWriteEnd' /\ NoneForked' /\ Wired' /\ ErrWired'
  BY <1>0 DEF IInv, OwnWriteEnd, Held, NoneForked, Wired, ErrWired, Redirecting
<1>11. \A f \in Fd : Named(f) => Named(f)'
  BY <1>0 DEF Named, Forking, Plumbed
<1>12. Tidy' /\ Roomy'
  BY <1>1, <1>11, KeepsRoom DEF IInv, Tidy
<1>h. Halfway'
  BY <1>0 DEF Halfway
<1> QED
  BY <1>h, <1>2, <1>3, <1>4, <1>6, <1>7, <1>8, <1>9, <1>10, <1>12 DEF IInv

\* The shell closes its copies of what the stage had; the read end is the next one's.
LEMMA CleanInv ==
    ASSUME IInv, Clean
    PROVE  IInv'
<1>0. /\ pc = "clean" /\ UNCHANGED <<io, want, set, cmds, fdout, fdpipe, kids, last>>
      /\ fdin' = fdpipe[1] /\ x' = x + 1
      /\ pc' = IF x = Len(cmds) THEN "wait" ELSE "stage"
  BY DEF Clean
<1>1. /\ Len(cmds) \in 1 .. MaxLen /\ x \in 1 .. Len(cmds) /\ cmds \in Lines
      /\ x \in Nat \ {0} /\ x <= MaxLen /\ (x = Len(cmds) \/ x < Len(cmds))
  <2>1. Len(cmds) \in 1 .. MaxLen /\ x \in 1 .. Len(cmds) /\ cmds \in Lines
    BY <1>0, LineLength DEF IInv, Phase, Forking, Stage, Redirecting
  <2>2. \A n \in 1 .. MaxLen : \A m \in 1 .. n :
          m \in Nat \ {0} /\ m <= MaxLen /\ (m = n \/ m < n)
    BY BoundAssumption
  <2> QED
    BY <2>1, <2>2, Zenon
<1>2. /\ fdin \in Fd /\ fdin \notin {io[2], io[3]} /\ fdout \in Fd /\ fdout # io[3]
      /\ fdin # io[1] => fdin > 2
      /\ fdout # io[2] => fdout > 2 /\ x < Len(cmds)
  BY <1>0, <1>1 DEF IInv, TypeOK, Reading, Writing, Forking, Plumbed
<1>3. /\ fds' \in [Fd -> Object]
      /\ \A f \in Fd : fds'[f] = IF (f = fdin /\ fdin # io[1]) \/ (f = fdout /\ fdout # io[2])
                                 THEN Free ELSE fds[f]
  <2> DEFINE T == IF fdin # io[1] THEN Close(fds, fdin) ELSE fds
  <2>1. T \in Table /\ \A f \in Fd : T[f] = IF f = fdin /\ fdin # io[1] THEN Free ELSE fds[f]
    BY CloseTable DEF IInv, TypeOK, Table
  <2>2. fds' = IF fdout # io[2] THEN Close(T, fdout) ELSE T
    BY DEF Clean
  <2> HIDE DEF T
  <2> QED
    BY <2>1, <2>2, CloseTable DEF Table
<1>4. x < Len(cmds) =>
        /\ fdpipe[1] \in Fd /\ fdpipe[1] > 2 /\ fdpipe[1] \notin {io[2], io[3]}
        /\ fdpipe[1] # fdin /\ fdpipe[1] # fdout /\ fds[fdpipe[1]] = ReadEnd(x)
        /\ fdout # io[2]
  BY <1>0 DEF IInv, TypeOK, Writing, Plumbed, NoFd
<1>5. x < Len(cmds) => pc' = "stage" /\ x' \in 1 .. Len(cmds) /\ x' # 1 /\ x' - 1 = x
  BY <1>0, <1>1
<1>6. TypeOK'
  <2>1. fdin' \in Fd \cup {NoFd}
    BY <1>0 DEF IInv, TypeOK
  <2>2. x' \in 1 .. MaxLen + 1
    BY <1>0, <1>1, BoundAssumption
  <2> QED
    BY <1>0, <1>3, <2>1, <2>2 DEF IInv, TypeOK
<1>7. Phase'
  BY <1>0, <1>1, <1>5 DEF Phase, Forking, Redirecting
<1>8. ShellsOwn'
  BY <1>2, <1>3, BoundAssumption DEF IInv, ShellsOwn, Fd
<1>9. OwnNumbers'
  BY <1>0 DEF IInv, OwnNumbers, Redirectable
<1>10. Redirected'
  <2>1. io[2] \in Fd /\ io[3] \in Fd
    BY DEF IInv, TypeOK
  <2> QED
    BY <1>0, <1>1, <1>2, <1>3, <1>4, <2>1 DEF IInv, Redirected, Redirecting
<1>11. Reading'
  BY <1>0, <1>1, <1>3, <1>4, <1>5 DEF Reading, Forking, Source
<1>12. Writing' /\ NoneForked'
  BY <1>0 DEF Writing, Plumbed, NoneForked, Redirecting
<1>13. OneWriteEnd'
  <2>1. ASSUME NEW f \in Fd, NEW k \in Stage, fds'[f] = WriteEnd(k)
        PROVE  FALSE
    <3>1. fds[f] = WriteEnd(k)
      BY <1>3, <2>1, Objects
    <3>2. f = fdout /\ x < Len(cmds)
      BY <1>0, <3>1 DEF IInv, OneWriteEnd
    <3> QED
      BY <1>3, <1>4, <2>1, <3>2, Objects
  <2> QED
    BY <2>1 DEF OneWriteEnd
<1>14. OwnWriteEnd' /\ Wired' /\ ErrWired'
  BY <1>0 DEF IInv, OwnWriteEnd, Held, Wired, ErrWired
<1>15. \A f \in Fd : Named(f) => Named(f)' \/ fds'[f] = Free
  <2>1. ASSUME NEW f \in Fd, f > 2, \E k \in 1 .. 3 : f = io[k]
        PROVE  Named(f)'
    BY <1>0, <2>1 DEF Named
  <2>2. ASSUME NEW f \in Fd, f > 2, x < Len(cmds), f = fdpipe[1]
        PROVE  Named(f)'
    BY <1>0, <1>5, <2>2 DEF Named, Forking
  <2>3. ASSUME NEW f \in Fd, f > 2, f = fdin \/ f = fdout
        PROVE  Named(f)' \/ fds'[f] = Free
    BY <1>0, <1>3, <2>3 DEF Named
  <2> QED
    BY <2>1, <2>2, <2>3 DEF Named
<1>16. Tidy' /\ Roomy'
  BY <1>3, <1>15, KeepsRoom DEF IInv, Tidy
<1>h. Halfway'
  BY <1>0 DEF Halfway
<1> QED
  BY <1>h, <1>6, <1>7, <1>8, <1>9, <1>10, <1>11, <1>12, <1>13, <1>14, <1>16 DEF IInv

\* clear() closes what the line's redirections have opened.
LEMMA ClearInv ==
    ASSUME IInv, Clear, UNCHANGED kids, (Faults # {} /\ Room) \/ pc = "wait"
    PROVE  IInv'
<1>0. /\ fds' = [f \in Fd |-> IF \E k \in 1 .. 3 : f = io[k] /\ io[k] # k - 1
                              THEN Free ELSE fds[f]]
      /\ io' = <<0, 1, 2>> /\ want' = <<Tty, Tty, Tty>> /\ set' = <<FALSE, FALSE, FALSE>>
      /\ cmds' = <<>> /\ x' = 1 /\ last' = 0 /\ fdin' = 0 /\ fdout' = 1
      /\ fdpipe' = <<NoFd, NoFd>> /\ pc' = "parse" /\ kids' = kids
  BY DEF Clear
<1>1. \A k \in 1 .. 3 : io[k] = k - 1 \/ io[k] > 2
  BY DEF IInv, OwnNumbers
<1>2. /\ fds' \in [Fd -> Object]
      /\ \A f \in Fd : fds[f] = Free => fds'[f] = Free
      /\ \A f \in Fd : f > 2 /\ (\E k \in 1 .. 3 : f = io[k]) => fds'[f] = Free
      /\ \A f \in Fd : fds'[f] # Free => fds'[f] = fds[f]
  BY <1>0, <1>1, Objects DEF IInv, TypeOK
<1>3. TypeOK'
  <2>1. io' \in Fd \X Fd \X Fd /\ fdin' \in Fd \cup {NoFd} /\ fdout' \in Fd
    BY <1>0, BoundAssumption DEF Fd
  <2>2. /\ want' \in Object \X Object \X Object /\ set' \in BOOLEAN \X BOOLEAN \X BOOLEAN
        /\ fdpipe' \in (Fd \cup {NoFd}) \X (Fd \cup {NoFd})
    BY <1>0, Objects
  <2>3. x' \in 1 .. MaxLen + 1 /\ last' \in 0 .. MaxLen
    BY <1>0, BoundAssumption
  <2> QED
    BY <1>0, <1>2, <2>1, <2>2, <2>3 DEF IInv, TypeOK
<1>4. Phase' /\ Redirected' /\ Reading' /\ Writing' /\ OneWriteEnd' /\ OwnWriteEnd'
      /\ NoneForked' /\ Wired' /\ ErrWired'
  BY <1>0 DEF Phase, Redirected, Reading, Writing, OneWriteEnd, OwnWriteEnd, NoneForked,
     Wired, ErrWired, Forking, Plumbed, Redirecting
<1>5. ShellsOwn'
  BY <1>0, <1>1, BoundAssumption DEF IInv, ShellsOwn, Fd
<1>6. OwnNumbers'
  BY <1>0 DEF OwnNumbers, Redirectable
<1>7. Tidy'
  <2>1. CASE pc = "wait"
    BY <1>2, <2>1 DEF IInv, Tidy, Named, Forking, Plumbed
  <2>2. CASE Faults # {}
    BY <2>2 DEF Tidy
  <2> QED
    BY <2>1, <2>2
<1>8. Roomy'
  <2>1. CASE pc = "wait"
    <3>1. \A f \in Fd : Named(f) => fds'[f] = Free
      BY <1>2, <2>1 DEF Named, Forking, Plumbed
    <3> QED
      BY <1>2, <3>1, KeepsRoom DEF IInv
  <2>2. CASE Room
    BY <1>2, <2>2, RoomIsEnough
  <2> QED
    BY <2>1, <2>2
<1>h. Halfway'
  BY <1>0 DEF Halfway
<1> QED
  BY <1>h, <1>3, <1>4, <1>5, <1>6, <1>7, <1>8 DEF IInv

LEMMA KeepsPlaces ==
    ASSUME Phase, ShellsOwn, OwnNumbers, Redirected, Reading, Writing, OneWriteEnd, Halfway,
           UNCHANGED <<fds, io, want, set, cmds, x, fdin, fdout, fdpipe, last, pc>>
    PROVE  /\ Phase' /\ ShellsOwn' /\ OwnNumbers' /\ Redirected' /\ Reading' /\ Writing'
           /\ OneWriteEnd' /\ Halfway'
<1>1. Phase' /\ ShellsOwn' /\ OwnNumbers' /\ Redirected'
  BY DEF Phase, ShellsOwn, OwnNumbers, Redirected, Redirecting, Redirectable, Forking
<1>2. Reading' /\ Writing' /\ OneWriteEnd' /\ Halfway'
  BY DEF Reading, Writing, OneWriteEnd, Halfway, Spares, Kept, Forking, Plumbed, Source, Sink
<1> QED
  BY <1>1, <1>2

\* A process that has exited holds nothing.
LEMMA ExitInv ==
    ASSUME IInv, NEW k \in Stage, Exit(k)
    PROVE  IInv'
<1>0. /\ kids' = [kids EXCEPT ![k] = [live |-> FALSE, fds |-> Empty]]
      /\ UNCHANGED <<fds, io, want, set, cmds, x, fdin, fdout, fdpipe, last, pc>>
      /\ kids[k].live
  BY DEF Exit
<1>1. \A j \in Stage : kids'[j] = IF j = k THEN [live |-> FALSE, fds |-> Empty] ELSE kids[j]
  BY <1>0 DEF IInv, TypeOK
<1>2. TypeOK'
  <2>1. kids' \in [Stage -> [live : BOOLEAN, fds : [Fd -> Object]]]
    BY <1>0, Objects DEF IInv, TypeOK, Empty
  <2> QED
    BY <1>0, <2>1 DEF IInv, TypeOK
<1>3. /\ Phase' /\ ShellsOwn' /\ OwnNumbers' /\ Redirected' /\ Reading' /\ Writing'
      /\ OneWriteEnd' /\ Halfway'
  BY <1>0, KeepsPlaces DEF IInv
<1>4. OwnWriteEnd'
  <2>1. \A j \in Stage : ~Held(Empty, WriteEnd(j))
    BY Objects DEF Held, Empty
  <2> QED
    BY <1>0, <1>1, <2>1 DEF IInv, OwnWriteEnd
<1>5. NoneForked' /\ Wired' /\ ErrWired'
  BY <1>0, <1>1 DEF IInv, NoneForked, Wired, ErrWired, Redirecting
<1>6. \A f \in Fd : Named(f)' <=> Named(f)
  BY <1>0 DEF Named, Forking, Plumbed
<1>7. Tidy' /\ Roomy'
  BY <1>0, <1>6, KeepsRoom DEF IInv, Tidy
<1> QED
  BY <1>2, <1>3, <1>4, <1>5, <1>7 DEF IInv

-----------------------------------------------------------------------------
(* Theorems.                                                               *)

LEMMA NextInv == Sound /\ IInv /\ [Next]_vars => IInv'
<1> SUFFICES ASSUME Sound, IInv, [Next]_vars PROVE IInv'
  OBVIOUS
<1>1. CASE Parser
  <2>1. ASSUME NEW k \in 1 .. 2, Redirect(k)
        PROVE  IInv'
    BY <2>1, RedirectInv
  <2>2. CASE RedirectErr \/ RedirectOut
    BY <2>2, RedirectErrInv, RedirectOutInv
  <2> QED
    BY <1>1, <2>1, <2>2, PipeListInv DEF Parser
<1>2. CASE Executor
  <2>1. CASE PipeFails
    BY <2>1, ClearInv DEF PipeFails
  <2>2. CASE ForkFails
    BY <2>2, ClearInv DEF ForkFails
  <2>3. CASE Return
    BY <2>3, ClearInv DEF Return
  <2> QED
    BY <1>2, <2>1, <2>2, <2>3, ExecuteInv, PlumbPipe, PlumbLast, BuiltinInv, ForkInv, CleanInv
       DEF Executor
<1>3. CASE \E k \in Stage : Exit(k)
  BY <1>3, ExitInv
<1>4. CASE UNCHANGED vars
  <2>1. UNCHANGED <<fds, io, want, set, cmds, x, fdin, fdout, fdpipe, kids, last, pc>>
    BY <1>4 DEF vars
  <2>2. \A f \in Fd : Named(f)' <=> Named(f)
    BY <2>1 DEF Named, Forking, Plumbed
  <2>3. Tidy' /\ Roomy'
    BY <2>1, <2>2, KeepsRoom DEF IInv, Tidy
  <2>4. TypeOK'
    BY <2>1 DEF IInv, TypeOK
  <2>5. OwnWriteEnd' /\ NoneForked' /\ Wired' /\ ErrWired'
    BY <2>1 DEF IInv, OwnWriteEnd, NoneForked, Wired, ErrWired, Held, Redirecting
  <2> QED
    BY <2>1, <2>3, <2>4, <2>5, KeepsPlaces DEF IInv
<1> QED
  BY <1>1, <1>2, <1>3, <1>4 DEF Next

\* The invariant holds of every behaviour of lines that are Sound.
LEMMA Invariance == ASSUME Sound PROVE Spec => []IInv
BY InitInv, NextInv, PTL DEF Spec

\* Every variable keeps to its domain: no descriptor is used that the table has not.
THEOREM TypeCorrect == ASSUME Sound PROVE Spec => []TypeOK
<1>1. IInv => TypeOK
  BY DEF IInv
<1> QED
  BY <1>1, Invariance, PTL

\* Whatever fails in a line, the shell's own input, output and error stay: what save_io
\* put aside goes back, and nothing else is done to 0, 1 and 2.
THEOREM StdStaysIntact == ASSUME Sound PROVE Spec => []StdIntact
<1>1. IInv => StdIntact
  BY DEF IInv, ShellsOwn, StdIntact
<1> QED
  BY <1>1, Invariance, PTL

\* The command of every stage reads and writes what the line says.
THEOREM StagesAreWired == ASSUME Sound PROVE Spec => []Wired
<1>1. IInv => Wired
  BY DEF IInv
<1> QED
  BY <1>1, Invariance, PTL

\* The error output of every command is the line's.
THEOREM ErrorsAreWired == ASSUME Sound PROVE Spec => []ErrWired
<1>1. IInv => ErrWired
  BY DEF IInv
<1> QED
  BY <1>1, Invariance, PTL

\* When the shell waits, the write end of a pipe is with the command that writes it.
THEOREM WritersAreAlone == ASSUME Sound PROVE Spec => []OnlyWriterHolds
<1>1. IInv => OnlyWriterHolds
  BY DEF IInv, OneWriteEnd, OwnWriteEnd, OnlyWriterHolds, Held, Plumbed
<1> QED
  BY <1>1, Invariance, PTL

\* If no call fails and no redirection is typed twice, nothing is left open.
THEOREM TableIsRestored == ASSUME Sound, Faults = {} PROVE Spec => []TableRestored
<1>1. IInv => TableRestored
  <2> SUFFICES ASSUME IInv, pc = "parse" PROVE fds = Fresh
    BY DEF TableRestored
  <2>1. \A k \in 1 .. 3 : ~ (io[k] > 2)
    BY DEF IInv, Phase, Redirecting
  <2>2. \A f \in Fd : f > 2 => fds[f] = Free
    BY <2>1 DEF IInv, Tidy, Named, Forking, Plumbed
  <2>3. \A f \in Fd : f <= 2 => fds[f] = Tty
    BY DEF IInv, ShellsOwn, Fd
  <2>4. \A f \in Fd : f > 2 \/ f <= 2
    BY DEF Fd
  <2> QED
    BY <2>2, <2>3, <2>4 DEF IInv, TypeOK, Fresh
<1> QED
  BY <1>1, Invariance, PTL

=============================================================================
