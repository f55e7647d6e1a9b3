--------------------------- MODULE SubshellProofs ---------------------------
(***************************************************************************)
(* What holds of Subshell for pipes, buffers, texts and a descriptor table *)
(* of any size, over any number of substitutions: that the shell has its   *)
(* standard input and output back after a substitution that could keep     *)
(* them, and that what goes before the scanner is all that the             *)
(* substitution prints.                                                    *)
(*                                                                         *)
(* The first is a matter of how many descriptors are free.  Six make room  *)
(* for both pipes and both copies; with fewer the shell runs, but never    *)
(* gets its standard output back, and then never has six again.  The other *)
(* one follows each unit from the line that prints it to the buffer.       *)
(***************************************************************************)
EXTENDS Subshell, SequenceTheorems, FiniteSetTheorems, WellFoundedInduction, TLAPS

Object == {"tty", "free", "oneRead", "oneWrite", "twoRead", "twoWrite", "left"}
Table == [Fds -> Object]
LineRecord == [puts : Seq(STRING), quits : BOOLEAN, later : Seq(STRING)]

NumberFree(f) == Cardinality(Free(f))

-----------------------------------------------------------------------------
(* The inductive invariant.                                                *)

Kept == tempOut # None

\* What TypeOK leaves to the sequences
Typed ==
    /\ text \in Seq(LineRecord) /\ buffer \in Seq(STRING) /\ out \in Seq(STRING)
    /\ prints \in Seq(STRING) /\ late \in Seq(Seq(STRING))
    /\ sent \in Nat /\ got \in Nat /\ count \in Nat
    /\ shell = "writes" => sent < Len(text)

\* Standard input, output and error are always open, if not to the terminal.
StdOpen == /\ \A n \in 0 .. 2 : fd[n] # "free"
           /\ fd[0] \in {"tty", "twoRead"}

\* While the shell writes it has the write end of the second pipe, once, and never else.
Plumbed ==
    /\ shell = "writes" =>
          \E w \in 3 .. MaxFd : fd[w] = "twoWrite" /\ \A n \in Fds : fd[n] = "twoWrite" => n = w
    /\ shell \in {"idle", "reads", "waits"} => \A n \in Fds : fd[n] # "twoWrite"
    /\ shell \in {"writes", "reads"} /\ tempIn # None =>
          tempIn \in 3 .. MaxFd /\ fd[tempIn] \in {"tty", "twoRead"}

\* Standard output could not be kept: as little was free, and will ever be.
Lost ==
    ~Kept => /\ shell = "writes" => NumberFree(fd) <= 3
             /\ shell = "reads" => NumberFree(fd) <= 4
             /\ shell = "waits" => NumberFree(fd) <= 5

\* It was kept: enough is free for the next time.
Enough ==
    Kept => /\ shell = "writes" => NumberFree(fd) >= 2
            /\ shell = "reads" => NumberFree(fd) >= 4
            /\ shell \in {"waits", "idle"} => NumberFree(fd) >= 5

\* What the shell has done so far can be undone.
Undoable == \/ shell \in {"writes", "reads", "waits"} /\ Kept
            \/ shell = "idle" /\ (Kept \/ NumberFree(fd) >= 6)

\* Where everything is, then
Saved ==
    Undoable =>
        /\ shell \in {"writes", "reads"} => tempIn \in 3 .. MaxFd /\ fd[tempIn] = "tty"
        /\ shell = "writes" => /\ tempOut \in 3 .. MaxFd \ {tempIn} /\ fd[tempOut] = "tty"
        /\ shell \in {"waits", "idle"} => fd[0] = "tty"
        /\ shell \in {"reads", "waits", "idle"} => fd[1] = "tty"
        /\ fd[2] = "tty"
        /\ \A n \in 3 .. MaxFd :
              \/ fd[n] \in {"free", "left"}
              \/ fd[n] = "oneRead" /\ shell # "idle"
              \/ n = tempIn /\ shell \in {"writes", "reads"}
              \/ (n = tempOut \/ fd[n] = "twoWrite") /\ shell = "writes"

\* The read ends of first pipes that nobody closes, the present one among them
Spent(f) == {n \in Fds : f[n] \in {"left", "oneRead"}}
FewSpent == Undoable => Cardinality(Spent(fd)) <= count

IInv == /\ TypeOK /\ Typed /\ StdOpen /\ Plumbed
        /\ Lost /\ Enough /\ Saved /\ FewSpent

-----------------------------------------------------------------------------
(* Descriptors.                                                            *)

LEMMA LeastOf ==
    ASSUME NEW S \in SUBSET Nat, S # {}
    PROVE  Min(S) \in S
<1> DEFINE Below == {ss \in Nat \X Nat : ss[1] < ss[2]}
<1>1. OpToRel(<, Nat) = Below
  BY DEF OpToRel
<1>2. IsWellFoundedOn(Below, Nat)
  BY <1>1, NatLessThanWellFounded
<1>3. PICK m \in S : \A y \in S : ~ (<<y, m>> \in Below)
  <2> HIDE DEF Below
  <2> QED
    BY <1>2, WFMin
<1>4. ASSUME NEW y \in S
      PROVE  m <= y
  <2>1. <<y, m>> \notin Below /\ y \in Nat /\ m \in Nat
    BY <1>3
  <2> QED
    BY <2>1
<1> QED
  BY <1>4 DEF Min

LEMMA FdsFinite == IsFiniteSet(Fds) /\ Fds \subseteq Nat /\ 0 .. 2 \subseteq Fds /\ None \notin Fds
<1>1. 0 \in Int /\ MaxFd \in Int
  BY BoundAssumption
<1>2. IsFiniteSet(Fds)
  BY <1>1, FS_Interval DEF Fds
<1>3. Fds \subseteq Nat /\ 0 .. 2 \subseteq Fds /\ None \notin Fds
  BY BoundAssumption DEF Fds, None
<1> QED
  BY <1>2, <1>3

\* The free descriptors are finitely many, and can be counted.
LEMMA FreeIsFinite ==
    ASSUME NEW f
    PROVE  IsFiniteSet(Free(f)) /\ NumberFree(f) \in Nat /\ Free(f) \subseteq Fds
<1>1. Free(f) \in SUBSET Fds
  BY DEF Free
<1>2. IsFiniteSet(Free(f))
  BY <1>1, FdsFinite, FS_Subset
<1> QED
  BY <1>1, <1>2, FS_CardinalityType DEF NumberFree

LEMMA FewerFree ==
    ASSUME NEW f, NEW g, Free(f) \subseteq Free(g)
    PROVE  NumberFree(f) <= NumberFree(g)
BY FreeIsFinite, FS_Subset DEF NumberFree

\* One more that is free, at most
LEMMA OneMoreFree ==
    ASSUME NEW f, NEW g, NEW n, Free(g) \subseteq Free(f) \cup {n}
    PROVE  NumberFree(g) <= NumberFree(f) + 1
<1>1. IsFiniteSet(Free(f)) /\ IsFiniteSet(Free(g)) /\ NumberFree(f) \in Nat /\ NumberFree(g) \in Nat
  BY FreeIsFinite
<1>2. /\ IsFiniteSet(Free(f) \cup {n})
      /\ Cardinality(Free(f) \cup {n}) \in {NumberFree(f), NumberFree(f) + 1}
  BY <1>1, FS_AddElement DEF NumberFree
<1>3. NumberFree(g) <= Cardinality(Free(f) \cup {n})
  BY <1>2, FS_Subset DEF NumberFree
<1> QED
  BY <1>1, <1>2, <1>3

\* One that is free more, at least
LEMMA FreesOne ==
    ASSUME NEW f, NEW g, NEW n \in Fds, f[n] # "free", g[n] = "free", Free(f) \subseteq Free(g)
    PROVE  NumberFree(g) >= NumberFree(f) + 1
<1>1. IsFiniteSet(Free(f)) /\ IsFiniteSet(Free(g)) /\ NumberFree(f) \in Nat /\ NumberFree(g) \in Nat
  BY FreeIsFinite
<1>2. n \notin Free(f) /\ n \in Free(g)
  BY DEF Free
<1>3. Cardinality(Free(f) \cup {n}) = NumberFree(f) + 1
  BY <1>1, <1>2, FS_AddElement DEF NumberFree
<1>4. Free(f) \cup {n} \in SUBSET Free(g)
  BY <1>2
<1>5. Cardinality(Free(f) \cup {n}) <= NumberFree(g)
  BY <1>1, <1>4, FS_Subset DEF NumberFree
<1> QED
  BY <1>1, <1>3, <1>5

\* Opening takes one that is free, if there is one.
LEMMA OpenOne ==
    ASSUME NEW f \in Table, NEW file \in Object \ {"free"}, NumberFree(f) > 0
    PROVE  /\ Lowest(f) \in Fds /\ f[Lowest(f)] = "free"
           /\ Open(f, file) = [f EXCEPT ![Lowest(f)] = file]
           /\ Open(f, file) \in Table
           /\ NumberFree(Open(f, file)) = NumberFree(f) - 1
<1>1. IsFiniteSet(Free(f)) /\ NumberFree(f) \in Nat /\ Free(f) \in SUBSET Nat
  BY FreeIsFinite, FdsFinite
<1>2. Free(f) # {}
  BY <1>1, FS_EmptySet DEF NumberFree
<1>3. Lowest(f) = Min(Free(f)) /\ Lowest(f) \in Free(f)
  BY <1>1, <1>2, LeastOf DEF Lowest
<1>4. Lowest(f) \in Fds /\ f[Lowest(f)] = "free"
  BY <1>3 DEF Free
<1>5. Open(f, file) = [f EXCEPT ![Lowest(f)] = file]
  BY <1>2 DEF Open
<1>6. Open(f, file) \in Table
  BY <1>4, <1>5 DEF Table
<1>7. Free(Open(f, file)) = Free(f) \ {Lowest(f)}
  BY <1>4, <1>5 DEF Free, Table
<1>8. NumberFree(Open(f, file)) = NumberFree(f) - 1
  BY <1>1, <1>3, <1>7, FS_RemoveElement DEF NumberFree
<1> QED
  BY <1>4, <1>5, <1>6, <1>8

\* ... and otherwise nothing.
LEMMA OpenNone ==
    ASSUME NEW f, NEW file, NumberFree(f) = 0
    PROVE  Lowest(f) = None /\ Open(f, file) = f
<1>1. Free(f) = {}
  BY FreeIsFinite, FS_EmptySet DEF NumberFree
<1> QED
  BY <1>1 DEF Lowest, Open

-----------------------------------------------------------------------------
(* The steps.                                                              *)

\* What a substitution does to the descriptors: a and d are what is left of the pipes.
Replugged(a, d) ==
    /\ a \in 3 .. MaxFd /\ d \in 3 .. MaxFd \ {a} /\ fd[a] = "free" /\ fd[d] = "free"
    /\ tempIn' = None <=> NumberFree(fd) = 4
    /\ tempOut' = None <=> NumberFree(fd) <= 5
    /\ tempIn' # None => tempIn' \in 3 .. MaxFd \ {a, d} /\ fd[tempIn'] = "free"
    /\ tempOut' # None => tempOut' \in 3 .. MaxFd \ {a, d, tempIn'} /\ fd[tempOut'] = "free"
    /\ fd' \in Table
    /\ \A n \in Fds : fd'[n] = IF n = 0 THEN "twoRead" ELSE IF n = 1 THEN "oneWrite"
                               ELSE IF n = a THEN "oneRead" ELSE IF n = d THEN "twoWrite"
                               ELSE IF n = tempIn' THEN fd[0] ELSE IF n = tempOut' THEN fd[1]
                               ELSE fd[n]

\* A copy of what is open under the number n, under the lowest free number, if there is one
LEMMA CopyOne ==
    ASSUME NEW f \in Table, NEW file \in Object \ {"free"}
    PROVE  /\ Open(f, file) \in Table
           /\ Lowest(f) = None <=> NumberFree(f) = 0
           /\ Lowest(f) # None => Lowest(f) \in Fds /\ f[Lowest(f)] = "free"
           /\ \A n \in Fds : Open(f, file)[n] = IF n = Lowest(f) THEN file ELSE f[n]
           /\ NumberFree(Open(f, file)) = IF NumberFree(f) = 0 THEN 0 ELSE NumberFree(f) - 1
<1>1. NumberFree(f) \in Nat
  BY FreeIsFinite
<1>2. CASE NumberFree(f) = 0
  <2>1. Lowest(f) = None /\ Open(f, file) = f
    BY <1>2, OpenNone
  <2> QED
    BY <1>2, <2>1, FdsFinite
<1>3. CASE NumberFree(f) > 0
  <2>1. /\ Lowest(f) \in Fds /\ f[Lowest(f)] = "free"
        /\ Open(f, file) = [f EXCEPT ![Lowest(f)] = file] /\ Open(f, file) \in Table
        /\ NumberFree(Open(f, file)) = NumberFree(f) - 1
    BY <1>3, OpenOne
  <2>2. \A n \in Fds : Open(f, file)[n] = IF n = Lowest(f) THEN file ELSE f[n]
    BY <2>1 DEF Table
  <2> QED
    BY <1>1, <1>3, <2>1, <2>2, FdsFinite
<1> QED
  BY <1>1, <1>2, <1>3

\* A pipe takes two descriptors that are free.
LEMMA PipeTwo ==
    ASSUME NEW f \in Table, NEW r \in Object \ {"free"}, NEW w \in Object \ {"free"},
           NumberFree(f) >= 2
    PROVE  /\ Pipe(f, r, w) \in Table
           /\ Lowest(f) \in Fds /\ f[Lowest(f)] = "free"
           /\ Lowest(Open(f, r)) \in Fds /\ f[Lowest(Open(f, r))] = "free"
           /\ Lowest(Open(f, r)) # Lowest(f)
           /\ \A n \in Fds : Pipe(f, r, w)[n] = IF n = Lowest(f) THEN r
                                                ELSE IF n = Lowest(Open(f, r)) THEN w ELSE f[n]
           /\ NumberFree(Pipe(f, r, w)) = NumberFree(f) - 2
<1>1. NumberFree(f) \in Nat
  BY FreeIsFinite
<1>2. /\ Lowest(f) \in Fds /\ f[Lowest(f)] = "free"
      /\ Open(f, r) = [f EXCEPT ![Lowest(f)] = r] /\ Open(f, r) \in Table
      /\ NumberFree(Open(f, r)) = NumberFree(f) - 1
  BY <1>1, OpenOne
<1> DEFINE g == Open(f, r)
<1>3. /\ Lowest(g) \in Fds /\ g[Lowest(g)] = "free"
      /\ Open(g, w) = [g EXCEPT ![Lowest(g)] = w] /\ Open(g, w) \in Table
      /\ NumberFree(Open(g, w)) = NumberFree(g) - 1
  <2> HIDE DEF g
  <2>1. g \in Table /\ NumberFree(g) > 0
    BY <1>1, <1>2 DEF g
  <2> QED
    BY <2>1, OpenOne
<1>4. Pipe(f, r, w) = Open(g, w)
  BY <1>1 DEF Pipe, NumberFree
<1>5. Lowest(g) # Lowest(f) /\ f[Lowest(g)] = "free"
  BY <1>2, <1>3 DEF Table
<1>6. \A n \in Fds : Open(g, w)[n] = IF n = Lowest(f) THEN r
                                     ELSE IF n = Lowest(g) THEN w ELSE f[n]
  <2> HIDE DEF g
  <2> QED
    BY <1>2, <1>3, <1>5 DEF Table, g
<1>7. NumberFree(Open(g, w)) = NumberFree(f) - 2
  BY <1>1, <1>2, <1>3
<1> QED
  BY <1>2, <1>3, <1>4, <1>5, <1>6, <1>7

LEMMA SubstituteReplugs ==
    ASSUME NEW t, NEW forked, fd \in Table, StdOpen, Substitute(t, forked), NumberFree(fd) >= 4
    PROVE  \E a, d \in Fds : Replugged(a, d)
<1> DEFINE one == Pipe(fd, "oneRead", "oneWrite")
           two == Pipe(one, "twoRead", "twoWrite")
           a == Lowest(fd)
           b == Lowest(Open(fd, "oneRead"))
           c == Lowest(one)
           d == Lowest(Open(one, "twoRead"))
           in == Lowest(two)
           keptIn == Open(two, fd[0])
           res == Lowest(keptIn)
           kept == Open(keptIn, fd[1])
           output == Close(Dup2(kept, b, 1), b)
           input == Close(Dup2(output, c, 0), c)
<1>1. fd' = input /\ tempIn' = in /\ tempOut' = res
  BY DEF Substitute, NumberFree
<1>2. NumberFree(fd) \in Nat /\ fd[0] \in Object \ {"free"} /\ fd[1] \in Object \ {"free"}
  BY FreeIsFinite, FdsFinite DEF StdOpen, Table
<1>3. /\ one \in Table /\ a \in Fds /\ fd[a] = "free" /\ b \in Fds /\ fd[b] = "free" /\ a # b
      /\ \A n \in Fds : one[n] = IF n = a THEN "oneRead" ELSE IF n = b THEN "oneWrite" ELSE fd[n]
      /\ NumberFree(one) = NumberFree(fd) - 2
  BY <1>2, PipeTwo DEF Object
<1> HIDE DEF one, a, b
<1>4. /\ two \in Table /\ c \in Fds /\ one[c] = "free" /\ d \in Fds /\ one[d] = "free" /\ c # d
      /\ \A n \in Fds : two[n] = IF n = c THEN "twoRead" ELSE IF n = d THEN "twoWrite" ELSE one[n]
      /\ NumberFree(two) = NumberFree(one) - 2
  BY <1>2, <1>3, PipeTwo DEF Object
<1> HIDE DEF two, c, d
<1>5. /\ keptIn \in Table
      /\ in = None <=> NumberFree(two) = 0
      /\ in # None => in \in Fds /\ two[in] = "free"
      /\ \A n \in Fds : keptIn[n] = IF n = in THEN fd[0] ELSE two[n]
      /\ NumberFree(keptIn) = IF NumberFree(two) = 0 THEN 0 ELSE NumberFree(two) - 1
  BY <1>2, <1>4, CopyOne
<1> HIDE DEF keptIn, in
<1>6. /\ kept \in Table
      /\ res = None <=> NumberFree(keptIn) = 0
      /\ res # None => res \in Fds /\ keptIn[res] = "free"
      /\ \A n \in Fds : kept[n] = IF n = res THEN fd[1] ELSE keptIn[n]
  BY <1>2, <1>5, CopyOne
<1> HIDE DEF kept, res
<1>7. /\ output \in Table
      /\ \A n \in Fds : output[n] = IF n = b THEN "free" ELSE IF n = 1 THEN kept[b] ELSE kept[n]
  <2>1. 1 \in Fds /\ b \in Fds /\ b # 1 /\ kept[b] \in Object
    BY <1>3, <1>6, FdsFinite DEF StdOpen, Table
  <2>2. output = [[kept EXCEPT ![1] = kept[b]] EXCEPT ![b] = "free"]
    BY <2>1 DEF Dup2, Close
  <2> QED
    BY <2>1, <2>2, <1>6 DEF Table, Object
<1> HIDE DEF output
<1>8. /\ input \in Table
      /\ \A n \in Fds : input[n] = IF n = c THEN "free" ELSE IF n = 0 THEN output[c] ELSE output[n]
  <2>1. 0 \in Fds /\ c \in Fds /\ c # 0 /\ output[c] \in Object
    BY <1>3, <1>4, <1>7, FdsFinite DEF StdOpen, Table
  <2>2. input = [[output EXCEPT ![0] = output[c]] EXCEPT ![c] = "free"]
    BY <2>1 DEF Dup2, Close
  <2> QED
    BY <2>1, <2>2, <1>7 DEF Table, Object
<1> HIDE DEF input
<1>9. \A n \in Fds : fd[n] = "free" => n \in 3 .. MaxFd
  BY BoundAssumption DEF StdOpen, Fds
<1>10. /\ in # None => in \in Fds \ {a, b, c, d} /\ fd[in] = "free"
       /\ res # None => res \in Fds \ {a, b, c, d, in} /\ fd[res] = "free"
       /\ {a, b, c, d} \subseteq Fds /\ a # c /\ a # d /\ b # c /\ b # d /\ c # d /\ a # b
       /\ fd[c] = "free" /\ fd[d] = "free"
  <2>1. fd[c] = "free" /\ fd[d] = "free" /\ c \notin {a, b} /\ d \notin {a, b}
    BY <1>3, <1>4
  <2>2. in # None => in \in Fds \ {a, b, c, d} /\ fd[in] = "free"
    BY <1>3, <1>4, <1>5
  <2>3. res # None => res \in Fds \ {a, b, c, d, in} /\ fd[res] = "free"
    BY <1>2, <1>3, <1>4, <1>5, <1>6
  <2> QED
    BY <2>1, <2>2, <2>3, <1>3, <1>4
<1>11. in = None <=> NumberFree(fd) = 4
  BY <1>2, <1>3, <1>4, <1>5
<1>12. res = None <=> NumberFree(fd) <= 5
  BY <1>2, <1>3, <1>4, <1>5, <1>6
<1>13. b \in 3 .. MaxFd /\ c \in 3 .. MaxFd
  BY <1>9, <1>10, <1>3
<1>14. ASSUME NEW n \in Fds
       PROVE  input[n] = IF n = 0 THEN "twoRead" ELSE IF n = 1 THEN "oneWrite"
                         ELSE IF n = a THEN "oneRead" ELSE IF n = d THEN "twoWrite"
                         ELSE IF n = in THEN fd[0] ELSE IF n = res THEN fd[1] ELSE fd[n]
  <2>1. kept[b] = "oneWrite" /\ kept[c] = "twoRead"
    BY <1>3, <1>4, <1>5, <1>6, <1>10, FdsFinite
  <2>2. output[c] = "twoRead"
    BY <1>7, <1>10, <1>13, <2>1
  <2>3. kept[n] = IF n = a THEN "oneRead" ELSE IF n = d THEN "twoWrite"
                  ELSE IF n = in THEN fd[0] ELSE IF n = res THEN fd[1]
                  ELSE IF n = b THEN "oneWrite" ELSE IF n = c THEN "twoRead" ELSE fd[n]
    BY <1>3, <1>4, <1>5, <1>6, <1>10, FdsFinite
  <2>4. CASE n = b \/ n = c
    <3>1. input[n] = "free" /\ fd[n] = "free"
      BY <2>4, <1>3, <1>7, <1>8, <1>10, <1>13
    <3> QED
      BY <2>4, <3>1, <1>10, <1>13, FdsFinite
  <2>5. CASE n # b /\ n # c
    <3>1. input[n] = IF n = 0 THEN "twoRead" ELSE IF n = 1 THEN "oneWrite" ELSE kept[n]
      BY <2>5, <1>7, <1>8, <2>1, <2>2
    <3> QED
      BY <2>3, <2>5, <3>1
  <2> QED
    BY <2>4, <2>5
<1>15. Replugged(a, d)
  <2>1. a \in 3 .. MaxFd /\ d \in 3 .. MaxFd
    BY <1>3, <1>9, <1>10
  <2>2. in # None => in \in 3 .. MaxFd
    BY <1>9, <1>10
  <2>3. res # None => res \in 3 .. MaxFd
    BY <1>9, <1>10
  <2> QED
    BY <1>1, <1>3, <1>8, <1>10, <1>11, <1>12, <1>14, <2>1, <2>2, <2>3 DEF Replugged
<1> QED
  BY <1>10, <1>15

LEMMA InitInv == Init => IInv
<1> SUFFICES ASSUME Init PROVE IInv
  OBVIOUS
<1> USE DEF Init
<1>1. fd \in Table /\ (\A n \in Fds : fd[n] \in {"tty", "free"}) /\ \A n \in 0 .. 2 : fd[n] = "tty"
  BY FdsFinite DEF Table, Object
<1>2. TypeOK
  <2>1. Len(out) <= Capacity /\ Len(buffer) <= BufferSize /\ Len(text) = 0
    BY BoundAssumption
  <2> QED
    BY <1>1, <2>1 DEF TypeOK, Table, Object
<1>3. Typed
  BY DEF Typed
<1>4. StdOpen
  BY <1>1 DEF StdOpen
<1>5. Plumbed
  BY <1>1 DEF Plumbed
<1>6. Lost /\ Enough
  BY DEF Lost, Enough, Kept
<1>7. Saved
  <2>1. 3 .. MaxFd \subseteq Fds /\ 0 \in 0 .. 2 /\ 1 \in 0 .. 2 /\ 2 \in 0 .. 2
    BY BoundAssumption DEF Fds
  <2>2. \A n \in 3 .. MaxFd : fd[n] = "free"
    BY <2>1 DEF Fds
  <2> QED
    BY <1>1, <2>1, <2>2 DEF Saved
<1>8. FewSpent
  <2>1. Spent(fd) = {}
    BY <1>1 DEF Spent
  <2> QED
    BY <2>1, FS_EmptySet DEF FewSpent
<1> QED
  BY <1>2, <1>3, <1>4, <1>5, <1>6, <1>7, <1>8 DEF IInv

\* What a substitution takes of the free descriptors
LEMMA ReplugTakes ==
    ASSUME StdOpen, NEW a, NEW d, Replugged(a, d), NumberFree(fd) >= 4
    PROVE  /\ tempOut' # None => NumberFree(fd') = NumberFree(fd) - 4
           /\ tempOut' = None => NumberFree(fd') <= 3
<1>1. Free(fd') = (((Free(fd) \ {a}) \ {d}) \ {tempIn'}) \ {tempOut'}
  <2>1. /\ 3 .. MaxFd \subseteq Fds /\ 0 \in 0 .. 2 /\ 1 \in 0 .. 2 /\ None \notin Fds
        /\ 0 \notin 3 .. MaxFd /\ 1 \notin 3 .. MaxFd
    BY BoundAssumption DEF Fds, None
  <2>2. fd[0] # "free" /\ fd[1] # "free"
    BY <2>1 DEF StdOpen
  <2>3. /\ a \in 3 .. MaxFd /\ d \in 3 .. MaxFd
        /\ tempIn' \in 3 .. MaxFd \cup {None} /\ tempOut' \in 3 .. MaxFd \cup {None}
        /\ \A n \in Fds : fd'[n] = IF n = 0 THEN "twoRead" ELSE IF n = 1 THEN "oneWrite"
                                   ELSE IF n = a THEN "oneRead" ELSE IF n = d THEN "twoWrite"
                                   ELSE IF n = tempIn' THEN fd[0] ELSE IF n = tempOut' THEN fd[1]
                                   ELSE fd[n]
    BY DEF Replugged
  <2>4. ASSUME NEW n \in Fds
        PROVE  fd'[n] = "free" <=> fd[n] = "free" /\ n \notin {a, d, tempIn', tempOut'}
    BY <2>1, <2>2, <2>3
  <2> QED
    BY <2>4 DEF Free
<1>2. IsFiniteSet(Free(fd)) /\ NumberFree(fd) \in Nat
  BY FreeIsFinite
<1>3. a \in Free(fd) /\ d \in Free(fd) \ {a} /\ None \notin Free(fd)
  BY FdsFinite DEF Free, Replugged, Fds
<1>4. /\ tempIn' # None => tempIn' \in (Free(fd) \ {a}) \ {d}
      /\ tempOut' # None => tempOut' \in ((Free(fd) \ {a}) \ {d}) \ {tempIn'}
  BY FdsFinite DEF Free, Replugged, Fds
<1> DEFINE A == Free(fd) \ {a}
           B == A \ {d}
           C == B \ {tempIn'}
           D == C \ {tempOut'}
<1>5. IsFiniteSet(A) /\ Cardinality(A) = NumberFree(fd) - 1
  BY <1>2, <1>3, FS_RemoveElement DEF NumberFree
<1>6. IsFiniteSet(B) /\ Cardinality(B) = Cardinality(A) - 1
  <2>1. d \in A
    BY <1>3
  <2> HIDE DEF A
  <2> QED
    BY <1>5, <2>1, FS_RemoveElement
<1>7. IsFiniteSet(C) /\ Cardinality(C) = IF tempIn' = None THEN Cardinality(B) ELSE Cardinality(B) - 1
  <2>1. IF tempIn' = None THEN tempIn' \notin B ELSE tempIn' \in B
    BY <1>3, <1>4
  <2> HIDE DEF B
  <2> QED
    BY <1>6, <2>1, FS_RemoveElement
<1>8. IsFiniteSet(D) /\ Cardinality(D) = IF tempOut' = None THEN Cardinality(C) ELSE Cardinality(C) - 1
  <2>1. IF tempOut' = None THEN tempOut' \notin C ELSE tempOut' \in C
    BY <1>3, <1>4
  <2> HIDE DEF C
  <2> QED
    BY <1>7, <2>1, FS_RemoveElement
<1>9. NumberFree(fd') = Cardinality(D)
  BY <1>1 DEF NumberFree
<1>10. (tempIn' = None <=> NumberFree(fd) = 4) /\ (tempOut' = None <=> NumberFree(fd) <= 5)
  BY DEF Replugged
<1> HIDE DEF A, B, C, D
<1> QED
  BY <1>2, <1>5, <1>6, <1>7, <1>8, <1>9, <1>10

LEMMA SubstituteInv ==
    ASSUME IInv, NEW t \in Texts, NEW forked \in BOOLEAN, Substitute(t, forked),
           NumberFree(fd) >= 4
    PROVE  IInv'
<1>1. /\ shell = "idle" /\ count < MaxSubst /\ count' = count + 1
      /\ text' = t /\ sent' = 0 /\ buffer' = <<>> /\ got' = 0 /\ prints' = Greeting
      /\ out' = <<>> /\ late' = <<>>
      /\ shell' \in {"writes", "exited"} /\ sub' \in {"runs", "none"}
  BY DEF Substitute, NumberFree
<1>2. fd \in Table
  BY DEF IInv, TypeOK, Table, Object
<1>3. PICK a \in Fds, d \in Fds : Replugged(a, d)
  BY <1>2, SubstituteReplugs DEF IInv
<1>4. NumberFree(fd) \in Nat
  BY FreeIsFinite
<1>5. /\ a \in 3 .. MaxFd /\ d \in 3 .. MaxFd \ {a} /\ fd[a] = "free" /\ fd[d] = "free"
      /\ tempIn' = None <=> NumberFree(fd) = 4
      /\ tempOut' = None <=> NumberFree(fd) <= 5
      /\ tempIn' # None => tempIn' \in 3 .. MaxFd \ {a, d} /\ fd[tempIn'] = "free"
      /\ tempOut' # None => tempOut' \in 3 .. MaxFd \ {a, d, tempIn'} /\ fd[tempOut'] = "free"
      /\ fd' \in Table
      /\ \A n \in Fds : fd'[n] = IF n = 0 THEN "twoRead" ELSE IF n = 1 THEN "oneWrite"
                                 ELSE IF n = a THEN "oneRead" ELSE IF n = d THEN "twoWrite"
                                 ELSE IF n = tempIn' THEN fd[0] ELSE IF n = tempOut' THEN fd[1]
                                 ELSE fd[n]
  BY <1>3 DEF Replugged
<1>6. 3 .. MaxFd \subseteq Fds /\ 0 \in Fds /\ 1 \in Fds /\ 2 \in Fds /\ Fds = 0 .. 2 \cup 3 .. MaxFd
      /\ None \notin Fds
  BY BoundAssumption DEF Fds, None
<1>7. t \in Seq(LineRecord) /\ Len(t) \in Nat /\ Len(t) > 0
  BY TextsAssumption, EmptySeq, LenProperties DEF LineRecord
<1>8. TypeOK'
  <2>1. {tempIn', tempOut'} \subseteq Fds \cup {None}
    BY <1>5, <1>6
  <2>2. /\ got' <= sent' /\ sent' <= Len(text') /\ sent' - got' <= Len(text')
        /\ Len(out') <= Capacity /\ Len(buffer') <= BufferSize
    BY <1>1, <1>7, BoundAssumption
  <2>3. fd' \in [Fds -> {"tty", "free", "oneRead", "oneWrite", "twoRead", "twoWrite", "left"}]
    BY <1>5 DEF Table, Object
  <2> QED
    BY <1>1, <2>1, <2>2, <2>3 DEF TypeOK
<1>9. Typed'
  BY <1>1, <1>7, TextsAssumption DEF Typed, IInv
<1>10. StdOpen'
  BY <1>5, <1>6 DEF StdOpen, IInv
<1>11. Plumbed'
  <2>1. \A n \in Fds : fd'[n] = "twoWrite" <=> n = d
    BY <1>1, <1>5, <1>6 DEF Plumbed, IInv
  <2>2. tempIn' # None => tempIn' \in 3 .. MaxFd /\ fd'[tempIn'] \in {"tty", "twoRead"}
    BY <1>5, <1>6 DEF StdOpen, IInv
  <2> QED
    BY <1>1, <1>5, <2>1, <2>2 DEF Plumbed
<1>12. /\ tempOut' # None => NumberFree(fd') = NumberFree(fd) - 4
       /\ tempOut' = None => NumberFree(fd') <= 3
  BY <1>3, ReplugTakes DEF IInv
<1>13. Lost' /\ Enough'
  BY <1>1, <1>4, <1>5, <1>12 DEF Lost, Enough, Kept
<1>14. ASSUME tempOut' # None
       PROVE  NumberFree(fd) >= 6 /\ Undoable
  BY <1>1, <1>4, <1>5, <1>14 DEF Undoable
<1>15. Saved'
  <2> SUFFICES ASSUME Undoable' PROVE Saved'
    BY DEF Saved
  <2>1. shell' = "writes" /\ tempOut' # None
    BY <1>1 DEF Undoable, Kept
  <2>2. /\ tempIn' \in 3 .. MaxFd \ {a, d} /\ tempOut' \in 3 .. MaxFd \ {a, d, tempIn'}
        /\ \A n \in 0 .. 2 : fd[n] = "tty"
        /\ \A n \in 3 .. MaxFd : fd[n] \in {"free", "left"}
    BY <1>1, <1>4, <1>5, <1>14, <2>1 DEF IInv, Saved
  <2>3. fd'[tempIn'] = "tty" /\ fd'[tempOut'] = "tty" /\ fd'[2] = "tty"
    BY <1>5, <1>6, <2>1, <2>2
  <2>4. \A n \in 3 .. MaxFd : \/ fd'[n] \in {"free", "left", "oneRead", "twoWrite"}
                              \/ n \in {tempIn', tempOut'}
    BY <1>5, <1>6, <2>2
  <2> QED
    BY <2>1, <2>2, <2>3, <2>4 DEF Saved
<1>16. FewSpent'
  <2> SUFFICES ASSUME Undoable' PROVE Cardinality(Spent(fd')) <= count'
    BY DEF FewSpent
  <2>1. tempOut' # None
    BY <1>1 DEF Undoable, Kept
  <2>2. Cardinality(Spent(fd)) <= count /\ count \in Nat
    BY <1>14, <2>1 DEF IInv, FewSpent, Typed
  <2>3. Spent(fd') \subseteq Spent(fd) \cup {a}
    <3>1. fd[0] = "tty" /\ fd[1] = "tty"
      BY <1>1, <1>14, <2>1 DEF IInv, Saved
    <3> QED
      BY <1>5, <1>6, <3>1 DEF Spent
  <2>4. IsFiniteSet(Spent(fd)) /\ Cardinality(Spent(fd)) \in Nat
    <3>1. Spent(fd) \in SUBSET Fds
      BY DEF Spent
    <3> QED
      BY <3>1, FdsFinite, FS_Subset, FS_CardinalityType
  <2>5. /\ IsFiniteSet(Spent(fd) \cup {a})
        /\ Cardinality(Spent(fd) \cup {a}) \in {Cardinality(Spent(fd)), Cardinality(Spent(fd)) + 1}
    BY <2>4, FS_AddElement
  <2>6. Cardinality(Spent(fd')) <= Cardinality(Spent(fd) \cup {a})
    BY <2>3, <2>5, FS_Subset
  <2>7. Cardinality(Spent(fd')) \in Nat /\ Cardinality(Spent(fd) \cup {a}) \in Nat
    BY <2>3, <2>5, FS_Subset, FS_CardinalityType
  <2> QED
    BY <1>1, <2>2, <2>4, <2>5, <2>6, <2>7
<1> QED
  BY <1>8, <1>9, <1>10, <1>11, <1>13, <1>15, <1>16 DEF IInv

\* With too few for both pipes the shell is as it was, but for the one it has made.
LEMMA SubstituteFailsInv ==
    ASSUME IInv, NEW t \in Texts, NEW forked \in BOOLEAN, Substitute(t, forked),
           ~(NumberFree(fd) >= 4)
    PROVE  IInv'
<1> DEFINE one == Pipe(fd, "oneRead", "oneWrite")
<1>1. /\ shell = "idle" /\ count' = count + 1
      /\ fd' = [n \in Fds |-> IF fd[n] = "free" /\ one[n] # "free" THEN "left" ELSE fd[n]]
      /\ UNCHANGED <<shell, tempIn, tempOut, text, sent, buffer, subVars, out>>
  BY DEF Substitute, NumberFree
<1> HIDE DEF one
<1>2. fd \in Table
  BY DEF IInv, TypeOK, Table, Object
<1>3. /\ fd' \in Table
      /\ \A n \in Fds : \/ fd'[n] = fd[n]
                        \/ fd[n] = "free" /\ fd'[n] = "left"
  BY <1>1, <1>2 DEF Table, Object
<1>4. NumberFree(fd) \in Nat /\ NumberFree(fd') \in Nat /\ NumberFree(fd') <= NumberFree(fd)
  <2>1. Free(fd') \subseteq Free(fd)
    BY <1>3 DEF Free
  <2> QED
    BY <2>1, FreeIsFinite, FewerFree
<1>5. ~Kept
  BY <1>1, <1>4 DEF IInv, Enough
<1>6. TypeOK'
  BY <1>1, <1>3 DEF IInv, TypeOK, Table, Object, subVars
<1>7. Typed'
  BY <1>1 DEF IInv, Typed, subVars
<1>8. StdOpen'
  BY <1>3, FdsFinite DEF IInv, StdOpen
<1>9. Plumbed'
  BY <1>1, <1>3 DEF IInv, Plumbed
<1>10. Lost' /\ Enough' /\ ~Undoable'
  BY <1>1, <1>4, <1>5 DEF Lost, Enough, Undoable, Kept
<1> QED
  BY <1>6, <1>7, <1>8, <1>9, <1>10 DEF IInv, Saved, FewSpent

\* What the second shell does is nothing to the descriptors of the first.
LEMMA ShellKeeps ==
    ASSUME IInv, UNCHANGED shellVars
    PROVE  (StdOpen /\ Plumbed /\ Lost /\ Enough /\ Saved /\ FewSpent)'
BY DEF IInv, shellVars, StdOpen, Plumbed, Lost, Enough, Saved, FewSpent, Kept, Undoable

LEMMA HeadOf ==
    ASSUME NEW s \in Seq(STRING), s # <<>>
    PROVE  /\ Head(s) \in STRING /\ Tail(s) \in Seq(STRING) /\ Len(Tail(s)) = Len(s) - 1
           /\ Len(s) \in Nat \ {0}
BY HeadTailProperties, EmptySeq, LenProperties

\* What a program in the background prints is taken from what it still prints.
LEMMA LateStep ==
    ASSUME NEW l \in Seq(Seq(STRING)), NEW i \in DOMAIN l, l[i] # <<>>
    PROVE  /\ l[i] \in Seq(STRING) /\ Head(l[i]) \in STRING
           /\ [l EXCEPT ![i] = Tail(@)] \in Seq(Seq(STRING))
           /\ Len([l EXCEPT ![i] = Tail(@)]) = Len(l)
<1> DEFINE T == Seq(STRING)
<1>1. l \in Seq(T) /\ i \in 1 .. Len(l)
  OBVIOUS
<1>2. l[i] \in T
  <2> HIDE DEF T
  <2> QED
    BY <1>1, ElementOfSeq
<1>3. Head(l[i]) \in STRING /\ Tail(l[i]) \in T
  BY <1>2, HeadOf
<1>4. [l EXCEPT ![i] = Tail(@)] \in Seq(T) /\ Len([l EXCEPT ![i] = Tail(@)]) = Len(l)
  <2>1. PICK u \in T : u = Tail(l[i])
    BY <1>3
  <2>2. [l EXCEPT ![i] = Tail(@)] = [l EXCEPT ![i] = u]
    BY <2>1
  <2>3. [l EXCEPT ![i] = u] \in Seq(T) /\ Len([l EXCEPT ![i] = u]) = Len(l)
    <3> HIDE DEF T
    <3> QED
      BY <1>1, ExceptSeq
  <2> QED
    BY <2>2, <2>3
<1> QED
  BY <1>2, <1>3, <1>4

LEMMA PutsInv ==
    ASSUME IInv, Puts \/ \E i \in DOMAIN late : PutsLate(i)
    PROVE  IInv'
<1>1. UNCHANGED shellVars /\ sub' = sub /\ got' = got
  BY DEF Puts, PutsLate
<1>2. out' \in Seq(STRING) /\ prints' \in Seq(STRING) /\ late' \in Seq(Seq(STRING))
  <2>1. prints \in Seq(STRING) /\ late \in Seq(Seq(STRING)) /\ out \in Seq(STRING)
    BY DEF IInv, Typed
  <2>2. CASE Puts
    <3>1. out' = Append(out, Head(prints)) /\ prints' = Tail(prints) /\ late' = late /\ prints # <<>>
      BY <2>2 DEF Puts
    <3> QED
      BY <2>1, <3>1, HeadOf, AppendProperties
  <2>3. ASSUME NEW i \in DOMAIN late, PutsLate(i)
        PROVE  out' \in Seq(STRING) /\ prints' = prints /\ late' \in Seq(Seq(STRING))
    <3>1. /\ out' = Append(out, Head(late[i])) /\ late' = [late EXCEPT ![i] = Tail(@)]
          /\ prints' = prints /\ late[i] # <<>>
      BY <2>3 DEF PutsLate
    <3>2. Head(late[i]) \in STRING /\ [late EXCEPT ![i] = Tail(@)] \in Seq(Seq(STRING))
      BY <2>1, <3>1, LateStep
    <3> QED
      BY <2>1, <3>1, <3>2, AppendProperties
  <2> QED
    BY <2>1, <2>2, <2>3
<1>3. TypeOK' /\ Typed'
  BY <1>1, <1>2 DEF IInv, TypeOK, Typed, shellVars
<1> QED
  BY <1>1, <1>3, ShellKeeps DEF IInv

LEMMA NextLineInv ==
    ASSUME IInv, NextLine
    PROVE  IInv'
<1>1. /\ UNCHANGED shellVars /\ sub' = sub /\ out' = out /\ got < sent /\ got' = got + 1
      /\ prints' = text[got'].puts /\ late' = Append(late, text[got'].later)
      /\ text \in Seq(LineRecord) /\ late \in Seq(Seq(STRING)) /\ got \in Nat /\ sent \in Nat
      /\ sent <= Len(text) /\ Len(text) \in Nat
  BY LenProperties DEF NextLine, IInv, Typed, TypeOK
<1>2. text[got'] \in LineRecord
  <2>1. got' \in 1 .. Len(text)
    BY <1>1
  <2> QED
    BY <1>1, <2>1, ElementOfSeq
<1>3. prints' \in Seq(STRING) /\ text[got'].later \in Seq(STRING)
  BY <1>1, <1>2 DEF LineRecord
<1>4. late' \in Seq(Seq(STRING))
  <2> DEFINE T == Seq(STRING)
  <2>1. late \in Seq(T) /\ text[got'].later \in T
    BY <1>1, <1>3
  <2> HIDE DEF T
  <2>2. late' \in Seq(T)
    BY <1>1, <2>1, AppendProperties
  <2> QED
    BY <2>2 DEF T
<1>5. TypeOK'
  <2>1. got' \in 0 .. sent
    BY <1>1
  <2> QED
    BY <1>1, <2>1 DEF IInv, TypeOK, shellVars
<1>6. Typed'
  BY <1>1, <1>3, <1>4 DEF IInv, Typed, shellVars
<1> QED
  BY <1>1, <1>5, <1>6, ShellKeeps DEF IInv

LEMMA ExitInv ==
    ASSUME IInv, Exit
    PROVE  IInv'
<1>1. UNCHANGED shellVars /\ sub' = "dead" /\ UNCHANGED <<got, prints, late, out>>
  BY DEF Exit
<1>2. TypeOK' /\ Typed'
  BY <1>1 DEF IInv, TypeOK, Typed, shellVars
<1> QED
  BY <1>1, <1>2, ShellKeeps DEF IInv

LEMMA ReadInv ==
    ASSUME IInv, Read
    PROVE  IInv'
<1>1. /\ shell = "reads" /\ out # <<>> /\ out' = Tail(out)
      /\ UNCHANGED <<fd, tempIn, tempOut, text, sent, count, subVars>>
      /\ out \in Seq(STRING) /\ buffer \in Seq(STRING)
      /\ \/ buffer' = Append(buffer, Head(out)) /\ shell' = shell
         \/ shell' = "crashed" /\ buffer' = buffer
  BY DEF Read, IInv, Typed
<1>2. out' \in Seq(STRING) /\ Head(out) \in STRING
  BY <1>1, HeadOf
<1>3. buffer' \in Seq(STRING)
  <2> DEFINE T == STRING
  <2>1. buffer \in Seq(T) /\ Head(out) \in T
    BY <1>1, <1>2
  <2> HIDE DEF T
  <2>2. Append(buffer, Head(out)) \in Seq(T)
    BY <2>1, AppendProperties
  <2> QED
    BY <1>1, <2>2 DEF T
<1>4. TypeOK'
  BY <1>1 DEF IInv, TypeOK, subVars
<1>5. Typed'
  BY <1>1, <1>2, <1>3 DEF IInv, Typed, subVars
<1>6. (StdOpen /\ Plumbed /\ Lost /\ Enough /\ Saved /\ FewSpent)'
  BY <1>1 DEF IInv, StdOpen, Plumbed, Lost, Enough, Saved, FewSpent, Kept, Undoable
<1> QED
  BY <1>4, <1>5, <1>6 DEF IInv

\* The standard output that comes back, and the write end that is closed
LEMMA CloseOutputTable ==
    ASSUME IInv, shell = "writes"
    PROVE  /\ CloseOutput(fd) \in Table
           /\ \A n \in 0 .. 2 : CloseOutput(fd)[n] # "free"
           /\ \A n \in Fds : CloseOutput(fd)[n] # "twoWrite"
           /\ \A n \in Fds \ {1, tempOut} : \/ CloseOutput(fd)[n] = fd[n]
                                            \/ fd[n] = "twoWrite" /\ CloseOutput(fd)[n] = "free"
           /\ Kept => /\ CloseOutput(fd)[1] = "tty" /\ CloseOutput(fd)[tempOut] = "free"
                      /\ NumberFree(CloseOutput(fd)) >= NumberFree(fd) + 2
           /\ ~Kept => NumberFree(CloseOutput(fd)) <= NumberFree(fd) + 1
<1> DEFINE o == Close(Dup2(fd, tempOut, 1), tempOut)
           c == CloseOutput(fd)
<1>1. PICK w \in 3 .. MaxFd : fd[w] = "twoWrite" /\ \A n \in Fds : fd[n] = "twoWrite" => n = w
  BY DEF IInv, Plumbed
<1>2. fd \in Table /\ tempOut \in Fds \cup {None}
  BY DEF IInv, TypeOK, Table, Object
<1>3. Kept => tempOut \in 3 .. MaxFd /\ fd[tempOut] = "tty" /\ tempOut # w
  BY <1>1 DEF IInv, Saved, Undoable, Kept
<1>4. /\ 3 .. MaxFd \subseteq Fds /\ 0 .. 2 \subseteq Fds /\ 1 \in 0 .. 2
      /\ None \notin Fds /\ \A n \in 3 .. MaxFd : n \notin 0 .. 2
  BY BoundAssumption DEF Fds, None
<1>5. \A n \in Fds : o[n] = IF Kept /\ n = tempOut THEN "free"
                            ELSE IF Kept /\ n = 1 THEN "tty" ELSE fd[n]
  <2>1. CASE Kept
    <3>1. o = [[fd EXCEPT ![1] = fd[tempOut]] EXCEPT ![tempOut] = "free"]
      BY <1>3, <1>4, <2>1 DEF Dup2, Close
    <3> QED
      BY <1>2, <1>3, <1>4, <2>1, <3>1 DEF Table
  <2>2. CASE ~Kept
    BY <1>4, <2>2 DEF Dup2, Close, Kept
  <2> QED
    BY <2>1, <2>2
<1>6. o \in Table
  <2>1. CASE Kept
    <3>1. o = [[fd EXCEPT ![1] = fd[tempOut]] EXCEPT ![tempOut] = "free"]
      BY <1>3, <1>4, <2>1 DEF Dup2, Close
    <3> QED
      BY <1>2, <1>3, <1>4, <2>1, <3>1 DEF Table, Object
  <2>2. CASE ~Kept
    BY <1>2, <1>4, <2>2 DEF Dup2, Close, Kept
  <2> QED
    BY <2>1, <2>2
<1>7. c = Close(o, FdOf(o, "twoWrite"))
  BY DEF CloseOutput
<1> HIDE DEF o, c
<1>8. \A n \in Fds : o[n] = "twoWrite" <=> n = w
  BY <1>1, <1>3, <1>4, <1>5
<1>9. FdOf(o, "twoWrite") = w
  BY <1>1, <1>4, <1>8 DEF FdOf
<1>10. c = [o EXCEPT ![w] = "free"]
  BY <1>1, <1>4, <1>7, <1>9 DEF Close
<1>11. c \in Table /\ \A n \in Fds : c[n] = IF n = w THEN "free" ELSE o[n]
  BY <1>1, <1>4, <1>6, <1>10 DEF Table, Object
<1>12. \A n \in 0 .. 2 : c[n] # "free"
  BY <1>1, <1>3, <1>4, <1>5, <1>11 DEF IInv, StdOpen
<1>13. ASSUME Kept
       PROVE  NumberFree(c) >= NumberFree(fd) + 2
  <2>1. NumberFree(o) >= NumberFree(fd) + 1
    <3>1. /\ tempOut \in Fds /\ fd[tempOut] # "free" /\ o[tempOut] = "free"
          /\ fd[1] # "free"
      BY <1>3, <1>4, <1>5, <1>13 DEF IInv, StdOpen
    <3>2. Free(fd) \subseteq Free(o)
      BY <1>3, <1>4, <1>5, <1>13, <3>1 DEF Free
    <3> QED
      BY <3>1, <3>2, FreesOne
  <2>2. NumberFree(c) >= NumberFree(o) + 1
    <3>1. w \in Fds /\ o[w] # "free" /\ c[w] = "free" /\ Free(o) \subseteq Free(c)
      BY <1>1, <1>4, <1>8, <1>11 DEF Free
    <3> QED
      BY <3>1, FreesOne
  <2> QED
    BY <2>1, <2>2, FreeIsFinite
<1>14. ASSUME ~Kept
       PROVE  NumberFree(c) <= NumberFree(fd) + 1
  <2>1. Free(c) \subseteq Free(fd) \cup {w}
    BY <1>5, <1>11, <1>14 DEF Free
  <2> QED
    BY <2>1, OneMoreFree
<1>15. \A n \in Fds : c[n] # "twoWrite"
  BY <1>8, <1>11
<1>16. \A n \in Fds \ {1, tempOut} : c[n] = fd[n] \/ (fd[n] = "twoWrite" /\ c[n] = "free")
  BY <1>1, <1>5, <1>11
<1>17. Kept => c[1] = "tty" /\ c[tempOut] = "free"
  BY <1>1, <1>3, <1>4, <1>5, <1>11
<1> QED
  BY <1>11, <1>12, <1>13, <1>14, <1>15, <1>16, <1>17 DEF c

LEMMA SpentFalls ==
    ASSUME NEW f, NEW g, Spent(g) \subseteq Spent(f), NEW k \in Nat, Cardinality(Spent(f)) <= k
    PROVE  Cardinality(Spent(g)) <= k
<1>1. Spent(f) \in SUBSET Fds /\ Spent(g) \in SUBSET Spent(f)
  BY DEF Spent
<1>2. IsFiniteSet(Spent(f)) /\ IsFiniteSet(Spent(g))
  BY <1>1, FdsFinite, FS_Subset
<1>3. Cardinality(Spent(g)) <= Cardinality(Spent(f))
  BY <1>1, <1>2, FS_Subset
<1> QED
  BY <1>2, <1>3, FS_CardinalityType

LEMMA WriteInv ==
    ASSUME IInv, Write
    PROVE  IInv'
<1>1. /\ shell = "writes" /\ sent' = sent + 1
      /\ UNCHANGED <<tempIn, tempOut, text, buffer, count, subVars, out>>
      /\ IF sent' = Len(text) THEN shell' = "reads" /\ fd' = CloseOutput(fd)
                              ELSE shell' = shell /\ fd' = fd
  BY DEF Write
<1>2. /\ got \in Nat /\ sent \in Nat /\ Len(text) \in Nat /\ got <= sent /\ sent < Len(text)
      /\ fd \in Table /\ count \in Nat
  BY <1>1, LenProperties DEF IInv, Typed, TypeOK, Table, Object
<1>3. sent' \in Nat /\ got' <= sent' /\ sent' <= Len(text') /\ sent' - got' <= Len(text')
  BY <1>1, <1>2 DEF subVars
<1>4. fd' \in Table
  BY <1>1, <1>2, CloseOutputTable
<1>5. TypeOK'
  BY <1>1, <1>3, <1>4 DEF IInv, TypeOK, subVars, Table, Object
<1>6. Typed'
  BY <1>1, <1>2, <1>3 DEF IInv, Typed, subVars
<1>7. CASE shell' = shell /\ fd' = fd
  BY <1>1, <1>5, <1>6, <1>7
     DEF IInv, StdOpen, Plumbed, Lost, Enough, Saved, FewSpent, Kept, Undoable
<1>8. CASE shell' = "reads" /\ fd' = CloseOutput(fd)
  <2>1. /\ \A n \in 0 .. 2 : fd'[n] # "free"
        /\ \A n \in Fds : fd'[n] # "twoWrite"
        /\ \A n \in Fds \ {1, tempOut} : \/ fd'[n] = fd[n]
                                         \/ fd[n] = "twoWrite" /\ fd'[n] = "free"
        /\ Kept => /\ fd'[1] = "tty" /\ fd'[tempOut] = "free"
                   /\ NumberFree(fd') >= NumberFree(fd) + 2
        /\ ~Kept => NumberFree(fd') <= NumberFree(fd) + 1
    BY <1>1, <1>8, CloseOutputTable
  <2>2. /\ 3 .. MaxFd \subseteq Fds /\ 0 \in Fds /\ 1 \in Fds /\ 2 \in Fds
        /\ \A n \in 3 .. MaxFd : n \notin {0, 1, 2}
        /\ None \notin Fds
    BY BoundAssumption DEF Fds, None
  <2>3. Kept => /\ tempIn \in 3 .. MaxFd /\ fd[tempIn] = "tty" /\ tempOut \in 3 .. MaxFd \ {tempIn}
                /\ fd[tempOut] = "tty" /\ fd[2] = "tty"
                /\ \A n \in 3 .. MaxFd : \/ fd[n] \in {"free", "left", "oneRead", "twoWrite"}
                                         \/ n \in {tempIn, tempOut}
    BY <1>1 DEF IInv, Saved, Undoable
  <2>4. ~Kept => tempOut = None
    BY DEF Kept
  <2>5. StdOpen'
    <3>1. fd[0] \in {"tty", "twoRead"} /\ 0 \notin {1, tempOut}
      BY <2>2, <2>3, <2>4 DEF IInv, StdOpen
    <3> QED
      BY <2>1, <2>2, <3>1 DEF StdOpen
  <2>6. Plumbed'
    <3>1. ASSUME tempIn # None
          PROVE  tempIn \in 3 .. MaxFd /\ fd'[tempIn] \in {"tty", "twoRead"}
      <4>1. tempIn \in 3 .. MaxFd /\ fd[tempIn] \in {"tty", "twoRead"}
        BY <1>1, <3>1 DEF IInv, Plumbed
      <4> QED
        BY <2>1, <2>2, <2>3, <2>4, <4>1
    <3> QED
      BY <1>1, <1>8, <2>1, <3>1 DEF Plumbed
  <2>7. Lost' /\ Enough'
    <3>1. NumberFree(fd) \in Nat /\ NumberFree(fd') \in Nat
      BY FreeIsFinite
    <3>2. (Kept => NumberFree(fd) >= 2) /\ (~Kept => NumberFree(fd) <= 3)
      BY <1>1 DEF IInv, Lost, Enough
    <3> QED
      BY <1>1, <1>8, <2>1, <3>1, <3>2 DEF Lost, Enough, Kept
  <2>8. Undoable' => Kept
    BY <1>1, <1>8 DEF Undoable, Kept
  <2>9. Saved'
    <3> SUFFICES ASSUME Kept
                 PROVE  /\ tempIn \in 3 .. MaxFd /\ fd'[tempIn] = "tty"
                        /\ fd'[1] = "tty" /\ fd'[2] = "tty"
                        /\ \A n \in 3 .. MaxFd : \/ fd'[n] \in {"free", "left", "oneRead"}
                                                 \/ n = tempIn
      BY <1>1, <1>8, <2>8 DEF Saved
    <3> QED
      BY <2>1, <2>2, <2>3
  <2>10. FewSpent'
    <3> SUFFICES ASSUME Kept
                 PROVE  Cardinality(Spent(fd')) <= count
      BY <1>1, <2>8 DEF FewSpent
    <3>1. Cardinality(Spent(fd)) <= count
      BY <1>1 DEF IInv, FewSpent, Undoable
    <3>2. Spent(fd') \subseteq Spent(fd)
      BY <2>1, <2>2, <2>3 DEF Spent
    <3> QED
      BY <1>2, <3>1, <3>2, SpentFalls
  <2> QED
    BY <1>5, <1>6, <2>5, <2>6, <2>7, <2>9, <2>10 DEF IInv
<1> QED
  BY <1>1, <1>7, <1>8

LEMMA EndOfOutputInv ==
    ASSUME IInv, EndOfOutput
    PROVE  IInv'
<1>1. /\ shell = "reads" /\ shell' = "waits" /\ fd' = Close(Dup2(fd, tempIn, 0), tempIn)
      /\ UNCHANGED <<tempIn, tempOut, text, sent, buffer, count, subVars, out>>
  BY DEF EndOfOutput
<1>2. /\ fd \in Table /\ tempIn \in Fds \cup {None} /\ count \in Nat
      /\ tempIn # None => tempIn \in 3 .. MaxFd /\ fd[tempIn] \in {"tty", "twoRead"}
      /\ \A n \in 0 .. 2 : fd[n] # "free"
      /\ fd[0] \in {"tty", "twoRead"} /\ \A n \in Fds : fd[n] # "twoWrite"
  BY <1>1 DEF IInv, Typed, TypeOK, Table, Object, StdOpen, Plumbed
<1>3. /\ 3 .. MaxFd \subseteq Fds /\ 0 .. 2 \subseteq Fds /\ 0 \in 0 .. 2 /\ 1 \in 0 .. 2 /\ 2 \in 0 .. 2
      /\ None \notin Fds /\ \A n \in 3 .. MaxFd : n \notin 0 .. 2
  BY BoundAssumption DEF Fds, None
<1>4. /\ fd' \in Table
      /\ \A n \in Fds : fd'[n] = IF n = tempIn THEN "free"
                                 ELSE IF n = 0 /\ tempIn # None THEN fd[tempIn] ELSE fd[n]
  <2>1. CASE tempIn = None
    <3>1. fd' = fd
      BY <1>1, <1>3, <2>1 DEF Dup2, Close
    <3> QED
      BY <1>2, <1>3, <2>1, <3>1
  <2>2. CASE tempIn # None
    <3>1. fd' = [[fd EXCEPT ![0] = fd[tempIn]] EXCEPT ![tempIn] = "free"]
      BY <1>1, <1>2, <1>3, <2>2 DEF Dup2, Close
    <3> QED
      BY <1>2, <1>3, <2>2, <3>1 DEF Table, Object
  <2> QED
    BY <2>1, <2>2
<1>5. TypeOK'
  BY <1>1, <1>4 DEF IInv, TypeOK, subVars, Table, Object
<1>6. Typed'
  BY <1>1 DEF IInv, Typed, subVars
<1>7. StdOpen'
  BY <1>2, <1>3, <1>4 DEF StdOpen
<1>8. Plumbed'
  BY <1>1, <1>2, <1>4 DEF Plumbed
<1>9. Kept => /\ tempIn \in 3 .. MaxFd /\ fd[tempIn] = "tty" /\ fd[1] = "tty" /\ fd[2] = "tty"
              /\ \A n \in 3 .. MaxFd : fd[n] \in {"free", "left", "oneRead"} \/ n = tempIn
  BY <1>1 DEF IInv, Saved, Undoable
<1>10. Lost' /\ Enough'
  <2>1. NumberFree(fd) \in Nat /\ NumberFree(fd') \in Nat
    BY FreeIsFinite
  <2>2. NumberFree(fd') <= NumberFree(fd) + 1
    <3>1. Free(fd') \subseteq Free(fd) \cup {tempIn}
      BY <1>2, <1>4 DEF Free
    <3> QED
      BY <3>1, OneMoreFree
  <2>3. Kept => NumberFree(fd') >= NumberFree(fd) + 1
    <3> SUFFICES ASSUME Kept PROVE NumberFree(fd') >= NumberFree(fd) + 1
      OBVIOUS
    <3>1. tempIn \in Fds /\ fd[tempIn] # "free" /\ fd'[tempIn] = "free"
      BY <1>3, <1>4, <1>9
    <3>2. Free(fd) \subseteq Free(fd')
      BY <1>2, <1>3, <1>4 DEF Free
    <3> QED
      BY <3>1, <3>2, FreesOne
  <2>4. (Kept => NumberFree(fd) >= 4) /\ (~Kept => NumberFree(fd) <= 4)
    BY <1>1 DEF IInv, Lost, Enough
  <2> QED
    BY <1>1, <2>1, <2>2, <2>3, <2>4 DEF Lost, Enough, Kept
<1>11. Undoable' => Kept
  BY <1>1 DEF Undoable, Kept
<1>12. Saved'
  <2> SUFFICES ASSUME Kept
               PROVE  /\ fd'[0] = "tty" /\ fd'[1] = "tty" /\ fd'[2] = "tty"
                      /\ \A n \in 3 .. MaxFd : fd'[n] \in {"free", "left", "oneRead"}
    BY <1>1, <1>11 DEF Saved
  <2> QED
    BY <1>3, <1>4, <1>9
<1>13. FewSpent'
  <2> SUFFICES ASSUME Kept
               PROVE  Cardinality(Spent(fd')) <= count
    BY <1>1, <1>11 DEF FewSpent
  <2>1. Cardinality(Spent(fd)) <= count
    BY <1>1 DEF IInv, FewSpent, Undoable
  <2>2. Spent(fd') \subseteq Spent(fd)
    BY <1>3, <1>4, <1>9 DEF Spent
  <2> QED
    BY <1>2, <2>1, <2>2, SpentFalls
<1> QED
  BY <1>5, <1>6, <1>7, <1>8, <1>10, <1>12, <1>13 DEF IInv

LEMMA WaitInv ==
    ASSUME IInv, Wait
    PROVE  IInv'
<1>1. /\ shell = "waits" /\ shell' = "idle" /\ sub' = "none"
      /\ fd' = [n \in Fds |-> IF fd[n] = "oneRead" THEN "left" ELSE fd[n]]
      /\ UNCHANGED <<tempIn, tempOut, text, sent, buffer, count, got, prints, late, out>>
  BY DEF Wait
<1>2. fd \in Table
  BY DEF IInv, TypeOK, Table, Object
<1>3. fd' \in Table /\ \A n \in Fds : fd'[n] = IF fd[n] = "oneRead" THEN "left" ELSE fd[n]
  BY <1>1, <1>2 DEF Table, Object
<1>4. /\ 3 .. MaxFd \subseteq Fds /\ 0 .. 2 \subseteq Fds /\ 0 \in 0 .. 2 /\ 1 \in 0 .. 2 /\ 2 \in 0 .. 2
  BY BoundAssumption DEF Fds
<1>5. TypeOK' /\ Typed'
  BY <1>1, <1>3 DEF IInv, TypeOK, Typed, Table, Object
<1>6. StdOpen'
  BY <1>3, <1>4 DEF IInv, StdOpen
<1>7. Plumbed'
  BY <1>1, <1>3 DEF IInv, Plumbed
<1>8. NumberFree(fd') = NumberFree(fd) /\ NumberFree(fd) \in Nat
  <2>1. Free(fd') = Free(fd)
    BY <1>3 DEF Free
  <2> QED
    BY <2>1, FreeIsFinite DEF NumberFree
<1>9. Lost' /\ Enough'
  BY <1>1, <1>8 DEF IInv, Lost, Enough, Kept
<1>10. Undoable' => Undoable
  <2>1. ~Kept => NumberFree(fd) <= 5
    BY <1>1 DEF IInv, Lost
  <2> QED
    BY <1>1, <1>8, <2>1 DEF Undoable, Kept
<1>11. Saved'
  <2> SUFFICES ASSUME Undoable
               PROVE  /\ fd'[0] = "tty" /\ fd'[1] = "tty" /\ fd'[2] = "tty"
                      /\ \A n \in 3 .. MaxFd : fd'[n] \in {"free", "left"}
    BY <1>1, <1>10 DEF Saved
  <2>1. /\ fd[0] = "tty" /\ fd[1] = "tty" /\ fd[2] = "tty"
        /\ \A n \in 3 .. MaxFd : fd[n] \in {"free", "left", "oneRead"}
    BY <1>1 DEF IInv, Saved
  <2> QED
    BY <1>3, <1>4, <2>1
<1>12. FewSpent'
  <2> SUFFICES ASSUME Undoable
               PROVE  Cardinality(Spent(fd')) <= count
    BY <1>1, <1>10 DEF FewSpent
  <2>1. Spent(fd') = Spent(fd)
    BY <1>3 DEF Spent
  <2> QED
    BY <2>1 DEF IInv, FewSpent
<1> QED
  BY <1>5, <1>6, <1>7, <1>9, <1>11, <1>12 DEF IInv

LEMMA NextInv == IInv /\ [Next]_vars => IInv'
<1> SUFFICES ASSUME IInv, [Next]_vars PROVE IInv'
  OBVIOUS
<1>1. ASSUME NEW t \in Texts, NEW forked \in BOOLEAN, Substitute(t, forked) PROVE IInv'
  BY <1>1, SubstituteInv, SubstituteFailsInv
<1>2. CASE Sub
  BY <1>2, PutsInv, NextLineInv, ExitInv DEF Sub
<1>3. CASE UNCHANGED vars
  <2>1. TypeOK' /\ Typed'
    BY <1>3 DEF IInv, TypeOK, Typed, vars, shellVars, subVars
  <2> QED
    BY <1>3, <2>1, ShellKeeps DEF IInv, vars
<1> QED
  BY <1>1, <1>2, <1>3, WriteInv, ReadInv, EndOfOutputInv, WaitInv, PutsInv DEF Next

LEMMA Invariance == Spec => []IInv
BY InitInv, NextInv, PTL DEF Spec

-----------------------------------------------------------------------------
(* Standard input and output come back.                                    *)

\* After each substitution that could keep the standard output, the shell has its
\* three standard descriptors back, and of all it has opened keeps one read end for
\* each substitution.
THEOREM StandardIsRestored == Spec => []Restored
<1>1. IInv => Restored
  <2> SUFFICES ASSUME IInv, shell = "idle", Kept
               PROVE  /\ \A n \in 0 .. 2 : fd[n] = "tty"
                      /\ \A n \in Fds \ (0 .. 2) : fd[n] \in {"free", "left"}
                      /\ Cardinality({n \in Fds : fd[n] = "left"}) <= count
    BY DEF Restored, Kept
  <2>1. /\ fd[0] = "tty" /\ fd[1] = "tty" /\ fd[2] = "tty"
        /\ \A n \in 3 .. MaxFd : fd[n] \in {"free", "left"}
    BY DEF IInv, Saved, Undoable
  <2>2. Fds = 0 .. 2 \cup 3 .. MaxFd /\ 0 .. 2 = {0, 1, 2}
    BY BoundAssumption DEF Fds
  <2>3. {n \in Fds : fd[n] = "left"} = Spent(fd)
    BY <2>1, <2>2 DEF Spent
  <2> QED
    BY <2>1, <2>2, <2>3 DEF IInv, FewSpent, Undoable
<1> QED
  BY <1>1, Invariance, PTL

-----------------------------------------------------------------------------
(* What is printed, line by line.                                          *)

LEMMA Climb ==
    ASSUME NEW n \in Nat, NEW G, 0 \in G, \A m \in 0 .. n - 1 : m \in G => m + 1 \in G
    PROVE  0 .. n \subseteq G
<1> DEFINE Below == {ss \in Nat \X Nat : ss[1] < ss[2]}
           B == (0 .. n) \ G
<1> SUFFICES ASSUME B # {} PROVE FALSE
  OBVIOUS
<1>1. IsWellFoundedOn(Below, Nat)
  BY NatLessThanWellFounded DEF OpToRel
<1>2. B \in SUBSET Nat
  OBVIOUS
<1>3. PICK m \in B : \A y \in B : ~ (<<y, m>> \in Below)
  <2> HIDE DEF Below, B
  <2> QED
    BY <1>1, <1>2, WFMin
<1>4. m \in Nat /\ m # 0 /\ m \in 0 .. n /\ m - 1 \in 0 .. n - 1 /\ m - 1 \in Nat /\ m - 1 < m
  OBVIOUS
<1>5. m - 1 \notin B
  <2>1. <<m - 1, m>> \in Below
    BY <1>4
  <2> QED
    BY <1>3, <2>1
<1>6. m - 1 \in G
  BY <1>4, <1>5
<1>7. (m - 1) + 1 \in G
  BY <1>4, <1>6
<1> QED
  BY <1>3, <1>4, <1>7

LEMMA FlattenDef ==
    ASSUME NEW ss, Len(ss) \in Nat, Len(ss) # 0
    PROVE  \E f : /\ FlattenSeq(ss) = f[Len(ss)] /\ f[1] = ss[1]
                  /\ \A i \in 2 .. Len(ss) : f[i] = f[i - 1] \o ss[i]
<1> DEFINE n == Len(ss)
<1>1. n \in Nat /\ n # 0
  OBVIOUS
<1> HIDE DEF n
<1> DEFINE Step(f, i) == IF i = 1 THEN ss[i] ELSE f[i - 1] \o ss[i]
           G == {m \in 0 .. n : \E f : f = [i \in 1 .. m |-> Step(f, i)]}
<1>2. 0 \in G
  <2> DEFINE h == [i \in 1 .. 0 |-> <<>>]
  <2>1. h = [i \in 1 .. 0 |-> Step(h, i)]
    OBVIOUS
  <2> HIDE DEF h, Step
  <2>2. 0 \in 0 .. n /\ \E f : f = [i \in 1 .. 0 |-> Step(f, i)]
    BY <1>1, <2>1
  <2> QED
    BY <2>2
<1>3. ASSUME NEW m \in 0 .. n - 1, m \in G
      PROVE  m + 1 \in G
  <2>1. PICK f : f = [i \in 1 .. m |-> Step(f, i)]
    BY <1>3
  <2> DEFINE h == [i \in 1 .. m + 1 |-> IF i = m + 1 THEN Step(f, i) ELSE f[i]]
  <2>2. ASSUME NEW i \in 1 .. m + 1
        PROVE  h[i] = Step(h, i)
    <3>0. i # 1 => i - 1 \in 1 .. m /\ i - 1 \in 1 .. m + 1 /\ i - 1 # m + 1
      BY <1>1
    <3>1. CASE i = m + 1
      <4>1. h[i] = Step(f, i) /\ (i # 1 => h[i - 1] = f[i - 1])
        BY <3>0, <3>1
      <4> QED
        BY <4>1
    <3>2. CASE i # m + 1
      <4>1. i \in 1 .. m
        BY <1>1, <3>2
      <4>2. h[i] = f[i] /\ (i # 1 => h[i - 1] = f[i - 1])
        BY <3>0, <3>2
      <4>3. f[i] = Step(f, i)
        BY <2>1, <4>1
      <4> QED
        BY <4>2, <4>3
    <3> QED
      BY <3>1, <3>2
  <2>3. h = [i \in 1 .. m + 1 |-> Step(h, i)]
    BY <2>2
  <2>4. m + 1 \in 0 .. n
    BY <1>1
  <2> QED
    BY <2>3, <2>4
<1>4. n \in G
  <2> HIDE DEF G
  <2>1. 0 .. n \subseteq G
    BY <1>1, <1>2, <1>3, Climb
  <2> QED
    BY <1>1, <2>1
<1>5. PICK g : g = [i \in 1 .. n |-> Step(g, i)]
  BY <1>4
<1> DEFINE F == CHOOSE f : f = [i \in 1 .. n |-> Step(f, i)]
<1>6. F = [i \in 1 .. n |-> Step(F, i)]
  BY <1>5
<1>7. FlattenSeq(ss) = F[n]
  BY <1>1 DEF FlattenSeq, n
<1> HIDE DEF F
<1>8. F[1] = ss[1]
  <2>1. 1 \in 1 .. n
    BY <1>1
  <2> QED
    BY <1>6, <2>1
<1>9. ASSUME NEW i \in 2 .. n
      PROVE  F[i] = F[i - 1] \o ss[i]
  <2>1. i \in 1 .. n /\ i # 1
    BY <1>1
  <2>2. F[i] = Step(F, i)
    <3> HIDE DEF Step
    <3> QED
      BY <1>6, <2>1
  <2> QED
    BY <2>1, <2>2
<1> QED
  BY <1>7, <1>8, <1>9 DEF n

LEMMA FlattenOne == ASSUME NEW s PROVE FlattenSeq(<<s>>) = s /\ FlattenSeq(<<>>) = <<>>
<1>1. FlattenSeq(<<>>) = <<>>
  BY DEF FlattenSeq
<1>2. Len(<<s>>) \in Nat /\ Len(<<s>>) # 0 /\ Len(<<s>>) = 1 /\ <<s>>[1] = s
  OBVIOUS
<1>3. \E f : FlattenSeq(<<s>>) = f[Len(<<s>>)] /\ f[1] = <<s>>[1]
  BY <1>2, FlattenDef, Zenon
<1> QED
  BY <1>1, <1>2, <1>3

LEMMA FlattenAppend ==
    ASSUME NEW S, NEW ss \in Seq(Seq(S)), NEW s \in Seq(S)
    PROVE  FlattenSeq(Append(ss, s)) = FlattenSeq(ss) \o s
<1> DEFINE n == Len(ss)
           tt == Append(ss, s)
           T == Seq(S)
<1>1. /\ n \in Nat /\ (ss # <<>> => n # 0)
      /\ Len(tt) = n + 1 /\ tt[n + 1] = s /\ \A i \in 1 .. n : tt[i] = ss[i]
  <2> HIDE DEF T
  <2>1. ss \in Seq(T) /\ s \in T
    BY DEF T
  <2>2. n \in Nat /\ (ss # <<>> => n # 0)
    BY <2>1, LenProperties, EmptySeq
  <2> QED
    BY <2>1, <2>2, AppendProperties
<1>2. CASE ss = <<>>
  <2>1. tt = <<s>> /\ <<>> \o s = s
    BY <1>2, ConcatEmptySeq
  <2> QED
    BY <1>2, <2>1, FlattenOne
<1>3. CASE ss # <<>>
  <2>1. PICK f : /\ FlattenSeq(ss) = f[n] /\ f[1] = ss[1]
                 /\ \A i \in 2 .. n : f[i] = f[i - 1] \o ss[i]
    BY <1>1, <1>3, FlattenDef, Zenon
  <2> HIDE DEF n, tt
  <2>2. Len(tt) \in Nat /\ Len(tt) # 0 /\ Len(tt) = n + 1
    BY <1>1
  <2>30. PICK g : /\ FlattenSeq(tt) = g[Len(tt)] /\ g[1] = tt[1]
                 /\ \A i \in 2 .. Len(tt) : g[i] = g[i - 1] \o tt[i]
    BY <2>2, FlattenDef, Zenon
  <2>3. /\ FlattenSeq(tt) = g[n + 1] /\ g[1] = tt[1]
        /\ \A i \in 2 .. n + 1 : g[i] = g[i - 1] \o tt[i]
    BY <2>2, <2>30
  <2> DEFINE G == {m \in 0 .. n - 1 : g[m + 1] = f[m + 1]}
  <2>4. 0 \in G
    <3>1. 0 \in 0 .. n - 1 /\ 1 \in 1 .. n /\ 0 + 1 = 1
      BY <1>1, <1>3
    <3>2. g[0 + 1] = f[0 + 1]
      BY <1>1, <2>1, <2>3, <3>1
    <3> QED
      BY <3>1, <3>2
  <2>5. ASSUME NEW m \in 0 .. (n - 1) - 1, m \in G
        PROVE  m + 1 \in G
    <3>1. /\ m + 1 \in 0 .. n - 1 /\ (m + 1) + 1 \in 1 .. n /\ (m + 1) + 1 \in 2 .. n
          /\ ((m + 1) + 1) - 1 = m + 1 /\ (m + 1) + 1 \in 2 .. n + 1
      BY <1>1
    <3>2. f[(m + 1) + 1] = f[m + 1] \o ss[(m + 1) + 1]
      BY <2>1, <3>1
    <3>3. g[(m + 1) + 1] = g[m + 1] \o tt[(m + 1) + 1]
      BY <2>3, <3>1
    <3>4. g[(m + 1) + 1] = f[(m + 1) + 1]
      BY <1>1, <2>5, <3>1, <3>2, <3>3
    <3> QED
      BY <3>1, <3>4
  <2>6. n - 1 \in G
    <3> HIDE DEF G
    <3>1. n - 1 \in Nat
      BY <1>1, <1>3
    <3>2. 0 .. n - 1 \subseteq G
      BY <2>4, <2>5, <3>1, Climb
    <3> QED
      BY <3>1, <3>2
  <2>7. (n - 1) + 1 = n /\ n + 1 \in 2 .. n + 1 /\ (n + 1) - 1 = n
    BY <1>1, <1>3
  <2>8. g[n + 1] = g[n] \o tt[n + 1] /\ g[n] = f[n]
    BY <2>3, <2>6, <2>7
  <2>9. FlattenSeq(tt) = FlattenSeq(ss) \o s
    BY <1>1, <2>1, <2>3, <2>8
  <2> QED
    BY <2>9 DEF tt
<1> QED
  BY <1>2, <1>3

-----------------------------------------------------------------------------
(* Several outputs in one pipe.                                            *)

LEMMA FromIs ==
    ASSUME NEW who, NEW w, NEW n \in Nat
    PROVE  IsFiniteSet(From(who, w, n)) /\ Cardinality(From(who, w, n)) \in Nat
<1>1. 1 \in Int /\ n \in Int
  OBVIOUS
<1>2. IsFiniteSet(1 .. n)
  BY <1>1, FS_Interval
<1>3. From(who, w, n) \in SUBSET (1 .. n)
  BY DEF From
<1> QED
  BY <1>2, <1>3, FS_Subset, FS_CardinalityType

LEMMA FromSame ==
    ASSUME NEW m, NEW who, NEW more, NEW w, \A i \in 1 .. m : more[i] = who[i]
    PROVE  From(more, w, m) = From(who, w, m)
BY DEF From

\* The unit at i is among the first n of those who printed it.
LEMMA FromWithin ==
    ASSUME NEW n \in Nat, NEW who, NEW i \in 1 .. n
    PROVE  Cardinality(From(who, who[i], i)) \in 1 .. Cardinality(From(who, who[i], n))
<1> DEFINE A == From(who, who[i], i)
           B == From(who, who[i], n)
<1>1. A \in SUBSET B /\ i \in A
  BY DEF From
<1>2. IsFiniteSet(A) /\ IsFiniteSet(B) /\ Cardinality(A) \in Nat /\ Cardinality(B) \in Nat
  BY FromIs
<1> HIDE DEF A, B
<1>3. Cardinality(A) <= Cardinality(B) /\ Cardinality(A) # 0
  BY <1>1, <1>2, FS_Subset, FS_EmptySet
<1>4. Cardinality(A) \in 1 .. Cardinality(B)
  BY <1>2, <1>3
<1> QED
  BY <1>4 DEF A, B

LEMMA MergesNothing == ASSUME NEW D PROVE Merges(<<>>, [w \in D |-> <<>>])
<1> DEFINE ss == [w \in D |-> <<>>]
           who == [i \in 1 .. 0 |-> 0]
<1>1. Len(<<>>) = 0 /\ 1 .. 0 = {}
  OBVIOUS
<1>2. who \in [1 .. Len(<<>>) -> DOMAIN ss]
  BY <1>1
<1>3. \A w \in DOMAIN ss : Cardinality(From(who, w, 0)) = 0
  <2>1. \A w \in DOMAIN ss : From(who, w, 0) = {}
    BY <1>1 DEF From
  <2> QED
    BY <2>1, FS_EmptySet
<1>4. \A w \in DOMAIN ss : Len(ss[w]) = 0
  BY <1>1
<1> HIDE DEF ss, who
<1>5. /\ \A w \in DOMAIN ss : Cardinality(From(who, w, Len(<<>>))) = Len(ss[w])
      /\ \A i \in 1 .. Len(<<>>) : <<>>[i] = ss[who[i]][Cardinality(From(who, who[i], i))]
  BY <1>1, <1>3, <1>4
<1>6. Merges(<<>>, ss)
  BY <1>2, <1>5, Zenon DEF Merges
<1> QED
  BY <1>6 DEF ss

\* Somebody more, who has printed nothing
LEMMA MergesSilent ==
    ASSUME NEW z, Len(z) \in Nat, NEW ss, NEW tt, NEW d, d \notin DOMAIN ss,
           DOMAIN tt = DOMAIN ss \cup {d}, tt[d] = <<>>, \A w \in DOMAIN ss : tt[w] = ss[w],
           Merges(z, ss)
    PROVE  Merges(z, tt)
<1> DEFINE n == Len(z)
           D == DOMAIN ss
<1>1. n \in Nat /\ DOMAIN tt = D \cup {d} /\ d \notin D
  OBVIOUS
<1>2. (\A w \in D : tt[w] = ss[w]) /\ Len(tt[d]) = 0
  OBVIOUS
<1>3. PICK who \in [1 .. n -> D] :
          /\ \A w \in D : Cardinality(From(who, w, n)) = Len(ss[w])
          /\ \A i \in 1 .. n : z[i] = ss[who[i]][Cardinality(From(who, who[i], i))]
  BY DEF Merges
<1> HIDE DEF n, D
<1>4. From(who, d, n) = {}
  BY <1>1, <1>3 DEF From
<1>5. \A w \in DOMAIN tt : Cardinality(From(who, w, n)) = Len(tt[w])
  <2>1. Cardinality(From(who, d, n)) = Len(tt[d])
    BY <1>2, <1>4, FS_EmptySet
  <2> QED
    BY <1>1, <1>2, <1>3, <2>1
<1>6. \A i \in 1 .. n : z[i] = tt[who[i]][Cardinality(From(who, who[i], i))]
  BY <1>2, <1>3
<1>7. who \in [1 .. n -> DOMAIN tt]
  BY <1>1, <1>3
<1> QED
  BY <1>5, <1>6, <1>7, Zenon DEF Merges, n

\* A unit more, from any of them
LEMMA MergesMore ==
    ASSUME NEW S, NEW z \in Seq(S), NEW D, NEW ss \in [D -> Seq(S)], NEW w \in D, NEW x \in S,
           Merges(z, ss)
    PROVE  Merges(Append(z, x), [ss EXCEPT ![w] = Append(@, x)])
<1> DEFINE tt == [ss EXCEPT ![w] = Append(@, x)]
           n == Len(z)
           zz == Append(z, x)
<1>1. /\ n \in Nat /\ Len(zz) = n + 1 /\ zz[n + 1] = x /\ \A i \in 1 .. n : zz[i] = z[i]
      /\ DOMAIN ss = D /\ DOMAIN tt = D /\ \A v \in D : v # w => tt[v] = ss[v]
      /\ tt[w] = Append(ss[w], x)
  BY AppendProperties, LenProperties
<1>2. \A v \in D : Len(ss[v]) \in Nat
  BY LenProperties
<1>3. /\ Len(tt[w]) = Len(ss[w]) + 1 /\ tt[w][Len(ss[w]) + 1] = x
      /\ \A c \in 1 .. Len(ss[w]) : tt[w][c] = ss[w][c]
  <2>1. ss[w] \in Seq(S)
    OBVIOUS
  <2> HIDE DEF tt
  <2> QED
    BY <1>1, <2>1, AppendProperties
<1> HIDE DEF tt, n, zz
<1>4. PICK who \in [1 .. n -> D] :
          /\ \A v \in D : Cardinality(From(who, v, n)) = Len(ss[v])
          /\ \A i \in 1 .. n : z[i] = ss[who[i]][Cardinality(From(who, who[i], i))]
  BY <1>1 DEF Merges, n
<1> DEFINE more == [i \in 1 .. n + 1 |-> IF i = n + 1 THEN w ELSE who[i]]
<1>5. /\ more \in [1 .. n + 1 -> D] /\ more[n + 1] = w
      /\ \A i \in 1 .. n : more[i] = who[i] /\ who[i] \in D
  BY <1>1
<1> HIDE DEF more
<1>6. ASSUME NEW v \in D
      PROVE  /\ \A m \in 0 .. n : From(more, v, m) = From(who, v, m)
             /\ Cardinality(From(more, v, n + 1)) = IF w = v THEN Cardinality(From(who, v, n)) + 1
                                                    ELSE Cardinality(From(who, v, n))
  <2>1. n \in Nat /\ \A i \in 1 .. n : more[i] = who[i]
    BY <1>1, <1>5
  <2>2. \A m \in 0 .. n : From(more, v, m) = From(who, v, m)
    <3>1. ASSUME NEW m \in 0 .. n
          PROVE  From(more, v, m) = From(who, v, m)
      <4>1. \A i \in 1 .. m : more[i] = who[i]
        BY <2>1
      <4> QED
        BY <4>1, FromSame
    <3> QED
      BY <3>1
  <2>3. /\ IsFiniteSet(From(who, v, n)) /\ Cardinality(From(who, v, n)) \in Nat
        /\ n + 1 \notin From(who, v, n) /\ 1 .. n + 1 = (1 .. n) \cup {n + 1}
    <3>1. n + 1 \notin From(who, v, n) /\ 1 .. n + 1 = (1 .. n) \cup {n + 1}
      BY <2>1 DEF From
    <3> QED
      BY <2>1, <3>1, FromIs
  <2>4. CASE w = v
    <3>1. From(more, v, n + 1) = From(who, v, n) \cup {n + 1}
      BY <1>5, <2>1, <2>3, <2>4 DEF From
    <3>2. Cardinality(From(who, v, n) \cup {n + 1}) = Cardinality(From(who, v, n)) + 1
      BY <2>3, FS_AddElement
    <3> QED
      BY <2>2, <2>4, <3>1, <3>2
  <2>5. CASE w # v
    <3>1. From(more, v, n + 1) = From(who, v, n)
      BY <1>5, <2>1, <2>3, <2>5 DEF From
    <3> QED
      BY <2>2, <2>5, <3>1
  <2> QED
    BY <2>4, <2>5
<1>7. \A v \in D : Cardinality(From(more, v, n + 1)) = Len(tt[v])
  BY <1>1, <1>3, <1>4, <1>6
<1>8. ASSUME NEW i \in 1 .. n + 1
      PROVE  zz[i] = tt[more[i]][Cardinality(From(more, more[i], i))]
  <2>1. CASE i = n + 1
    BY <1>1, <1>3, <1>5, <1>7, <2>1
  <2>2. CASE i # n + 1
    <3>1. i \in 1 .. n /\ i \in 0 .. n
      BY <1>1, <2>2
    <3>2. PICK v \in D : v = who[i]
      BY <1>5, <3>1
    <3>3. more[i] = v /\ From(more, v, i) = From(who, v, i)
      BY <1>5, <1>6, <3>1, <3>2
    <3>4. PICK c \in 1 .. Len(ss[v]) : c = Cardinality(From(who, v, i))
      <4>1. Cardinality(From(who, who[i], i)) \in 1 .. Cardinality(From(who, who[i], n))
        BY <1>1, <3>1, FromWithin
      <4> QED
        BY <1>4, <3>2, <4>1
    <3>5. zz[i] = ss[v][c]
      BY <1>1, <1>4, <3>1, <3>2, <3>4
    <3>6. tt[v][c] = ss[v][c]
      BY <1>1, <1>3, <3>4
    <3> QED
      BY <3>3, <3>4, <3>5, <3>6
  <2> QED
    BY <2>1, <2>2
<1>9. /\ more \in [1 .. Len(zz) -> DOMAIN tt]
      /\ \A v \in DOMAIN tt : Cardinality(From(more, v, Len(zz))) = Len(tt[v])
      /\ \A i \in 1 .. Len(zz) : zz[i] = tt[more[i]][Cardinality(From(more, more[i], i))]
  BY <1>1, <1>5, <1>7, <1>8
<1>10. Merges(zz, tt)
  BY <1>9, Zenon DEF Merges
<1> QED
  BY <1>10 DEF zz, tt

\* What the second shell prints itself for the first k lines, and what all print
OutputOf(t, k) == FlattenSeq(<<Greeting>> \o [i \in 1 .. k |-> t[i].puts])
AllOf(t, k) == [i \in 1 .. k \cup {0} |-> IF i # 0 THEN t[i].later ELSE OutputOf(t, k)]

LEMMA OutputMore ==
    ASSUME NEW t \in Seq(LineRecord), NEW k \in Nat, k < Len(t)
    PROVE  /\ OutputOf(t, k + 1) = OutputOf(t, k) \o t[k + 1].puts
           /\ t[k + 1].puts \in Seq(STRING) /\ t[k + 1].later \in Seq(STRING)
<1> DEFINE T == Seq(STRING)
           f == [i \in 1 .. k |-> t[i].puts]
           ff == [i \in 1 .. k + 1 |-> t[i].puts]
<1>1. \A i \in 1 .. k + 1 : t[i].puts \in T /\ t[i].later \in T
  <2>1. ASSUME NEW i \in 1 .. k + 1
        PROVE  t[i] \in LineRecord
    <3>1. i \in 1 .. Len(t)
      BY LenProperties
    <3> QED
      BY <3>1, ElementOfSeq
  <2> QED
    BY <2>1 DEF LineRecord
<1>2. Greeting \in T
  BY TextsAssumption
<1> HIDE DEF T
<1>3. f \in Seq(T) /\ Len(f) = k
  BY <1>1
<1>4. ff = Append(f, t[k + 1].puts)
  BY <1>1
<1>5. <<Greeting>> \o ff = Append(<<Greeting>> \o f, t[k + 1].puts) /\ <<Greeting>> \o f \in Seq(T)
  <2>1. t[k + 1].puts \in T /\ <<Greeting>> \in Seq(T)
    BY <1>1, <1>2
  <2> HIDE DEF f, ff
  <2> QED
    BY <1>3, <1>4, <2>1
<1> HIDE DEF f, ff
<1>6. FlattenSeq(<<Greeting>> \o ff) = FlattenSeq(<<Greeting>> \o f) \o t[k + 1].puts
  <2>1. PICK h : h = <<Greeting>> \o f
    OBVIOUS
  <2>2. h \in Seq(Seq(STRING)) /\ t[k + 1].puts \in Seq(STRING)
    BY <1>1, <1>5, <2>1 DEF T
  <2>3. FlattenSeq(Append(h, t[k + 1].puts)) = FlattenSeq(h) \o t[k + 1].puts
    BY <2>2, FlattenAppend
  <2> QED
    BY <1>5, <2>1, <2>3
<1> QED
  <2>1. k + 1 \in 1 .. k + 1
    OBVIOUS
  <2>2. t[k + 1].puts \in Seq(STRING) /\ t[k + 1].later \in Seq(STRING)
    BY <1>1, <2>1 DEF T
  <2>3. /\ OutputOf(t, k + 1) = FlattenSeq(<<Greeting>> \o ff)
        /\ OutputOf(t, k) = FlattenSeq(<<Greeting>> \o f)
    BY DEF OutputOf, f, ff
  <2> QED
    BY <1>6, <2>2, <2>3

LEMMA OutputNone == ASSUME NEW t PROVE OutputOf(t, 0) = Greeting
<1>1. [i \in 1 .. 0 |-> t[i].puts] = <<>>
  OBVIOUS
<1>2. <<Greeting>> \o <<>> = <<Greeting>>
  BY TextsAssumption
<1> QED
  BY <1>1, <1>2, FlattenOne DEF OutputOf

-----------------------------------------------------------------------------
(* The output is whole.                                                    *)

\* What is in the buffer and in the pipe is what the lines so far have printed, but
\* for what they still have to print.
Printing ==
    \E ss \in [1 .. got \cup {0} -> Seq(STRING)] :
        /\ Merges(buffer \o out, ss)
        /\ ss[0] \o prints = OutputOf(text, got)
        /\ \A i \in 1 .. got : ss[i] \o late[i] = text[i].later

\* No program is left in the background.
Silent == \A i \in DOMAIN late : late[i] = <<>>

\* How far both shells are: the second one ends when all is written, and read or not
\* to be read.
Together ==
    /\ sub \in {"runs", "dead"} /\ Len(late) = got
    /\ \A i \in 1 .. got - 1 : ~text[i].quits
    /\ shell = "writes" => fd[1] = "oneWrite"
    /\ shell # "writes" => sent = Len(text)
    /\ sub = "dead" => prints = <<>> /\ (Quits \/ got = Len(text))
    /\ shell = "waits" => sub = "dead" /\ out = <<>> /\ Silent

\* Nothing is left of a substitution when the next one begins.
Quiet == sub = "none" /\ Silent

Outputs == /\ shell \in {"writes", "reads", "waits"} => Printing /\ Together
           /\ shell = "idle" => Quiet

LEMMA HeadFirst ==
    ASSUME NEW S, NEW t \in Seq(S), t # <<>>
    PROVE  /\ Head(t) \in S /\ Tail(t) \in Seq(S) /\ <<Head(t)>> \in Seq(S)
           /\ <<Head(t)>> \o Tail(t) = t
<1>1. /\ Head(t) \in S /\ Head(t) = t[1] /\ Tail(t) \in Seq(S) /\ Len(t) \in Nat \ {0}
      /\ Len(Tail(t)) = Len(t) - 1 /\ \A i \in 1 .. Len(t) - 1 : Tail(t)[i] = t[i + 1]
  BY HeadTailProperties, LenProperties, EmptySeq
<1>2. <<Head(t)>> \in Seq(S) /\ Len(<<Head(t)>>) = 1 /\ <<Head(t)>>[1] = Head(t)
  BY <1>1
<1> DEFINE h == <<Head(t)>>
           r == Tail(t)
<1> HIDE DEF h, r
<1>3. h \in Seq(S) /\ r \in Seq(S) /\ Len(h) = 1 /\ Len(r) = Len(t) - 1
  BY <1>1, <1>2 DEF h, r
<1>4. /\ h \o r \in Seq(S) /\ Len(h \o r) = Len(t)
      /\ \A i \in 1 .. Len(h) + Len(r) :
             (h \o r)[i] = IF i <= Len(h) THEN h[i] ELSE r[i - Len(h)]
  <2>1. /\ h \o r \in Seq(S) /\ Len(h \o r) = Len(h) + Len(r)
        /\ \A i \in 1 .. Len(h) + Len(r) :
               (h \o r)[i] = IF i <= Len(h) THEN h[i] ELSE r[i - Len(h)]
    BY <1>3, ConcatProperties
  <2>2. Len(h) + Len(r) = Len(t)
    BY <1>1, <1>3
  <2> QED
    BY <2>1, <2>2
<1>5. \A i \in 1 .. Len(t) : (h \o r)[i] = t[i]
  BY <1>1, <1>2, <1>3, <1>4 DEF h, r
<1>6. h \o r = t
  BY <1>4, <1>5, SeqEqual
<1> QED
  BY <1>1, <1>2, <1>6 DEF h, r

LEMMA MovedUnit ==
    ASSUME NEW S, NEW s \in Seq(S), NEW t \in Seq(S), t # <<>>
    PROVE  /\ Head(t) \in S /\ Tail(t) \in Seq(S) /\ Append(s, Head(t)) \in Seq(S)
           /\ Append(s, Head(t)) \o Tail(t) = s \o t
<1>1. /\ Head(t) \in S /\ Tail(t) \in Seq(S) /\ <<Head(t)>> \in Seq(S)
      /\ <<Head(t)>> \o Tail(t) = t
  BY HeadFirst
<1>2. Append(s, Head(t)) = s \o <<Head(t)>> /\ Append(s, Head(t)) \in Seq(S)
  BY <1>1, AppendIsConcat, AppendProperties
<1>4. (s \o <<Head(t)>>) \o Tail(t) = s \o (<<Head(t)>> \o Tail(t))
  BY <1>1, ConcatAssociative
<1> QED
  BY <1>1, <1>2, <1>4

LEMMA UnitGoesOver ==
    ASSUME NEW S, NEW s \in Seq(S), NEW t \in Seq(S), NEW x \in S
    PROVE  Append(s, x) \o t = s \o (<<x>> \o t)
<1>1. <<x>> \in Seq(S) /\ Append(s, x) = s \o <<x>>
  BY AppendIsConcat
<1>2. (s \o <<x>>) \o t = s \o (<<x>> \o t)
  BY <1>1, ConcatAssociative
<1> QED
  BY <1>1, <1>2

LEMMA AppendLast ==
    ASSUME NEW S, NEW s \in Seq(S), NEW t \in Seq(S), NEW x \in S
    PROVE  s \o Append(t, x) = Append(s \o t, x)
<1>1. <<x>> \in Seq(S) /\ Append(t, x) = t \o <<x>>
  BY AppendIsConcat
<1>2. s \o t \in Seq(S)
  BY ConcatProperties
<1>3. Append(s \o t, x) = (s \o t) \o <<x>>
  BY <1>2, AppendIsConcat
<1>4. (s \o t) \o <<x>> = s \o (t \o <<x>>)
  BY <1>1, ConcatAssociative
<1> QED
  BY <1>1, <1>3, <1>4

LEMMA InitOutputs == Init => Outputs
BY DEF Init, Outputs, Quiet, Silent

LEMMA SubstituteOutputs ==
    ASSUME IInv, Outputs, NEW t \in Texts, NEW forked \in BOOLEAN, Substitute(t, forked)
    PROVE  Outputs'
<1>1. shell = "idle" /\ Quiet
  BY DEF Substitute, Outputs
<1>2. CASE ~(NumberFree(fd) >= 4)
  <2>1. UNCHANGED <<shell, subVars>>
    BY <1>2 DEF Substitute, NumberFree
  <2> QED
    BY <1>1, <2>1 DEF Outputs, Quiet, Silent, subVars
<1>3. CASE NumberFree(fd) >= 4
  <2>1. /\ text' = t /\ sent' = 0 /\ buffer' = <<>> /\ got' = 0 /\ prints' = Greeting
        /\ out' = <<>> /\ late' = <<>>
        /\ shell' = IF forked THEN "writes" ELSE "exited"
        /\ sub' = IF forked THEN "runs" ELSE "none"
    BY <1>3 DEF Substitute, NumberFree
  <2>2. fd'[1] = "oneWrite"
    <3>1. PICK a, d \in Fds : Replugged(a, d)
      BY <1>3, SubstituteReplugs DEF IInv, TypeOK, Table, Object
    <3> QED
      BY <3>1, FdsFinite DEF Replugged
  <2>3. Printing'
    <3>1. PICK ss : ss = [w \in 1 .. 0 \cup {0} |-> <<>>]
      OBVIOUS
    <3>2. /\ ss \in [1 .. got' \cup {0} -> Seq(STRING)] /\ ss[0] = <<>>
          /\ 1 .. got' = {}
      BY <2>1, <3>1, EmptySeq
    <3>3. Merges(<<>>, ss)
      BY <3>1, MergesNothing
    <3>4. buffer' \o out' = <<>> /\ ss[0] \o prints' = OutputOf(text', got')
      BY <2>1, <3>2, OutputNone, TextsAssumption, ConcatEmptySeq
    <3> QED
      BY <3>2, <3>3, <3>4 DEF Printing
  <2>4. forked => Together'
    BY <2>1, <2>2 DEF Together, Silent
  <2> QED
    BY <2>1, <2>3, <2>4 DEF Outputs
<1> QED
  BY <1>2, <1>3

LEMMA WriteOutputs ==
    ASSUME IInv, Outputs, Write
    PROVE  Outputs'
<1>1. /\ shell = "writes" /\ sent' = sent + 1
      /\ UNCHANGED <<text, buffer, sub, got, prints, late, out>>
      /\ IF sent' = Len(text) THEN shell' = "reads" ELSE shell' = shell /\ fd' = fd
  BY DEF Write, subVars
<1>2. Printing /\ Together
  BY <1>1 DEF Outputs
<1>3. Printing'
  BY <1>1, <1>2 DEF Printing
<1>4. Together'
  BY <1>1, <1>2 DEF Together, Silent, Quits
<1> QED
  BY <1>1, <1>3, <1>4 DEF Outputs

LEMMA ReadOutputs ==
    ASSUME IInv, Outputs, Read
    PROVE  Outputs'
<1>1. /\ shell = "reads" /\ out # <<>> /\ out' = Tail(out)
      /\ UNCHANGED <<fd, text, sent, sub, got, prints, late>>
      /\ out \in Seq(STRING) /\ buffer \in Seq(STRING)
      /\ \/ buffer' = Append(buffer, Head(out)) /\ shell' = shell
         \/ shell' = "crashed"
  BY DEF Read, subVars, IInv, Typed
<1>2. Printing /\ Together
  BY <1>1 DEF Outputs
<1>3. CASE shell' = "crashed"
  BY <1>3 DEF Outputs
<1>4. CASE buffer' = Append(buffer, Head(out)) /\ shell' = shell
  <2>1. buffer' \o out' = buffer \o out
    BY <1>1, <1>4, MovedUnit
  <2>2. Printing'
    BY <1>1, <1>2, <2>1 DEF Printing
  <2>3. Together'
    BY <1>1, <1>2, <1>4 DEF Together, Silent, Quits
  <2> QED
    BY <1>1, <1>4, <2>2, <2>3 DEF Outputs
<1> QED
  BY <1>1, <1>3, <1>4

LEMMA EndOfOutputOutputs ==
    ASSUME IInv, Outputs, EndOfOutput
    PROVE  Outputs'
<1>1. /\ shell = "reads" /\ shell' = "waits" /\ out = <<>> /\ Silent /\ sub # "runs"
      /\ UNCHANGED <<text, sent, buffer, sub, got, prints, late, out>>
  BY DEF EndOfOutput, HasWriter, Silent, subVars
<1>2. Printing /\ Together
  BY <1>1 DEF Outputs
<1>3. Printing'
  BY <1>1, <1>2 DEF Printing
<1>4. Together'
  BY <1>1, <1>2 DEF Together, Silent, Quits
<1> QED
  BY <1>1, <1>3, <1>4 DEF Outputs

LEMMA WaitOutputs ==
    ASSUME IInv, Outputs, Wait
    PROVE  Outputs'
BY DEF Wait, Outputs, Together, Quiet, Silent

\* A unit that is printed goes from what is to be printed to the end of the pipe.
LEMMA UnitMoves ==
    ASSUME IInv, shell \in {"writes", "reads", "waits"}, Printing, Together,
           NEW w \in 1 .. got \cup {0}, NEW x \in STRING, out' = Append(out, x),
           UNCHANGED shellVars, sub' = sub, got' = got, Len(late') = Len(late), shell # "waits",
           sub = "dead" => prints' = prints,
           \E rest \in Seq(STRING) :
               IF w = 0 THEN prints = <<x>> \o rest /\ prints' = rest /\ late' = late
               ELSE /\ prints' = prints /\ late[w] = <<x>> \o rest /\ late'[w] = rest
                    /\ \A i \in 1 .. got : i # w => late'[i] = late[i]
    PROVE  Printing' /\ Together'
<1>1. PICK ss \in [1 .. got \cup {0} -> Seq(STRING)] :
          /\ Merges(buffer \o out, ss)
          /\ ss[0] \o prints = OutputOf(text, got)
          /\ \A i \in 1 .. got : ss[i] \o late[i] = text[i].later
  BY DEF Printing
<1>2. PICK r \in Seq(STRING) :
          IF w = 0 THEN prints = <<x>> \o r /\ prints' = r /\ late' = late
          ELSE /\ prints' = prints /\ late[w] = <<x>> \o r /\ late'[w] = r
               /\ \A i \in 1 .. got : i # w => late'[i] = late[i]
  OBVIOUS
<1> DEFINE T == STRING
           D == 1 .. got \cup {0}
           tt == [ss EXCEPT ![w] = Append(@, x)]
<1>3. /\ buffer \in Seq(T) /\ out \in Seq(T) /\ x \in T /\ r \in Seq(T) /\ w \in D
      /\ ss \in [D -> Seq(T)] /\ got \in Nat /\ 0 \in D
  BY <1>1, <1>2 DEF IInv, Typed
<1> HIDE DEF T, D
<1>4. /\ tt \in [D -> Seq(T)] /\ tt[w] = Append(ss[w], x) /\ \A i \in D : i # w => tt[i] = ss[i]
      /\ ss[w] \in Seq(T)
  BY <1>3, AppendProperties
<1>5. tt[w] \o r = ss[w] \o (<<x>> \o r)
  <2>1. PICK a, b \in Seq(T), y \in T : a = ss[w] /\ b = r /\ y = x
    BY <1>3, <1>4
  <2>2. a \in Seq(T) /\ b \in Seq(T) /\ y \in T
    OBVIOUS
  <2>3. Append(a, y) \o b = a \o (<<y>> \o b)
    BY ONLY <2>2, UnitGoesOver
  <2> QED
    BY <1>4, <2>1, <2>3
<1>6. Merges(buffer' \o out', tt)
  <2>1. buffer \o out \in Seq(T) /\ buffer \o Append(out, x) = Append(buffer \o out, x)
    <3>1. PICK a, b \in Seq(T), y \in T : a = buffer /\ b = out /\ y = x
      BY <1>3
    <3>2. a \in Seq(T) /\ b \in Seq(T) /\ y \in T
      OBVIOUS
    <3>3. a \o b \in Seq(T)
      BY ONLY <3>2, ConcatProperties
    <3>4. a \o Append(b, y) = Append(a \o b, y)
      BY ONLY <3>2, AppendLast
    <3> QED
      BY <3>1, <3>3, <3>4
  <2>2. Merges(Append(buffer \o out, x), tt)
    BY <1>1, <1>3, <2>1, MergesMore
  <2>3. buffer' \o out' = Append(buffer \o out, x)
    BY <2>1 DEF shellVars
  <2> QED
    BY <2>2, <2>3
<1> HIDE DEF tt
<1>7. tt[0] \o prints' = OutputOf(text, got)
  BY <1>1, <1>2, <1>3, <1>4, <1>5
<1>8. ASSUME NEW i \in 1 .. got
      PROVE  tt[i] \o late'[i] = text[i].later
  <2>1. i \in D /\ i # 0
    BY <1>3 DEF D
  <2> QED
    BY <1>1, <1>2, <1>4, <1>5, <2>1
<1>9. Printing'
  <2>1. tt \in [1 .. got \cup {0} -> Seq(STRING)]
    BY <1>4 DEF T, D
  <2>2. got' = got /\ text' = text
    BY DEF shellVars
  <2> QED
    BY <1>6, <1>7, <1>8, <2>1, <2>2 DEF Printing
<1>10. Together'
  BY DEF Together, Quits, shellVars
<1> QED
  BY <1>9, <1>10

LEMMA PutsOutputs ==
    ASSUME IInv, Outputs, Puts
    PROVE  Outputs'
<1>1. /\ UNCHANGED shellVars /\ sub = "runs" /\ sub' = sub /\ got' = got /\ late' = late
      /\ prints # <<>> /\ out' = Append(out, Head(prints)) /\ prints' = Tail(prints)
      /\ prints \in Seq(STRING)
  BY DEF Puts, IInv, Typed
<1>2. CASE shell \notin {"writes", "reads", "waits"}
  BY <1>1, <1>2 DEF Outputs, Quiet, shellVars
<1>3. CASE shell \in {"writes", "reads", "waits"}
  <2>1. Printing /\ Together /\ shell # "waits"
    BY <1>1, <1>3 DEF Outputs, Together
  <2>2. /\ Head(prints) \in STRING /\ Tail(prints) \in Seq(STRING)
        /\ prints = <<Head(prints)>> \o Tail(prints)
    BY <1>1, HeadFirst, Zenon
  <2>3. PICK x \in STRING, r \in Seq(STRING) :
            x = Head(prints) /\ r = Tail(prints) /\ prints = <<x>> \o r
    BY <2>2
  <2>4. PICK w : w = 0
    OBVIOUS
  <2>5. w \in 1 .. got \cup {0} /\ w = 0 /\ prints = <<x>> \o r /\ prints' = r /\ late' = late
    BY <1>1, <2>3, <2>4
  <2>6. out' = Append(out, x) /\ Len(late') = Len(late) /\ sub # "dead"
    BY <1>1, <2>3, Zenon
  <2>7. Printing' /\ Together'
    BY <1>1, <1>3, <2>1, <2>5, <2>6, UnitMoves
  <2> QED
    BY <1>1, <1>3, <2>7 DEF Outputs, shellVars
<1> QED
  BY <1>2, <1>3

LEMMA PutsLateOutputs ==
    ASSUME IInv, Outputs, NEW w \in DOMAIN late, PutsLate(w)
    PROVE  Outputs'
<1>1. /\ UNCHANGED shellVars /\ sub' = sub /\ got' = got /\ prints' = prints
      /\ late[w] # <<>> /\ out' = Append(out, Head(late[w]))
      /\ late' = [late EXCEPT ![w] = Tail(@)] /\ late \in Seq(Seq(STRING))
  BY DEF PutsLate, IInv, Typed
<1>2. shell \in {"writes", "reads"} \/ shell \notin {"writes", "reads", "waits", "idle"}
  BY <1>1 DEF Outputs, Together, Quiet, Silent
<1>3. CASE shell \notin {"writes", "reads", "waits", "idle"}
  BY <1>1, <1>3 DEF Outputs, shellVars
<1>4. CASE shell \in {"writes", "reads"}
  <2>1. Printing /\ Together
    BY <1>4 DEF Outputs
  <2>2. /\ late[w] \in Seq(STRING) /\ Len(late') = Len(late)
    BY <1>1, LateStep
  <2>3. /\ Head(late[w]) \in STRING /\ Tail(late[w]) \in Seq(STRING)
        /\ late[w] = <<Head(late[w])>> \o Tail(late[w])
    BY <1>1, <2>2, HeadFirst, Zenon
  <2>4. PICK x \in STRING, r \in Seq(STRING) :
            x = Head(late[w]) /\ r = Tail(late[w]) /\ late[w] = <<x>> \o r
    BY <2>3
  <2>5. DOMAIN late = 1 .. got /\ got \in Nat
    BY <1>1, <2>1 DEF Together, IInv, Typed
  <2>6. /\ w \in 1 .. got \cup {0} /\ w # 0 /\ late'[w] = r
        /\ \A i \in 1 .. got : i # w => late'[i] = late[i]
    BY <1>1, <2>4, <2>5, SMTT(20)
  <2>7. out' = Append(out, x)
    BY <1>1, <2>4
  <2>8. Printing' /\ Together'
    BY <1>1, <1>4, <2>1, <2>2, <2>4, <2>6, <2>7, UnitMoves
  <2> QED
    BY <1>1, <1>4, <2>8 DEF Outputs, shellVars
<1> QED
  BY <1>2, <1>3, <1>4

\* One program more may run in the background; it has printed nothing yet.
LEMMA NextLineOutputs ==
    ASSUME IInv, Outputs, NextLine
    PROVE  Outputs'
<1>1. /\ UNCHANGED shellVars /\ sub = "runs" /\ sub' = sub /\ out' = out /\ prints = <<>>
      /\ got < sent /\ ~Quits /\ got' = got + 1
      /\ prints' = text[got + 1].puts /\ late' = Append(late, text[got + 1].later)
      /\ text \in Seq(LineRecord) /\ late \in Seq(Seq(STRING)) /\ got \in Nat /\ sent \in Nat
      /\ sent <= Len(text) /\ Len(text) \in Nat
  BY LenProperties DEF NextLine, IInv, Typed, TypeOK
<1>2. CASE shell \notin {"writes", "reads", "waits"}
  BY <1>1, <1>2 DEF Outputs, Quiet, shellVars
<1>3. CASE shell \in {"writes", "reads", "waits"}
  <2>1. Printing /\ Together
    BY <1>3 DEF Outputs
  <2>2. PICK ss \in [1 .. got \cup {0} -> Seq(STRING)] :
            /\ Merges(buffer \o out, ss)
            /\ ss[0] \o prints = OutputOf(text, got)
            /\ \A i \in 1 .. got : ss[i] \o late[i] = text[i].later
    BY <2>1 DEF Printing
  <2>3. /\ OutputOf(text, got + 1) = OutputOf(text, got) \o text[got + 1].puts
        /\ text[got + 1].puts \in Seq(STRING) /\ text[got + 1].later \in Seq(STRING)
    <3>1. got < Len(text)
      BY <1>1
    <3> QED
      BY <1>1, <3>1, OutputMore
  <2>4. buffer' = buffer /\ text' = text
    BY <1>1 DEF shellVars
  <2>5. Len(late') = got + 1 /\ late'[got + 1] = text[got + 1].later
        /\ \A i \in 1 .. got : late'[i] = late[i]
    <3> DEFINE T == Seq(STRING)
    <3>1. late \in Seq(T) /\ text[got + 1].later \in T /\ Len(late) = got
      BY <1>1, <2>1, <2>3 DEF Together
    <3> HIDE DEF T
    <3> QED
      BY <1>1, <3>1, AppendProperties
  <2>6. Printing'
    <3> DEFINE D == 1 .. got \cup {0}
               tt == [w \in D \cup {got + 1} |-> IF w = got + 1 THEN <<>> ELSE ss[w]]
    <3>1. got + 1 \notin D /\ D \cup {got + 1} = 1 .. got' \cup {0} /\ 0 \in D /\ got + 1 # 0
          /\ 1 .. got \subseteq D
      BY <1>1
    <3>2. /\ tt \in [1 .. got' \cup {0} -> Seq(STRING)] /\ tt[0] = ss[0] /\ tt[got + 1] = <<>>
          /\ \A i \in 1 .. got : tt[i] = ss[i]
      BY <2>2, <3>1, EmptySeq
    <3> HIDE DEF tt
    <3>3. Merges(buffer \o out, tt)
      <4>1. PICK z, d : z = buffer \o out /\ d = got + 1
        OBVIOUS
      <4>2. DOMAIN ss = D /\ DOMAIN tt = D \cup {d} /\ d \notin D /\ tt[d] = <<>>
        BY <2>2, <3>1, <3>2, <4>1
      <4>3. \A w \in D : tt[w] = ss[w]
        BY <3>2
      <4>4. Merges(z, ss) /\ Len(z) \in Nat
        <5>1. buffer \o out \in Seq(STRING)
          BY ConcatProperties DEF IInv, Typed
        <5> QED
          BY <2>2, <4>1, <5>1, LenProperties
      <4> HIDE DEF D
      <4>5. Merges(z, tt)
        BY <4>2, <4>3, <4>4, MergesSilent
      <4> QED
        BY <4>1, <4>5
    <3> HIDE DEF D
    <3>4. tt[0] \o prints' = OutputOf(text', got')
      <4>1. ss[0] \in Seq(STRING)
        BY <2>2
      <4>2. ss[0] \o <<>> = ss[0]
        BY <4>1, ConcatEmptySeq
      <4> QED
        BY <1>1, <2>2, <2>3, <2>4, <3>2, <4>2
    <3>5. ASSUME NEW i \in 1 .. got'
          PROVE  tt[i] \o late'[i] = text'[i].later
      <4>1. CASE i = got + 1
        <5>1. <<>> \o text[got + 1].later = text[got + 1].later
          BY <2>3, ConcatEmptySeq
        <5> QED
          BY <2>4, <2>5, <3>2, <4>1, <5>1
      <4>2. CASE i # got + 1
        <5>1. i \in 1 .. got
          BY <1>1, <4>2
        <5> QED
          BY <2>2, <2>4, <2>5, <3>2, <5>1
      <4> QED
        BY <4>1, <4>2
    <3>6. Merges(buffer' \o out', tt)
      BY <1>1, <2>4, <3>3
    <3> QED
      BY <3>2, <3>4, <3>5, <3>6 DEF Printing
  <2>8. \A i \in 1 .. got' - 1 : ~text'[i].quits
    <3>1. \A i \in 1 .. got' - 1 : i \in 1 .. got - 1 \/ (i = got /\ got > 0)
      BY <1>1
    <3>2. got > 0 => ~text[got].quits
      BY <1>1 DEF Quits
    <3> QED
      BY <2>1, <2>4, <3>1, <3>2 DEF Together
  <2>9. Together'
    <3>1. sub' = "runs" /\ UNCHANGED <<shell, fd, sent, text>>
      BY <1>1 DEF shellVars
    <3>2. Len(late') = got'
      BY <1>1, <2>5
    <3> QED
      BY <1>1, <2>1, <2>8, <3>1, <3>2 DEF Together
  <2> QED
    BY <1>1, <1>3, <2>6, <2>9 DEF Outputs, shellVars
<1> QED
  BY <1>2, <1>3

\* The second shell ends at `exit`, or when no more can come: all is written then.
LEMMA ExitOutputs ==
    ASSUME IInv, Outputs, Exit
    PROVE  Outputs'
<1>1. /\ UNCHANGED shellVars /\ sub = "runs" /\ sub' = "dead" /\ prints = <<>>
      /\ UNCHANGED <<got, prints, late, out>>
      /\ Quits \/ (got = sent /\ \A n \in Fds : fd[n] # "oneWrite")
  BY DEF Exit
<1>2. CASE shell \notin {"writes", "reads", "waits"}
  BY <1>1, <1>2 DEF Outputs, Quiet, shellVars
<1>3. CASE shell \in {"writes", "reads", "waits"}
  <2>1. Printing /\ Together
    BY <1>3 DEF Outputs
  <2>2. Quits \/ got = Len(text)
    <3>1. 1 \in Fds
      BY FdsFinite
    <3> QED
      BY <1>1, <2>1, <3>1 DEF Together
  <2>3. UNCHANGED <<shell, fd, text, sent, buffer>> /\ shell # "waits"
    BY <1>1, <2>1 DEF shellVars, Together
  <2>4. Printing'
    BY <1>1, <2>1, <2>3 DEF Printing
  <2>5. Together'
    BY <1>1, <2>1, <2>2, <2>3 DEF Together, Silent, Quits
  <2> QED
    BY <1>3, <2>3, <2>4, <2>5 DEF Outputs
<1> QED
  BY <1>2, <1>3

LEMMA NextOutputs == IInv /\ Outputs /\ [Next]_vars => Outputs'
<1> SUFFICES ASSUME IInv, Outputs, [Next]_vars PROVE Outputs'
  OBVIOUS
<1>1. ASSUME NEW t \in Texts, NEW forked \in BOOLEAN, Substitute(t, forked) PROVE Outputs'
  BY <1>1, SubstituteOutputs
<1>2. CASE Sub
  BY <1>2, PutsOutputs, NextLineOutputs, ExitOutputs DEF Sub
<1>3. CASE UNCHANGED vars
  BY <1>3 DEF Outputs, Printing, Together, Silent, Quiet, Quits, vars, shellVars, subVars
<1>4. ASSUME NEW i \in DOMAIN late, PutsLate(i) PROVE Outputs'
  BY <1>4, PutsLateOutputs
<1> QED
  BY <1>1, <1>2, <1>3, <1>4, WriteOutputs, ReadOutputs, EndOfOutputOutputs, WaitOutputs
     DEF Next

\* When all is read, the lines so far are those that are run.
LEMMA WholeThen ==
    ASSUME IInv, Outputs, shell = "waits"
    PROVE  Merges(buffer, Printed(text))
<1>1. /\ Printing /\ sub = "dead" /\ out = <<>> /\ prints = <<>> /\ Silent /\ Len(late) = got
      /\ \A i \in 1 .. got - 1 : ~text[i].quits
      /\ Quits \/ got = Len(text)
  BY DEF Outputs, Together
<1>2. PICK ss \in [1 .. got \cup {0} -> Seq(STRING)] :
          /\ Merges(buffer \o out, ss)
          /\ ss[0] \o prints = OutputOf(text, got)
          /\ \A i \in 1 .. got : ss[i] \o late[i] = text[i].later
  BY <1>1 DEF Printing
<1>3. /\ buffer \o out = buffer /\ ss[0] = OutputOf(text, got)
      /\ \A i \in 1 .. got : ss[i] = text[i].later
  <2>1. buffer \o <<>> = buffer /\ \A i \in 1 .. got \cup {0} : ss[i] \o <<>> = ss[i]
    BY <1>2, ConcatEmptySeq DEF IInv, Typed
  <2>2. DOMAIN late = 1 .. got
    BY <1>1 DEF IInv, Typed
  <2>3. \A i \in 1 .. got : late[i] = <<>>
    BY <1>1, <2>2 DEF Silent
  <2> QED
    BY <1>1, <1>2, <2>1, <2>3
<1>4. got \in Nat /\ got <= Len(text) /\ Len(text) \in Nat
  BY LenProperties DEF IInv, Typed, TypeOK
<1>5. Runs(text) = 1 .. got
  <2>1. ASSUME NEW i \in 1 .. got
        PROVE  i \in Runs(text)
    <3>1. i \in 1 .. Len(text) /\ \A j \in 1 .. i - 1 : j \in 1 .. got - 1
      BY <1>4
    <3> QED
      BY <1>1, <3>1 DEF Runs
  <2>2. ASSUME NEW i \in Runs(text), i \notin 1 .. got
        PROVE  FALSE
    <3>1. i \in 1 .. Len(text) /\ \A j \in 1 .. i - 1 : ~text[j].quits
      BY DEF Runs
    <3>2. i > got
      BY <1>4, <2>2, <3>1
    <3>3. got # Len(text) /\ (got > 0 => got \in 1 .. i - 1)
      BY <1>4, <3>1, <3>2
    <3> QED
      BY <1>1, <3>1, <3>3 DEF Quits
  <2> QED
    BY <2>1, <2>2
<1>6. Printed(text) = AllOf(text, got)
  BY <1>5 DEF Printed, AllOf, OutputOf
<1>7. ss = AllOf(text, got)
  BY <1>2, <1>3, <1>4 DEF AllOf
<1> QED
  BY <1>2, <1>3, <1>6, <1>7

\* The scanner is given everything that the start-up file, the lines up to `exit` and
\* the programs that these leave in the background print, each unit once and those of
\* each program in its order, however the programs run against each other.
THEOREM OutputIsWhole == Spec => []WholeOutput
<1>1. IInv /\ Outputs => WholeOutput
  BY WholeThen DEF WholeOutput
<1>2. Init => IInv /\ Outputs
  BY InitInv, InitOutputs
<1>3. IInv /\ Outputs /\ [Next]_vars => (IInv /\ Outputs)'
  BY NextInv, NextOutputs
<1> QED
  BY <1>1, <1>2, <1>3, PTL DEF Spec

=============================================================================
