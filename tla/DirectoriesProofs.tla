-------------------------- MODULE DirectoriesProofs --------------------------
(***************************************************************************)
(* What holds of Directories for every tree, all texts and any depth of    *)
(* the stack: a directory that pushd has put there at the beginning of a   *)
(* line is the one the shell was in, popd goes there, and at the prompt    *)
(* names lead where the kernel finds them.                                 *)
(***************************************************************************)
EXTENDS Directories, SequenceTheorems, WellFoundedInduction, TLAPS

-----------------------------------------------------------------------------
(* The inductive invariant.                                                *)

Removable == {Removed(d) : d \in Tree \ {<<>>}}

IsSequence(s) == \E S : s \in Seq(S)

\* The stack and what it should lead to go together.
Stacks == IsSequence(stack) /\ IsSequence(from) /\ Len(from) = Len(stack)

\* The shell is in a directory that exists, or in one that will not exist again.
SomewhereReal == dirs \subseteq Tree /\ cwd \in dirs \cup Removable

\* At the prompt of a terminal PWD is the working directory, unless that is gone.
PwdIsHere == bol /\ refreshes /\ cwd \in dirs => PWD = Absolute(cwd)

IInv == Stacks /\ SomewhereReal /\ PwdIsHere /\ BackWherePushed

-----------------------------------------------------------------------------
(* Lemmas on sequences, whatever is in them.                               *)

LEMMA PushSequence ==
    ASSUME NEW s, IsSequence(s), NEW x
    PROVE  /\ IsSequence(<<x>> \o s) /\ Len(<<x>> \o s) = Len(s) + 1
           /\ \A i \in 1 .. Len(s) + 1 : (<<x>> \o s)[i] = IF i = 1 THEN x ELSE s[i - 1]
<1>1. PICK S : s \in Seq(S)
  BY DEF IsSequence
<1> DEFINE T == S \cup {x}
<1>2. s \in Seq(T) /\ x \in T
  BY <1>1
<1> HIDE DEF T
<1>3. /\ <<x>> \o s \in Seq(T) /\ Len(<<x>> \o s) = Len(s) + 1
      /\ \A i \in 1 .. Len(s) + 1 : (<<x>> \o s)[i] = IF i = 1 THEN x ELSE s[i - 1]
  BY <1>2
<1> QED
  BY <1>3 DEF IsSequence

LEMMA PopSequence ==
    ASSUME NEW s, IsSequence(s), s # <<>>
    PROVE  /\ IsSequence(Tail(s)) /\ Len(Tail(s)) = Len(s) - 1 /\ Len(s) \in Nat \ {0}
           /\ \A i \in 1 .. Len(s) - 1 : Tail(s)[i] = s[i + 1]
<1>1. PICK S : s \in Seq(S)
  BY DEF IsSequence
<1>2. /\ Tail(s) \in Seq(S) /\ Len(Tail(s)) = Len(s) - 1 /\ Len(s) \in Nat \ {0}
      /\ \A i \in 1 .. Len(s) - 1 : Tail(s)[i] = s[i + 1]
  BY <1>1
<1> QED
  BY <1>2 DEF IsSequence

LEMMA AppendSequence ==
    ASSUME NEW s, IsSequence(s), NEW x
    PROVE  /\ IsSequence(Append(s, x)) /\ Len(Append(s, x)) = Len(s) + 1 /\ Len(s) \in Nat
           /\ \A i \in 1 .. Len(s) + 1 :
                  Append(s, x)[i] = IF i = Len(s) + 1 THEN x ELSE s[i]
<1>1. PICK S : s \in Seq(S)
  BY DEF IsSequence
<1> DEFINE T == S \cup {x}
<1>2. s \in Seq(T) /\ x \in T
  BY <1>1
<1> HIDE DEF T
<1>3. /\ Append(s, x) \in Seq(T) /\ Len(Append(s, x)) = Len(s) + 1 /\ Len(s) \in Nat
      /\ \A i \in 1 .. Len(s) + 1 : Append(s, x)[i] = IF i = Len(s) + 1 THEN x ELSE s[i]
  BY <1>2
<1> QED
  BY <1>3 DEF IsSequence

LEMMA PrependSequence ==
    ASSUME NEW s, IsSequence(s), NEW n \in Nat, NEW f, f = [i \in 1 .. n |-> f[i]]
    PROVE  /\ IsSequence(f \o s) /\ Len(f \o s) = Len(s) + n
           /\ \A i \in 1 .. Len(s) + n : (f \o s)[i] = IF i <= n THEN f[i] ELSE s[i - n]
<1>1. PICK S : s \in Seq(S)
  BY DEF IsSequence
<1> DEFINE T == S \cup {f[i] : i \in 1 .. n}
<1>2. s \in Seq(T) /\ f \in [1 .. n -> T]
  BY <1>1
<1> HIDE DEF T
<1>3. f \in Seq(T) /\ Len(f) = n
  BY <1>2
<1>4. /\ f \o s \in Seq(T) /\ Len(f \o s) = Len(s) + n
      /\ \A i \in 1 .. Len(s) + n : (f \o s)[i] = IF i <= n THEN f[i] ELSE s[i - n]
  BY <1>2, <1>3
<1> QED
  BY <1>4 DEF IsSequence

-----------------------------------------------------------------------------
(* The steps.                                                              *)

\* What the stack notes of the working directory is where PWD is.
LEMMA HereIsPwd == PwdIsHere => (Here # Unknown => PWD = Absolute(Here))
BY DEF PwdIsHere, Here

LEMMA InitHolds == Init => IInv
<1> SUFFICES ASSUME Init PROVE IInv
  OBVIOUS
<1>1. IsSequence(<<>>)
  <2>1. <<>> \in Seq({})
    OBVIOUS
  <2> QED
    BY <2>1 DEF IsSequence
<1>2. Stacks /\ BackWherePushed
  BY <1>1 DEF Init, Stacks, BackWherePushed
<1>3. SomewhereReal /\ PwdIsHere
  BY StartAssumption DEF Init, SomewhereReal, PwdIsHere
<1> QED
  BY <1>2, <1>3 DEF IInv

\* A command that goes somewhere: the line has begun, and nothing says any more where
\* PWD is.
LEMMA GoesStep ==
    ASSUME IInv, NEW d, Goes(d), bol' = FALSE, UNCHANGED <<dirs, PWD, refreshes>>
    PROVE  SomewhereReal' /\ PwdIsHere'
BY DEF IInv, SomewhereReal, PwdIsHere, Goes, Removable

LEMMA KeepStacks ==
    ASSUME IInv, UNCHANGED <<stack, from>>
    PROVE  Stacks' /\ BackWherePushed'
BY DEF IInv, Stacks, BackWherePushed

\* An entry is PWD and leads here, or is one that was on the stack.
Comes(i) == \/ stack'[i] = PWD /\ from'[i] = Here
            \/ \E j \in 1 .. Len(stack) : stack'[i] = stack[j] /\ from'[i] = from[j]

LEMMA KeepBack ==
    ASSUME IInv, \A i \in 1 .. Len(stack') : Comes(i) \/ from'[i] = Unknown
    PROVE  BackWherePushed'
<1>1. ASSUME NEW i \in 1 .. Len(stack'), from'[i] # Unknown
      PROVE  stack'[i] = Absolute(from'[i])
  <2>1. CASE stack'[i] = PWD /\ from'[i] = Here
    BY <1>1, <2>1, HereIsPwd DEF IInv
  <2>2. CASE \E j \in 1 .. Len(stack) : stack'[i] = stack[j] /\ from'[i] = from[j]
    BY <1>1, <2>2 DEF IInv, BackWherePushed
  <2> QED
    BY <1>1, <2>1, <2>2 DEF Comes
<1> QED
  BY <1>1 DEF BackWherePushed

LEMMA Pushed ==
    ASSUME IInv, stack' = <<PWD>> \o stack, from' = <<Here>> \o from
    PROVE  /\ Stacks' /\ Len(stack') = Len(stack) + 1 /\ Len(stack) \in Nat
           /\ \A i \in 1 .. Len(stack') : Comes(i)
<1>1. IsSequence(stack) /\ IsSequence(from) /\ Len(from) = Len(stack) /\ Len(stack) \in Nat
  BY AppendSequence DEF IInv, Stacks
<1>2. /\ IsSequence(stack') /\ Len(stack') = Len(stack) + 1
      /\ \A i \in 1 .. Len(stack) + 1 : stack'[i] = IF i = 1 THEN PWD ELSE stack[i - 1]
  BY <1>1, PushSequence
<1>3. /\ IsSequence(from') /\ Len(from') = Len(stack) + 1
      /\ \A i \in 1 .. Len(stack) + 1 : from'[i] = IF i = 1 THEN Here ELSE from[i - 1]
  BY <1>1, PushSequence
<1>4. ASSUME NEW i \in 1 .. Len(stack')
      PROVE  Comes(i)
  <2>1. CASE i = 1
    BY <1>1, <1>2, <1>3, <2>1 DEF Comes
  <2>2. CASE i # 1
    <3>1. i - 1 \in 1 .. Len(stack) /\ stack'[i] = stack[i - 1] /\ from'[i] = from[i - 1]
      BY <1>1, <1>2, <1>3, <2>2
    <3> QED
      BY <3>1 DEF Comes
  <2> QED
    BY <2>1, <2>2
<1> QED
  BY <1>1, <1>2, <1>3, <1>4 DEF Stacks

LEMMA PushDStep ==
    ASSUME IInv, NEW s \in Words, PushD(s)
    PROVE  IInv'
<1>1. SomewhereReal' /\ PwdIsHere'
  BY GoesStep DEF PushD
<1>2. CASE UNCHANGED <<stack, from>>
  BY <1>1, <1>2, KeepStacks DEF IInv
<1>3. CASE stack' = <<PWD>> \o stack /\ from' = <<Here>> \o from
  BY <1>1, <1>3, Pushed, KeepBack DEF IInv
<1> QED
  BY <1>2, <1>3 DEF PushD

LEMMA Popped ==
    ASSUME IInv, stack # <<>>, stack' = Tail(stack), from' = Tail(from)
    PROVE  /\ Stacks' /\ Len(stack') = Len(stack) - 1 /\ Len(stack) \in Nat \ {0}
           /\ \A i \in 1 .. Len(stack') : Comes(i)
<1>1. IsSequence(stack) /\ IsSequence(from) /\ Len(from) = Len(stack)
  BY DEF IInv, Stacks
<1>2. /\ IsSequence(stack') /\ Len(stack') = Len(stack) - 1 /\ Len(stack) \in Nat \ {0}
      /\ \A i \in 1 .. Len(stack) - 1 : stack'[i] = stack[i + 1]
  BY <1>1, PopSequence
<1>3. from # <<>>
  BY <1>1, <1>2
<1>4. /\ IsSequence(from') /\ Len(from') = Len(stack) - 1
      /\ \A i \in 1 .. Len(stack) - 1 : from'[i] = from[i + 1]
  BY <1>1, <1>3, PopSequence
<1>5. ASSUME NEW i \in 1 .. Len(stack')
      PROVE  Comes(i)
  <2>1. i + 1 \in 1 .. Len(stack) /\ stack'[i] = stack[i + 1] /\ from'[i] = from[i + 1]
    BY <1>2, <1>4
  <2> QED
    BY <2>1 DEF Comes
<1> QED
  BY <1>2, <1>4, <1>5 DEF Stacks

LEMMA PopDStep ==
    ASSUME IInv, PopD
    PROVE  IInv'
<1>1. SomewhereReal' /\ PwdIsHere'
  BY GoesStep DEF PopD
<1>2. CASE UNCHANGED <<stack, from>>
  BY <1>1, <1>2, KeepStacks DEF IInv
<1>3. CASE stack' = Tail(stack) /\ from' = Tail(from)
  BY <1>1, <1>3, Popped, KeepBack DEF IInv, PopD
<1> QED
  BY <1>2, <1>3 DEF PopD

\* The stack is turned: what was below moves up by all but one of the new entries,
\* whose directories nobody knows, and PWD comes last.
LEMMA Turned ==
    ASSUME IInv, NEW n \in Nat, NEW f, f = [i \in 1 .. n |-> f[i]],
           NEW T, \A i \in 1 .. n : f[i] \in T, f \o stack # <<>>,
           stack' = Append(Tail(f \o stack), PWD),
           from' = Append(Tail([i \in 1 .. n |-> Unknown] \o from), Here)
    PROVE  /\ Stacks' /\ Len(stack') = Len(stack) + n
           /\ \A i \in 1 .. Len(stack') :
                  Comes(i) \/ (from'[i] = Unknown /\ stack'[i] \in T)
<1> DEFINE g == [i \in 1 .. n |-> Unknown]
           m == Len(stack) + n - 1
<1>1. IsSequence(stack) /\ IsSequence(from) /\ Len(from) = Len(stack) /\ Len(stack) \in Nat
  BY AppendSequence DEF IInv, Stacks
<1>2. /\ IsSequence(f \o stack) /\ Len(f \o stack) = Len(stack) + n
      /\ \A i \in 1 .. Len(stack) + n :
             (f \o stack)[i] = IF i <= n THEN f[i] ELSE stack[i - n]
  BY <1>1, PrependSequence
<1>3. g = [i \in 1 .. n |-> g[i]] /\ \A i \in 1 .. n : g[i] = Unknown
  OBVIOUS
<1> DEFINE fs == f \o stack
           gs == g \o from
<1>0. fs # <<>> /\ stack' = Append(Tail(fs), PWD) /\ from' = Append(Tail(gs), Here)
  OBVIOUS
<1> HIDE DEF g
<1>4. /\ IsSequence(gs) /\ Len(gs) = Len(stack) + n
      /\ \A i \in 1 .. Len(stack) + n : gs[i] = IF i <= n THEN g[i] ELSE from[i - n]
  BY <1>1, <1>3, PrependSequence
<1>a. /\ IsSequence(fs) /\ Len(fs) = Len(stack) + n
      /\ \A i \in 1 .. Len(stack) + n : fs[i] = IF i <= n THEN f[i] ELSE stack[i - n]
  BY <1>2
<1> HIDE DEF fs, gs
<1>b. m \in Nat
  <2>1. Len(fs) \in Nat \ {0}
    BY <1>0, <1>a, PopSequence
  <2> QED
    BY <1>1, <1>a, <2>1
<1>5. IsSequence(Tail(fs)) /\ Len(Tail(fs)) = m /\ \A i \in 1 .. m : Tail(fs)[i] = fs[i + 1]
  BY <1>0, <1>1, <1>a, PopSequence
<1>6. gs # <<>>
  BY <1>1, <1>4, <1>b
<1>7. IsSequence(Tail(gs)) /\ Len(Tail(gs)) = m /\ \A i \in 1 .. m : Tail(gs)[i] = gs[i + 1]
  BY <1>1, <1>4, <1>6, PopSequence
<1> DEFINE ft == Tail(fs)
           gt == Tail(gs)
<1>c. /\ IsSequence(ft) /\ Len(ft) = m /\ IsSequence(gt) /\ Len(gt) = m
      /\ stack' = Append(ft, PWD) /\ from' = Append(gt, Here)
  BY <1>0, <1>5, <1>7
<1> HIDE DEF ft, gt
<1>8. /\ IsSequence(stack') /\ Len(stack') = m + 1
      /\ \A i \in 1 .. m + 1 : stack'[i] = IF i = m + 1 THEN PWD ELSE ft[i]
  <2>1. /\ IsSequence(Append(ft, PWD)) /\ Len(Append(ft, PWD)) = Len(ft) + 1
        /\ \A i \in 1 .. Len(ft) + 1 :
               Append(ft, PWD)[i] = IF i = Len(ft) + 1 THEN PWD ELSE ft[i]
    BY <1>c, AppendSequence
  <2> QED
    BY <1>b, <1>c, <2>1
<1>9. /\ IsSequence(from') /\ Len(from') = m + 1
      /\ \A i \in 1 .. m + 1 : from'[i] = IF i = m + 1 THEN Here ELSE gt[i]
  <2>1. /\ IsSequence(Append(gt, Here)) /\ Len(Append(gt, Here)) = Len(gt) + 1
        /\ \A i \in 1 .. Len(gt) + 1 :
               Append(gt, Here)[i] = IF i = Len(gt) + 1 THEN Here ELSE gt[i]
    BY <1>c, AppendSequence
  <2> QED
    BY <1>b, <1>c, <2>1
<1>10. ASSUME NEW i \in 1 .. m + 1
       PROVE  Comes(i) \/ (from'[i] = Unknown /\ stack'[i] \in T)
  <2>1. CASE i = m + 1
    BY <1>b, <1>8, <1>9, <2>1 DEF Comes
  <2>2. CASE i # m + 1
    <3>0. PICK j : j = i + 1
      OBVIOUS
    <3>1. i \in 1 .. m /\ j \in 1 .. Len(stack) + n
      BY <1>1, <1>b, <2>2, <3>0, SMTT(20)
    <3>2. stack'[i] = fs[j] /\ from'[i] = gs[j]
      BY <1>5, <1>7, <1>8, <1>9, <2>2, <3>0, <3>1 DEF ft, gt
    <3>3. CASE j <= n
      <4>1. fs[j] = f[j] /\ gs[j] = g[j] /\ j \in 1 .. n
        BY <1>a, <1>4, <3>1, <3>3
      <4>2. g[j] = Unknown
        BY <1>3, <4>1
      <4> QED
        BY <3>2, <4>1, <4>2, Zenon
    <3>4. CASE ~(j <= n)
      <4>1. fs[j] = stack[j - n] /\ gs[j] = from[j - n] /\ j - n \in 1 .. Len(stack)
        BY <1>1, <1>a, <1>4, <3>1, <3>4
      <4> QED
        BY <3>2, <4>1, Zenon DEF Comes
    <3> QED
      BY <3>3, <3>4
  <2> QED
    BY <2>1, <2>2
<1>11. Len(stack') = Len(stack) + n
  BY <1>1, <1>8
<1> QED
  BY <1>8, <1>9, <1>10, <1>11 DEF Stacks

\* The text under which PushMatches puts a directory on the stack, by its name
IsName(t) == \E x : t \in {Relative(<<x>>), Joined(Relative(<<x>>))}

LEMMA Matched ==
    ASSUME IInv, NEW star \in BOOLEAN, PushMatches(star)
    PROVE  /\ bol' = FALSE /\ Len(stack) \in Nat /\ UNCHANGED <<dirs, PWD, refreshes>>
           /\ \/ UNCHANGED <<cwd, stack, from>>
              \/ /\ \E d : Goes(d)
                 /\ Stacks' /\ Len(stack') \in Len(stack) .. MaxStack
                 /\ \A i \in 1 .. Len(stack') :
                        Comes(i) \/ (from'[i] = Unknown /\ IsName(stack'[i]))
<1> DEFINE dir == IF star THEN Find(PWD) ELSE cwd
           found == Matches(dir)
           Text(x) == IF star THEN Joined(Relative(<<x>>)) ELSE Relative(<<x>>)
           IsDirectory(x) == Append(dir, x) \in dirs
           tops == IF found = <<>> THEN <<>> ELSE SelectSeq(Front(found), IsDirectory)
           n == Len(tops)
           f == [i \in 1 .. n |-> Text(tops[i])]
           T == {f[i] : i \in 1 .. n}
<1>1. /\ n \in 0 .. MaxStack - Len(stack) /\ bol' = FALSE
      /\ \/ UNCHANGED <<cwd, stack, from>>
         \/ /\ f \o stack # <<>> /\ Goes(Target(Head(f \o stack)))
            /\ stack' = Append(Tail(f \o stack), PWD)
            /\ from' = Append(Tail([i \in 1 .. n |-> Unknown] \o from), Here)
      /\ UNCHANGED <<dirs, PWD, refreshes>>
  BY DEF PushMatches
<1>3. f = [i \in 1 .. n |-> f[i]] /\ \A i \in 1 .. n : f[i] \in T
  OBVIOUS
<1>4. \A t \in T : IsName(t)
  BY DEF IsName
<1>5. Len(stack) \in Nat
  BY AppendSequence DEF IInv, Stacks
<1> HIDE DEF n, f, T
<1>2. n \in Nat
  BY <1>1, <1>5, BoundAssumption
<1>6. CASE UNCHANGED <<cwd, stack, from>>
  BY <1>1, <1>5, <1>6
<1>7. CASE /\ f \o stack # <<>> /\ Goes(Target(Head(f \o stack)))
           /\ stack' = Append(Tail(f \o stack), PWD)
           /\ from' = Append(Tail([i \in 1 .. n |-> Unknown] \o from), Here)
  <2>1. /\ Stacks' /\ Len(stack') = Len(stack) + n
        /\ \A i \in 1 .. Len(stack') : Comes(i) \/ (from'[i] = Unknown /\ stack'[i] \in T)
    BY <1>2, <1>3, <1>7, Turned
  <2>2. Len(stack') \in Len(stack) .. MaxStack
    BY <1>1, <1>2, <1>5, <2>1, BoundAssumption
  <2>3. \E d : Goes(d)
    BY <1>7
  <2> QED
    BY <1>1, <1>4, <1>5, <2>1, <2>2, <2>3
<1> QED
  BY <1>1, <1>6, <1>7

LEMMA PushMatchesStep ==
    ASSUME IInv, NEW star \in BOOLEAN, PushMatches(star)
    PROVE  IInv'
<1>1. bol' = FALSE /\ UNCHANGED <<dirs, PWD, refreshes>>
  BY Matched
<1>2. CASE UNCHANGED <<cwd, stack, from>>
  <2>1. SomewhereReal' /\ PwdIsHere'
    BY <1>1, <1>2 DEF IInv, SomewhereReal, PwdIsHere, Removable
  <2> QED
    BY <1>2, <2>1, KeepStacks DEF IInv
<1>3. CASE /\ \E d : Goes(d)
           /\ Stacks' /\ \A i \in 1 .. Len(stack') : Comes(i) \/ from'[i] = Unknown
  <2>1. SomewhereReal' /\ PwdIsHere'
    BY <1>1, <1>3, GoesStep
  <2> QED
    BY <1>3, <2>1, KeepBack DEF IInv
<1> QED
  BY <1>2, <1>3, Matched

LEMMA PromptStep ==
    ASSUME IInv, Prompt
    PROVE  IInv'
<1>1. SomewhereReal' /\ PwdIsHere'
  BY DEF IInv, Prompt, SomewhereReal, PwdIsHere, Removable
<1> QED
  BY <1>1, KeepStacks DEF IInv, Prompt

\* A directory that is removed while the shell is in it is no directory to be in.
LEMMA RemoveStep ==
    ASSUME IInv, NEW d \in Tree, RemoveDirectory(d)
    PROVE  IInv'
<1>1. /\ d \in dirs \ {<<>>} /\ dirs' = dirs \ {d}
      /\ cwd' = IF cwd = d THEN Removed(d) ELSE cwd
      /\ UNCHANGED <<PWD, stack, bol, refreshes, from>>
  BY DEF RemoveDirectory
<1>2. dirs \subseteq Tree /\ cwd \in dirs \cup Removable
  BY DEF IInv, SomewhereReal
<1>3. Removed(d) \in Removable /\ Removed(d) \notin Tree
  BY <1>1, <1>2, RemovedAssumption DEF Removable
<1>4. SomewhereReal'
  <2>1. Removable' = Removable
    BY DEF Removable, Removed
  <2> QED
    BY <1>1, <1>2, <1>3, <2>1 DEF SomewhereReal
<1>5. PwdIsHere'
  <2>1. cwd' \in dirs' => cwd' = cwd /\ cwd \in dirs
    BY <1>1, <1>2, <1>3
  <2> QED
    BY <1>1, <2>1 DEF IInv, PwdIsHere, Absolute
<1> QED
  BY <1>1, <1>4, <1>5, KeepStacks DEF IInv

\* ... and one that is made again is another.
LEMMA MakeStep ==
    ASSUME IInv, MakeDirectory
    PROVE  IInv'
<1>1. dirs' = Tree /\ UNCHANGED <<cwd, PWD, stack, bol, refreshes, from>>
  BY DEF MakeDirectory
<1>2. dirs \subseteq Tree /\ cwd \in dirs \cup Removable
  BY DEF IInv, SomewhereReal
<1>3. Removable \cap Tree = {}
  BY RemovedAssumption DEF Removable
<1>4. SomewhereReal'
  <2>1. Removable' = Removable
    BY DEF Removable, Removed
  <2> QED
    BY <1>1, <1>2, <2>1 DEF SomewhereReal
<1>5. PwdIsHere'
  <2>1. cwd' \in dirs' => cwd \in dirs
    BY <1>1, <1>2, <1>3
  <2> QED
    BY <1>1, <2>1 DEF IInv, PwdIsHere, Absolute
<1> QED
  BY <1>1, <1>4, <1>5, KeepStacks DEF IInv

LEMMA NextHolds == IInv /\ [Next]_vars => IInv'
<1> SUFFICES ASSUME IInv, [Next]_vars
             PROVE  IInv'
  OBVIOUS
<1>1. ASSUME NEW s \in Words, Cd(s) PROVE IInv'
  BY <1>1, GoesStep, KeepStacks DEF Cd, IInv
<1>2. ASSUME NEW s \in Words, Cl(s) PROVE IInv'
  BY <1>2, GoesStep, KeepStacks DEF Cl, IInv
<1>3. ASSUME NEW s \in Words, PushD(s) PROVE IInv'
  BY <1>3, PushDStep
<1>4. ASSUME NEW old, NEW new, CdReplace(old, new) PROVE IInv'
  BY <1>4, GoesStep, KeepStacks DEF CdReplace, IInv
<1>5. ASSUME NEW star \in BOOLEAN, PushMatches(star) PROVE IInv'
  BY <1>5, PushMatchesStep
<1>6. CASE PopD
  BY <1>6, PopDStep
<1>7. CASE Prompt
  BY <1>7, PromptStep
<1>8. CASE MakeDirectory
  BY <1>8, MakeStep
<1>9. ASSUME NEW d \in Tree, RemoveDirectory(d) PROVE IInv'
  BY <1>9, RemoveStep
<1>10. CASE UNCHANGED vars
  <2>1. SomewhereReal' /\ PwdIsHere'
    BY <1>10 DEF vars, IInv, SomewhereReal, PwdIsHere, Removable
  <2> QED
    BY <1>10, <2>1, KeepStacks DEF vars, IInv
<1> QED
  BY <1>1, <1>2, <1>3, <1>4, <1>5, <1>6, <1>7, <1>8, <1>9, <1>10 DEF Next

\* Whatever is removed and made, however deep the stack and in whatever order names
\* and wildcards are pushed and popped, an entry that a pushd at the beginning of a
\* line has added is the directory the shell was in then (BackWherePushed).
THEOREM BackToWhereItWas == Spec => []BackWherePushed
<1>1. IInv => BackWherePushed
  BY DEF IInv
<1> QED
  BY <1>1, InitHolds, NextHolds, PTL DEF Spec

-----------------------------------------------------------------------------
(* Types.                                                                  *)

\* What TypeOK says beyond IInv
Bounded ==
    /\ PWD \in {Absolute(d) : d \in Tree} \cup {Complaint}
    /\ Len(stack) <= MaxStack
    /\ {bol, refreshes} \subseteq BOOLEAN

LEMMA BoundedInit == Init => Bounded
BY StartAssumption, BoundAssumption DEF Init, Bounded

LEMMA KeepBounded ==
    ASSUME Bounded, UNCHANGED <<PWD, stack, refreshes>>, bol' \in BOOLEAN
    PROVE  Bounded'
BY DEF Bounded, Absolute, Complaint, Relative

LEMMA FitsBounded ==
    ASSUME Bounded, UNCHANGED <<PWD, refreshes>>, bol' \in BOOLEAN, Len(stack') <= MaxStack
    PROVE  Bounded'
BY DEF Bounded, Absolute, Complaint, Relative

LEMMA PushDBounded ==
    ASSUME IInv, Bounded, NEW s \in Words, PushD(s)
    PROVE  Bounded'
<1>1. CASE stack' = stack
  BY <1>1, KeepBounded DEF PushD
<1>2. CASE stack' = <<PWD>> \o stack /\ from' = <<Here>> \o from
  <2>2. Len(stack') = Len(stack) + 1 /\ Len(stack) \in Nat
    BY <1>2, Pushed
  <2>3. Len(stack) < MaxStack /\ bol' = FALSE /\ UNCHANGED <<PWD, refreshes>>
    BY DEF PushD
  <2>4. Len(stack') <= MaxStack
    BY <2>2, <2>3, BoundAssumption
  <2> QED
    BY <2>3, <2>4, FitsBounded
<1> QED
  BY <1>1, <1>2 DEF PushD

LEMMA PushMatchesBounded ==
    ASSUME IInv, Bounded, NEW star \in BOOLEAN, PushMatches(star)
    PROVE  Bounded'
<1>1. Len(stack') <= MaxStack
  <2>1. Len(stack') = Len(stack) \/ Len(stack') \in Len(stack) .. MaxStack
    BY Matched
  <2> QED
    BY <2>1, Matched, BoundAssumption DEF Bounded
<1> QED
  BY <1>1, Matched, FitsBounded

LEMMA PopDBounded ==
    ASSUME IInv, Bounded, PopD
    PROVE  Bounded'
<1>1. CASE stack' = stack
  BY <1>1, KeepBounded DEF PopD
<1>2. CASE stack' = Tail(stack) /\ from' = Tail(from)
  <2>2. Len(stack') = Len(stack) - 1 /\ Len(stack) \in Nat
    BY <1>2, Popped DEF PopD
  <2>3. bol' = FALSE /\ UNCHANGED <<PWD, refreshes>>
    BY DEF PopD
  <2>4. Len(stack) <= MaxStack
    BY DEF Bounded
  <2>5. Len(stack') <= MaxStack
    BY <2>2, <2>4, BoundAssumption
  <2> QED
    BY <2>3, <2>5, FitsBounded
<1> QED
  BY <1>1, <1>2 DEF PopD

LEMMA PromptBounded ==
    ASSUME IInv, Bounded, Prompt
    PROVE  Bounded'
BY DEF IInv, SomewhereReal, Bounded, Prompt, Absolute, Complaint, Relative

LEMMA NextBounded == IInv /\ Bounded /\ [Next]_vars => Bounded'
<1> SUFFICES ASSUME IInv, Bounded, [Next]_vars
             PROVE  Bounded'
  OBVIOUS
<1>1. ASSUME NEW s \in Words, Cd(s) \/ Cl(s) PROVE Bounded'
  BY <1>1, KeepBounded DEF Cd, Cl
<1>2. ASSUME NEW s \in Words, PushD(s) PROVE Bounded'
  BY <1>2, PushDBounded
<1>3. ASSUME NEW old, NEW new, CdReplace(old, new) PROVE Bounded'
  BY <1>3, KeepBounded DEF CdReplace
<1>4. ASSUME NEW star \in BOOLEAN, PushMatches(star) PROVE Bounded'
  BY <1>4, PushMatchesBounded
<1>5. CASE PopD
  BY <1>5, PopDBounded
<1>6. CASE Prompt
  BY <1>6, PromptBounded
<1>7. CASE MakeDirectory \/ (\E d \in Tree : RemoveDirectory(d)) \/ UNCHANGED vars
  <2>1. bol' = bol /\ UNCHANGED <<PWD, stack, refreshes>>
    BY <1>7 DEF MakeDirectory, RemoveDirectory, vars
  <2> QED
    BY <2>1, KeepBounded DEF Bounded
<1> QED
  BY <1>1, <1>2, <1>3, <1>4, <1>5, <1>6, <1>7 DEF Next

\* PWD is always the path of a directory of the tree or what pwd said instead, and the
\* shell in a directory that exists or one that was removed under it (TypeOK).
THEOREM TypeCorrect == Spec => []TypeOK
<1>1. IInv /\ Bounded => TypeOK
  BY DEF IInv, Stacks, SomewhereReal, Removable, Bounded, TypeOK
<1>2. Init => IInv /\ Bounded
  BY InitHolds, BoundedInit
<1>3. IInv /\ Bounded /\ [Next]_vars => (IInv /\ Bounded)'
  BY NextHolds, NextBounded
<1> QED
  BY <1>1, <1>2, <1>3, PTL DEF Spec

-----------------------------------------------------------------------------
(* Lookups.                                                                *)

LEMMA Climb ==
    ASSUME NEW n \in Nat, NEW G, 0 \in G, \A m \in 0 .. n - 1 : m \in G => m + 1 \in G
    PROVE  0 .. n \subseteq G
<1> DEFINE Below == {ss \in Nat \X Nat : ss[1] < ss[2]}
           B == (0 .. n) \ G
<1> SUFFICES ASSUME B # {} PROVE FALSE
  OBVIOUS
<1>1. IsWellFoundedOn(Below, Nat)
  BY NatLessThanWellFounded DEF OpToRel
<1>2. B \in SUBSET Nat
  OBVIOUS
<1>3. PICK m \in B : \A y \in B : ~ (<<y, m>> \in Below)
  <2> HIDE DEF Below, B
  <2> QED
    BY <1>1, <1>2, WFMin
<1>4. m \in Nat /\ m # 0 /\ m \in 0 .. n /\ m - 1 \in 0 .. n - 1 /\ m - 1 \in Nat /\ m - 1 < m
  OBVIOUS
<1>5. m - 1 \notin B
  <2>1. <<m - 1, m>> \in Below
    BY <1>4
  <2> QED
    BY <1>3, <2>1
<1>6. m - 1 \in G
  BY <1>4, <1>5
<1>7. (m - 1) + 1 \in G
  BY <1>4, <1>6
<1> QED
  BY <1>3, <1>4, <1>7

\* A text is looked up one name after the other.
LEMMA WalkDef ==
    ASSUME NEW s, Len(s.names) \in Nat
    PROVE  \E w : /\ Find(s) = w[Len(s.names)] /\ w[0] = IF s.abs THEN <<>> ELSE cwd
                  /\ \A i \in 1 .. Len(s.names) : w[i] = Lookup(w[i - 1], s.names[i])
<1> DEFINE n == Len(s.names)
<1>1. n \in Nat
  OBVIOUS
<1> HIDE DEF n
<1> DEFINE Step(f, i) == IF i > 0 THEN Lookup(f[i - 1], s.names[i])
                         ELSE IF s.abs THEN <<>> ELSE cwd
           G == {m \in 0 .. n : \E f : f = [i \in 0 .. m |-> Step(f, i)]}
<1>2. 0 \in G
  <2> DEFINE h == [i \in 0 .. 0 |-> IF s.abs THEN <<>> ELSE cwd]
  <2>1. ASSUME NEW i \in 0 .. 0
        PROVE  Step(h, i) = IF s.abs THEN <<>> ELSE cwd
    BY i = 0
  <2>2. h = [i \in 0 .. 0 |-> Step(h, i)]
    BY <2>1, Zenon
  <2> HIDE DEF h, Step
  <2>3. 0 \in 0 .. n /\ \E f : f = [i \in 0 .. 0 |-> Step(f, i)]
    BY <1>1, <2>2
  <2> QED
    BY <2>3
<1>3. ASSUME NEW m \in 0 .. n - 1, m \in G
      PROVE  m + 1 \in G
  <2>1. PICK f : f = [i \in 0 .. m |-> Step(f, i)]
    BY <1>3
  <2> DEFINE h == [i \in 0 .. m + 1 |-> IF i = m + 1 THEN Step(f, i) ELSE f[i]]
  <2>2. ASSUME NEW i \in 0 .. m + 1
        PROVE  h[i] = Step(h, i)
    <3>1. CASE i = m + 1
      <4>1. i > 0 /\ i - 1 \in 0 .. m /\ i - 1 \in 0 .. m + 1 /\ i - 1 # m + 1
        BY <1>1, <3>1
      <4>2. h[i] = Step(f, i) /\ h[i - 1] = f[i - 1]
        BY <3>1, <4>1
      <4> QED
        BY <4>1, <4>2
    <3>2. CASE i # m + 1
      <4>1. i \in 0 .. m /\ (i > 0 => i - 1 \in 0 .. m + 1 /\ i - 1 # m + 1)
        BY <1>1, <3>2
      <4>2. h[i] = f[i] /\ (i > 0 => h[i - 1] = f[i - 1])
        BY <3>2, <4>1
      <4>3. f[i] = Step(f, i)
        BY <2>1, <4>1
      <4> QED
        BY <4>2, <4>3
    <3> QED
      BY <3>1, <3>2
  <2>3. h = [i \in 0 .. m + 1 |-> Step(h, i)]
    BY <2>2
  <2>4. m + 1 \in 0 .. n
    BY <1>1
  <2> QED
    BY <2>3, <2>4
<1>4. n \in G
  <2> HIDE DEF G
  <2>1. 0 .. n \subseteq G
    BY <1>1, <1>2, <1>3, Climb
  <2> QED
    BY <1>1, <2>1
<1>5. PICK g : g = [i \in 0 .. n |-> Step(g, i)]
  BY <1>4
<1> DEFINE F == CHOOSE f : f = [i \in 0 .. n |-> Step(f, i)]
<1>6. F = [i \in 0 .. n |-> Step(F, i)]
  BY <1>5
<1>7. Find(s) = F[n]
  BY DEF Find, n
<1> HIDE DEF F
<1>8. F[0] = IF s.abs THEN <<>> ELSE cwd
  <2>1. 0 \in 0 .. n /\ ~(0 > 0)
    BY <1>1
  <2>2. F[0] = Step(F, 0)
    <3> HIDE DEF Step
    <3> QED
      BY <1>6, <2>1
  <2> QED
    BY <2>1, <2>2
<1>9. ASSUME NEW i \in 1 .. n
      PROVE  F[i] = Lookup(F[i - 1], s.names[i])
  <2>1. i \in 0 .. n /\ i > 0
    BY <1>1
  <2>2. F[i] = Step(F, i)
    <3> HIDE DEF Step
    <3> QED
      BY <1>6, <2>1
  <2> QED
    BY <2>1, <2>2
<1> QED
  BY <1>7, <1>8, <1>9 DEF n

\* A lookup leads to a directory that exists, or leaves the one it began in.
LEMMA LookupExists ==
    ASSUME <<>> \in dirs, NEW d, NEW x
    PROVE  /\ d \in dirs \cup {Nowhere} => Lookup(d, x) \in dirs \cup {Nowhere}
           /\ ~IsDots(x) => Lookup(d, x) \in dirs \cup {Nowhere}
           /\ ~IsDots(x) /\ d # Nowhere =>
                  Lookup(d, x) = IF Append(d, x) \in dirs THEN Append(d, x) ELSE Nowhere
           /\ Lookup(Nowhere, x) = Nowhere
<1>1. CASE x = "."
  BY <1>1, Zenon DEF Lookup, IsDots
<1>2. CASE x = ".." /\ x # "."
  BY <1>2, Zenon DEF Lookup, IsDots
<1>3. CASE ~IsDots(x)
  <2>1. x # "." /\ x # ".."
    BY <1>3, Zenon DEF IsDots
  <2> QED
    BY <1>3, <2>1, Zenon DEF Lookup
<1> QED
  BY <1>1, <1>2, <1>3, Zenon DEF IsDots

-----------------------------------------------------------------------------
(* Going where a text leads.                                               *)

\* Each directory that exists lies in one that exists.
Nested == /\ <<>> \in dirs
          /\ \A d \in dirs : \A i \in 1 .. Len(d) : SubSeq(d, 1, i - 1) \in dirs

LEMMA PrefixProperties ==
    ASSUME NEW S, NEW d \in Seq(S)
    PROVE  /\ Len(d) \in Nat /\ SubSeq(d, 1, 0) = <<>> /\ SubSeq(d, 1, Len(d)) = d
           /\ \A i \in 1 .. Len(d) : SubSeq(d, 1, i) = Append(SubSeq(d, 1, i - 1), d[i])
OBVIOUS

\* From the root, from a directory that exists, or by a name that is not "." or ".."
LEMMA FindExists ==
    ASSUME <<>> \in dirs, NEW s, Len(s.names) \in Nat,
           s.abs \/ cwd \in dirs \/ (Len(s.names) # 0 /\ ~IsDots(s.names[1]))
    PROVE  Find(s) \in dirs \cup {Nowhere}
<1> DEFINE n == Len(s.names)
           D == dirs \cup {Nowhere}
<1>1. PICK w : /\ Find(s) = w[n] /\ w[0] = IF s.abs THEN <<>> ELSE cwd
               /\ \A i \in 1 .. n : w[i] = Lookup(w[i - 1], s.names[i])
  BY WalkDef
<1>2. n \in Nat /\ <<>> \in D /\ (cwd \in dirs => cwd \in D)
  OBVIOUS
<1>3. ASSUME NEW d, NEW x
      PROVE  (d \in D \/ ~IsDots(x)) => Lookup(d, x) \in D
  BY LookupExists
<1>4. w[0] \in D \/ (n # 0 /\ ~IsDots(s.names[1]))
  BY <1>1, <1>2
<1> HIDE DEF n, D
<1> DEFINE G == {m \in 0 .. n : w[m] \in D \/ (m = 0 /\ n # 0 /\ ~IsDots(s.names[1]))}
<1>5. 0 \in G
  BY <1>2, <1>4
<1>6. ASSUME NEW m \in 0 .. n - 1, m \in G
      PROVE  m + 1 \in G
  <2>1. m + 1 \in 1 .. n /\ m + 1 \in 0 .. n /\ (m + 1) - 1 = m
    BY <1>2
  <2>2. /\ w[m + 1] = Lookup(w[m], s.names[m + 1])
    BY <1>1, <2>1
  <2>3. w[m] \in D \/ ~IsDots(s.names[m + 1])
    BY <1>6
  <2> QED
    BY <1>3, <2>1, <2>2, <2>3
<1>7. n \in G
  <2> HIDE DEF G
  <2>1. 0 .. n \subseteq G
    BY <1>2, <1>5, <1>6, Climb
  <2> QED
    BY <1>2, <2>1
<1> QED
  BY <1>1, <1>7 DEF D

\* Down from the root to the directory itself, if it exists
LEMMA WalkDown ==
    ASSUME <<>> \in dirs, NEW d \in Tree, NEW w, w[0] = <<>>,
           \A i \in 1 .. Len(d) : w[i] = Lookup(w[i - 1], d[i])
    PROVE  /\ w[Len(d)] \in {d, Nowhere}
           /\ (Nested /\ dirs \subseteq Tree /\ d \in dirs => w[Len(d)] = d)
<1> DEFINE n == Len(d)
           p(i) == SubSeq(d, 1, i)
           Kept == Nested /\ dirs \subseteq Tree /\ d \in dirs
<1>1. /\ n \in Nat /\ p(0) = <<>> /\ p(n) = d
      /\ \A i \in 1 .. n : p(i) = Append(p(i - 1), d[i])
  <2>1. d \in Seq(STRING)
    BY TreeAssumption
  <2> QED
    BY <2>1, PrefixProperties
<1>2. \A i \in 1 .. n : ~IsDots(d[i])
  BY TreeAssumption
<1>3. Kept => \A i \in 0 .. n : p(i) \in dirs /\ p(i) # Nowhere
  <2>1. ASSUME Kept, NEW i \in 0 .. n
        PROVE  p(i) \in dirs
    <3>1. CASE i = n
      BY <1>1, <2>1, <3>1
    <3>2. CASE i # n
      <4>1. i + 1 \in 1 .. n /\ (i + 1) - 1 = i
        <5>1. n \in Nat
          BY <1>1
        <5> HIDE DEF n
        <5> QED
          BY <3>2, <5>1
      <4>2. SubSeq(d, 1, (i + 1) - 1) \in dirs
        BY <2>1, <4>1 DEF Nested
      <4> QED
        BY <4>1, <4>2
    <3> QED
      BY <3>1, <3>2
  <2>2. dirs \subseteq Tree => Nowhere \notin dirs
    BY TreeAssumption
  <2> QED
    BY <2>1, <2>2
<1>4. \A i \in 1 .. n : w[i] = Lookup(w[i - 1], d[i])
  OBVIOUS
<1> HIDE DEF n, p, Kept
<1> DEFINE G == {m \in 0 .. n : w[m] \in {p(m), Nowhere} /\ (Kept => w[m] = p(m))}
<1>5. 0 \in G
  BY <1>1
<1>6. ASSUME NEW m \in 0 .. n - 1, m \in G
      PROVE  m + 1 \in G
  <2>1. m + 1 \in 1 .. n /\ m + 1 \in 0 .. n /\ (m + 1) - 1 = m /\ m \in 0 .. n
    BY <1>1
  <2>2. /\ w[m + 1] = Lookup(w[m], d[m + 1]) /\ ~IsDots(d[m + 1])
        /\ p(m + 1) = Append(p(m), d[m + 1])
    BY <1>1, <1>2, <1>4, <2>1
  <2>3. Lookup(Nowhere, d[m + 1]) = Nowhere
    BY LookupExists
  <2>4. w[m] # Nowhere =>
            w[m + 1] = IF Append(w[m], d[m + 1]) \in dirs THEN Append(w[m], d[m + 1])
                       ELSE Nowhere
    BY <2>2, LookupExists
  <2>5. /\ w[m] \in {p(m), Nowhere}
        /\ (Kept => w[m] = p(m) /\ w[m] # Nowhere /\ p(m + 1) \in dirs)
    BY <1>3, <1>6, <2>1
  <2>6. w[m + 1] \in {p(m + 1), Nowhere} /\ (Kept => w[m + 1] = p(m + 1))
    BY <2>2, <2>3, <2>4, <2>5
  <2> QED
    BY <2>1, <2>6
<1>7. n \in G
  <2> HIDE DEF G
  <2>1. 0 .. n \subseteq G
    BY <1>1, <1>5, <1>6, Climb
  <2> QED
    BY <1>1, <2>1
<1>8. w[n] \in {d, Nowhere} /\ (Kept => w[n] = d)
  BY <1>1, <1>7
<1> QED
  BY <1>8 DEF n, Kept

\* An entry of the stack names the directory it was made for, or nothing.
LEMMA FindAbsolute ==
    ASSUME <<>> \in dirs, NEW d \in Tree
    PROVE  Find(Absolute(d)) \in {d, Nowhere}
<1> DEFINE s == Absolute(d)
<1>1. s.names = d /\ s.abs = TRUE /\ Len(d) \in Nat
  <2>1. d \in Seq(STRING)
    BY TreeAssumption
  <2> QED
    BY <2>1, PrefixProperties DEF Absolute
<1> HIDE DEF s
<1>2. PICK w : /\ Find(s) = w[Len(d)] /\ w[0] = <<>>
               /\ \A i \in 1 .. Len(d) : w[i] = Lookup(w[i - 1], d[i])
  BY <1>1, WalkDef
<1> QED
  BY <1>2, WalkDown DEF s

\* The same directory, by its names from the root or from here
LEMMA FindFromHere ==
    ASSUME Nested, dirs \subseteq Tree, cwd \in dirs, NEW S, NEW ns \in Seq(S)
    PROVE  Find(Absolute(cwd \o ns)) = Find(Relative(ns))
<1> DEFINE t == Absolute(cwd \o ns)
           s == Relative(ns)
           c == Len(cwd)
           n == Len(ns)
<1>1. /\ c \in Nat /\ n \in Nat /\ Len(cwd \o ns) = c + n
      /\ \A i \in 1 .. c : (cwd \o ns)[i] = cwd[i]
      /\ \A i \in 1 .. n : (cwd \o ns)[c + i] = ns[i]
  <2>1. PICK T : cwd \in Seq(T) /\ ns \in Seq(T)
    <3>1. cwd \in Seq(STRING)
      BY TreeAssumption
    <3>2. cwd \in Seq(STRING \cup S) /\ ns \in Seq(STRING \cup S)
      BY <3>1, SeqMonotonic
    <3> QED
      BY <3>2
  <2> QED
    BY <2>1
<1>2. t.names = cwd \o ns /\ t.abs = TRUE /\ s.names = ns /\ s.abs = FALSE
  BY DEF Absolute, Relative
<1> HIDE DEF t, s
<1>3. Len(t.names) = c + n /\ c + n \in Nat /\ Len(s.names) = n
  BY <1>1, <1>2
<1>4. PICK w : /\ Find(t) = w[c + n] /\ w[0] = <<>>
               /\ \A i \in 1 .. c + n : w[i] = Lookup(w[i - 1], (cwd \o ns)[i])
  <2>1. PICK w : /\ Find(t) = w[Len(t.names)] /\ w[0] = IF t.abs THEN <<>> ELSE cwd
                 /\ \A i \in 1 .. Len(t.names) : w[i] = Lookup(w[i - 1], t.names[i])
    BY <1>3, WalkDef
  <2> QED
    BY <1>2, <1>3, <2>1
<1>5. PICK v : /\ Find(s) = v[n] /\ v[0] = cwd
               /\ \A i \in 1 .. n : v[i] = Lookup(v[i - 1], ns[i])
  <2>1. PICK v : /\ Find(s) = v[Len(s.names)] /\ v[0] = IF s.abs THEN <<>> ELSE cwd
                 /\ \A i \in 1 .. Len(s.names) : v[i] = Lookup(v[i - 1], s.names[i])
    BY <1>1, <1>3, WalkDef
  <2> QED
    BY <1>2, <2>1
<1>6. w[c] = cwd
  <2>1. ASSUME NEW i \in 1 .. c
        PROVE  w[i] = Lookup(w[i - 1], cwd[i])
    <3>1. i \in 1 .. c + n
      BY <1>1
    <3> QED
      BY <1>1, <1>4, <3>1
  <2>2. <<>> \in dirs /\ cwd \in Tree
    BY DEF Nested
  <2> QED
    BY <1>4, <2>1, <2>2, WalkDown
<1> HIDE DEF c, n
<1> DEFINE G == {m \in 0 .. n : w[c + m] = v[m]}
<1>7. 0 \in G
  BY <1>1, <1>5, <1>6
<1>8. ASSUME NEW m \in 0 .. n - 1, m \in G
      PROVE  m + 1 \in G
  <2>1. PICK j : j = c + (m + 1)
    OBVIOUS
  <2>2. /\ m + 1 \in 1 .. n /\ m + 1 \in 0 .. n /\ (m + 1) - 1 = m
        /\ j \in 1 .. c + n /\ j - 1 = c + m
    BY <1>1, <2>1
  <2>3. w[j] = Lookup(w[c + m], ns[m + 1])
    <3>1. w[j] = Lookup(w[j - 1], (cwd \o ns)[j])
      BY <1>4, <2>2
    <3>2. (cwd \o ns)[j] = ns[m + 1]
      BY <1>1, <2>1, <2>2
    <3> QED
      BY <2>2, <3>1, <3>2
  <2>4. v[m + 1] = Lookup(v[m], ns[m + 1])
    BY <1>5, <2>2
  <2>5. w[c + m] = v[m]
    BY <1>8
  <2> QED
    BY <2>1, <2>2, <2>3, <2>4, <2>5
<1>9. n \in G
  <2> HIDE DEF G
  <2>1. 0 .. n \subseteq G
    BY <1>1, <1>7, <1>8, Climb
  <2> QED
    BY <1>1, <2>1
<1> QED
  BY <1>4, <1>5, <1>9 DEF s, t

-----------------------------------------------------------------------------
(* The stack leads to directories.                                         *)

\* An entry is a text, and what it should lead to is a directory of the tree.
Entries == /\ \A i \in 1 .. Len(stack) : IsSequence(stack[i].names)
           /\ \A i \in 1 .. Len(from) : from[i] # Unknown => from[i] \in Tree

Reaches == Nested /\ Entries

LEMMA ConcatSequence ==
    ASSUME NEW s, NEW t, IsSequence(s), IsSequence(t)
    PROVE  /\ IsSequence(s \o t) /\ Len(s) \in Nat /\ Len(t) \in Nat
           /\ Len(s \o t) = Len(s) + Len(t)
           /\ \A i \in 1 .. Len(s) : (s \o t)[i] = s[i]
<1>1. PICK S, T : s \in Seq(S) /\ t \in Seq(T)
  BY DEF IsSequence
<1> DEFINE U == S \cup T
<1>2. s \in Seq(U) /\ t \in Seq(U)
  BY <1>1, SeqMonotonic
<1> HIDE DEF U
<1>3. /\ s \o t \in Seq(U) /\ Len(s) \in Nat /\ Len(t) \in Nat
      /\ Len(s \o t) = Len(s) + Len(t)
      /\ \A i \in 1 .. Len(s) : (s \o t)[i] = s[i]
  BY <1>2
<1> QED
  BY <1>3 DEF IsSequence

LEMMA PwdIsText ==
    ASSUME Bounded
    PROVE  /\ IsSequence(PWD.names) /\ PWD = [abs |-> PWD.abs, names |-> PWD.names]
           /\ PWD.abs \/ (Len(PWD.names) = 1 /\ ~IsDots(PWD.names[1]))
<1>1. CASE PWD \in {Absolute(d) : d \in Tree}
  <2>1. PICK d \in Tree : PWD = Absolute(d)
    BY <1>1
  <2>2. d \in Seq(STRING)
    BY TreeAssumption
  <2>3. PWD.names = d /\ PWD.abs
    BY <2>1, Zenon DEF Absolute
  <2>4. PWD = [abs |-> PWD.abs, names |-> PWD.names]
    BY <2>1 DEF Absolute
  <2> QED
    BY <2>2, <2>3, <2>4 DEF IsSequence
<1>2. CASE PWD = Complaint
  <2>1. ASSUME NEW x
        PROVE  /\ Relative(<<x>>).names \in Seq({x}) /\ Len(Relative(<<x>>).names) = 1
               /\ Relative(<<x>>).names[1] = x
               /\ Relative(<<x>>) =
                      [abs |-> Relative(<<x>>).abs, names |-> Relative(<<x>>).names]
    BY DEF Relative
  <2>2. ~IsDots("pwd: error")
    <3>1. "pwd: error" # "." /\ "pwd: error" # ".."
      BY Zenon
    <3> QED
      BY <3>1, Zenon DEF IsDots
  <2>3. /\ IsSequence(Complaint.names)
        /\ Len(Complaint.names) = 1 /\ ~IsDots(Complaint.names[1])
        /\ Complaint = [abs |-> Complaint.abs, names |-> Complaint.names]
    BY <2>1, <2>2, Zenon DEF Complaint, IsSequence
  <2> QED
    BY <1>2, <2>3
<1> QED
  BY <1>1, <1>2 DEF Bounded

\* What stays or comes from PWD and Here is as good as it was.
LEMMA KeepEntries ==
    ASSUME IInv, Bounded, Entries, Len(from') = Len(stack'),
           \A i \in 1 .. Len(stack') :
               Comes(i) \/ (from'[i] = Unknown /\ IsSequence(stack'[i].names))
    PROVE  Entries'
<1>1. ASSUME NEW i \in 1 .. Len(stack')
      PROVE  IsSequence(stack'[i].names) /\ (from'[i] # Unknown => from'[i] \in Tree)
  <2>1. CASE stack'[i] = PWD /\ from'[i] = Here
    <3>1. IsSequence(PWD.names)
      BY PwdIsText
    <3>2. Here # Unknown => Here \in Tree
      BY DEF Here, IInv, SomewhereReal
    <3> QED
      BY <2>1, <3>1, <3>2
  <2>2. CASE \E j \in 1 .. Len(stack) : stack'[i] = stack[j] /\ from'[i] = from[j]
    BY <2>2 DEF Entries, IInv, Stacks
  <2>3. CASE from'[i] = Unknown /\ IsSequence(stack'[i].names)
    BY <2>3
  <2> QED
    BY <2>1, <2>2, <2>3 DEF Comes
<1> QED
  BY <1>1 DEF Entries, IsSequence

LEMMA SameEntries == Entries /\ UNCHANGED <<stack, from>> => Entries'
BY DEF Entries, IsSequence

LEMMA PushMatchesEntries ==
    ASSUME IInv, Bounded, Entries, NEW star \in BOOLEAN, PushMatches(star)
    PROVE  Entries'
<1>1. ASSUME NEW t, IsName(t)
      PROVE  IsSequence(t.names)
  <2>1. PICK x : t \in {Relative(<<x>>), Joined(Relative(<<x>>))}
    BY <1>1 DEF IsName
  <2>2. Relative(<<x>>).names = <<x>> /\ Relative(<<x>>).abs = FALSE /\ <<x>> \in Seq({x})
    BY DEF Relative
  <2>3. IsSequence(<<x>>) /\ IsSequence(PWD.names \o <<x>>)
    BY <2>2, PwdIsText, ConcatSequence DEF IsSequence
  <2>4. [PWD EXCEPT !.names = @ \o <<x>>].names = PWD.names \o <<x>>
    BY PwdIsText
  <2> QED
    BY <2>1, <2>2, <2>3, <2>4 DEF Joined
<1>2. CASE UNCHANGED <<stack, from>>
  BY <1>2, SameEntries
<1>3. CASE /\ Stacks'
           /\ \A i \in 1 .. Len(stack') :
                  Comes(i) \/ (from'[i] = Unknown /\ IsName(stack'[i]))
  <2>1. \A i \in 1 .. Len(stack') :
            Comes(i) \/ (from'[i] = Unknown /\ IsSequence(stack'[i].names))
    BY <1>1, <1>3
  <2> QED
    BY <1>3, <2>1, KeepEntries DEF Stacks
<1> QED
  BY <1>2, <1>3, Matched

\* What is removed was empty, and what is made again is the tree.
LEMMA RemoveNested ==
    ASSUME IInv, Nested, NEW d \in Tree, RemoveDirectory(d)
    PROVE  Nested'
<1>1. d \in dirs \ {<<>>} /\ dirs' = dirs \ {d} /\ \A e \in dirs : e = <<>> \/ Front(e) # d
  BY DEF RemoveDirectory
<1>2. dirs \subseteq Tree /\ Tree \subseteq Seq(STRING)
  BY TreeAssumption DEF IInv, SomewhereReal
<1>3. ASSUME NEW e \in dirs, NEW i \in 1 .. Len(e)
      PROVE  SubSeq(e, 1, i - 1) \in dirs /\ SubSeq(e, 1, i - 1) # d
  <2>1. /\ e \in Seq(STRING) /\ Len(e) \in Nat /\ SubSeq(e, 1, Len(e)) = e
        /\ SubSeq(e, 1, i) = Append(SubSeq(e, 1, i - 1), e[i])
    BY <1>2, PrefixProperties
  <2>2. SubSeq(e, 1, i - 1) \in dirs
    BY DEF Nested
  <2>3. SubSeq(e, 1, i) \in dirs
    <3>1. CASE i = Len(e)
      BY <2>1, <3>1
    <3>2. CASE i # Len(e)
      <4>1. i + 1 \in 1 .. Len(e) /\ (i + 1) - 1 = i
        <5> DEFINE n == Len(e)
        <5>1. i \in 1 .. n /\ n \in Nat /\ i # n
          BY <2>1, <3>2
        <5> HIDE DEF n
        <5>2. i + 1 \in 1 .. n /\ (i + 1) - 1 = i
          BY <5>1
        <5> QED
          BY <5>2 DEF n
      <4>2. SubSeq(e, 1, (i + 1) - 1) \in dirs
        BY <4>1 DEF Nested
      <4> QED
        BY <4>1, <4>2
    <3> QED
      BY <3>1, <3>2
  <2>4. ASSUME NEW p \in Seq(STRING), NEW x \in STRING
        PROVE  Append(p, x) # <<>> /\ Front(Append(p, x)) = p
    <3>1. Len(Append(p, x)) = Len(p) + 1 /\ Len(p) \in Nat
      OBVIOUS
    <3>0. Append(p, x) # <<>>
      BY AppendProperties
    <3>2. SubSeq(Append(p, x), 1, Len(p)) = p
      OBVIOUS
    <3>3. Front(Append(p, x)) = SubSeq(Append(p, x), 1, Len(p))
      BY <3>1 DEF Front
    <3> QED
      BY <3>0, <3>2, <3>3
  <2>5. SubSeq(e, 1, i - 1) \in Seq(STRING) /\ e[i] \in STRING
    BY <1>2, <2>1, <2>2
  <2> QED
    BY <1>1, <2>1, <2>2, <2>3, <2>4, <2>5
<1> QED
  BY <1>1, <1>3 DEF Nested

LEMMA WholeNested == dirs' = Tree => Nested'
BY TreeAssumption, StartAssumption DEF Nested

LEMMA TextOf ==
    ASSUME NEW s \in Words
    PROVE  /\ s = [abs |-> s.abs, names |-> s.names] /\ s.abs \in BOOLEAN
           /\ s.names \in Seq(STRING)
BY TextsAssumption

\* changedir, in terms of the kernel's lookups
LEMMA TargetIs ==
    ASSUME NEW s
    PROVE  /\ Target(Empty) = Find(Absolute(Home))
           /\ s # Empty => Target(s) = IF Find(s) = Nowhere THEN Nowhere ELSE Find(Joined(s))
           /\ s.abs => s # Empty /\ Joined(s) = s
<1>1. Empty.abs = FALSE
  BY DEF Empty, Relative
<1> QED
  BY <1>1 DEF Target, Joined

LEMMA TargetExists ==
    ASSUME Bounded, <<>> \in dirs, NEW s, IsSequence(s.names)
    PROVE  Target(s) \in dirs \cup {Nowhere}
<1>1. CASE s = Empty
  <2>1. Absolute(Home).abs /\ Absolute(Home).names = Home
    BY Zenon DEF Absolute
  <2>2. Home \in Seq(STRING)
    BY TextsAssumption
  <2>3. Find(Absolute(Home)) \in dirs \cup {Nowhere}
    BY <2>1, <2>2, FindExists
  <2> QED
    BY <1>1, <2>3, TargetIs
<1>2. CASE s # Empty
  <2>1. Len(s.names) \in Nat
    BY AppendSequence
  <2>2. Joined(s) = s \/ Joined(s) = [PWD EXCEPT !.names = @ \o s.names]
    BY DEF Joined
  <2>3. CASE s.abs
    BY <1>2, <2>1, <2>3, FindExists, TargetIs
  <2>4. CASE ~s.abs
    <3> DEFINE j == Joined(s)
    <3>1. j.abs = PWD.abs /\ j.names = PWD.names \o s.names
      BY <2>4, PwdIsText DEF Joined
    <3> HIDE DEF j
    <3>2. /\ Len(j.names) = Len(PWD.names) + Len(s.names) /\ Len(PWD.names) \in Nat
          /\ \A i \in 1 .. Len(PWD.names) : j.names[i] = PWD.names[i]
      BY <3>1, PwdIsText, ConcatSequence
    <3>3. Len(j.names) \in Nat /\ (j.abs \/ (Len(j.names) # 0 /\ ~IsDots(j.names[1])))
      BY <2>1, <3>1, <3>2, PwdIsText
    <3>4. Find(j) \in dirs \cup {Nowhere}
      BY <3>3, FindExists
    <3> QED
      BY <1>2, <3>4, TargetIs DEF j
  <2> QED
    BY <2>3, <2>4
<1> QED
  BY <1>1, <1>2

Inv == IInv /\ Bounded /\ Reaches

LEMMA InitInv == Init => Inv
<1> SUFFICES ASSUME Init PROVE Inv
  OBVIOUS
<1>1. Nested
  BY TreeAssumption, StartAssumption DEF Init, Nested
<1>2. Entries
  BY DEF Init, Entries
<1> QED
  BY <1>1, <1>2, InitHolds, BoundedInit DEF Inv, Reaches

LEMMA NextEntries == Inv /\ [Next]_vars => Entries'
<1> SUFFICES ASSUME Inv, [Next]_vars
             PROVE  Entries'
  OBVIOUS
<1>0. IInv /\ Bounded /\ Entries
  BY DEF Inv, Reaches
<1>1. ASSUME NEW s \in Words, PushD(s) PROVE Entries'
  <2>1. CASE UNCHANGED <<stack, from>>
    BY <1>0, <2>1, SameEntries
  <2>2. CASE stack' = <<PWD>> \o stack /\ from' = <<Here>> \o from
    BY <1>0, <2>2, Pushed, KeepEntries DEF Stacks
  <2> QED
    BY <1>1, <2>1, <2>2 DEF PushD
<1>2. ASSUME NEW star \in BOOLEAN, PushMatches(star) PROVE Entries'
  BY <1>0, <1>2, PushMatchesEntries
<1>3. CASE PopD
  <2>1. CASE UNCHANGED <<stack, from>>
    BY <1>0, <2>1, SameEntries, SMTT(20)
  <2>2. CASE stack' = Tail(stack) /\ from' = Tail(from)
    BY <1>0, <1>3, <2>2, Popped, KeepEntries DEF Stacks, PopD
  <2> QED
    BY <1>3, <2>1, <2>2 DEF PopD
<1>4. CASE UNCHANGED <<stack, from>>
  BY <1>0, <1>4, SameEntries
<1> QED
  BY <1>1, <1>2, <1>3, <1>4
     DEF Next, vars, Cd, Cl, CdReplace, Prompt, MakeDirectory, RemoveDirectory

LEMMA NextNested == Inv /\ [Next]_vars => Nested'
<1> SUFFICES ASSUME Inv, [Next]_vars
             PROVE  Nested'
  OBVIOUS
<1>0. IInv /\ Nested
  BY DEF Inv, Reaches
<1>1. ASSUME NEW d \in Tree, RemoveDirectory(d) PROVE Nested'
  BY <1>0, <1>1, RemoveNested
<1>2. CASE MakeDirectory
  BY <1>2, WholeNested DEF MakeDirectory
<1>3. CASE UNCHANGED dirs
  BY <1>0, <1>3 DEF Nested
<1>4. ASSUME NEW star \in BOOLEAN, PushMatches(star) PROVE UNCHANGED dirs
  BY <1>4 DEF PushMatches
<1> QED
  BY <1>1, <1>2, <1>3, <1>4 DEF Next, vars, Cd, Cl, CdReplace, Prompt, PushD, PopD

LEMMA NextInv == Inv /\ [Next]_vars => Inv'
BY NextHolds, NextBounded, NextEntries, NextNested DEF Inv, Reaches

\* An entry leads to a directory or nowhere, and if it is known to which, there.
LEMMA EntryLeads ==
    ASSUME Inv, stack # <<>>
    PROVE  /\ Target(Head(stack)) \in dirs \cup {Nowhere}
           /\ Head(from) # Unknown => Target(Head(stack)) \in {Head(from), Nowhere}
<1>1. /\ Len(stack) \in Nat \ {0} /\ Len(from) = Len(stack)
      /\ Head(stack) = stack[1] /\ Head(from) = from[1] /\ 1 \in 1 .. Len(stack)
  <2>1. IsSequence(stack) /\ IsSequence(from) /\ Len(from) = Len(stack)
    BY DEF Inv, IInv, Stacks
  <2>2. Len(stack) \in Nat \ {0}
    BY <2>1, PopSequence
  <2>3. Head(stack) = stack[1] /\ Head(from) = from[1]
    BY <2>1, <2>2 DEF Head, IsSequence
  <2> QED
    BY <2>1, <2>2, <2>3
<1>2. IsSequence(stack[1].names) /\ (from[1] # Unknown => from[1] \in Tree)
  BY <1>1 DEF Inv, Reaches, Entries
<1>3. <<>> \in dirs /\ Bounded
  BY DEF Inv, Reaches, Nested
<1>4. from[1] # Unknown => stack[1] = Absolute(from[1])
  BY <1>1 DEF Inv, IInv, BackWherePushed
<1>5. ASSUME NEW d \in Tree
      PROVE  Target(Absolute(d)) \in {d, Nowhere}
  <2>1. Absolute(d).abs
    BY Zenon DEF Absolute
  <2>2. Target(Absolute(d)) \in {Nowhere, Find(Absolute(d))}
    BY <2>1, TargetIs
  <2> QED
    BY <1>3, <2>2, FindAbsolute
<1> QED
  BY <1>1, <1>2, <1>3, <1>4, <1>5, TargetExists

\* A directory that popd takes off the stack is one that exists, and the one the
\* shell was in when it was pushed; what the others do makes the stack no shorter
\* (PopGoesThere).
THEOREM PopLeadsThere == Spec => PopGoesThere
<1> DEFINE Popping == Len(stack') < Len(stack) =>
                          /\ cwd' \in dirs /\ stack' = Tail(stack)
                          /\ (Head(from) # Unknown => cwd' = Head(from))
<1>1. Inv /\ [Next]_vars => [Popping]_vars
  <2> SUFFICES ASSUME Inv, Next, Len(stack') < Len(stack)
               PROVE  /\ cwd' \in dirs /\ stack' = Tail(stack)
                      /\ (Head(from) # Unknown => cwd' = Head(from))
    OBVIOUS
  <2>0. IInv /\ Bounded /\ Len(stack) \in Nat
    BY AppendSequence DEF Inv, IInv, Stacks
  <2>1. stack' # stack
    BY <2>0
  <2>2. ASSUME NEW s \in Words, PushD(s) PROVE FALSE
    BY <2>0, <2>1, <2>2, Pushed DEF PushD
  <2>3. ASSUME NEW star \in BOOLEAN, PushMatches(star) PROVE FALSE
    <3>1. Len(stack') \in Len(stack) .. MaxStack
      BY <2>0, <2>1, <2>3, Matched
    <3> QED
      BY <2>0, <3>1, BoundAssumption
  <2>4. PopD
    BY <2>1, <2>2, <2>3 DEF Next, Cd, Cl, CdReplace, Prompt, MakeDirectory, RemoveDirectory
  <2>5. /\ stack # <<>> /\ Goes(Target(Head(stack))) /\ Target(Head(stack)) # Nowhere
        /\ stack' = Tail(stack)
    BY <2>1, <2>4 DEF PopD
  <2>6. /\ Target(Head(stack)) \in dirs
        /\ Head(from) # Unknown => Target(Head(stack)) = Head(from)
    BY <2>5, EntryLeads
  <2>7. cwd' = Target(Head(stack))
    BY <2>5, <2>6 DEF Goes
  <2> QED
    BY <2>5, <2>6, <2>7
<1> QED
  BY <1>1, InitInv, NextInv, PTL DEF Spec, PopGoesThere

\* At the prompt of a terminal cd, cl and pushd go where the kernel finds the name that
\* was typed, and stay where it finds none (RelativeFromHere).
THEOREM NamesLeadFromHere == Spec => RelativeFromHere
<1> DEFINE Going == \A s \in Words :
                        bol /\ refreshes /\ cwd \in dirs /\ s # Empty
                        /\ (Cd(s) \/ Cl(s) \/ PushD(s)) => Goes(Find(s))
<1>1. Inv => Going
  <2> SUFFICES ASSUME Inv, NEW s \in Words, bol, refreshes, cwd \in dirs, s # Empty,
                      Cd(s) \/ Cl(s) \/ PushD(s)
               PROVE  Goes(Find(s))
    OBVIOUS
  <2>1. PWD = Absolute(cwd) /\ dirs \subseteq Tree /\ Nested
    BY DEF Inv, IInv, PwdIsHere, SomewhereReal, Reaches
  <2>2. Joined(s).abs /\ Find(Joined(s)) = Find(s)
    <3>1. CASE s.abs
      BY <3>1, TargetIs
    <3>2. CASE ~s.abs
      <4>1. Joined(s) = Absolute(cwd \o s.names)
        BY <2>1, <3>2 DEF Joined, Absolute
      <4>2. s = Relative(s.names) /\ s.names \in Seq(STRING)
        BY <3>2, TextOf DEF Relative
      <4>3. Find(Absolute(cwd \o s.names)) = Find(Relative(s.names))
        BY <2>1, <4>2, FindFromHere
      <4>4. Absolute(cwd \o s.names).abs
        BY Zenon DEF Absolute
      <4> QED
        BY <4>1, <4>2, <4>3, <4>4
    <3> QED
      BY <3>1, <3>2
  <2>3. Target(s) = Find(s)
    BY <2>2, TargetIs
  <2>4. Target(Joined(s)) = Find(s)
    BY <2>2, TargetIs
  <2> QED
    BY <2>3, <2>4 DEF Cd, Cl, PushD
<1>2. Inv => [Going]_vars
  BY <1>1
<1> QED
  BY <1>2, InitInv, NextInv, PTL DEF Spec, RelativeFromHere
=============================================================================
