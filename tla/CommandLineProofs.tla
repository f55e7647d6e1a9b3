-------------------------- MODULE CommandLineProofs --------------------------
(***************************************************************************)
(* What holds of CommandLine for all words, patterns, aliases and names    *)
(* and for commands of any length: the flags fg, bg and pushd never        *)
(* outlive the command they were typed for, and, whatever was typed before *)
(* it, what is executed is what was typed for it.                          *)
(***************************************************************************)
EXTENDS CommandLine, SequenceTheorems, WellFoundedInduction, TLAPS

-----------------------------------------------------------------------------
\* cmd_and_arg leaves no flag: at the token after the word it takes back the one that
\* is set, and after an argument none is.
LEMMA CmdAndArgClears == FlagsSettled /\ at # "crashed" => CmdAndArg.flags = {}
<1> SUFFICES ASSUME FlagsSettled, at # "crashed"
             PROVE  CmdAndArg.flags = {}
  OBVIOUS
<1>1. CASE at = "word" /\ flags # {}
  <2>1. PICK f \in FlagWords : flags = {f}
    BY <1>1 DEF FlagsSettled
  <2> QED
    BY <1>1, <2>1 DEF CmdAndArg, FlagWords
<1>2. CASE ~(at = "word" /\ flags # {})
  <2>1. flags = {}
    BY <1>2 DEF FlagsSettled
  <2> QED
    BY <1>2, <2>1 DEF CmdAndArg
<1> QED
  BY <1>1, <1>2

\* Where no flag can be pending, none is.
LEMMA NoFlag == FlagsSettled /\ at \notin {"word", "crashed"} => flags = {}
BY DEF FlagsSettled

LEMMA OpsAreNotWords == Ops = {"<", ">", ">>", ">&", ">>&"}
BY DEF Ops, Modifiers

-----------------------------------------------------------------------------
LEMMA InitFlags == Init => FlagsSettled
BY DEF Init, FlagsSettled

\* Steps that end a simple command, at whatever token
LEMMA EndStep ==
    ASSUME FlagsSettled, at # "crashed", flags' = CmdAndArg.flags
    PROVE  FlagsSettled'
<1>1. flags' = {}
  BY CmdAndArgClears
<1> QED
  BY <1>1 DEF FlagsSettled

\* Steps that leave the flags alone, and the place, if there is a flag
LEMMA KeepStep ==
    ASSUME FlagsSettled, flags' = flags, at' \in {at, "crashed"} \/ at \notin {"word", "crashed"}
    PROVE  FlagsSettled'
BY NoFlag DEF FlagsSettled

LEMMA CommandWordStep ==
    ASSUME FlagsSettled, NEW w \in Words, CommandWord(w)
    PROVE  FlagsSettled'
<1>1. flags = {} /\ at' = "word"
  BY NoFlag DEF CommandWord
<1>2. CASE w \in FlagWords
  BY <1>1, <1>2 DEF CommandWord, FlagsSettled
<1>3. CASE w \notin FlagWords
  BY <1>1, <1>3 DEF CommandWord, FlagsSettled
<1> QED
  BY <1>2, <1>3

\* The first argument takes the flag back.
LEMMA ArgumentStep ==
    ASSUME FlagsSettled, NEW w \in Words, Argument(w)
    PROVE  FlagsSettled'
<1>1. at \in {"word", "args"} /\ Expanded(w)
  BY DEF Argument
<1>2. flags' = {}
  <2>1. CASE flags = {}
    BY <1>1, <2>1 DEF Expanded
  <2>2. CASE flags # {}
    <3>1. PICK f \in FlagWords : flags = {f}
      BY <2>2 DEF FlagsSettled
    <3>2. \/ flags' = flags \ (IF "fg" \in flags THEN {"fg"} ELSE {"bg"})
             /\ flags \cap {"fg", "bg"} # {}
          \/ flags' = {}
      BY <1>1, <2>2 DEF Expanded
    <3> QED
      BY <3>1, <3>2 DEF FlagWords
  <2> QED
    BY <2>1, <2>2
<1> QED
  BY <1>2 DEF FlagsSettled

LEMMA SyntaxErrorStep ==
    ASSUME FlagsSettled, NEW t \in AnyToken, SyntaxError(t)
    PROVE  FlagsSettled'
<1>1. at # "crashed"
  BY DEF SyntaxError
<1>2. CASE Complete
  BY <1>1, <1>2, EndStep DEF SyntaxError
<1>3. CASE ~Complete
  <2>1. at \notin {"word", "crashed"} /\ flags' = flags
    BY <1>1, <1>3 DEF SyntaxError, Complete
  <2> QED
    BY <2>1, KeepStep
<1> QED
  BY <1>2, <1>3

LEMMA TabStep ==
    ASSUME FlagsSettled, NEW files \in Names, NEW programs \in Names, Tab(files, programs)
    PROVE  FlagsSettled'
<1>1. flags' = flags
  BY DEF Tab
<1>2. at' \in {at, "crashed"}
  <2>1. ASSUME NEW cs, NEW t, Run(cs, at, t) PROVE at' \in {at, "crashed"}
    BY <2>1 DEF Run
  <2>2. ASSUME NEW cs, Execute(cs, at) PROVE at' \in {at, "crashed"}
    BY <2>1, <2>2 DEF Execute
  <2> QED
    BY <2>1, <2>2 DEF Tab
<1> QED
  BY <1>1, <1>2, KeepStep

\* The actions whose token may follow, one by one
LEMMA TokenStep ==
    ASSUME FlagsSettled, \/ Pipe \/ \E op \in Operators : Operator(op)
                         \/ \E w \in Words : IoModifier(w)
                         \/ Background \/ AndAnd \/ EndOfLine \/ Time \/ PopD
    PROVE  FlagsSettled'
<1>1. CASE Pipe
  BY <1>1, EndStep DEF Pipe, Token
<1>2. ASSUME NEW op \in Operators, Operator(op) PROVE FlagsSettled'
  BY <1>2, EndStep DEF Operator, Token
<1>3. ASSUME NEW w \in Words, IoModifier(w) PROVE FlagsSettled'
  <2>1. at \notin {"word", "crashed"} /\ flags' = flags
    BY <1>3, OpsAreNotWords DEF IoModifier
  <2> QED
    BY <2>1, KeepStep
<1>4. CASE Background
  BY <1>4, EndStep DEF Background, Token
<1>5. CASE AndAnd
  BY <1>5, EndStep DEF AndAnd, Token
<1>6. CASE EndOfLine
  <2>1. at # "crashed"
    BY <1>6 DEF EndOfLine
  <2>2. CASE Complete \/ at = "and"
    BY <1>6, <2>1, <2>2, EndStep DEF EndOfLine
  <2>3. CASE ~(Complete \/ at = "and")
    <3>1. at \notin {"word", "crashed"} /\ flags' = flags
      BY <1>6, <2>1, <2>3 DEF EndOfLine, Complete
    <3> QED
      BY <3>1, KeepStep
  <2> QED
    BY <2>2, <2>3
<1>7. CASE Time
  <2>1. at # "word"
    BY <1>7, OpsAreNotWords DEF Time, Token, Accepted
  <2>2. at # "crashed" /\ flags' = flags
    BY <1>7 DEF Time, Token
  <2> QED
    BY <2>1, <2>2, KeepStep
<1>8. CASE PopD
  BY <1>8, KeepStep DEF PopD
<1> QED
  BY <1>1, <1>2, <1>3, <1>4, <1>5, <1>6, <1>7, <1>8

LEMMA NextFlags == FlagsSettled /\ [Next]_vars => FlagsSettled'
<1> SUFFICES ASSUME FlagsSettled, [Next]_vars
             PROVE  FlagsSettled'
  OBVIOUS
<1>1. ASSUME NEW w \in Words, CommandWord(w) PROVE FlagsSettled'
  BY <1>1, CommandWordStep
<1>2. ASSUME NEW w \in Words, Argument(w) PROVE FlagsSettled'
  BY <1>2, ArgumentStep
<1>3. CASE \/ Pipe \/ \E op \in Operators : Operator(op)
           \/ \E w \in Words : IoModifier(w)
           \/ Background \/ AndAnd \/ EndOfLine \/ Time \/ PopD
  BY <1>3, TokenStep
<1>4. ASSUME NEW a \in Aliases, Alias(a[1], a[2]) PROVE FlagsSettled'
  BY <1>4, KeepStep DEF Alias
<1>5. CASE AliasUnset
  BY <1>5, KeepStep DEF AliasUnset
<1>6. ASSUME NEW t \in AnyToken, SyntaxError(t) PROVE FlagsSettled'
  BY <1>6, SyntaxErrorStep
<1>7. ASSUME NEW q \in BOOLEAN, Discard(q) PROVE FlagsSettled'
  BY <1>7, KeepStep DEF Discard
<1>12. ASSUME NEW q \in BOOLEAN, OpenText(q) PROVE FlagsSettled'
  BY <1>12, KeepStep DEF OpenText
<1>8. CASE Recover
  BY <1>8, KeepStep DEF Recover
<1>9. CASE Comment
  BY <1>9, KeepStep DEF Comment
<1>10. ASSUME NEW files \in Names, NEW programs \in Names, Tab(files, programs)
       PROVE  FlagsSettled'
  BY <1>10, TabStep
<1>11. CASE UNCHANGED vars
  BY <1>11, KeepStep DEF vars, parserVars
<1> QED
  BY <1>1, <1>2, <1>3, <1>4, <1>5, <1>6, <1>7, <1>8, <1>9, <1>10, <1>11, <1>12 DEF Next

\* No fg, bg or pushd waits for an argument beyond the token after it, in whatever way
\* its line goes wrong (FlagsSettled), so that the words of a later command are
\* never taken for it.
THEOREM FlagsStaySettled == Spec => []FlagsSettled
BY InitFlags, NextFlags, PTL DEF Spec

-----------------------------------------------------------------------------
(* Recursion.  No step of the library's induction theorems can be cited,   *)
(* as they take an operator; the least number that is not in a set will do. *)

LEMMA Climb ==
    ASSUME NEW n \in Nat, NEW G, 0 \in G, \A m \in 0 .. n - 1 : m \in G => m + 1 \in G
    PROVE  0 .. n \subseteq G
<1> DEFINE Below == {ss \in Nat \X Nat : ss[1] < ss[2]}
           B == (0 .. n) \ G
<1> SUFFICES ASSUME B # {} PROVE FALSE
  OBVIOUS
<1>1. IsWellFoundedOn(Below, Nat)
  BY NatLessThanWellFounded DEF OpToRel
<1>2. B \in SUBSET Nat
  OBVIOUS
<1>3. PICK m \in B : \A y \in B : ~ (<<y, m>> \in Below)
  <2> HIDE DEF Below, B
  <2> QED
    BY <1>1, <1>2, WFMin
<1>4. m \in Nat /\ m # 0 /\ m \in 0 .. n /\ m - 1 \in 0 .. n - 1 /\ m - 1 \in Nat /\ m - 1 < m
  OBVIOUS
<1>5. m - 1 \notin B
  <2>1. <<m - 1, m>> \in Below
    BY <1>4
  <2> QED
    BY <1>3, <2>1
<1>6. m - 1 \in G
  BY <1>4, <1>5
<1>7. (m - 1) + 1 \in G
  BY <1>4, <1>6
<1> QED
  BY <1>3, <1>4, <1>7

-----------------------------------------------------------------------------
(* FlattenSeq, which is all that the words of a line go through.           *)

LEMMA FlattenDef ==
    ASSUME NEW ss, Len(ss) \in Nat, Len(ss) # 0
    PROVE  \E f : /\ FlattenSeq(ss) = f[Len(ss)] /\ f[1] = ss[1]
                  /\ \A i \in 2 .. Len(ss) : f[i] = f[i - 1] \o ss[i]
<1> DEFINE n == Len(ss)
<1>1. n \in Nat /\ n # 0
  OBVIOUS
<1> HIDE DEF n
<1> DEFINE Step(f, i) == IF i = 1 THEN ss[i] ELSE f[i - 1] \o ss[i]
           G == {m \in 0 .. n : \E f : f = [i \in 1 .. m |-> Step(f, i)]}
<1>2. 0 \in G
  <2> DEFINE h == [i \in 1 .. 0 |-> <<>>]
  <2>1. h = [i \in 1 .. 0 |-> Step(h, i)]
    OBVIOUS
  <2> HIDE DEF h, Step
  <2>2. 0 \in 0 .. n /\ \E f : f = [i \in 1 .. 0 |-> Step(f, i)]
    BY <1>1, <2>1
  <2> QED
    BY <2>2
<1>3. ASSUME NEW m \in 0 .. n - 1, m \in G
      PROVE  m + 1 \in G
  <2>1. PICK f : f = [i \in 1 .. m |-> Step(f, i)]
    BY <1>3
  <2> DEFINE h == [i \in 1 .. m + 1 |-> IF i = m + 1 THEN Step(f, i) ELSE f[i]]
  <2>2. ASSUME NEW i \in 1 .. m + 1
        PROVE  h[i] = Step(h, i)
    <3>0. i # 1 => i - 1 \in 1 .. m /\ i - 1 \in 1 .. m + 1 /\ i - 1 # m + 1
      BY <1>1
    <3>1. CASE i = m + 1
      <4>1. h[i] = Step(f, i) /\ (i # 1 => h[i - 1] = f[i - 1])
        BY <3>0, <3>1
      <4> QED
        BY <4>1
    <3>2. CASE i # m + 1
      <4>1. i \in 1 .. m
        BY <1>1, <3>2
      <4>2. h[i] = f[i] /\ (i # 1 => h[i - 1] = f[i - 1])
        BY <3>0, <3>2
      <4>3. f[i] = Step(f, i)
        BY <2>1, <4>1
      <4> QED
        BY <4>2, <4>3
    <3> QED
      BY <3>1, <3>2
  <2>3. h = [i \in 1 .. m + 1 |-> Step(h, i)]
    BY <2>2
  <2>4. m + 1 \in 0 .. n
    BY <1>1
  <2> QED
    BY <2>3, <2>4
<1>4. n \in G
  <2> HIDE DEF G
  <2>1. 0 .. n \subseteq G
    BY <1>1, <1>2, <1>3, Climb
  <2> QED
    BY <1>1, <2>1
<1>5. PICK g : g = [i \in 1 .. n |-> Step(g, i)]
  BY <1>4
<1> DEFINE F == CHOOSE f : f = [i \in 1 .. n |-> Step(f, i)]
<1>6. F = [i \in 1 .. n |-> Step(F, i)]
  BY <1>5
<1>7. FlattenSeq(ss) = F[n]
  BY <1>1 DEF FlattenSeq, n
<1> HIDE DEF F
<1>8. F[1] = ss[1]
  <2>1. 1 \in 1 .. n
    BY <1>1
  <2> QED
    BY <1>6, <2>1
<1>9. ASSUME NEW i \in 2 .. n
      PROVE  F[i] = F[i - 1] \o ss[i]
  <2>1. i \in 1 .. n /\ i # 1
    BY <1>1
  <2>2. F[i] = Step(F, i)
    <3> HIDE DEF Step
    <3> QED
      BY <1>6, <2>1
  <2> QED
    BY <2>1, <2>2
<1> QED
  BY <1>7, <1>8, <1>9 DEF n

LEMMA FlattenOne == ASSUME NEW s PROVE FlattenSeq(<<s>>) = s /\ FlattenSeq(<<>>) = <<>>
<1>1. FlattenSeq(<<>>) = <<>>
  BY DEF FlattenSeq
<1>2. Len(<<s>>) \in Nat /\ Len(<<s>>) # 0 /\ Len(<<s>>) = 1 /\ <<s>>[1] = s
  OBVIOUS
<1>3. \E f : FlattenSeq(<<s>>) = f[Len(<<s>>)] /\ f[1] = <<s>>[1]
  BY <1>2, FlattenDef, Zenon
<1> QED
  BY <1>1, <1>2, <1>3

\* It is empty only if each sequence is, and has the elements of all.
LEMMA FlattenIs ==
    ASSUME NEW S, NEW ss \in Seq(Seq(S))
    PROVE  /\ FlattenSeq(ss) \in Seq(S)
           /\ ss # <<>> /\ FlattenSeq(ss) = <<>> => ss[1] = <<>>
<1> DEFINE n == Len(ss)
<1>1. n \in Nat /\ (ss # <<>> => n # 0) /\ \A i \in 1 .. n : ss[i] \in Seq(S)
  <2> DEFINE T == Seq(S)
  <2> HIDE DEF T
  <2>1. ss \in Seq(T)
    BY DEF T
  <2>2. n \in Nat /\ (ss # <<>> => n # 0) /\ \A i \in 1 .. n : ss[i] \in T
    BY <2>1, LenProperties, ElementOfSeq, EmptySeq
  <2> QED
    BY <2>2 DEF T
<1>2. CASE ss = <<>>
  BY <1>2, FlattenOne, EmptySeq
<1>3. CASE ss # <<>>
  <2>1. PICK f : /\ FlattenSeq(ss) = f[n] /\ f[1] = ss[1]
                 /\ \A i \in 2 .. n : f[i] = f[i - 1] \o ss[i]
    BY <1>1, <1>3, FlattenDef, Zenon
  <2> HIDE DEF n
  <2> DEFINE G == {m \in 0 .. n - 1 : /\ f[m + 1] \in Seq(S)
                                      /\ f[m + 1] = <<>> => ss[1] = <<>>}
  <2>2. 0 \in G
    <3>1. 0 \in 0 .. n - 1 /\ 1 \in 1 .. n /\ 0 + 1 = 1
      BY <1>1, <1>3
    <3>2. f[0 + 1] \in Seq(S) /\ (f[0 + 1] = <<>> => ss[1] = <<>>)
      BY <1>1, <2>1, <3>1
    <3> QED
      BY <3>1, <3>2
  <2>3. ASSUME NEW m \in 0 .. (n - 1) - 1, m \in G
        PROVE  m + 1 \in G
    <3>1. /\ m + 1 \in 0 .. n - 1 /\ (m + 1) + 1 \in 1 .. n /\ (m + 1) + 1 \in 2 .. n
          /\ ((m + 1) + 1) - 1 = m + 1
      BY <1>1
    <3>2. f[(m + 1) + 1] = f[m + 1] \o ss[(m + 1) + 1]
      BY <2>1, <3>1
    <3>3. f[m + 1] \in Seq(S) /\ ss[(m + 1) + 1] \in Seq(S) /\ (f[m + 1] = <<>> => ss[1] = <<>>)
      BY <1>1, <2>3, <3>1
    <3>4. f[(m + 1) + 1] \in Seq(S)
      BY <3>2, <3>3, ConcatProperties
    <3>5. f[(m + 1) + 1] = <<>> => f[m + 1] = <<>>
      <4>1. PICK u, v : u = f[m + 1] /\ v = ss[(m + 1) + 1]
        OBVIOUS
      <4>2. u \in Seq(S) /\ v \in Seq(S)
        BY <3>3, <4>1
      <4>3. u \o v = <<>> => u = <<>>
        BY <4>2, ConcatEqualIffEmpty
      <4> QED
        BY <3>2, <4>1, <4>3
    <3> QED
      BY <3>1, <3>3, <3>4, <3>5
  <2>4. n - 1 \in G
    <3> HIDE DEF G
    <3>1. n - 1 \in Nat
      BY <1>1, <1>3
    <3>2. 0 .. n - 1 \subseteq G
      BY <2>2, <2>3, <3>1, Climb
    <3> QED
      BY <3>1, <3>2
  <2>5. (n - 1) + 1 = n
    BY <1>1
  <2> QED
    BY <2>1, <2>4, <2>5
<1> QED
  BY <1>2, <1>3

LEMMA FlattenAppend ==
    ASSUME NEW S, NEW ss \in Seq(Seq(S)), NEW s \in Seq(S)
    PROVE  FlattenSeq(Append(ss, s)) = FlattenSeq(ss) \o s
<1> DEFINE n == Len(ss)
           tt == Append(ss, s)
           T == Seq(S)
<1>1. /\ n \in Nat /\ (ss # <<>> => n # 0)
      /\ Len(tt) = n + 1 /\ tt[n + 1] = s /\ \A i \in 1 .. n : tt[i] = ss[i]
  <2> HIDE DEF T
  <2>1. ss \in Seq(T) /\ s \in T
    BY DEF T
  <2>2. n \in Nat /\ (ss # <<>> => n # 0)
    BY <2>1, LenProperties, EmptySeq
  <2> QED
    BY <2>1, <2>2, AppendProperties
<1>2. CASE ss = <<>>
  <2>1. tt = <<s>> /\ <<>> \o s = s
    BY <1>2, ConcatEmptySeq
  <2> QED
    BY <1>2, <2>1, FlattenOne
<1>3. CASE ss # <<>>
  <2>1. PICK f : /\ FlattenSeq(ss) = f[n] /\ f[1] = ss[1]
                 /\ \A i \in 2 .. n : f[i] = f[i - 1] \o ss[i]
    BY <1>1, <1>3, FlattenDef, Zenon
  <2> HIDE DEF n, tt
  <2>2. Len(tt) \in Nat /\ Len(tt) # 0 /\ Len(tt) = n + 1
    BY <1>1
  <2>30. PICK g : /\ FlattenSeq(tt) = g[Len(tt)] /\ g[1] = tt[1]
                 /\ \A i \in 2 .. Len(tt) : g[i] = g[i - 1] \o tt[i]
    BY <2>2, FlattenDef, Zenon
  <2>3. /\ FlattenSeq(tt) = g[n + 1] /\ g[1] = tt[1]
        /\ \A i \in 2 .. n + 1 : g[i] = g[i - 1] \o tt[i]
    BY <2>2, <2>30
  <2> DEFINE G == {m \in 0 .. n - 1 : g[m + 1] = f[m + 1]}
  <2>4. 0 \in G
    <3>1. 0 \in 0 .. n - 1 /\ 1 \in 1 .. n /\ 0 + 1 = 1
      BY <1>1, <1>3
    <3>2. g[0 + 1] = f[0 + 1]
      BY <1>1, <2>1, <2>3, <3>1
    <3> QED
      BY <3>1, <3>2
  <2>5. ASSUME NEW m \in 0 .. (n - 1) - 1, m \in G
        PROVE  m + 1 \in G
    <3>1. /\ m + 1 \in 0 .. n - 1 /\ (m + 1) + 1 \in 1 .. n /\ (m + 1) + 1 \in 2 .. n
          /\ ((m + 1) + 1) - 1 = m + 1 /\ (m + 1) + 1 \in 2 .. n + 1
      BY <1>1
    <3>2. f[(m + 1) + 1] = f[m + 1] \o ss[(m + 1) + 1]
      BY <2>1, <3>1
    <3>3. g[(m + 1) + 1] = g[m + 1] \o tt[(m + 1) + 1]
      BY <2>3, <3>1
    <3>4. g[(m + 1) + 1] = f[(m + 1) + 1]
      BY <1>1, <2>5, <3>1, <3>2, <3>3
    <3> QED
      BY <3>1, <3>4
  <2>6. n - 1 \in G
    <3> HIDE DEF G
    <3>1. n - 1 \in Nat
      BY <1>1, <1>3
    <3>2. 0 .. n - 1 \subseteq G
      BY <2>4, <2>5, <3>1, Climb
    <3> QED
      BY <3>1, <3>2
  <2>7. (n - 1) + 1 = n /\ n + 1 \in 2 .. n + 1 /\ (n + 1) - 1 = n
    BY <1>1, <1>3
  <2>8. g[n + 1] = g[n] \o tt[n + 1] /\ g[n] = f[n]
    BY <2>3, <2>6, <2>7
  <2>9. FlattenSeq(tt) = FlattenSeq(ss) \o s
    BY <1>1, <2>1, <2>3, <2>8
  <2> QED
    BY <2>9 DEF tt
<1> QED
  BY <1>2, <1>3

-----------------------------------------------------------------------------
(* What was typed, and what it stands for with the aliases a.              *)

Entries == {e \in [w : Words, lit : BOOLEAN] : e.lit \/ e.w \in Patterns}
Phrases == {es \in Seq(Entries) : es # <<>> /\ es[1].lit}
Typed == [cmds : Seq(Phrases), mods : SUBSET Modes, quoted : BOOLEAN, why : Whys]

AliasesOK(a) == \A n \in DOMAIN a : a[n] \in Args
InsertedIn(a, s) == IF s \in DOMAIN a THEN a[s] ELSE <<s>>
InsertedAllIn(a, ss) == FlattenSeq([i \in 1 .. Len(ss) |-> InsertedIn(a, ss[i])])
MeantIn(a, e) == IF e.lit THEN InsertedIn(a, e.w) ELSE InsertedAllIn(a, Glob[e.w])
MeantByIn(a, es) == FlattenSeq([i \in 1 .. Len(es) |-> MeantIn(a, es[i])])
CommandsIn(a, cs) == FlattenSeq([i \in 1 .. Len(cs) |-> IF IsCommand(cs[i])
                                                       THEN <<MeantByIn(a, cs[i])>> ELSE <<>>])

LEMMA NowIn ==
    /\ \A s : Inserted(s) = InsertedIn(alias, s)
    /\ \A ss : InsertedAll(ss) = InsertedAllIn(alias, ss)
    /\ \A es : MeantBy(es) = MeantByIn(alias, es)
    /\ \A cs : MeantCommands(cs) = CommandsIn(alias, cs)
BY DEF Inserted, InsertedAll, Meant, MeantBy, MeantCommands, InsertedIn, InsertedAllIn, MeantIn,
       MeantByIn, CommandsIn

LEMMA ElementsAre == ASSUME NEW S, NEW s \in Seq(S) PROVE s \in Seq(ToSet(s))
BY DEF ToSet

LEMMA Members ==
    /\ Words \subseteq Items /\ \A p \in Patterns : Glob[p] \in Args
    /\ Names \subseteq Args /\ \A a \in Aliases : a[2] \in Args
<1>1. Words \subseteq Items
  BY DEF Items
<1>2. ASSUME NEW p \in Patterns
      PROVE  Glob[p] \in Args
  <2>1. Glob[p] \in Seq(ToSet(Glob[p]))
    BY GlobAssumption, ElementsAre
  <2>2. ToSet(Glob[p]) \subseteq Items
    BY DEF Items
  <2> QED
    BY <2>1, <2>2, SeqMonotonic DEF Args
<1>3. ASSUME NEW ss \in Names
      PROVE  ss \in Args
  <2>1. ss \in Seq(ToSet(ss))
    BY NamesAssumption, ElementsAre
  <2>2. ToSet(ss) \subseteq Items
    BY DEF Items
  <2> QED
    BY <2>1, <2>2, SeqMonotonic DEF Args
<1>4. ASSUME NEW a \in Aliases
      PROVE  a[2] \in Args
  <2>1. a[2] \in Seq(ToSet(a[2]))
    BY AliasesAssumption, ElementsAre
  <2>2. ToSet(a[2]) \subseteq Items
    BY DEF Items
  <2> QED
    BY <2>1, <2>2, SeqMonotonic DEF Args
<1> QED
  BY <1>1, <1>2, <1>3, <1>4

LEMMA OneOf == ASSUME NEW S, NEW e \in S PROVE <<e>> \in Seq(S)
<1>1. \A T : \A x \in T : <<x>> \in Seq(T)
  OBVIOUS
<1> QED
  BY <1>1

\* Mapped, a sequence is one of the images.
LEMMA MappedIs ==
    ASSUME NEW S, NEW ss \in Seq(S), NEW g, NEW T, \A i \in 1 .. Len(ss) : g[i] \in T,
           g = [i \in 1 .. Len(ss) |-> g[i]]
    PROVE  g \in Seq(T) /\ Len(g) = Len(ss)
<1>1. Len(ss) \in Nat
  BY LenProperties
<1>2. g \in [1 .. Len(ss) -> T]
  BY Zenon
<1> QED
  BY <1>1, <1>2

LEMMA InsertedIs == ASSUME NEW a, AliasesOK(a), NEW s \in Items PROVE InsertedIn(a, s) \in Args
BY OneOf DEF InsertedIn, AliasesOK, Args

LEMMA InsertedAllIs ==
    ASSUME NEW a, AliasesOK(a), NEW ss \in Args
    PROVE  InsertedAllIn(a, ss) \in Args
<1> DEFINE g == [i \in 1 .. Len(ss) |-> InsertedIn(a, ss[i])]
<1>1. \A i \in 1 .. Len(ss) : ss[i] \in Items
  BY ElementOfSeq DEF Args
<1>2. \A i \in 1 .. Len(ss) : g[i] \in Args
  BY <1>1, InsertedIs
<1>3. g = [i \in 1 .. Len(ss) |-> g[i]]
  OBVIOUS
<1>4. InsertedAllIn(a, ss) = FlattenSeq(g)
  BY DEF InsertedAllIn
<1> HIDE DEF g
<1>5. g \in Seq(Args)
  BY <1>2, <1>3, MappedIs DEF Args
<1> QED
  BY <1>4, <1>5, FlattenIs DEF Args

LEMMA MeantIs == ASSUME NEW a, AliasesOK(a), NEW e \in Entries PROVE MeantIn(a, e) \in Args
<1>1. e.w \in Items /\ (~e.lit => Glob[e.w] \in Args)
  BY Members DEF Entries
<1> QED
  BY <1>1, InsertedIs, InsertedAllIs DEF MeantIn

\* A sequence that has one element more
LEMMA LongerIs ==
    ASSUME NEW T, NEW g \in Seq(T), NEW h \in Seq(T), Len(h) = Len(g) + 1,
           \A i \in 1 .. Len(g) : h[i] = g[i]
    PROVE  h = Append(g, h[Len(h)])
<1>1. Len(g) \in Nat /\ h[Len(h)] \in T
  BY LenProperties, ElementOfSeq
<1>2. /\ Append(g, h[Len(h)]) \in Seq(T) /\ Len(Append(g, h[Len(h)])) = Len(g) + 1
      /\ \A i \in 1 .. Len(g) : Append(g, h[Len(h)])[i] = g[i]
      /\ Append(g, h[Len(h)])[Len(g) + 1] = h[Len(h)]
  BY <1>1, AppendProperties
<1>3. \A i \in 1 .. Len(g) + 1 : i \in 1 .. Len(g) \/ i = Len(g) + 1
  BY <1>1
<1>4. \A i \in 1 .. Len(h) : h[i] = Append(g, h[Len(h)])[i]
  BY <1>2, <1>3
<1> QED
  BY <1>2, <1>4, SeqEqual

LEMMA MeantByIs ==
    ASSUME NEW a, AliasesOK(a), NEW es \in Seq(Entries)
    PROVE  /\ MeantByIn(a, es) \in Args
           /\ es # <<>> /\ es[1].lit /\ MeantByIn(a, es) = <<>>
                => \E n \in DOMAIN a : a[n] = <<>>
<1> DEFINE g == [i \in 1 .. Len(es) |-> MeantIn(a, es[i])]
<1>1. \A i \in 1 .. Len(es) : es[i] \in Entries
  BY ElementOfSeq
<1>2. \A i \in 1 .. Len(es) : g[i] \in Args
  BY <1>1, MeantIs
<1>3. g = [i \in 1 .. Len(es) |-> g[i]] /\ \A i \in 1 .. Len(es) : g[i] = MeantIn(a, es[i])
  OBVIOUS
<1>4. MeantByIn(a, es) = FlattenSeq(g)
  BY DEF MeantByIn
<1> HIDE DEF g
<1>5. g \in Seq(Args) /\ Len(g) = Len(es)
  BY <1>2, <1>3, MappedIs DEF Args
<1>6. MeantByIn(a, es) \in Args
  BY <1>4, <1>5, FlattenIs DEF Args
<1>7. ASSUME es # <<>>, es[1].lit, MeantByIn(a, es) = <<>>
      PROVE  \E n \in DOMAIN a : a[n] = <<>>
  <2>1. 1 \in 1 .. Len(es) /\ g # <<>>
    BY <1>5, <1>7, EmptySeq, LenProperties
  <2>2. g[1] = <<>>
    BY <1>4, <1>5, <1>7, <2>1, FlattenIs DEF Args
  <2>3. InsertedIn(a, es[1].w) = <<>>
    BY <1>3, <1>7, <2>1, <2>2 DEF MeantIn
  <2>4. \A x : <<x>> # <<>>
    OBVIOUS
  <2> QED
    BY <2>3, <2>4 DEF InsertedIn
<1> QED
  BY <1>6, <1>7

LEMMA MeantByAppend ==
    ASSUME NEW a, AliasesOK(a), NEW es \in Seq(Entries), NEW e \in Entries
    PROVE  MeantByIn(a, Append(es, e)) = MeantByIn(a, es) \o MeantIn(a, e)
<1> DEFINE n == Len(es)
           ff == Append(es, e)
           g == [i \in 1 .. Len(es) |-> MeantIn(a, es[i])]
           h == [i \in 1 .. Len(ff) |-> MeantIn(a, ff[i])]
<1>1. \A i \in 1 .. n : es[i] \in Entries
  BY ElementOfSeq
<1>2. \A i \in 1 .. n : g[i] \in Args
  BY <1>1, MeantIs
<1>3. n \in Nat /\ Len(ff) = n + 1 /\ ff[n + 1] = e /\ \A i \in 1 .. n : ff[i] = es[i]
  BY AppendProperties, LenProperties
<1>4. /\ g = [i \in 1 .. n |-> g[i]] /\ h = [i \in 1 .. Len(ff) |-> h[i]]
      /\ \A i \in 1 .. n : h[i] = g[i]
      /\ h[n + 1] = MeantIn(a, e)
  BY <1>3
<1>5. MeantByIn(a, es) = FlattenSeq(g) /\ MeantByIn(a, ff) = FlattenSeq(h)
  BY DEF MeantByIn
<1>6. MeantIn(a, e) \in Args /\ \A i \in 1 .. n + 1 : i \in 1 .. n \/ i = n + 1
  BY <1>3, MeantIs
<1>7. \A i \in 1 .. Len(ff) : h[i] \in Args
  BY <1>2, <1>3, <1>4, <1>6
<1>8. ff \in Seq(Entries)
  BY AppendProperties
<1> HIDE DEF g, h, ff
<1>9. g \in Seq(Args) /\ h \in Seq(Args) /\ Len(g) = n /\ Len(h) = Len(ff)
  BY <1>2, <1>4, <1>7, <1>8, MappedIs
<1>10. h = Append(g, MeantIn(a, e))
  <2>1. Len(h) = Len(g) + 1 /\ h[Len(h)] = MeantIn(a, e) /\ \A i \in 1 .. Len(g) : h[i] = g[i]
    BY <1>3, <1>4, <1>9
  <2> QED
    BY <1>9, <2>1, LongerIs
<1>11. FlattenSeq(Append(g, MeantIn(a, e))) = FlattenSeq(g) \o MeantIn(a, e)
  BY <1>6, <1>9, FlattenAppend DEF Args
<1> QED
  BY <1>5, <1>10, <1>11 DEF ff

LEMMA MeantByOne ==
    ASSUME NEW a, NEW e
    PROVE  MeantByIn(a, <<e>>) = MeantIn(a, e)
<1>1. [i \in 1 .. Len(<<e>>) |-> MeantIn(a, <<e>>[i])] = <<MeantIn(a, e)>>
  OBVIOUS
<1> QED
  BY <1>1, FlattenOne DEF MeantByIn

\* The commands of a line: each is as it was typed, and none has no word unless an
\* alias stands for nothing.
LEMMA CommandsAre ==
    ASSUME NEW a, AliasesOK(a), NEW cs \in Seq(Phrases)
    PROVE  /\ CommandsIn(a, cs) \in Seq(Args)
           /\ <<>> \in ToSet(CommandsIn(a, cs)) => \E n \in DOMAIN a : a[n] = <<>>
<1> DEFINE E == {c \in Args : c = <<>> => \E n \in DOMAIN a : a[n] = <<>>}
           g == [i \in 1 .. Len(cs) |-> IF IsCommand(cs[i]) THEN <<MeantByIn(a, cs[i])>> ELSE <<>>]
<1>1. \A i \in 1 .. Len(cs) : MeantByIn(a, cs[i]) \in E
  <2>1. ASSUME NEW i \in 1 .. Len(cs)
        PROVE  MeantByIn(a, cs[i]) \in E
    <3>1. cs[i] \in Phrases
      BY ElementOfSeq
    <3>2. cs[i] \in Seq(Entries) /\ cs[i] # <<>> /\ cs[i][1].lit
      BY <3>1 DEF Phrases
    <3> QED
      BY <3>2, MeantByIs
  <2> QED
    BY <2>1
<1>2. CommandsIn(a, cs) = FlattenSeq(g) /\ g = [i \in 1 .. Len(cs) |-> g[i]]
  BY DEF CommandsIn
<1>3. \A i \in 1 .. Len(cs) : g[i] \in Seq(E)
  <2> HIDE DEF E
  <2>1. ASSUME NEW i \in 1 .. Len(cs)
        PROVE  g[i] \in Seq(E)
    BY <1>1, OneOf, EmptySeq
  <2> QED
    BY <2>1
<1> HIDE DEF g
<1>4. CommandsIn(a, cs) \in Seq(E)
  <2> HIDE DEF E
  <2>1. g \in Seq(Seq(E))
    BY <1>2, <1>3, MappedIs
  <2> QED
    BY <1>2, <2>1, FlattenIs
<1>5. CommandsIn(a, cs) \in Seq(Args)
  BY <1>4, SeqMonotonic
<1>6. ASSUME <<>> \in ToSet(CommandsIn(a, cs))
      PROVE  <<>> \in E
  <2> HIDE DEF E
  <2>1. PICK i \in DOMAIN CommandsIn(a, cs) : CommandsIn(a, cs)[i] = <<>>
    BY <1>6 DEF ToSet
  <2>2. i \in 1 .. Len(CommandsIn(a, cs))
    BY <1>4, LenProperties
  <2>3. CommandsIn(a, cs)[i] \in E
    BY <1>4, <2>2, ElementOfSeq
  <2> QED
    BY <2>1, <2>3
<1> QED
  BY <1>5, <1>6

LEMMA CommandsAppend ==
    ASSUME NEW a, AliasesOK(a), NEW cs \in Seq(Phrases), NEW es \in Phrases
    PROVE  CommandsIn(a, Append(cs, es)) = IF IsCommand(es)
                                           THEN Append(CommandsIn(a, cs), MeantByIn(a, es))
                                           ELSE CommandsIn(a, cs)
<1> DEFINE n == Len(cs)
           ff == Append(cs, es)
           g == [i \in 1 .. Len(cs) |-> IF IsCommand(cs[i]) THEN <<MeantByIn(a, cs[i])>> ELSE <<>>]
           h == [i \in 1 .. Len(ff) |-> IF IsCommand(ff[i]) THEN <<MeantByIn(a, ff[i])>> ELSE <<>>]
           c == IF IsCommand(es) THEN <<MeantByIn(a, es)>> ELSE <<>>
<1>1. ASSUME NEW ps \in Phrases
      PROVE  (IF IsCommand(ps) THEN <<MeantByIn(a, ps)>> ELSE <<>>) \in Seq(Args)
  <2>1. MeantByIn(a, ps) \in Args
    BY MeantByIs DEF Phrases
  <2> QED
    BY <2>1, OneOf, EmptySeq
<1>2. \A i \in 1 .. n : cs[i] \in Phrases
  BY ElementOfSeq
<1>3. \A i \in 1 .. n : g[i] \in Seq(Args)
  BY <1>1, <1>2
<1>4. n \in Nat /\ Len(ff) = n + 1 /\ ff[n + 1] = es /\ \A i \in 1 .. n : ff[i] = cs[i]
  BY AppendProperties, LenProperties
<1>5. /\ g = [i \in 1 .. n |-> g[i]] /\ h = [i \in 1 .. Len(ff) |-> h[i]]
      /\ \A i \in 1 .. n : h[i] = g[i]
      /\ h[n + 1] = c
  BY <1>4
<1>6. CommandsIn(a, cs) = FlattenSeq(g) /\ CommandsIn(a, ff) = FlattenSeq(h)
  BY DEF CommandsIn
<1>7. c \in Seq(Args) /\ \A i \in 1 .. n + 1 : i \in 1 .. n \/ i = n + 1
  BY <1>1, <1>4
<1> HIDE DEF g, h, c
<1>8. \A i \in 1 .. Len(ff) : h[i] \in Seq(Args)
  BY <1>3, <1>4, <1>5, <1>7
<1>9. ff \in Seq(Phrases)
  BY AppendProperties
<1> HIDE DEF ff
<1>10. /\ g \in Seq(Seq(Args)) /\ h \in Seq(Seq(Args)) /\ Len(g) = n /\ Len(h) = Len(ff)
  BY <1>3, <1>5, <1>8, <1>9, MappedIs
<1>11. h = Append(g, c)
  <2>1. Len(h) = Len(g) + 1 /\ h[Len(h)] = c /\ \A i \in 1 .. Len(g) : h[i] = g[i]
    BY <1>4, <1>5, <1>10
  <2> QED
    BY <1>10, <2>1, LongerIs
<1>12. FlattenSeq(h) = FlattenSeq(g) \o c
  BY <1>7, <1>10, <1>11, FlattenAppend
<1>13. FlattenSeq(g) \in Seq(Args)
  BY <1>10, FlattenIs
<1>14. FlattenSeq(g) \o c = IF IsCommand(es) THEN Append(FlattenSeq(g), MeantByIn(a, es))
                            ELSE FlattenSeq(g)
  <2>1. MeantByIn(a, es) \in Args
    BY MeantByIs DEF Phrases
  <2>2. FlattenSeq(g) \o <<>> = FlattenSeq(g)
    BY <1>13, ConcatEmptySeq
  <2>3. FlattenSeq(g) \o <<MeantByIn(a, es)>> = Append(FlattenSeq(g), MeantByIn(a, es))
    BY <1>13, <2>1, AppendIsConcat
  <2> QED
    BY <2>2, <2>3 DEF c
<1> QED
  BY <1>6, <1>12, <1>14 DEF ff

LEMMA NoCommands == ASSUME NEW a PROVE CommandsIn(a, <<>>) = <<>>
<1>1. [i \in 1 .. Len(<<>>) |-> IF IsCommand(<<>>[i]) THEN <<MeantByIn(a, <<>>[i])>> ELSE <<>>]
        = <<>>
  OBVIOUS
<1> QED
  BY <1>1, FlattenOne DEF CommandsIn

LEMMA FrontAndLast ==
    ASSUME NEW S, NEW s \in Seq(S), s # <<>>
    PROVE  Front(s) \in Seq(S) /\ Last(s) \in S /\ s = Append(Front(s), Last(s))
<1>1. PICK t \in Seq(S), e \in S : s = Append(t, e)
  BY SequenceEmptyOrAppend
<1>2. Last(s) = e
  BY <1>1, AppendProperties DEF Last
<1>3. /\ Len(t) \in Nat /\ Len(s) = Len(t) + 1 /\ Len(s) - 1 = Len(t)
      /\ \A i \in 1 .. Len(t) : s[i] = t[i]
  BY <1>1, AppendProperties, LenProperties
<1>4. \A i \in 1 .. Len(t) : s[i] \in S
  BY <1>3, ElementOfSeq
<1>5. /\ Front(s) \in Seq(S) /\ Len(Front(s)) = Len(t) /\ \A i \in 1 .. Len(t) : Front(s)[i] = t[i]
  <2>1. /\ SubSeq(s, 1, Len(t)) \in Seq(S)
        /\ Len(SubSeq(s, 1, Len(t))) = IF 1 <= Len(t) THEN Len(t) - 1 + 1 ELSE 0
        /\ \A i \in 1 .. Len(t) - 1 + 1 : SubSeq(s, 1, Len(t))[i] = s[1 + i - 1]
    BY <1>3, <1>4, SubSeqProperties
  <2> QED
    BY <1>3, <2>1 DEF Front
<1>6. Front(s) = t
  BY <1>5, SeqEqual
<1> QED
  BY <1>1, <1>2, <1>6

-----------------------------------------------------------------------------
(* The invariant: what was built so far is what was typed so far.          *)

Typing == /\ TypeOK /\ typed \in Typed /\ AliasesOK(alias)
          /\ left <=> wc # <<>>

Closed == at \notin {"word", "args"}

\* Nothing of a command is there yet.
Fresh == /\ cmds = <<>> /\ mods = {}
         /\ typed.cmds = <<>> /\ typed.quoted = FALSE

\* The commands that were inserted, and the one that is being read
Built == IF Closed THEN cmds = CommandsIn(alias, typed.cmds)
         ELSE /\ typed.cmds # <<>> /\ cmds = CommandsIn(alias, Front(typed.cmds))
              /\ (flags = {}) <=> IsCommand(Last(typed.cmds))
              /\ IsCommand(Last(typed.cmds)) => args = MeantByIn(alias, Last(typed.cmds))

Kept == typed.why = "none" /\ at # "crashed" =>
            /\ expand <=> ~ (typed.quoted \/ scan = "quote")
            /\ typed.mods = IF at = "time" THEN mods \cup {"time"} ELSE mods
            /\ Built
            /\ at \in {"start", "time", "and", "skip"} => Fresh
            /\ scan = "line" => at = "start"

IInv == Typing /\ FlagsSettled /\ Kept

LEMMA OpsAre ==
    \A op \in Ops : /\ op \notin {"start", "time", "timed", "word", "args", "pipe", "mods", "amp",
                                  "and", "skip", "crashed"}
                    /\ op \notin {"WORD", "NEWLINE", "PIPE", "TIME", "ALIAS", "POPD", "ANDAND"}
                    /\ Modifiers[op] \subseteq Modes
<1>1. \A op \in Ops : op \in {"<", ">", ">>", ">&", ">>&"}
  BY DEF Ops, Modifiers
<1>2. \A op \in Ops : op \notin {"start", "time", "timed", "word", "args", "pipe", "mods", "amp",
                                 "and", "skip", "crashed"}
  BY <1>1
<1>3. \A op \in Ops : op \notin {"WORD", "NEWLINE", "PIPE", "TIME", "ALIAS", "POPD", "ANDAND"}
  BY <1>1
<1>4. /\ Modifiers["<"] = {"in"} /\ Modifiers[">"] = {"out"}
      /\ Modifiers[">>"] = {"out", "append"} /\ Modifiers[">&"] = {"out", "err"}
      /\ Modifiers[">>&"] = {"out", "err", "append"}
  BY DEF Modifiers
<1>5. /\ {"in"} \subseteq Modes /\ {"out"} \subseteq Modes /\ {"out", "append"} \subseteq Modes
      /\ {"out", "err"} \subseteq Modes /\ {"out", "err", "append"} \subseteq Modes
  BY DEF Modes
<1>6. \A op \in Ops : Modifiers[op] \subseteq Modes
  BY <1>1, <1>4, <1>5
<1> QED
  BY <1>2, <1>3, <1>6

LEMMA PlacesAre ==
    /\ {"start", "time", "timed", "word", "args", "pipe", "mods", "amp", "and", "skip", "crashed"}
         \subseteq Places
    /\ Ops \subseteq Places
    /\ Operators \subseteq Ops
<1>1. Operators \subseteq Ops
  BY OperatorsAssumption, OpsAreNotWords
<1> QED
  BY <1>1 DEF Places

LEMMA ScansAre == {"line", "in", "quote", "backtick"} \subseteq Scans
BY DEF Scans

\* A token that ends a simple command comes where one is.
LEMMA Ends ==
    ASSUME NEW t \in {"PIPE", "ANDAND", "AMPERSAND"} \cup Ops, Token(t)
    PROVE  at \in {"word", "args", "mods", "amp"}
BY OpsAre DEF Token, Accepted

LEMMA NothingIs ==
    /\ Nothing \in Typed /\ Nothing.why = "none" /\ Nothing.cmds = <<>> /\ Nothing.mods = {}
    /\ Nothing.quoted = FALSE
    /\ \A r \in Whys : /\ Odd(r) \in Typed /\ Odd(r).why = r /\ Odd(r).cmds = <<>>
                       /\ Odd(r).mods = {} /\ Odd(r).quoted = FALSE
<1>1. <<>> \in Seq(Phrases)
  BY EmptySeq
<1>2. /\ Nothing.why = "none" /\ Nothing.cmds = <<>> /\ Nothing.mods = {} /\ Nothing.quoted = FALSE
      /\ Nothing \in Typed
  BY <1>1 DEF Nothing, Typed, Whys
<1>3. ASSUME NEW r \in Whys
      PROVE  /\ Odd(r) \in Typed /\ Odd(r).why = r /\ Odd(r).cmds = <<>>
             /\ Odd(r).mods = {} /\ Odd(r).quoted = FALSE
  BY <1>2 DEF Odd, Typed
<1> QED
  BY <1>2, <1>3

\* What is recorded is a line; a reason is never taken back while the line is read.
LEMMA Recorded ==
    ASSUME Typing, NEW t, Record(t), typed.why = "none" => t \in Typed
    PROVE  /\ typed' \in Typed
           /\ typed.why = "none" => typed' = t
           /\ typed.why # "none" => typed' = typed
BY DEF Record, Typing

LEMMA SpoiltIs ==
    ASSUME Typing, NEW r \in Whys, r # "none", Spoil(r)
    PROVE  typed' \in Typed /\ typed'.why # "none"
BY NothingIs DEF Spoil, Spoilt, Typing

LEMMA AppendIs ==
    ASSUME NEW S, NEW s \in Seq(S), NEW e \in S
    PROVE  Append(s, e) \in Seq(S) /\ Append(s, e) # <<>> /\ Front(Append(s, e)) = s
           /\ Last(Append(s, e)) = e
<1>1. Append(s, e) \in Seq(S) /\ Append(s, e) # <<>>
  BY AppendProperties, EmptySeq, LenProperties
<1>2. Append(s, e) = Append(Front(Append(s, e)), Last(Append(s, e)))
      /\ Front(Append(s, e)) \in Seq(S) /\ Last(Append(s, e)) \in S
  BY <1>1, FrontAndLast
<1>3. PICK t, x : t = Front(Append(s, e)) /\ x = Last(Append(s, e))
  OBVIOUS
<1>4. t = s /\ x = e
  BY <1>2, <1>3, AppendInjective
<1> QED
  BY <1>1, <1>3, <1>4

\* A word that was typed
LEMMA TypedFirst ==
    ASSUME typed \in Typed, NEW w \in Words
    PROVE  \E e \in Entries :
               /\ e.w = w /\ e.lit /\ <<e>> \in Phrases
               /\ TypedWord(w, TRUE) = [typed EXCEPT !.cmds = Append(@, <<e>>),
                                                    !.quoted = @ \/ w \in Quoted]
               /\ TypedWord(w, TRUE) \in Typed
<1> DEFINE e == [w |-> w, lit |-> TRUE \/ typed.quoted \/ w \notin Patterns]
<1>1. e \in Entries /\ e.lit /\ e.w = w
  BY DEF Entries
<1>2. <<e>> \in Phrases
  BY <1>1, OneOf DEF Phrases
<1>3. TypedWord(w, TRUE) = [typed EXCEPT !.cmds = Append(@, <<e>>), !.quoted = @ \/ w \in Quoted]
  BY DEF TypedWord
<1> HIDE DEF e
<1>4. Append(typed.cmds, <<e>>) \in Seq(Phrases)
  BY <1>2, AppendProperties DEF Typed
<1>5. TypedWord(w, TRUE) \in Typed
  BY <1>3, <1>4 DEF Typed
<1> QED
  BY <1>1, <1>2, <1>3, <1>5

LEMMA TypedNext ==
    ASSUME typed \in Typed, NEW w \in Words, typed.cmds # <<>>
    PROVE  \E e \in Entries :
               /\ e.w = w /\ (e.lit <=> typed.quoted \/ w \notin Patterns)
               /\ Append(Last(typed.cmds), e) \in Phrases
               /\ TypedWord(w, FALSE) =
                      [typed EXCEPT !.cmds = Append(Front(typed.cmds), Append(Last(typed.cmds), e)),
                                    !.quoted = @ \/ w \in Quoted]
               /\ TypedWord(w, FALSE) \in Typed
<1> DEFINE e == [w |-> w, lit |-> FALSE \/ typed.quoted \/ w \notin Patterns]
<1>1. e \in Entries /\ e.w = w /\ (e.lit <=> typed.quoted \/ w \notin Patterns)
  BY DEF Entries, Typed
<1>2. TypedWord(w, FALSE) =
          [typed EXCEPT !.cmds = Append(Front(typed.cmds), Append(Last(typed.cmds), e)),
                        !.quoted = @ \/ w \in Quoted]
  BY DEF TypedWord
<1> HIDE DEF e
<1>3. Front(typed.cmds) \in Seq(Phrases) /\ Last(typed.cmds) \in Phrases
  BY FrontAndLast DEF Typed
<1>4. Append(Last(typed.cmds), e) \in Phrases
  <2>1. PICK es : es = Last(typed.cmds)
    OBVIOUS
  <2>2. es \in Seq(Entries) /\ es # <<>> /\ es[1].lit
    BY <1>3, <2>1 DEF Phrases
  <2>3. 1 \in 1 .. Len(es)
    BY <2>2, EmptySeq, LenProperties
  <2>4. Append(es, e) \in Seq(Entries) /\ Append(es, e) # <<>>
    BY <1>1, <2>2, AppendIs
  <2>5. Append(es, e)[1] = es[1]
    BY <1>1, <2>2, <2>3, AppendProperties
  <2> QED
    BY <2>1, <2>2, <2>4, <2>5 DEF Phrases
<1>5. Append(Front(typed.cmds), Append(Last(typed.cmds), e)) \in Seq(Phrases)
  BY <1>3, <1>4, AppendProperties
<1>6. TypedWord(w, FALSE) \in Typed
  BY <1>2, <1>5 DEF Typed
<1> QED
  BY <1>1, <1>2, <1>4, <1>6

\* cmd_and_arg inserts the command that was typed.
LEMMA Whole ==
    ASSUME IInv, at # "crashed"
    PROVE  /\ CmdAndArg.cmds \in Seq(Args) /\ CmdAndArg.flags \subseteq FlagWords
           /\ typed.why = "none" => CmdAndArg.cmds = CommandsIn(alias, typed.cmds)
<1>1. /\ args \in Args /\ cmds \in Seq(Args) /\ typed \in Typed /\ AliasesOK(alias)
      /\ flags \subseteq FlagWords
  BY DEF IInv, Typing, TypeOK
<1>2. CmdAndArg.cmds \in Seq(Args)
  <2>1. Append(cmds, args) \in Seq(Args)
    BY <1>1, AppendProperties
  <2> QED
    BY <1>1, <2>1 DEF CmdAndArg
<1>3. CmdAndArg.flags \subseteq FlagWords
  BY <1>1 DEF CmdAndArg
<1>4. ASSUME typed.why = "none"
      PROVE  CmdAndArg.cmds = CommandsIn(alias, typed.cmds)
  <2>1. CASE Closed
    BY <1>4, <2>1 DEF IInv, Kept, Built, Closed, CmdAndArg
  <2>2. CASE ~Closed
    <3>1. /\ typed.cmds # <<>> /\ cmds = CommandsIn(alias, Front(typed.cmds))
          /\ (flags = {}) <=> IsCommand(Last(typed.cmds))
          /\ IsCommand(Last(typed.cmds)) => args = MeantByIn(alias, Last(typed.cmds))
      BY <1>4, <2>2 DEF IInv, Kept, Built
    <3>2. /\ Front(typed.cmds) \in Seq(Phrases) /\ Last(typed.cmds) \in Phrases
          /\ typed.cmds = Append(Front(typed.cmds), Last(typed.cmds))
      BY <1>1, <3>1, FrontAndLast DEF Typed
    <3>3. CommandsIn(alias, Append(Front(typed.cmds), Last(typed.cmds))) =
              IF IsCommand(Last(typed.cmds))
              THEN Append(CommandsIn(alias, Front(typed.cmds)), MeantByIn(alias, Last(typed.cmds)))
              ELSE CommandsIn(alias, Front(typed.cmds))
      BY <1>1, <3>2, CommandsAppend
    <3>4. CommandsIn(alias, typed.cmds) = IF flags = {} THEN Append(cmds, args) ELSE cmds
      BY <3>1, <3>2, <3>3, Zenon
    <3>5. flags # {} => at = "word"
      BY <2>2 DEF IInv, FlagsSettled, Closed
    <3>6. CmdAndArg.cmds = IF flags = {} THEN Append(cmds, args) ELSE cmds
      BY <2>2, <3>5 DEF CmdAndArg, Closed
    <3> QED
      BY <3>4, <3>6
  <2> QED
    BY <2>1, <2>2
<1> QED
  BY <1>2, <1>3, <1>4

-----------------------------------------------------------------------------
(* The steps.                                                              *)

LEMMA CommandWordBuilds ==
    ASSUME IInv, NEW w \in Words, CommandWord(w)
    PROVE  Typing' /\ Kept'
<1>1. /\ at \in {"start", "time", "timed", "and", "pipe"} /\ at' = "word" /\ scan' = "in"
      /\ mods' = IF at = "time" THEN mods \cup {"time"} ELSE mods
      /\ UNCHANGED <<cmds, wc, alias, left>>
      /\ timed' \in BOOLEAN
      /\ scan = "quote" => w \in Quoted
      /\ (expand' <=> expand /\ (w \notin Quoted \/ scan = "quote")) /\ expand' \in BOOLEAN
      /\ Record(TypedWord(w, TRUE))
  BY DEF CommandWord, Token, Lex, IInv, Typing, TypeOK
<1>2. flags = {} /\ at # "crashed"
  BY <1>1, NoFlag DEF IInv
<1>3. /\ w \in FlagWords => flags' = {w} /\ args' = <<>>
      /\ w \notin FlagWords => flags' = {} /\ args' = InsertedIn(alias, w)
  BY <1>2, NowIn DEF CommandWord
<1>4. typed \in Typed /\ AliasesOK(alias)
  BY DEF IInv, Typing
<1>5. PICK e \in Entries :
               /\ e.w = w /\ e.lit /\ <<e>> \in Phrases
               /\ TypedWord(w, TRUE) = [typed EXCEPT !.cmds = Append(@, <<e>>),
                                                    !.quoted = @ \/ w \in Quoted]
               /\ TypedWord(w, TRUE) \in Typed
  BY <1>4, TypedFirst
<1>6. /\ typed' \in Typed
      /\ typed.why = "none" => typed' = TypedWord(w, TRUE)
      /\ typed.why # "none" => typed' = typed
  BY <1>1, <1>5, Recorded DEF IInv
<1>7. Typing'
  <2>1. mods' \subseteq Modes
    BY <1>1 DEF IInv, Typing, TypeOK, Modes
  <2>2. args' \in Args /\ flags' \subseteq FlagWords
    BY <1>3, <1>4, Members, InsertedIs, EmptySeq DEF Args
  <2>3. typed'.quoted \in BOOLEAN /\ typed'.why \in Whys
    BY <1>6 DEF Typed
  <2> QED
    BY <1>1, <1>6, <2>1, <2>2, <2>3, PlacesAre, ScansAre DEF IInv, Typing, TypeOK
<1>8. ASSUME typed.why = "none"
      PROVE  Kept'
  <2>1. /\ typed'.cmds = Append(typed.cmds, <<e>>) /\ typed'.mods = typed.mods
        /\ typed'.quoted <=> typed.quoted \/ w \in Quoted
    BY <1>4, <1>5, <1>6, <1>8 DEF Typed
  <2>2. /\ expand <=> ~ (typed.quoted \/ scan = "quote")
        /\ typed.mods = IF at = "time" THEN mods \cup {"time"} ELSE mods
        /\ cmds = CommandsIn(alias, typed.cmds)
    BY <1>1, <1>2, <1>8 DEF IInv, Kept, Built, Closed
  <2>3. typed'.cmds # <<>> /\ Front(typed'.cmds) = typed.cmds /\ Last(typed'.cmds) = <<e>>
    <3>1. typed.cmds \in Seq(Phrases)
      BY <1>4 DEF Typed
    <3> QED
      BY <1>5, <2>1, <3>1, AppendIs
  <2>4. IsCommand(<<e>>) <=> w \notin FlagWords
    BY <1>5 DEF IsCommand
  <2>5. MeantByIn(alias, <<e>>) = InsertedIn(alias, w)
    BY <1>5, MeantByOne DEF MeantIn
  <2>6. Built'
    BY <1>1, <1>3, <2>2, <2>3, <2>4, <2>5 DEF Built, Closed
  <2> QED
    BY <1>1, <2>1, <2>2, <2>6 DEF Kept
<1>9. ASSUME typed.why # "none"
      PROVE  Kept'
  BY <1>6, <1>9 DEF Kept
<1> QED
  BY <1>7, <1>8, <1>9

\* What the argument w adds, if it is no argument of fg, bg or pushd
LEMMA ExpandedIs ==
    ASSUME IInv, at \in {"word", "args"}, NEW w \in Words, Expanded(w)
    PROVE  /\ args' \in Args /\ wc' \in Args /\ flags' = {} /\ left' \in BOOLEAN
           /\ left' <=> wc' # <<>>
           /\ typed' \in Typed
           /\ typed'.why = "none" =>
                /\ flags = {} /\ typed.why = "none" /\ typed' = TypedWord(w, FALSE)
                /\ args' = args \o IF Collects(w) THEN InsertedAllIn(alias, Glob[w])
                                   ELSE InsertedIn(alias, w)
<1> DEFINE own == IF Collects(w) THEN <<>> ELSE Inserted(w)
           names == IF Collects(w) THEN Glob[w] ELSE wc
<1>1. args \in Args /\ wc \in Args /\ AliasesOK(alias) /\ typed \in Typed /\ (left <=> wc # <<>>)
  BY DEF IInv, Typing, TypeOK
<1>2. own \in Args /\ names \in Args /\ w \in Items
  <2>1. Inserted(w) \in Args /\ w \in Items
    BY <1>1, Members, NowIn, InsertedIs
  <2>2. Collects(w) => Glob[w] \in Args
    BY Members DEF Collects
  <2> QED
    BY <1>1, <2>1, <2>2, EmptySeq DEF Args
<1>3. InsertedAll(names) \in Args
  BY <1>1, <1>2, NowIn, InsertedAllIs
<1>4. <<>> \in Args
  BY EmptySeq DEF Args
<1>5. CASE flags = {}
  <2>1. /\ args' = args \o own \o InsertedAll(names) /\ wc' = <<>> /\ flags' = flags
        /\ left' = FALSE
        /\ IF left /\ ~Collects(w) THEN Spoil("names") ELSE Record(TypedWord(w, FALSE))
    BY <1>5 DEF Expanded
  <2>2. args \o own \in Args /\ args' \in Args
    BY <1>1, <1>2, <1>3, <2>1, ConcatProperties DEF Args
  <2>3. CASE left /\ ~Collects(w)
    <3>1. typed' \in Typed /\ typed'.why # "none"
      BY <2>1, <2>3, SpoiltIs DEF IInv, Whys
    <3> QED
      BY <1>4, <1>5, <2>1, <2>2, <3>1
  <2>4. CASE ~(left /\ ~Collects(w))
    <3>1. typed.why = "none" => TypedWord(w, FALSE) \in Typed
      <4>1. typed.why = "none" => typed.cmds # <<>>
        BY DEF IInv, Kept, Built, Closed
      <4> QED
        BY <1>1, <4>1, TypedNext
    <3>2. /\ typed' \in Typed
          /\ typed.why = "none" => typed' = TypedWord(w, FALSE)
          /\ typed.why # "none" => typed' = typed
      BY <2>1, <2>4, <3>1, Recorded DEF IInv
    <3>3. args' = args \o IF Collects(w) THEN InsertedAllIn(alias, Glob[w])
                          ELSE InsertedIn(alias, w)
      <4>1. CASE Collects(w)
        <5>1. args \o <<>> = args
          BY <1>1, ConcatEmptySeq DEF Args
        <5> QED
          BY <2>1, <4>1, <5>1, NowIn
      <4>2. CASE ~Collects(w)
        <5>1. wc = <<>>
          BY <1>1, <2>4, <4>2
        <5>2. InsertedAll(<<>>) = <<>>
          <6>1. [i \in 1 .. Len(<<>>) |-> Inserted(<<>>[i])] = <<>>
            OBVIOUS
          <6> QED
            BY <6>1, FlattenOne DEF InsertedAll
        <5>3. (args \o own) \o <<>> = args \o own
          BY <2>2, ConcatEmptySeq DEF Args
        <5> QED
          BY <2>1, <4>2, <5>1, <5>2, <5>3, NowIn
      <4> QED
        BY <4>1, <4>2
    <3> QED
      BY <1>4, <1>5, <2>1, <2>2, <3>2, <3>3
  <2> QED
    BY <2>3, <2>4
<1>6. CASE flags # {}
  <2>1. PICK f \in FlagWords : flags = {f}
    BY <1>6 DEF IInv, FlagsSettled
  <2>2. /\ \/ /\ flags \cap {"fg", "bg"} # {}
              /\ args' = args \o own /\ wc' = names
              /\ flags' = flags \ (IF "fg" \in flags THEN {"fg"} ELSE {"bg"})
           \/ /\ flags = {"pushd"}
              /\ args' = args \o own \o (IF w # "" THEN own ELSE <<>>)
              /\ wc' = (IF w # "" THEN <<>> ELSE names) /\ flags' = {}
        /\ left' = (wc' # <<>>) /\ Spoil("job")
    BY <1>6 DEF Expanded
  <2>3. flags' = {}
    BY <2>1, <2>2 DEF FlagWords
  <2>4. args \o own \in Args /\ args \o own \o own \in Args /\ (args \o own) \o <<>> = args \o own
    BY <1>1, <1>2, ConcatProperties, ConcatEmptySeq DEF Args
  <2>5. typed' \in Typed /\ typed'.why # "none"
    BY <2>2, SpoiltIs DEF IInv, Whys
  <2> HIDE DEF own, names
  <2>6. args' \in Args /\ wc' \in Args
    BY <1>2, <1>4, <2>2, <2>4
  <2> QED
    BY <2>2, <2>3, <2>5, <2>6
<1> QED
  BY <1>5, <1>6

LEMMA ArgumentBuilds ==
    ASSUME IInv, NEW w \in Words, Argument(w)
    PROVE  Typing' /\ Kept'
<1>1. /\ at \in {"word", "args"} /\ at' = "args" /\ scan' = "in"
      /\ UNCHANGED <<timed, cmds, mods, alias>>
      /\ scan = "quote" => w \in Quoted
      /\ (expand' <=> expand /\ (w \notin Quoted \/ scan = "quote")) /\ expand' \in BOOLEAN
      /\ Expanded(w)
  BY DEF Argument, Token, Lex, IInv, Typing, TypeOK
<1>2. /\ args' \in Args /\ wc' \in Args /\ flags' = {} /\ left' \in BOOLEAN
      /\ left' <=> wc' # <<>>
      /\ typed' \in Typed
      /\ typed'.why = "none" =>
           /\ flags = {} /\ typed.why = "none" /\ typed' = TypedWord(w, FALSE)
           /\ args' = args \o IF Collects(w) THEN InsertedAllIn(alias, Glob[w])
                              ELSE InsertedIn(alias, w)
  BY <1>1, ExpandedIs
<1>3. typed \in Typed /\ AliasesOK(alias)
  BY DEF IInv, Typing
<1>4. Typing'
  <2>1. typed'.quoted \in BOOLEAN /\ typed'.why \in Whys
    BY <1>2 DEF Typed
  <2> QED
    BY <1>1, <1>2, <2>1, PlacesAre, ScansAre DEF IInv, Typing, TypeOK
<1>5. ASSUME typed'.why = "none"
      PROVE  Kept'
  <2>1. /\ typed.why = "none" /\ flags = {} /\ typed.mods = mods
        /\ expand <=> ~ (typed.quoted \/ scan = "quote")
        /\ typed.cmds # <<>> /\ cmds = CommandsIn(alias, Front(typed.cmds))
        /\ IsCommand(Last(typed.cmds)) /\ args = MeantByIn(alias, Last(typed.cmds))
    BY <1>1, <1>2, <1>5 DEF IInv, Kept, Built, Closed
  <2>2. PICK e \in Entries :
           /\ e.w = w /\ (e.lit <=> typed.quoted \/ w \notin Patterns)
           /\ Append(Last(typed.cmds), e) \in Phrases
           /\ TypedWord(w, FALSE) =
                  [typed EXCEPT !.cmds = Append(Front(typed.cmds), Append(Last(typed.cmds), e)),
                                !.quoted = @ \/ w \in Quoted]
    BY <1>3, <2>1, TypedNext
  <2>3. /\ typed'.cmds = Append(Front(typed.cmds), Append(Last(typed.cmds), e))
        /\ typed'.mods = typed.mods /\ (typed'.quoted <=> typed.quoted \/ w \in Quoted)
    BY <1>2, <1>3, <1>5, <2>2 DEF Typed
  <2>4. Front(typed.cmds) \in Seq(Phrases) /\ Last(typed.cmds) \in Phrases
    BY <1>3, <2>1, FrontAndLast DEF Typed
  <2>5. /\ typed'.cmds # <<>> /\ Front(typed'.cmds) = Front(typed.cmds)
        /\ Last(typed'.cmds) = Append(Last(typed.cmds), e)
    <3>1. PICK es \in Phrases : es = Append(Last(typed.cmds), e)
      BY <2>2
    <3>2. PICK cs \in Seq(Phrases) : cs = Front(typed.cmds)
      BY <2>4
    <3>3. Append(cs, es) # <<>> /\ Front(Append(cs, es)) = cs /\ Last(Append(cs, es)) = es
      BY AppendIs
    <3> QED
      BY <2>3, <3>1, <3>2, <3>3
  <2>6. /\ MeantByIn(alias, Append(Last(typed.cmds), e)) =
               MeantByIn(alias, Last(typed.cmds)) \o MeantIn(alias, e)
        /\ IsCommand(Append(Last(typed.cmds), e))
    <3>1. PICK es : es = Last(typed.cmds)
      OBVIOUS
    <3>2. es \in Seq(Entries) /\ es # <<>>
      BY <2>4, <3>1 DEF Phrases
    <3>3. 1 \in 1 .. Len(es)
      BY <3>2, EmptySeq, LenProperties
    <3>4. Append(es, e)[1] = es[1]
      BY <3>2, <3>3, AppendProperties
    <3>5. MeantByIn(alias, Append(es, e)) = MeantByIn(alias, es) \o MeantIn(alias, e)
      BY <1>3, <3>2, MeantByAppend
    <3> QED
      BY <2>1, <3>1, <3>4, <3>5 DEF IsCommand
  <2>7. MeantIn(alias, e) = IF Collects(w) THEN InsertedAllIn(alias, Glob[w])
                            ELSE InsertedIn(alias, w)
    BY <1>1, <2>1, <2>2, QuotedAssumption DEF MeantIn, Collects
  <2>8. Built'
    BY <1>1, <1>2, <1>5, <2>1, <2>5, <2>6, <2>7 DEF Built, Closed
  <2> QED
    BY <1>1, <2>1, <2>3, <2>8 DEF Kept
<1>6. ASSUME typed'.why # "none"
      PROVE  Kept'
  BY <1>6 DEF Kept
<1> QED
  BY <1>4, <1>5, <1>6

\* A token that ends a simple command, with what it adds to the modifiers
LEMMA EndBuilds ==
    ASSUME IInv, at \in {"word", "args", "mods", "amp"}, scan # "quote", scan' = "in",
           at' \in {"pipe", "amp"} \cup Ops, cmds' = CmdAndArg.cmds, flags' = CmdAndArg.flags,
           args' = <<>>, NEW m \in SUBSET Modes, mods' = mods \cup m,
           (m = {} /\ typed' = typed) \/ Record([typed EXCEPT !.mods = @ \cup m]),
           UNCHANGED <<timed, wc, expand, alias, left>>
    PROVE  Typing' /\ Kept'
<1>1. typed \in Typed /\ at # "crashed" /\ at # "time"
  BY DEF IInv, Typing
<1>2. [typed EXCEPT !.mods = @ \cup m] \in Typed
  BY <1>1 DEF Typed
<1>3. /\ typed' \in Typed
      /\ typed.why = "none" => /\ typed'.cmds = typed.cmds /\ typed'.mods = typed.mods \cup m
                               /\ typed'.quoted = typed.quoted
      /\ typed.why # "none" => typed'.why # "none"
  <2>1. CASE m = {} /\ typed' = typed
    BY <1>1, <2>1
  <2>2. CASE Record([typed EXCEPT !.mods = @ \cup m])
    <3>1. /\ typed' \in Typed
          /\ typed.why = "none" => typed' = [typed EXCEPT !.mods = @ \cup m]
          /\ typed.why # "none" => typed' = typed
      BY <1>2, <2>2, Recorded DEF IInv
    <3> QED
      BY <1>1, <3>1 DEF Typed
  <2> QED
    BY <2>1, <2>2
<1>4. /\ cmds' \in Seq(Args) /\ flags' \subseteq FlagWords
      /\ typed.why = "none" => cmds' = CommandsIn(alias, typed.cmds)
  BY <1>1, Whole
<1>5. at' \in Places /\ at' \notin {"word", "args", "start", "time", "and", "skip", "crashed"}
  BY PlacesAre, OpsAre
<1>6. Typing'
  <2>1. args' \in Args
    BY EmptySeq DEF Args
  <2>2. typed'.quoted \in BOOLEAN /\ typed'.why \in Whys
    BY <1>3 DEF Typed
  <2> QED
    BY <1>3, <1>4, <1>5, <2>1, <2>2, ScansAre DEF IInv, Typing, TypeOK
<1>7. ASSUME typed'.why = "none"
      PROVE  Kept'
  <2>1. typed.why = "none"
    BY <1>3, <1>7
  <2>2. (expand <=> ~typed.quoted) /\ typed.mods = mods
    BY <1>1, <2>1 DEF IInv, Kept
  <2>3. Built'
    BY <1>3, <1>4, <1>5, <2>1 DEF Built, Closed
  <2>4. at' # "time"
    BY <1>5
  <2>5. typed'.mods = mods' /\ (expand' <=> ~typed'.quoted)
    BY <1>3, <2>1, <2>2
  <2> QED
    BY <1>5, <2>3, <2>4, <2>5 DEF Kept
<1>8. ASSUME typed'.why # "none"
      PROVE  Kept'
  BY <1>8 DEF Kept
<1> QED
  BY <1>6, <1>7, <1>8

LEMMA PipeBuilds == ASSUME IInv, Pipe PROVE Typing' /\ Kept'
<1>1. at \in {"word", "args", "mods", "amp"} /\ scan # "quote"
  BY Ends DEF Pipe, Token, Scanned
<1>2. /\ scan' = "in" /\ at' = "pipe" /\ cmds' = CmdAndArg.cmds /\ flags' = CmdAndArg.flags
      /\ args' = <<>> /\ mods' = mods \cup {} /\ typed' = typed
      /\ UNCHANGED <<timed, wc, expand, alias, left>>
  BY DEF Pipe, Token
<1>3. PICK m \in SUBSET Modes : m = {}
  OBVIOUS
<1>4. mods' = mods \cup m
  BY <1>2, <1>3
<1> QED
  BY <1>1, <1>2, <1>3, <1>4, EndBuilds

LEMMA OperatorBuilds ==
    ASSUME IInv, NEW op \in Operators, Operator(op)
    PROVE  Typing' /\ Kept'
<1>1. op \in Ops
  BY PlacesAre
<1>2. at \in {"word", "args", "mods", "amp"} /\ scan # "quote"
  BY <1>1, Ends, OpsAre DEF Operator, Token, Scanned
<1>3. /\ scan' = "in" /\ at' = op /\ cmds' = CmdAndArg.cmds /\ flags' = CmdAndArg.flags
      /\ args' = <<>> /\ mods' = mods \cup {} /\ typed' = typed
      /\ UNCHANGED <<timed, wc, expand, alias, left>>
  BY DEF Operator, Token
<1>4. PICK m \in SUBSET Modes : m = {}
  OBVIOUS
<1>5. mods' = mods \cup m /\ at' \in {"pipe", "amp"} \cup Ops
  BY <1>1, <1>3, <1>4
<1> QED
  BY <1>2, <1>3, <1>4, <1>5, EndBuilds

LEMMA BackgroundBuilds == ASSUME IInv, Background PROVE Typing' /\ Kept'
<1>1. at \in {"word", "args", "mods", "amp"} /\ scan # "quote"
  BY Ends DEF Background, Token, Scanned
<1>2. /\ scan' = "in" /\ at' = "amp" /\ cmds' = CmdAndArg.cmds /\ flags' = CmdAndArg.flags
      /\ args' = <<>> /\ mods' = mods \cup {"bg"} /\ Record([typed EXCEPT !.mods = @ \cup {"bg"}])
      /\ UNCHANGED <<timed, wc, expand, alias, left>>
  BY DEF Background, Token
<1>3. {"bg"} \in SUBSET Modes
  BY DEF Modes
<1> QED
  BY <1>1, <1>2, <1>3, EndBuilds

\* The file of a redirection
LEMMA IoModifierBuilds ==
    ASSUME IInv, NEW w \in Words, IoModifier(w)
    PROVE  Typing' /\ Kept'
<1>1. /\ at \in Ops /\ at' = "mods" /\ mods' = mods \cup Modifiers[at] /\ scan' = "in"
      /\ Record([typed EXCEPT !.mods = @ \cup Modifiers[at], !.quoted = @ \/ w \in Quoted])
      /\ scan = "quote" => w \in Quoted
      /\ (expand' <=> expand /\ (w \notin Quoted \/ scan = "quote")) /\ expand' \in BOOLEAN
      /\ UNCHANGED <<timed, flags, args, cmds, wc, alias, left>>
  BY DEF IoModifier, Token, Lex, IInv, Typing, TypeOK
<1>2. at \notin {"word", "args", "time", "crashed"} /\ Modifiers[at] \subseteq Modes
  BY <1>1, OpsAre
<1>3. typed \in Typed
  BY DEF IInv, Typing
<1> DEFINE t == [typed EXCEPT !.mods = @ \cup Modifiers[at], !.quoted = @ \/ w \in Quoted]
<1>4. /\ t \in Typed /\ t.cmds = typed.cmds /\ t.mods = typed.mods \cup Modifiers[at]
      /\ t.quoted <=> typed.quoted \/ w \in Quoted
  BY <1>2, <1>3 DEF Typed
<1> HIDE DEF t
<1>5. /\ typed' \in Typed
      /\ typed.why = "none" => typed' = t
      /\ typed.why # "none" => typed' = typed
  BY <1>1, <1>4, Recorded DEF IInv, t
<1>6. Typing'
  <2>1. typed'.quoted \in BOOLEAN /\ typed'.why \in Whys
    BY <1>5 DEF Typed
  <2>2. mods' \subseteq Modes
    BY <1>1, <1>2 DEF IInv, Typing, TypeOK
  <2> QED
    BY <1>1, <1>5, <2>1, <2>2, PlacesAre, ScansAre DEF IInv, Typing, TypeOK
<1>7. ASSUME typed'.why = "none"
      PROVE  Kept'
  <2>1. typed.why = "none" /\ typed' = t
    BY <1>5, <1>7
  <2>2. /\ expand <=> ~ (typed.quoted \/ scan = "quote")
        /\ typed.mods = mods /\ cmds = CommandsIn(alias, typed.cmds)
    BY <1>2, <2>1 DEF IInv, Kept, Built, Closed
  <2>3. Built' /\ typed'.mods = mods' /\ (expand' <=> ~typed'.quoted)
    BY <1>1, <1>4, <2>1, <2>2 DEF Built, Closed
  <2> QED
    BY <1>1, <2>3 DEF Kept
<1>8. ASSUME typed'.why # "none"
      PROVE  Kept'
  BY <1>8 DEF Kept
<1> QED
  BY <1>6, <1>7, <1>8

\* After execute(), and wherever nothing is typed, nothing is there.
LEMMA ClearedBuilds ==
    ASSUME at' \notin {"word", "args", "time"}, cmds' = <<>>, mods' = {}, expand' = TRUE,
           typed'.cmds = <<>>, typed'.mods = {}, typed'.quoted = FALSE,
           scan' # "quote", scan' = "line" => at' = "start"
    PROVE  Kept'
<1>1. CommandsIn(alias', <<>>) = <<>>
  BY NoCommands
<1>2. Built' /\ Fresh'
  BY <1>1 DEF Built, Fresh, Closed
<1> QED
  BY <1>2 DEF Kept

LEMMA RunIs ==
    ASSUME IInv, NEW cs, NEW next \in Places, NEW t, Run(cs, next, t), cs \in Seq(Args)
    PROVE  /\ at' \in Places /\ cmds' \in Seq(Args) /\ mods' \subseteq Modes /\ expand' \in BOOLEAN
           /\ at' = "crashed" \/ (at' = next /\ cmds' = <<>> /\ mods' = {} /\ expand' = TRUE)
<1>1. <<>> \in Seq(Args)
  BY EmptySeq
<1>2. cmds \in Seq(Args) /\ mods \subseteq Modes /\ expand \in BOOLEAN
  BY DEF IInv, Typing, TypeOK
<1>3. CASE <<>> \in ToSet(cs)
  <2>1. at' = "crashed" /\ cmds' = cmds /\ mods' = mods /\ expand' = expand
    BY <1>3 DEF Run
  <2> QED
    BY <1>2, <2>1, PlacesAre
<1>4. CASE <<>> \notin ToSet(cs)
  <2>1. at' = next /\ cmds' = <<>> /\ mods' = {} /\ expand' = TRUE
    BY <1>4 DEF Run, Clear
  <2> QED
    BY <1>1, <2>1
<1> QED
  BY <1>3, <1>4

LEMMA ExecuteBuilds ==
    ASSUME IInv, NEW cs \in Seq(Args), NEW next \in {"start", "and", "skip"}, Execute(cs, next),
           scan' \in Scans, scan' = "line" => next = "start", scan' # "quote", flags' \subseteq FlagWords, args' \in Args,
           timed' \in BOOLEAN, wc' \in Args, left' \in BOOLEAN, left' <=> wc' # <<>>, alias' = alias
    PROVE  Typing' /\ Kept'
<1>1. next \in Places
  BY PlacesAre
<1>2. Run(cs, next, typed) /\ typed' = IF at' = "crashed" THEN typed ELSE Nothing
  BY DEF Execute
<1>3. /\ at' \in Places /\ cmds' \in Seq(Args) /\ mods' \subseteq Modes /\ expand' \in BOOLEAN
      /\ at' = "crashed" \/ (at' = next /\ cmds' = <<>> /\ mods' = {} /\ expand' = TRUE)
  BY <1>1, <1>2, RunIs
<1>4. typed' \in Typed
  BY <1>2, NothingIs DEF IInv, Typing
<1>5. Typing'
  <2>1. typed'.quoted \in BOOLEAN /\ typed'.why \in Whys
    BY <1>4 DEF Typed
  <2> QED
    BY <1>3, <1>4, <2>1 DEF IInv, Typing, TypeOK
<1>6. CASE at' = "crashed"
  BY <1>5, <1>6 DEF Kept
<1>7. CASE at' # "crashed"
  <2>1. /\ at' = next /\ cmds' = <<>> /\ mods' = {} /\ expand' = TRUE /\ typed' = Nothing
    BY <1>2, <1>3, <1>7
  <2>2. typed'.cmds = <<>> /\ typed'.mods = {} /\ typed'.quoted = FALSE
    BY <2>1, NothingIs
  <2> QED
    BY <1>5, <2>1, <2>2, ClearedBuilds
<1> QED
  BY <1>6, <1>7

LEMMA AndAndBuilds == ASSUME IInv, AndAnd PROVE Typing' /\ Kept'
<1>1. /\ Execute(CmdAndArg.cmds, "and") /\ scan' = "in" /\ flags' = CmdAndArg.flags
      /\ args' = <<>> /\ timed' = FALSE /\ UNCHANGED <<wc, alias, left>> /\ at # "crashed"
  BY DEF AndAnd, Token
<1>2. CmdAndArg.cmds \in Seq(Args) /\ CmdAndArg.flags \subseteq FlagWords
  BY <1>1, Whole
<1>3. args' \in Args /\ wc \in Args /\ left \in BOOLEAN /\ (left <=> wc # <<>>)
  BY <1>1, EmptySeq DEF IInv, Typing, TypeOK, Args
<1> QED
  BY <1>1, <1>2, <1>3, ExecuteBuilds, ScansAre

LEMMA EndOfLineBuilds == ASSUME IInv, EndOfLine PROVE Typing' /\ Kept'
<1>1. /\ at \notin {"skip", "crashed"} /\ "NEWLINE" \in Accepted /\ scan # "quote"
      /\ scan' = "line" /\ timed' = FALSE /\ args' = <<>>
      /\ UNCHANGED <<wc, alias, left>>
  BY DEF EndOfLine, Scanned
<1>2. CmdAndArg.cmds \in Seq(Args) /\ CmdAndArg.flags \subseteq FlagWords
  BY <1>1, Whole
<1>3. args' \in Args /\ wc \in Args /\ left \in BOOLEAN /\ (left <=> wc # <<>>)
  BY <1>1, EmptySeq DEF IInv, Typing, TypeOK, Args
<1>4. CASE Complete \/ at = "and"
  <2>1. Execute(CmdAndArg.cmds, "start") /\ flags' = CmdAndArg.flags
    BY <1>4 DEF EndOfLine
  <2> QED
    BY <1>1, <1>2, <1>3, <2>1, ExecuteBuilds, ScansAre
<1>5. CASE ~(Complete \/ at = "and")
  <2>1. /\ at' = "start" /\ typed' = Odd(typed.why) /\ UNCHANGED <<flags, cmds, mods, expand>>
    BY <1>5 DEF EndOfLine
  <2>2. at \in {"start", "time"}
    BY <1>1, <1>5, OpsAre DEF Accepted, Complete
  <2>3. /\ typed' \in Typed /\ typed'.why = typed.why /\ typed'.cmds = <<>> /\ typed'.mods = {}
        /\ typed'.quoted = FALSE
    BY <2>1, NothingIs DEF IInv, Typing, TypeOK
  <2>4. Typing'
    <3>1. typed'.quoted \in BOOLEAN /\ typed'.why \in Whys
      BY <2>3 DEF Typed
    <3> QED
      BY <1>1, <1>3, <2>1, <2>3, <3>1, PlacesAre, ScansAre DEF IInv, Typing, TypeOK
  <2>5. ASSUME typed.why = "none"
        PROVE  Kept'
    <3>1. Fresh /\ expand = TRUE
      BY <1>1, <2>2, <2>5 DEF IInv, Kept, Fresh, Typing, TypeOK
    <3> QED
      BY <1>1, <2>1, <2>3, <3>1, ClearedBuilds DEF Fresh
  <2>6. ASSUME typed.why # "none"
        PROVE  Kept'
    BY <2>3, <2>6 DEF Kept
  <2> QED
    BY <2>4, <2>5, <2>6
<1> QED
  BY <1>4, <1>5

LEMMA TimeBuilds == ASSUME IInv, Time PROVE Typing' /\ Kept'
<1>1. /\ scan = "line" /\ scan' = "in" /\ at # "crashed"
      /\ \/ at = "start" /\ at' = "time" /\ UNCHANGED <<timed, mods>>
         \/ at # "start" /\ at' = "timed" /\ timed' = TRUE /\ mods' = mods \cup {"time"}
      /\ Record([typed EXCEPT !.mods = @ \cup {"time"}])
      /\ UNCHANGED <<flags, args, cmds, wc, expand, alias, left>>
  BY DEF Time, Token, IInv, Typing, TypeOK
<1>2. typed \in Typed /\ {"time"} \in SUBSET Modes
  BY DEF IInv, Typing, Modes
<1> DEFINE t == [typed EXCEPT !.mods = @ \cup {"time"}]
<1>3. /\ t \in Typed /\ t.cmds = typed.cmds /\ t.mods = typed.mods \cup {"time"}
      /\ t.quoted = typed.quoted
  BY <1>2 DEF Typed
<1> HIDE DEF t
<1>4. /\ typed' \in Typed
      /\ typed.why = "none" => typed' = t
      /\ typed.why # "none" => typed' = typed
  BY <1>1, <1>3, Recorded DEF IInv, t
<1>5. Typing'
  <2>1. typed'.quoted \in BOOLEAN /\ typed'.why \in Whys
    BY <1>4 DEF Typed
  <2>2. mods' \subseteq Modes /\ at' \in Places /\ timed' \in BOOLEAN
    BY <1>1, <1>2, PlacesAre DEF IInv, Typing, TypeOK
  <2> QED
    BY <1>1, <1>4, <2>1, <2>2, ScansAre DEF IInv, Typing, TypeOK
<1>6. ASSUME typed.why = "none"
      PROVE  Kept'
  <2>1. /\ at = "start" /\ Fresh /\ typed.mods = mods /\ cmds = CommandsIn(alias, typed.cmds)
        /\ expand = TRUE
    BY <1>1, <1>6 DEF IInv, Kept, Built, Closed, Fresh, Typing, TypeOK
  <2>2. /\ at' = "time" /\ cmds' = <<>> /\ mods' = {} /\ expand' = TRUE /\ typed'.cmds = <<>>
        /\ typed'.quoted = FALSE /\ typed'.mods = mods' \cup {"time"}
    BY <1>1, <1>3, <1>4, <1>6, <2>1 DEF Fresh
  <2>3. Built' /\ Fresh'
    BY <1>1, <2>1, <2>2 DEF Built, Fresh, Closed
  <2> QED
    BY <1>1, <2>2, <2>3 DEF Kept
<1>7. ASSUME typed.why # "none"
      PROVE  Kept'
  BY <1>4, <1>7 DEF Kept
<1> QED
  BY <1>5, <1>6, <1>7

LEMMA SameBuilds ==
    ASSUME IInv, UNCHANGED <<flags, args, cmds, mods, wc, expand, alias, typed, left>>,
           timed' \in BOOLEAN, scan' \in Scans,
           at' = "crashed" \/ at' = at \/ (at = "skip" /\ at' = "start"),
           scan' = "quote" <=> scan = "quote", scan' = "line" => scan = "line" \/ at' = "start"
    PROVE  Typing' /\ Kept'
<1>1. Typing'
  BY PlacesAre DEF IInv, Typing, TypeOK
<1>2. ASSUME typed.why = "none", at' # "crashed"
      PROVE  Kept'
  <2>1. /\ expand <=> ~ (typed.quoted \/ scan = "quote")
        /\ typed.mods = IF at = "time" THEN mods \cup {"time"} ELSE mods
        /\ Built
        /\ at \in {"start", "time", "and", "skip"} => Fresh
        /\ scan = "line" => at = "start"
    BY <1>2 DEF IInv, Kept
  <2>2. Built'
    BY <1>2, <2>1 DEF Built, Closed
  <2>3. at' \in {"start", "time", "and", "skip"} => Fresh'
    BY <1>2, <2>1 DEF Fresh
  <2> QED
    BY <1>2, <2>1, <2>2, <2>3 DEF Kept
<1>3. ASSUME typed.why # "none" \/ at' = "crashed"
      PROVE  Kept'
  BY <1>3 DEF Kept
<1> QED
  BY <1>1, <1>2, <1>3

\* Nothing but the text of the name changes, or the line is quoted.
LEMMA AliasBuilds ==
    ASSUME IInv, NEW a \in Aliases, Alias(a[1], a[2])
    PROVE  Typing' /\ Kept'
<1>1. /\ scan = "line" /\ scan' = "in"
      /\ alias' = [n \in DOMAIN alias \cup {a[1]} |-> IF n = a[1] THEN a[2] ELSE alias[n]]
      /\ IF Len(a[2]) # 1 THEN Spoil("quote") ELSE typed' = typed /\ expand' = expand
      /\ expand' \in BOOLEAN
      /\ UNCHANGED <<at, timed, flags, args, cmds, mods, wc, left>>
  BY DEF Alias, Token, IInv, Typing, TypeOK
<1>2. AliasesOK(alias')
  <2>1. AliasesOK(alias) /\ a[2] \in Args
    BY Members DEF IInv, Typing
  <2> QED
    BY <1>1, <2>1 DEF AliasesOK
<1>3. typed' \in Typed /\ (Len(a[2]) # 1 => typed'.why # "none")
  BY <1>1, SpoiltIs DEF IInv, Typing, Whys
<1>4. Typing'
  <2>1. typed'.quoted \in BOOLEAN /\ typed'.why \in Whys
    BY <1>3 DEF Typed
  <2> QED
    BY <1>1, <1>2, <1>3, <2>1, ScansAre DEF IInv, Typing, TypeOK
<1>5. ASSUME typed'.why = "none", at # "crashed"
      PROVE  Kept'
  <2>1. typed' = typed /\ expand' = expand /\ typed.why = "none"
    BY <1>1, <1>3, <1>5
  <2>2. at = "start" /\ Fresh /\ typed.mods = mods /\ expand = TRUE
    BY <1>1, <1>5, <2>1 DEF IInv, Kept, Fresh, Typing, TypeOK
  <2>3. /\ at' \notin {"word", "args", "time"} /\ cmds' = <<>> /\ mods' = {} /\ expand' = TRUE
        /\ typed'.cmds = <<>> /\ typed'.mods = {} /\ typed'.quoted = FALSE /\ scan' = "in"
    BY <1>1, <2>1, <2>2 DEF Fresh
  <2> QED
    BY <2>3, ClearedBuilds
<1>6. ASSUME typed'.why # "none" \/ at = "crashed"
      PROVE  Kept'
  BY <1>1, <1>6 DEF Kept
<1> QED
  BY <1>4, <1>5, <1>6

\* Whatever else spoils the line
LEMMA SpoilBuilds ==
    ASSUME IInv, typed' \in Typed, typed'.why # "none", at' \in {at, "crashed", "start", "skip"},
           timed' \in BOOLEAN, scan' \in Scans, expand' \in BOOLEAN, args' \in Args,
           mods' \subseteq Modes, UNCHANGED <<flags, cmds, wc, alias, left>>
    PROVE  Typing' /\ Kept'
<1>1. Typing'
  <2>1. typed'.quoted \in BOOLEAN /\ typed'.why \in Whys
    BY DEF Typed
  <2> QED
    BY <2>1, PlacesAre DEF IInv, Typing, TypeOK
<1> QED
  BY <1>1 DEF Kept

\* What is left over is nothing, or it is noted.
LEMMA LeftOverIs ==
    ASSUME IInv, NEW ms, NEW e, LeftOver(cmds, ms, e)
    PROVE  /\ typed' \in Typed
           /\ typed'.why # "none" \/ (cmds = <<>> /\ ms = {} /\ e /\ typed'.cmds = <<>>
                                        /\ typed'.mods = {} /\ typed'.quoted = FALSE)
<1>1. CASE cmds # <<>> \/ ms # {} \/ ~e
  <2>1. Spoil("error")
    BY <1>1 DEF LeftOver
  <2> QED
    BY <2>1, SpoiltIs DEF IInv, Whys
<1>2. CASE ~(cmds # <<>> \/ ms # {} \/ ~e)
  <2>1. typed' = Odd(typed.why) /\ typed.why \in Whys
    BY <1>2 DEF LeftOver, IInv, Typing, TypeOK
  <2> QED
    BY <1>2, <2>1, NothingIs
<1> QED
  BY <1>1, <1>2

LEMMA DiscardBuilds == ASSUME IInv, NEW q \in BOOLEAN, Discard(q) PROVE Typing' /\ Kept'
<1>1. /\ at = "skip" /\ scan' = "in" /\ expand' \in BOOLEAN /\ LeftOver(cmds, mods, expand')
      /\ UNCHANGED <<at, timed, flags, args, cmds, mods, wc, alias, left>>
  BY DEF Discard
<1>2. /\ typed' \in Typed
      /\ typed'.why # "none" \/ (cmds = <<>> /\ mods = {} /\ expand' /\ typed'.cmds = <<>>
                                   /\ typed'.mods = {} /\ typed'.quoted = FALSE)
  <2>1. PICK ms, e : ms = mods /\ e = expand'
    OBVIOUS
  <2>2. LeftOver(cmds, ms, e)
    BY <1>1, <2>1 DEF LeftOver
  <2> QED
    BY <2>1, <2>2, LeftOverIs
<1>3. Typing'
  <2>1. typed'.quoted \in BOOLEAN /\ typed'.why \in Whys
    BY <1>2 DEF Typed
  <2> QED
    BY <1>1, <1>2, <2>1, ScansAre DEF IInv, Typing, TypeOK
<1>4. CASE typed'.why # "none"
  BY <1>3, <1>4 DEF Kept
<1>5. CASE typed'.why = "none"
  <2>1. expand' = TRUE /\ cmds' = <<>> /\ mods' = {}
    BY <1>1, <1>2, <1>5
  <2> QED
    BY <1>1, <1>2, <1>3, <1>5, <2>1, ClearedBuilds
<1> QED
  BY <1>4, <1>5

LEMMA SyntaxErrorBuilds ==
    ASSUME IInv, NEW t \in AnyToken, SyntaxError(t)
    PROVE  Typing' /\ Kept'
<1> DEFINE next == IF t = "NEWLINE" THEN "start" ELSE "skip"
<1>1. /\ at \notin {"skip", "crashed"} /\ args' = <<>> /\ timed' = FALSE
      /\ scan' = (IF t = "NEWLINE" THEN "line" ELSE "in") /\ UNCHANGED <<wc, alias, left>>
  BY DEF SyntaxError
<1>2. args' \in Args /\ wc \in Args /\ left \in BOOLEAN /\ (left <=> wc # <<>>) /\ scan' \in Scans
  BY <1>1, EmptySeq, ScansAre DEF IInv, Typing, TypeOK, Args
<1>3. next \in {"start", "skip"} /\ scan' # "quote" /\ (scan' = "line" => next = "start")
  BY <1>1
<1>4. CASE Complete
  <2>1. Execute(CmdAndArg.cmds, next) /\ flags' = CmdAndArg.flags
    BY <1>4 DEF SyntaxError
  <2>2. CmdAndArg.cmds \in Seq(Args) /\ CmdAndArg.flags \subseteq FlagWords
    BY <1>1, Whole
  <2> HIDE DEF next
  <2> QED
    BY <1>1, <1>2, <1>3, <2>1, <2>2, ExecuteBuilds, ScansAre
<1>5. CASE ~Complete
  <2>1. /\ at' = next /\ mods' = IF at = "time" THEN mods \cup {"time"} ELSE mods
        /\ LeftOver(cmds, mods', expand) /\ UNCHANGED <<flags, cmds, expand>>
    BY <1>5 DEF SyntaxError
  <2> HIDE DEF next
  <2>2. /\ typed' \in Typed
        /\ typed'.why # "none" \/ (cmds = <<>> /\ mods' = {} /\ expand /\ typed'.cmds = <<>>
                                     /\ typed'.mods = {} /\ typed'.quoted = FALSE)
    <3>1. PICK ms, e : ms = mods' /\ e = expand
      OBVIOUS
    <3>2. LeftOver(cmds, ms, e)
      BY <2>1, <3>1 DEF LeftOver
    <3> QED
      BY <3>1, <3>2, LeftOverIs
  <2>3. mods' \subseteq Modes /\ expand \in BOOLEAN
    BY <2>1 DEF IInv, Typing, TypeOK, Modes
  <2>4. Typing'
    <3>1. typed'.quoted \in BOOLEAN /\ typed'.why \in Whys
      BY <2>2 DEF Typed
    <3>2. at' \in Places
      BY <1>3, <2>1, PlacesAre
    <3> QED
      BY <1>1, <1>2, <2>1, <2>2, <2>3, <3>1, <3>2, ScansAre DEF IInv, Typing, TypeOK
  <2>5. CASE typed'.why # "none"
    BY <2>4, <2>5 DEF Kept
  <2>6. CASE typed'.why = "none"
    <3>1. expand' = TRUE /\ cmds' = <<>> /\ mods' = {} /\ at' \in {"start", "skip"}
      BY <1>3, <2>1, <2>2, <2>3, <2>6
    <3> QED
      BY <1>1, <1>3, <2>1, <2>2, <2>4, <2>6, <3>1, ClearedBuilds
  <2> QED
    BY <2>5, <2>6
<1> QED
  BY <1>4, <1>5

\* A text that goes on: what was built stays, and the quote is noted with its word.
LEMMA OpenTextBuilds == ASSUME IInv, NEW q \in BOOLEAN, OpenText(q) PROVE Typing' /\ Kept'
<1>1. /\ at # "crashed" /\ scan \in {"line", "in"} /\ scan' = IF q THEN "quote" ELSE "backtick"
      /\ expand' = (expand /\ ~q)
      /\ IF at = "skip" THEN LeftOver(cmds, mods, expand') ELSE typed' = typed
      /\ UNCHANGED <<at, timed, flags, args, cmds, mods, wc, alias, left>>
      /\ expand \in BOOLEAN /\ scan' \in Scans
  BY DEF OpenText, IInv, Typing, TypeOK, Scans
<1>2. /\ typed' \in Typed
      /\ at = "skip" => typed'.why # "none" \/ (cmds = <<>> /\ mods = {} /\ expand' /\ typed'.cmds = <<>>
                                                 /\ typed'.mods = {} /\ typed'.quoted = FALSE)
  <2>1. CASE at = "skip"
    <3>1. PICK ms, e : ms = mods /\ e = expand'
      OBVIOUS
    <3>2. LeftOver(cmds, ms, e)
      BY <1>1, <2>1, <3>1 DEF LeftOver
    <3> QED
      BY <3>1, <3>2, LeftOverIs
  <2>2. CASE at # "skip"
    BY <1>1, <2>2 DEF IInv, Typing
  <2> QED
    BY <2>1, <2>2
<1>3. Typing'
  <2>1. typed'.quoted \in BOOLEAN /\ typed'.why \in Whys
    BY <1>2 DEF Typed
  <2> QED
    BY <1>1, <1>2, <2>1 DEF IInv, Typing, TypeOK
<1>4. CASE typed'.why # "none"
  BY <1>3, <1>4 DEF Kept
<1>5. CASE typed'.why = "none" /\ at = "skip"
  <2>1. expand' = TRUE /\ cmds' = <<>> /\ mods' = {} /\ ~q
    BY <1>1, <1>2, <1>5
  <2> QED
    BY <1>1, <1>2, <1>3, <1>5, <2>1, ClearedBuilds
<1>6. CASE typed'.why = "none" /\ at # "skip"
  <2>1. typed' = typed /\ typed.why = "none"
    BY <1>1, <1>6
  <2>2. /\ expand <=> ~typed.quoted
        /\ typed.mods = IF at = "time" THEN mods \cup {"time"} ELSE mods
        /\ Built
        /\ at \in {"start", "time", "and", "skip"} => Fresh
    BY <1>1, <2>1 DEF IInv, Kept
  <2>3. Built' /\ (Fresh => Fresh')
    BY <1>1, <2>1, <2>2 DEF Built, Closed, Fresh
  <2>4. expand' <=> ~ (typed'.quoted \/ scan' = "quote")
    BY <1>1, <2>1, <2>2
  <2>5. scan' # "line" /\ at' = at /\ mods' = mods
    BY <1>1
  <2> QED
    BY <1>3, <2>1, <2>2, <2>3, <2>4, <2>5 DEF Kept
<1> QED
  BY <1>4, <1>5, <1>6

LEMMA TabBuilds ==
    ASSUME IInv, NEW files \in Names, NEW programs \in Names, Tab(files, programs)
    PROVE  Typing' /\ Kept'
<1> DEFINE found == IF expand THEN files ELSE wc
           inPath == IF expand THEN programs ELSE found
           word == [i \in 1 .. IF expand THEN 0 ELSE IF found = <<>> THEN 1 + PathDirs ELSE 1
                       |-> "*"]
           mine(ss) == IF at \in {"word", "args"} THEN ss ELSE <<>>
           loses == scan # "line" /\ (at \in {"word", "args"} \/ Len(found) > 1)
           noted == IF loses THEN Spoilt("tab") ELSE typed
<1>1. /\ at # "crashed" /\ scan # "in" /\ left' = (wc' # <<>>) /\ UNCHANGED <<timed, scan, flags, alias>>
      /\ typed \in Typed /\ AliasesOK(alias) /\ wc \in Args /\ cmds \in Seq(Args)
      /\ timed \in BOOLEAN /\ scan \in Scans /\ flags \subseteq FlagWords
  BY DEF Tab, IInv, Typing, TypeOK
<1>2. <<>> \in Args /\ found \in Args /\ inPath \in Args
  BY <1>1, Members, EmptySeq DEF Args
<1>3. word \in Args /\ word \o Inserted("echo") \in Args
  <2>1. "*" \in Items /\ "echo" \in Items
    BY Zenon DEF Items
  <2>2. Inserted("echo") \in Args
    BY <1>1, <2>1, NowIn, InsertedIs
  <2>3. PICK x \in Items : x = "*"
    BY <2>1
  <2>4. PICK k \in Nat : k = IF expand THEN 0 ELSE IF found = <<>> THEN 1 + PathDirs ELSE 1
    BY BoundAssumption
  <2>5. [i \in 1 .. k |-> x] \in Seq(Items)
    OBVIOUS
  <2>6. word \in Seq(Items)
    BY <2>3, <2>4, <2>5, Zenon
  <2> HIDE DEF word
  <2> QED
    BY <2>2, <2>6, ConcatProperties DEF Args
<1>4. mine(word) \in Args /\ mine(word \o Inserted("echo")) \in Args
  BY <1>2, <1>3
<1>5. noted \in Typed /\ (loses => noted.why # "none") /\ (noted.why = "none" => typed.why = "none")
  BY <1>1, NothingIs DEF Spoilt, Whys
<1>6. ASSUME typed.why = "none", scan = "line"
      PROVE  at = "start"
  BY <1>1, <1>6 DEF IInv, Kept
<1>7. CASE Len(found) > 1
  <2>1. /\ args' = mine(word \o Inserted("echo")) /\ wc' = <<>>
        /\ IF at = "start" /\ ~loses THEN Execute(cmds, at)
                                     ELSE Run(cmds, at, noted) /\ typed' = noted
    BY <1>7 DEF Tab
  <2>0. scan # "line" => loses
    BY <1>7
  <2> HIDE DEF found, inPath, word, mine, loses, noted
  <2>2. args' \in Args /\ wc' \in Args /\ left' \in BOOLEAN /\ (left' <=> wc' # <<>>)
    BY <1>1, <1>2, <1>4, <2>1
  <2>3. CASE at = "start" /\ ~loses
    <3>1. /\ Execute(cmds, "start") /\ scan' = "line"
          /\ scan' \in Scans /\ flags' \subseteq FlagWords /\ timed' \in BOOLEAN
      BY <1>1, <2>0, <2>1, <2>3
    <3> QED
      BY <1>1, <2>2, <3>1, ExecuteBuilds
  <2>4. CASE ~(at = "start" /\ ~loses)
    <3>1. /\ at' \in Places /\ cmds' \in Seq(Args) /\ mods' \subseteq Modes /\ expand' \in BOOLEAN
      <4>1. PICK next \in Places : next = at
        BY DEF IInv, Typing, TypeOK
      <4>2. PICK t : t = noted
        OBVIOUS
      <4>3. Run(cmds, next, t)
        BY <2>1, <2>4, <4>1, <4>2
      <4> QED
        BY <1>1, <4>3, RunIs
    <3>2. typed' = noted /\ noted.why # "none"
      BY <1>5, <1>6, <2>0, <2>1, <2>4
    <3>3. Typing'
      <4>1. typed'.quoted \in BOOLEAN /\ typed'.why \in Whys /\ typed' \in Typed
        BY <1>5, <3>2 DEF Typed
      <4> QED
        BY <1>1, <2>2, <3>1, <4>1 DEF IInv, Typing, TypeOK
    <3> QED
      BY <3>2, <3>3 DEF Kept
  <2> QED
    BY <2>3, <2>4
<1>8. CASE ~(Len(found) > 1)
  <2>1. /\ args' = mine(word)
        /\ wc' = IF found = <<>> /\ PathDirs > 0 /\ Len(inPath) # 1 THEN inPath ELSE <<>>
        /\ typed' = noted /\ UNCHANGED <<at, cmds, mods, expand>>
    BY <1>8 DEF Tab
  <2>0. scan # "line" /\ at \in {"word", "args"} => loses
    OBVIOUS
  <2>5. ~loses => noted = typed
    OBVIOUS
  <2> HIDE DEF found, inPath, word, mine, loses, noted
  <2>2. args' \in Args /\ wc' \in Args /\ left' \in BOOLEAN /\ (left' <=> wc' # <<>>)
    BY <1>1, <1>2, <1>4, <2>1
  <2>3. Typing'
    <3>1. typed'.quoted \in BOOLEAN /\ typed'.why \in Whys /\ typed' \in Typed
      BY <1>5, <2>1 DEF Typed
    <3> QED
      BY <1>1, <2>1, <2>2, <3>1 DEF IInv, Typing, TypeOK
  <2>4. ASSUME typed'.why = "none"
        PROVE  Kept'
    <3>1. typed' = typed /\ typed.why = "none" /\ at \notin {"word", "args"}
      BY <1>5, <1>6, <2>0, <2>1, <2>4, <2>5
    <3>2. /\ expand <=> ~ (typed.quoted \/ scan = "quote")
          /\ typed.mods = IF at = "time" THEN mods \cup {"time"} ELSE mods
          /\ Built
          /\ at \in {"start", "time", "and", "skip"} => Fresh
          /\ scan = "line" => at = "start"
      BY <1>1, <3>1 DEF IInv, Kept
    <3>3. Built' /\ (Fresh => Fresh')
      BY <1>1, <2>1, <3>1, <3>2 DEF Built, Closed, Fresh
    <3> QED
      BY <1>1, <2>1, <3>1, <3>2, <3>3 DEF Kept
  <2>6. ASSUME typed'.why # "none"
        PROVE  Kept'
    BY <2>6 DEF Kept
  <2> QED
    BY <2>3, <2>4, <2>6
<1> QED
  BY <1>7, <1>8

LEMMA InitBuilds == Init => IInv
<1> SUFFICES ASSUME Init PROVE IInv
  OBVIOUS
<1>1. <<>> \in Args /\ <<>> \in Seq(Args)
  BY EmptySeq DEF Args
<1>2. AliasesOK(alias)
  BY DEF Init, AliasesOK
<1>3. /\ typed \in Typed /\ typed.why = "none" /\ typed.quoted = FALSE
      /\ typed.cmds = <<>> /\ typed.mods = {}
  BY NothingIs DEF Init
<1>4. Typing
  BY <1>1, <1>2, <1>3, PlacesAre, ScansAre DEF Init, Typing, TypeOK, Whys
<1>5. CommandsIn(alias, <<>>) = <<>>
  BY NoCommands
<1>6. Kept
  BY <1>3, <1>5 DEF Init, Kept, Built, Fresh, Closed
<1> QED
  BY <1>4, <1>6, InitFlags DEF IInv

LEMMA NextBuilds == IInv /\ [Next]_vars => IInv'
<1> SUFFICES ASSUME IInv, [Next]_vars
             PROVE  Typing' /\ Kept'
  BY NextFlags DEF IInv
<1>0. timed \in BOOLEAN /\ scan \in Scans /\ args \in Args /\ mods \subseteq Modes /\ expand \in BOOLEAN
  BY DEF IInv, Typing, TypeOK
<1>1. ASSUME NEW w \in Words, CommandWord(w) \/ Argument(w) \/ IoModifier(w)
      PROVE  Typing' /\ Kept'
  BY <1>1, CommandWordBuilds, ArgumentBuilds, IoModifierBuilds
<1>2. CASE Pipe \/ Background \/ AndAnd \/ EndOfLine \/ Time
  BY <1>2, PipeBuilds, BackgroundBuilds, AndAndBuilds, EndOfLineBuilds, TimeBuilds
<1>3. ASSUME NEW op \in Operators, Operator(op)
      PROVE  Typing' /\ Kept'
  BY <1>3, OperatorBuilds
<1>4. CASE PopD
  BY <1>0, <1>4, SameBuilds DEF PopD, Token, commandVars, Scans
<1>5. ASSUME NEW a \in Aliases, Alias(a[1], a[2])
      PROVE  Typing' /\ Kept'
  BY <1>5, AliasBuilds
<1>6. CASE AliasUnset
  <2>1. /\ at' = "crashed" /\ scan' = "in" /\ Spoil("alias")
        /\ UNCHANGED <<timed, flags, args, cmds, mods, wc, expand, alias, left>>
    BY <1>6 DEF AliasUnset, Token, commandVars
  <2>2. typed' \in Typed /\ typed'.why # "none"
    BY <2>1, SpoiltIs DEF IInv, Whys
  <2> QED
    BY <1>0, <2>1, <2>2, SpoilBuilds, ScansAre
<1>7. ASSUME NEW t \in AnyToken, SyntaxError(t)
      PROVE  Typing' /\ Kept'
  BY <1>7, SyntaxErrorBuilds
<1>8. ASSUME NEW q \in BOOLEAN, Discard(q)
      PROVE  Typing' /\ Kept'
  BY <1>8, DiscardBuilds
<1>9. CASE Recover
  BY <1>0, <1>9, SameBuilds DEF Recover, commandVars, Scanned, Scans
<1>10. CASE Comment
  <2>1. /\ scan # "quote" /\ scan' = "line" /\ scan' \in Scans
        /\ IF at = "start" THEN typed' = typed ELSE Spoil("comment")
        /\ UNCHANGED <<at, timed, flags, args, cmds, mods, wc, expand, alias, left>>
    BY <1>10 DEF Comment, commandVars, Scans
  <2>2. CASE at = "start"
    BY <1>0, <2>1, <2>2, SameBuilds
  <2>3. CASE at # "start"
    <3>1. typed' \in Typed /\ typed'.why # "none"
      BY <2>1, <2>3, SpoiltIs DEF IInv, Whys
    <3> QED
      BY <1>0, <2>1, <3>1, SpoilBuilds
  <2> QED
    BY <2>2, <2>3
<1>11. ASSUME NEW files \in Names, NEW programs \in Names, Tab(files, programs)
       PROVE  Typing' /\ Kept'
  BY <1>11, TabBuilds
<1>12. ASSUME NEW q \in BOOLEAN, OpenText(q)
       PROVE  Typing' /\ Kept'
  BY <1>12, OpenTextBuilds
<1>13. CASE UNCHANGED vars
  BY <1>0, <1>13, SameBuilds DEF vars, parserVars, commandVars
<1> QED
  BY <1>1, <1>2, <1>3, <1>4, <1>5, <1>6, <1>7, <1>8, <1>9, <1>10, <1>11, <1>12, <1>13 DEF Next

-----------------------------------------------------------------------------
(* What execute() is called with.                                          *)

LEMMA RunStands ==
    ASSUME IInv, NEW cs, NEW next \in Places, next # "crashed", NEW t \in Typed, Run(cs, next, t),
           alias' = alias, t.why = "none" => cs = CommandsIn(alias, t.cmds) /\ mods = t.mods
    PROVE  /\ LineStandsAlone'
           /\ at' = "crashed" => t.why # "none" \/ \E n \in DOMAIN alias : alias[n] = <<>>
<1>1. ran' = [cmds |-> cs, mods |-> mods, typed |-> t]
  BY DEF Run
<1>2. ran'.cmds = cs /\ ran'.mods = mods /\ ran'.typed = t
  BY <1>1, Zenon
<1>3. MeantCommands(ran.typed.cmds)' = CommandsIn(alias', ran'.typed.cmds)
  BY DEF Inserted, InsertedAll, Meant, MeantBy, MeantCommands, InsertedIn, InsertedAllIn, MeantIn,
         MeantByIn, CommandsIn
<1>4. LineStandsAlone'
  BY <1>2, <1>3 DEF LineStandsAlone
<1>5. ASSUME at' = "crashed", t.why = "none"
      PROVE  \E n \in DOMAIN alias : alias[n] = <<>>
  <2>1. <<>> \in ToSet(CommandsIn(alias, t.cmds))
    BY <1>5 DEF Run
  <2>2. AliasesOK(alias) /\ t.cmds \in Seq(Phrases)
    BY DEF IInv, Typing, Typed
  <2> QED
    BY <2>1, <2>2, CommandsAre
<1> QED
  BY <1>4, <1>5

LEMMA ExecuteStands ==
    ASSUME IInv, NEW cs, NEW next \in Places, next # "crashed", Execute(cs, next), alias' = alias,
           typed.why = "none" => cs = CommandsIn(alias, typed.cmds) /\ mods = typed.mods
    PROVE  LineStandsAlone' /\ CommandsHaveWords'
<1>1. Run(cs, next, typed) /\ (at' = "crashed" => typed' = typed)
  BY DEF Execute
<1>0. PICK t \in Typed : t = typed
  BY DEF IInv, Typing
<1>3. Run(cs, next, t)
  BY <1>0, <1>1
<1>2. /\ LineStandsAlone'
      /\ at' = "crashed" => typed.why # "none" \/ \E n \in DOMAIN alias : alias[n] = <<>>
  BY <1>0, <1>3, RunStands
<1> QED
  BY <1>1, <1>2 DEF CommandsHaveWords

LEMMA IdleStands == ASSUME Idle, at' # "crashed" PROVE LineStandsAlone' /\ CommandsHaveWords'
<1>1. NoRun.typed.why # "none"
  BY DEF NoRun, Odd, Nothing
<1> QED
  BY <1>1 DEF Idle, LineStandsAlone, CommandsHaveWords

\* A command that is executed where it could end is the one that was typed.
LEMMA WholeStands ==
    ASSUME IInv, at \notin {"crashed", "time"}, NEW next \in {"start", "and", "skip"},
           Execute(CmdAndArg.cmds, next), alias' = alias
    PROVE  LineStandsAlone' /\ CommandsHaveWords'
<1>1. typed.why = "none" => CmdAndArg.cmds = CommandsIn(alias, typed.cmds) /\ mods = typed.mods
  BY Whole DEF IInv, Kept
<1>2. next \in Places /\ next # "crashed"
  BY PlacesAre
<1>3. PICK cs : cs = CmdAndArg.cmds
  OBVIOUS
<1>4. Execute(cs, next)
  BY <1>3
<1> QED
  BY <1>1, <1>2, <1>3, <1>4, ExecuteStands

LEMMA TabStands ==
    ASSUME IInv, NEW files \in Names, NEW programs \in Names, Tab(files, programs)
    PROVE  LineStandsAlone' /\ CommandsHaveWords'
<1> DEFINE found == IF expand THEN files ELSE wc
           loses == scan # "line" /\ (at \in {"word", "args"} \/ Len(found) > 1)
           noted == IF loses THEN Spoilt("tab") ELSE typed
<1>1. at # "crashed" /\ alias' = alias /\ typed \in Typed
  BY DEF Tab, IInv, Typing
<1>2. noted \in Typed /\ (loses => noted.why # "none") /\ (noted.why = "none" => typed.why = "none")
  BY <1>1, NothingIs DEF Spoilt, Whys
<1>3. ASSUME typed.why = "none", at = "start"
      PROVE  cmds = CommandsIn(alias, typed.cmds) /\ mods = typed.mods
  BY <1>3 DEF IInv, Kept, Built, Closed
<1>4. ASSUME typed.why = "none", scan = "line"
      PROVE  at = "start"
  BY <1>1, <1>4 DEF IInv, Kept
<1>5. PICK next \in Places : next = at
  BY DEF IInv, Typing, TypeOK
<1>6. PICK cs, t : cs = cmds /\ t = noted
  OBVIOUS
<1>7. \/ Execute(cmds, at) /\ at = "start"
      \/ /\ Len(found) > 1 /\ ~(at = "start" /\ ~loses)
         /\ Run(cmds, at, noted) /\ typed' = noted
      \/ Idle /\ at' = at
  BY DEF Tab
<1>8. CASE Execute(cmds, at) /\ at = "start"
  <2>1. Execute(cs, next) /\ next # "crashed"
    BY <1>1, <1>5, <1>6, <1>8
  <2>2. typed.why = "none" => cs = CommandsIn(alias, typed.cmds) /\ mods = typed.mods
    BY <1>3, <1>6, <1>8
  <2> QED
    BY <1>1, <2>1, <2>2, ExecuteStands
<1>9. CASE /\ Len(found) > 1 /\ ~(at = "start" /\ ~loses)
           /\ Run(cmds, at, noted) /\ typed' = noted
  <2>1. noted.why # "none"
    <3>1. scan # "line" => loses
      BY <1>9
    <3> HIDE DEF loses, noted
    <3> QED
      BY <1>2, <1>4, <1>9, <3>1
  <2> HIDE DEF loses, noted
  <2>2. Run(cs, next, t) /\ t \in Typed /\ t.why # "none" /\ next # "crashed"
    BY <1>1, <1>2, <1>5, <1>6, <1>9, <2>1
  <2>3. LineStandsAlone'
    BY <1>1, <2>2, RunStands
  <2>4. typed'.why # "none"
    BY <1>9, <2>1
  <2> QED
    BY <2>3, <2>4 DEF CommandsHaveWords
<1>10. CASE Idle /\ at' = at
  BY <1>1, <1>10, IdleStands
<1> QED
  BY <1>7, <1>8, <1>9, <1>10

LEMMA NextStands ==
    IInv /\ LineStandsAlone /\ CommandsHaveWords /\ [Next]_vars
        => LineStandsAlone' /\ CommandsHaveWords'
<1> SUFFICES ASSUME IInv, LineStandsAlone, CommandsHaveWords, [Next]_vars
             PROVE  LineStandsAlone' /\ CommandsHaveWords'
  OBVIOUS
<1> DEFINE Goal == LineStandsAlone' /\ CommandsHaveWords'
<1>1. ASSUME NEW w \in Words, CommandWord(w) \/ Argument(w) \/ IoModifier(w)
      PROVE  Goal
  <2>1. Idle /\ at' # "crashed"
    BY <1>1 DEF CommandWord, Argument, IoModifier
  <2> QED
    BY <2>1, IdleStands
<1>2. ASSUME NEW op \in Operators, Operator(op)
      PROVE  Goal
  <2>1. Idle /\ at' # "crashed"
    BY <1>2, OpsAre, PlacesAre DEF Operator
  <2> QED
    BY <2>1, IdleStands
<1>3. CASE Pipe \/ Background \/ Time \/ PopD \/ Recover \/ Comment
  <2>1. Idle /\ at' # "crashed"
    BY <1>3 DEF Pipe, Background, Time, PopD, Recover, Comment, Token
  <2> QED
    BY <2>1, IdleStands
<1>4. ASSUME NEW a \in Aliases, Alias(a[1], a[2])
      PROVE  Goal
  <2>1. Idle /\ at' # "crashed"
    BY <1>4 DEF Alias, Token
  <2> QED
    BY <2>1, IdleStands
<1>5. ASSUME NEW q \in BOOLEAN, Discard(q) \/ OpenText(q)
      PROVE  Goal
  <2>1. Idle /\ at' # "crashed"
    BY <1>5 DEF Discard, OpenText
  <2> QED
    BY <2>1, IdleStands
<1>6. CASE AliasUnset
  <2>1. Idle /\ Spoil("alias")
    BY <1>6 DEF AliasUnset
  <2>2. typed'.why # "none"
    BY <2>1, SpoiltIs DEF IInv, Whys
  <2>3. LineStandsAlone'
    BY <2>1 DEF Idle, NoRun, Odd, Nothing, LineStandsAlone
  <2> QED
    BY <2>2, <2>3 DEF CommandsHaveWords
<1>7. CASE AndAnd
  <2>1. at \notin {"crashed", "time"}
    BY <1>7, Ends DEF AndAnd
  <2>2. Execute(CmdAndArg.cmds, "and") /\ alias' = alias
    BY <1>7 DEF AndAnd
  <2> QED
    BY <2>1, <2>2, WholeStands
<1>8. CASE EndOfLine
  <2>1. at # "crashed" /\ alias' = alias
    BY <1>8 DEF EndOfLine
  <2>2. CASE Complete \/ at = "and"
    <3>1. at # "time" /\ Execute(CmdAndArg.cmds, "start")
      BY <1>8, <2>2 DEF EndOfLine, Complete
    <3> QED
      BY <2>1, <3>1, WholeStands
  <2>3. CASE ~(Complete \/ at = "and")
    <3>1. Idle /\ at' # "crashed"
      BY <1>8, <2>3 DEF EndOfLine
    <3> QED
      BY <3>1, IdleStands
  <2> QED
    BY <2>2, <2>3
<1>9. ASSUME NEW t \in AnyToken, SyntaxError(t)
      PROVE  Goal
  <2>1. at # "crashed" /\ alias' = alias
    BY <1>9 DEF SyntaxError
  <2>2. CASE Complete
    <3>1. PICK next \in {"start", "skip"} : next = IF t = "NEWLINE" THEN "start" ELSE "skip"
      OBVIOUS
    <3>2. at # "time" /\ Execute(CmdAndArg.cmds, next)
      BY <1>9, <2>2, <3>1 DEF SyntaxError, Complete
    <3> QED
      BY <2>1, <3>2, WholeStands
  <2>3. CASE ~Complete
    <3>1. Idle /\ at' # "crashed"
      BY <1>9, <2>3 DEF SyntaxError
    <3> QED
      BY <3>1, IdleStands
  <2> QED
    BY <2>2, <2>3
<1>10. ASSUME NEW files \in Names, NEW programs \in Names, Tab(files, programs)
       PROVE  Goal
  BY <1>10, TabStands
<1>11. CASE UNCHANGED vars
  <2>1. ran' = ran /\ alias' = alias /\ typed' = typed /\ at' = at
    BY <1>11 DEF vars, parserVars, commandVars
  <2>2. MeantCommands(ran.typed.cmds)' = CommandsIn(alias', ran'.typed.cmds)
    BY DEF Inserted, InsertedAll, Meant, MeantBy, MeantCommands, InsertedIn, InsertedAllIn,
           MeantIn, MeantByIn, CommandsIn
  <2>3. MeantCommands(ran.typed.cmds) = CommandsIn(alias, ran.typed.cmds)
    BY NowIn
  <2>4. LineStandsAlone'
    BY <2>1, <2>2, <2>3 DEF LineStandsAlone
  <2> QED
    BY <2>1, <2>4 DEF CommandsHaveWords
<1> QED
  BY <1>1, <1>2, <1>3, <1>4, <1>5, <1>6, <1>7, <1>8, <1>9, <1>10, <1>11 DEF Next

LEMMA InitStands == Init => LineStandsAlone /\ CommandsHaveWords
BY DEF Init, NoRun, Odd, Nothing, LineStandsAlone, CommandsHaveWords

\* Every variable of the parser keeps to its domain, and a word that reaches an
\* argument is one that was typed, an alias's, or a name that was found (TypeOK).
THEOREM TypeCorrect == Spec => []TypeOK
<1>1. IInv => TypeOK
  BY DEF IInv, Typing
<1> QED
  BY <1>1, InitBuilds, NextBuilds, PTL DEF Spec

\* execute() runs the commands, redirections and modifiers that were typed for it and
\* nothing of any line before, for lines of any length (LineStandsAlone).
THEOREM LinesStandAlone == Spec => []LineStandsAlone
BY InitBuilds, NextBuilds, InitStands, NextStands, PTL DEF Spec

\* Only an alias for nothing or a line that was spoilt leads handle_builtins to a
\* command without a word (CommandsHaveWords).
THEOREM NoCommandWithoutWord == Spec => []CommandsHaveWords
BY InitBuilds, NextBuilds, InitStands, NextStands, PTL DEF Spec
=============================================================================
