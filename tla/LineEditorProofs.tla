-------------------------- MODULE LineEditorProofs --------------------------
(***************************************************************************)
(* What holds of LineEditor for lines and histories of any length, for any *)
(* keys, files and setting of REV_SEARCH_MODE: the arrows stay within the  *)
(* history and within what was found in it, the two halves of the line are *)
(* the text field of TextField, and the screen shows the line.             *)
(***************************************************************************)
EXTENDS LineEditor, SequenceTheorems, FiniteSetTheorems, WellFoundedInduction, TLAPS

-----------------------------------------------------------------------------
(* Recursion.  No step of the library's induction theorems can be cited,   *)
(* as they take an operator; the least number that is not in a set will do. *)

LEMMA Climb ==
    ASSUME NEW n \in Nat, NEW G, 0 \in G, \A m \in 0 .. n - 1 : m \in G => m + 1 \in G
    PROVE  0 .. n \subseteq G
<1> DEFINE Below == {ss \in Nat \X Nat : ss[1] < ss[2]}
           B == (0 .. n) \ G
<1> SUFFICES ASSUME B # {} PROVE FALSE
  OBVIOUS
<1>1. IsWellFoundedOn(Below, Nat)
  BY NatLessThanWellFounded DEF OpToRel
<1>2. B \in SUBSET Nat
  OBVIOUS
<1>3. PICK m \in B : \A y \in B : ~ (<<y, m>> \in Below)
  <2> HIDE DEF Below, B
  <2> QED
    BY <1>1, <1>2, WFMin
<1>4. m \in Nat /\ m # 0 /\ m \in 0 .. n /\ m - 1 \in 0 .. n - 1 /\ m - 1 \in Nat /\ m - 1 < m
  OBVIOUS
<1>5. m - 1 \notin B
  <2>1. <<m - 1, m>> \in Below
    BY <1>4
  <2> QED
    BY <1>3, <2>1
<1>6. m - 1 \in G
  BY <1>4, <1>5
<1>7. (m - 1) + 1 \in G
  BY <1>4, <1>6
<1> QED
  BY <1>3, <1>4, <1>7

LEMMA AmongDef ==
    ASSUME NEW S, NEW s \in Seq(S), NEW T
    PROVE  \E f : /\ Among(s, T) = f[Len(s)] /\ f[0] = <<>>
                  /\ \A i \in 1 .. Len(s) : f[i] = IF s[i] \in T THEN Append(f[i - 1], s[i])
                                                   ELSE f[i - 1]
<1> DEFINE n == Len(s)
           Step(f, i) == IF i = 0 THEN <<>>
                         ELSE IF s[i] \in T THEN Append(f[i - 1], s[i]) ELSE f[i - 1]
           G == {m \in 0 .. n : \E f : f = [i \in 0 .. m |-> Step(f, i)]}
<1>1. n \in Nat
  BY LenProperties
<1> HIDE DEF n
<1>2. 0 \in G
  <2> DEFINE h == [i \in 0 .. 0 |-> <<>>]
  <2>1. ASSUME NEW i \in 0 .. 0
        PROVE  Step(h, i) = <<>>
    BY i = 0
  <2>2. h = [i \in 0 .. 0 |-> Step(h, i)]
    BY <2>1, Zenon
  <2> HIDE DEF h, Step
  <2>3. 0 \in 0 .. n /\ \E f : f = [i \in 0 .. 0 |-> Step(f, i)]
    BY <1>1, <2>2
  <2> QED
    BY <2>3
<1>3. ASSUME NEW m \in 0 .. n - 1, m \in G
      PROVE  m + 1 \in G
  <2>1. PICK f : f = [i \in 0 .. m |-> Step(f, i)]
    BY <1>3
  <2> DEFINE h == [i \in 0 .. m + 1 |-> IF i = m + 1 THEN Step(f, i) ELSE f[i]]
  <2>2. ASSUME NEW i \in 0 .. m + 1
        PROVE  h[i] = Step(h, i)
    <3>1. CASE i = m + 1
      <4>1. i # 0 /\ i - 1 \in 0 .. m /\ i - 1 \in 0 .. m + 1 /\ i - 1 # m + 1
        BY <1>1, <3>1
      <4>2. h[i] = Step(f, i) /\ h[i - 1] = f[i - 1]
        BY <3>1, <4>1
      <4> QED
        BY <4>1, <4>2
    <3>2. CASE i # m + 1
      <4>1. i \in 0 .. m /\ (i # 0 => i - 1 \in 0 .. m + 1 /\ i - 1 # m + 1)
        BY <1>1, <3>2
      <4>2. h[i] = f[i] /\ (i # 0 => h[i - 1] = f[i - 1])
        BY <3>2, <4>1
      <4>3. f[i] = Step(f, i)
        BY <2>1, <4>1
      <4> QED
        BY <4>2, <4>3
    <3> QED
      BY <3>1, <3>2
  <2>3. h = [i \in 0 .. m + 1 |-> Step(h, i)]
    BY <2>2
  <2>4. m + 1 \in 0 .. n
    BY <1>1
  <2> QED
    BY <2>3, <2>4
<1>4. n \in G
  <2> HIDE DEF G
  <2>1. 0 .. n \subseteq G
    BY <1>1, <1>2, <1>3, Climb, Zenon
  <2> QED
    BY <1>1, <2>1
<1>5. PICK g : g = [i \in 0 .. n |-> Step(g, i)]
  BY <1>4
<1> DEFINE F == CHOOSE f : f = [i \in 0 .. n |-> Step(f, i)]
<1>6. F = [i \in 0 .. n |-> Step(F, i)]
  BY <1>5
<1>7. Among(s, T) = F[n]
  BY DEF Among, n
<1> HIDE DEF F
<1>8. F[0] = <<>>
  <2>1. 0 \in 0 .. n
    BY <1>1
  <2> QED
    BY <1>6, <2>1
<1>9. ASSUME NEW i \in 1 .. n
      PROVE  F[i] = IF s[i] \in T THEN Append(F[i - 1], s[i]) ELSE F[i - 1]
  <2>1. i \in 0 .. n /\ i # 0
    BY <1>1
  <2>2. F[i] = Step(F, i)
    <3> HIDE DEF Step
    <3> QED
      BY <1>6, <2>1
  <2> QED
    BY <2>1, <2>2
<1> QED
  BY <1>7, <1>8, <1>9 DEF n

\* What is found is in the history, is what was looked for, and is no more than there is.
LEMMA AmongIs ==
    ASSUME NEW S, NEW s \in Seq(S), NEW T
    PROVE  Among(s, T) \in Seq(S \cap T)
<1> DEFINE n == Len(s)
<1>1. n \in Nat /\ \A i \in 1 .. n : s[i] \in S
  BY LenProperties, ElementOfSeq
<1>2. PICK f : /\ Among(s, T) = f[n] /\ f[0] = <<>>
               /\ \A i \in 1 .. n : f[i] = IF s[i] \in T THEN Append(f[i - 1], s[i]) ELSE f[i - 1]
  BY AmongDef
<1> HIDE DEF n
<1> DEFINE G == {m \in 0 .. n : f[m] \in Seq(S \cap T)}
<1>3. 0 \in G
  <2>1. 0 \in 0 .. n /\ f[0] \in Seq(S \cap T)
    BY <1>1, <1>2, EmptySeq
  <2> QED
    BY <2>1
<1>4. ASSUME NEW m \in 0 .. n - 1, m \in G
      PROVE  m + 1 \in G
  <2>1. m + 1 \in 1 .. n /\ m + 1 \in 0 .. n /\ (m + 1) - 1 = m /\ f[m] \in Seq(S \cap T)
    BY <1>1, <1>4
  <2>2. f[m + 1] = IF s[m + 1] \in T THEN Append(f[m], s[m + 1]) ELSE f[m]
    BY <1>2, <2>1
  <2>3. s[m + 1] \in T => Append(f[m], s[m + 1]) \in Seq(S \cap T)
    BY <1>1, <2>1, AppendProperties
  <2>4. f[m + 1] \in Seq(S \cap T)
    BY <2>1, <2>2, <2>3
  <2> QED
    BY <2>1, <2>4
<1>5. n \in G
  <2> HIDE DEF G
  <2>1. 0 .. n \subseteq G
    BY <1>1, <1>3, <1>4, Climb
  <2> QED
    BY <1>1, <2>1
<1> QED
  BY <1>2, <1>5

LEMMA AmongElements ==
    ASSUME NEW S, NEW s \in Seq(S), NEW T
    PROVE  /\ Among(s, T) \in Seq(S) /\ Len(Among(s, T)) \in Nat
           /\ \A i \in 1 .. Len(Among(s, T)) : Among(s, T)[i] \in T
<1>1. Among(s, T) \in Seq(S \cap T)
  BY AmongIs
<1>2. Among(s, T) \in Seq(S) /\ Len(Among(s, T)) \in Nat
  BY <1>1, SeqMonotonic, LenProperties
<1>3. \A i \in 1 .. Len(Among(s, T)) : Among(s, T)[i] \in T
  BY <1>1, ElementOfSeq
<1> QED
  BY <1>2, <1>3

\* The least and the greatest of some numbers
LEMMA LeastOf ==
    ASSUME NEW S \in SUBSET Nat, S # {}
    PROVE  Min(S) \in S /\ \A x \in S : Min(S) <= x
<1> DEFINE Below == {ss \in Nat \X Nat : ss[1] < ss[2]}
<1>1. IsWellFoundedOn(Below, Nat)
  BY NatLessThanWellFounded DEF OpToRel
<1>2. PICK m \in S : \A y \in S : ~ (<<y, m>> \in Below)
  <2> HIDE DEF Below
  <2> QED
    BY <1>1, WFMin
<1>3. ASSUME NEW y \in S
      PROVE  m <= y
  <2>1. <<y, m>> \notin Below /\ y \in Nat /\ m \in Nat
    BY <1>2
  <2> QED
    BY <2>1
<1> QED
  BY <1>3 DEF Min

LEMMA GreatestOf ==
    ASSUME NEW n \in Nat, NEW S \in SUBSET (0 .. n), S # {}
    PROVE  Max(S) \in S /\ \A x \in S : x <= Max(S)
<1> DEFINE R == {n - x : x \in S}
<1>1. R \in SUBSET Nat /\ R # {}
  <2>1. PICK x \in S : TRUE
    OBVIOUS
  <2>2. \A y \in S : n - y \in Nat
    OBVIOUS
  <2> QED
    BY <2>1, <2>2
<1> HIDE DEF R
<1>2. Min(R) \in R /\ \A x \in R : Min(R) <= x
  BY <1>1, LeastOf
<1>3. PICK g \in S : Min(R) = n - g
  BY <1>2 DEF R
<1>4. ASSUME NEW x \in S
      PROVE  g >= x
  <2>1. n - x \in R /\ x \in 0 .. n /\ g \in 0 .. n
    BY DEF R
  <2>2. n - g <= n - x
    BY <1>2, <1>3, <2>1
  <2> QED
    BY <2>1, <2>2
<1>5. Max(S) \in S /\ \A x \in S : Max(S) >= x
  BY <1>4 DEF Max
<1> QED
  BY <1>5

-----------------------------------------------------------------------------
(* Sequences.                                                              *)

\* The part of s from m to n
LEMMA PartOf ==
    ASSUME NEW S, NEW s \in Seq(S), NEW m \in 1 .. Len(s) + 1, NEW n \in m - 1 .. Len(s)
    PROVE  /\ SubSeq(s, m, n) \in Seq(S) /\ Len(SubSeq(s, m, n)) = n - m + 1
           /\ \A i \in 1 .. n - m + 1 : SubSeq(s, m, n)[i] = s[m + i - 1]
<1>1. Len(s) \in Nat /\ m \in Int /\ n \in Int
  BY LenProperties
<1>2. \A i \in m .. n : s[i] \in S
  BY <1>1, ElementOfSeq
<1>3. SubSeq(s, m, n) \in Seq(S) /\ Len(SubSeq(s, m, n)) = IF m <= n THEN n - m + 1 ELSE 0
  BY <1>1, <1>2, SubSeqProperties
<1>4. \A i \in 1 .. n - m + 1 : SubSeq(s, m, n)[i] = s[m + i - 1]
  BY <1>1, <1>2, SubSeqProperties
<1> QED
  BY <1>1, <1>3, <1>4

\* The halves of a sequence in two parts
LEMMA Halves ==
    ASSUME NEW S, NEW s \in Seq(S), NEW t \in Seq(S)
    PROVE  /\ s \o t \in Seq(S) /\ Len(s) \in Nat /\ Len(t) \in Nat
           /\ Len(s \o t) = Len(s) + Len(t)
           /\ SubSeq(s \o t, 1, Len(s)) = s
           /\ SubSeq(s \o t, Len(s) + 1, Len(s \o t)) = t
<1>1. /\ s \o t \in Seq(S) /\ Len(s) \in Nat /\ Len(t) \in Nat
      /\ Len(s \o t) = Len(s) + Len(t)
      /\ \A i \in 1 .. Len(s) + Len(t) : (s \o t)[i] = IF i <= Len(s) THEN s[i] ELSE t[i - Len(s)]
  BY ConcatProperties, LenProperties
<1> DEFINE a == SubSeq(s \o t, 1, Len(s))
           b == SubSeq(s \o t, Len(s) + 1, Len(s \o t))
<1>2. /\ a \in Seq(S) /\ Len(a) = Len(s)
      /\ \A i \in 1 .. Len(s) : a[i] = (s \o t)[i]
  <2>1. 1 \in 1 .. Len(s \o t) + 1 /\ Len(s) \in 1 - 1 .. Len(s \o t)
    BY <1>1
  <2>2. a \in Seq(S) /\ Len(a) = Len(s) - 1 + 1
    BY <1>1, <2>1, PartOf
  <2>3. \A i \in 1 .. Len(s) - 1 + 1 : a[i] = (s \o t)[1 + i - 1]
    BY <1>1, <2>1, PartOf
  <2> QED
    BY <1>1, <2>2, <2>3
<1>3. /\ b \in Seq(S) /\ Len(b) = Len(t)
      /\ \A i \in 1 .. Len(t) : b[i] = (s \o t)[Len(s) + i]
  <2>1. Len(s) + 1 \in 1 .. Len(s \o t) + 1 /\ Len(s \o t) \in (Len(s) + 1) - 1 .. Len(s \o t)
    BY <1>1
  <2>2. b \in Seq(S) /\ Len(b) = Len(s \o t) - (Len(s) + 1) + 1
    BY <1>1, <2>1, PartOf
  <2>3. \A i \in 1 .. Len(s \o t) - (Len(s) + 1) + 1 : b[i] = (s \o t)[(Len(s) + 1) + i - 1]
    BY <1>1, <2>1, PartOf
  <2> QED
    BY <1>1, <2>2, <2>3
<1> HIDE DEF a, b
<1>4. a = s
  <2>1. \A i \in 1 .. Len(a) : a[i] = s[i]
    BY <1>1, <1>2
  <2> QED
    BY <1>2, <2>1, SeqEqual
<1>5. b = t
  <2>1. \A i \in 1 .. Len(b) : b[i] = t[i]
    BY <1>1, <1>3
  <2> QED
    BY <1>3, <2>1, SeqEqual
<1> QED
  BY <1>1, <1>4, <1>5 DEF a, b

\* A part of the left half
LEMMA PartOfLeft ==
    ASSUME NEW S, NEW s \in Seq(S), NEW t \in Seq(S), NEW n \in 0 .. Len(s)
    PROVE  SubSeq(s \o t, 1, n) = SubSeq(s, 1, n)
<1>1. Len(s) \in Nat
  BY LenProperties
<1>2. CASE n = 0
  <2>1. SubSeq(s \o t, 1, 0) = <<>> /\ SubSeq(s, 1, 0) = <<>>
    BY SubSeqEmpty
  <2> QED
    BY <1>2, <2>1
<1>3. CASE n # 0
  <2>1. 1 \in 1 .. Len(s) /\ n \in 1 .. Len(s)
    BY <1>1, <1>3
  <2> QED
    BY <2>1, SubSeqOfConcat1
<1> QED
  BY <1>2, <1>3

\* A sequence is its two parts, wherever it is cut.
LEMMA CutAt ==
    ASSUME NEW S, NEW s \in Seq(S), NEW n \in 0 .. Len(s)
    PROVE  /\ SubSeq(s, 1, n) \in Seq(S) /\ Len(SubSeq(s, 1, n)) = n
           /\ SubSeq(s, n + 1, Len(s)) \in Seq(S) /\ Len(SubSeq(s, n + 1, Len(s))) = Len(s) - n
           /\ SubSeq(s, 1, n) \o SubSeq(s, n + 1, Len(s)) = s
<1>1. Len(s) \in Nat
  BY LenProperties
<1>2. SubSeq(s, 1, n) \in Seq(S) /\ Len(SubSeq(s, 1, n)) = n
  <2>1. 1 \in 1 .. Len(s) + 1 /\ n \in 1 - 1 .. Len(s) /\ n - 1 + 1 = n
    BY <1>1
  <2> QED
    BY <2>1, PartOf
<1>3. SubSeq(s, n + 1, Len(s)) \in Seq(S) /\ Len(SubSeq(s, n + 1, Len(s))) = Len(s) - n
  <2>1. n + 1 \in 1 .. Len(s) + 1 /\ Len(s) \in (n + 1) - 1 .. Len(s) /\ Len(s) - (n + 1) + 1 = Len(s) - n
    BY <1>1
  <2> QED
    BY <2>1, PartOf
<1>4. SubSeq(s, 1, n) \o SubSeq(s, n + 1, Len(s)) = SubSeq(s, 1, Len(s))
  <2>1. 1 \in 1 .. Len(s) + 1 /\ n \in 1 - 1 .. Len(s) /\ Len(s) \in n .. Len(s)
    BY <1>1
  <2> QED
    BY <2>1, ConcatAdjacentSubSeq
<1> QED
  BY <1>2, <1>3, <1>4, SubSeqFull

-----------------------------------------------------------------------------
(* The inductive invariant.                                                *)

\* A row of the terminal
IsRow(s) == \E c, n : n \in Int /\ s = [cells |-> [i \in 1 .. Width |-> c[i]], col |-> n]

\* The positions are in their lists.
Positions == index <= Len(hist) /\ sindex <= Len(found)

\* What was found is in the history, and begins with what was searched for.
FoundLines == \A i \in 1 .. Len(found) : /\ found[i] \in ToSet(hist)
                                         /\ IsPrefix(search, Append(found[i], "\n"))

IInv == TypeOK /\ IsRow(screen) /\ Positions /\ FoundLines

-----------------------------------------------------------------------------
(* The terminal.                                                           *)

LEMMA WidthIs == Width \in Nat /\ Width = MaxText + 2
BY BoundAssumption DEF Width

LEMMA RowIs ==
    ASSUME NEW s, IsRow(s)
    PROVE  /\ s.col \in Int /\ s = [cells |-> s.cells, col |-> s.col]
           /\ s.cells = [i \in 1 .. Width |-> s.cells[i]]
<1>1. PICK c, n : n \in Int /\ s = [cells |-> [i \in 1 .. Width |-> c[i]], col |-> n]
  BY DEF IsRow
<1>2. s.col = n /\ s.cells = [i \in 1 .. Width |-> c[i]]
  BY <1>1
<1>3. \A i \in 1 .. Width : s.cells[i] = c[i]
  BY <1>2
<1>4. s.cells = [i \in 1 .. Width |-> s.cells[i]]
  BY <1>2, <1>3
<1> QED
  BY <1>1, <1>2, <1>4

LEMMA RowOf ==
    ASSUME NEW d, d = [i \in 1 .. Width |-> d[i]], NEW n \in Int
    PROVE  IsRow([cells |-> d, col |-> n])
BY Zenon DEF IsRow

LEMMA RowEqual ==
    ASSUME NEW s, IsRow(s), NEW t, IsRow(t), s.col = t.col,
           \A i \in 1 .. Width : s.cells[i] = t.cells[i]
    PROVE  s = t
<1>1. /\ s = [cells |-> s.cells, col |-> s.col] /\ s.cells = [i \in 1 .. Width |-> s.cells[i]]
      /\ t = [cells |-> t.cells, col |-> t.col] /\ t.cells = [i \in 1 .. Width |-> t.cells[i]]
  BY RowIs
<1>2. [i \in 1 .. Width |-> s.cells[i]] = [i \in 1 .. Width |-> t.cells[i]]
  OBVIOUS
<1>3. s.cells = t.cells
  BY <1>1, <1>2
<1> QED
  BY <1>1, <1>3

LEMMA PutIs ==
    ASSUME NEW s, IsRow(s), NEW t, Len(t) \in Nat
    PROVE  /\ IsRow(Put(s, t)) /\ Put(s, t).col = s.col + Len(t)
           /\ \A i \in 1 .. Width : Put(s, t).cells[i] = IF i - s.col \in 1 .. Len(t)
                                                         THEN t[i - s.col] ELSE s.cells[i]
<1> DEFINE d == [i \in 1 .. Width |-> IF i - s.col \in 1 .. Len(t) THEN t[i - s.col] ELSE s.cells[i]]
<1>1. Put(s, t) = [cells |-> d, col |-> s.col + Len(t)]
  BY DEF Put
<1>2. d = [i \in 1 .. Width |-> d[i]]
  OBVIOUS
<1>3. s.col + Len(t) \in Int
  <2>1. s.col \in Int
    BY RowIs
  <2> QED
    BY <2>1
<1>4. \A i \in 1 .. Width : d[i] = IF i - s.col \in 1 .. Len(t) THEN t[i - s.col] ELSE s.cells[i]
  OBVIOUS
<1> HIDE DEF d
<1>5. IsRow(Put(s, t))
  BY <1>1, <1>2, <1>3, RowOf
<1> QED
  BY <1>1, <1>4, <1>5

LEMMA BackIs ==
    ASSUME NEW s, IsRow(s), NEW n \in Int
    PROVE  IsRow(Back(s, n)) /\ Back(s, n).col = s.col - n /\ Back(s, n).cells = s.cells
<1>1. PICK c, k : k \in Int /\ s = [cells |-> [i \in 1 .. Width |-> c[i]], col |-> k]
  BY DEF IsRow
<1> DEFINE d == [i \in 1 .. Width |-> c[i]]
<1>2. d = [i \in 1 .. Width |-> d[i]]
  OBVIOUS
<1>3. s = [cells |-> d, col |-> k]
  BY <1>1
<1> HIDE DEF d
<1>4. Back(s, n) = [cells |-> d, col |-> k - n] /\ s.cells = d /\ s.col = k
  BY <1>3 DEF Back
<1>5. k - n \in Int
  BY <1>1
<1>6. IsRow([cells |-> d, col |-> k - n])
  BY <1>2, <1>5, RowOf
<1> QED
  BY <1>4, <1>6

LEMMA SpacesAre ==
    ASSUME NEW n \in Nat
    PROVE  /\ Len(Spaces(n)) = n /\ \A i \in 1 .. n : Spaces(n)[i] = " "
<1>1. Spaces(n) \in [1 .. n -> {" "}]
  BY DEF Spaces
<1>2. Spaces(n) \in Seq({" "})
  BY <1>1, SeqDef
<1>3. DOMAIN Spaces(n) = 1 .. Len(Spaces(n)) /\ DOMAIN Spaces(n) = 1 .. n /\ Len(Spaces(n)) \in Nat
  BY <1>1, <1>2, LenProperties, Zenon
<1>4. Len(Spaces(n)) = n
  <2>1. \A k, m \in Nat : 1 .. k = 1 .. m => k = m
    OBVIOUS
  <2> QED
    BY <1>3, <2>1
<1>5. \A i \in 1 .. n : Spaces(n)[i] = " "
  BY DEF Spaces
<1> QED
  BY <1>4, <1>5

LEMMA BlankIs == IsRow(BlankRow) /\ BlankRow.col = 0 /\ \A i \in 1 .. Width : BlankRow.cells[i] = " "
<1> DEFINE d == [i \in 1 .. Width |-> " "]
<1>1. BlankRow = [cells |-> d, col |-> 0] /\ d = [i \in 1 .. Width |-> d[i]]
      /\ \A i \in 1 .. Width : d[i] = " "
  BY DEF BlankRow
<1> HIDE DEF d
<1>2. \A n \in Int : IsRow([cells |-> d, col |-> n])
  BY <1>1, RowOf
<1>3. IsRow([cells |-> d, col |-> 0])
  BY <1>2
<1> QED
  BY <1>1, <1>3

LEMMA ReprintIs ==
    ASSUME NEW s, IsRow(s), NEW t, Len(t) \in Nat
    PROVE  /\ IsRow(Reprint(s, t)) /\ Reprint(s, t).col = s.col
           /\ \A i \in 1 .. Width : Reprint(s, t).cells[i] = IF i - s.col \in 1 .. Len(t)
                                                             THEN t[i - s.col] ELSE s.cells[i]
<1> DEFINE p == Put(s, t)
<1>1. /\ IsRow(p) /\ p.col = s.col + Len(t)
      /\ \A i \in 1 .. Width : p.cells[i] = IF i - s.col \in 1 .. Len(t)
                                            THEN t[i - s.col] ELSE s.cells[i]
  BY PutIs
<1>2. Reprint(s, t) = Back(p, Len(t))
  BY DEF Reprint
<1> HIDE DEF p
<1>3. IsRow(Back(p, Len(t))) /\ Back(p, Len(t)).col = p.col - Len(t) /\ Back(p, Len(t)).cells = p.cells
  BY <1>1, BackIs, SMTT(20)
<1>4. s.col \in Int
  BY RowIs
<1> QED
  BY <1>1, <1>2, <1>3, <1>4

LEMMA RubIs ==
    ASSUME NEW s, IsRow(s), NEW n \in Nat
    PROVE  /\ IsRow(Rub(s, n)) /\ Rub(s, n).col = s.col - n
           /\ \A i \in 1 .. Width : Rub(s, n).cells[i] = IF i - (s.col - n) \in 1 .. n
                                                         THEN " " ELSE s.cells[i]
<1> DEFINE b == Back(s, n)
           p == Put(b, Spaces(n))
<1>1. IsRow(b) /\ b.col = s.col - n /\ b.cells = s.cells
  BY BackIs
<1> HIDE DEF b
<1>2. Len(Spaces(n)) = n /\ \A i \in 1 .. n : Spaces(n)[i] = " "
  BY SpacesAre
<1>3. /\ IsRow(p) /\ p.col = b.col + n
      /\ \A i \in 1 .. Width : p.cells[i] = IF i - b.col \in 1 .. n
                                            THEN Spaces(n)[i - b.col] ELSE b.cells[i]
  <2> DEFINE t == Spaces(n)
  <2>1. Len(t) = n /\ Len(t) \in Nat
    BY <1>2
  <2> HIDE DEF t
  <2>2. /\ IsRow(Put(b, t)) /\ Put(b, t).col = b.col + Len(t)
        /\ \A i \in 1 .. Width : Put(b, t).cells[i] = IF i - b.col \in 1 .. Len(t)
                                                       THEN t[i - b.col] ELSE b.cells[i]
    BY <1>1, <2>1, PutIs
  <2>3. p = Put(b, t)
    BY DEF t
  <2> HIDE DEF p
  <2>4. /\ IsRow(p) /\ p.col = b.col + n
        /\ \A i \in 1 .. Width : p.cells[i] = IF i - b.col \in 1 .. n THEN t[i - b.col] ELSE b.cells[i]
    BY <2>1, <2>2, <2>3
  <2> QED
    BY <2>4 DEF t
<1> HIDE DEF p
<1>4. IsRow(Back(p, n)) /\ Back(p, n).col = p.col - n /\ Back(p, n).cells = p.cells
  BY <1>3, BackIs
<1>5. Rub(s, n) = Back(p, n)
  BY DEF Rub, p, b
<1>6. s.col \in Int
  BY RowIs
<1>7. ASSUME NEW i \in 1 .. Width
      PROVE  Rub(s, n).cells[i] = IF i - (s.col - n) \in 1 .. n THEN " " ELSE s.cells[i]
  <2>1. p.cells[i] = IF i - b.col \in 1 .. n THEN Spaces(n)[i - b.col] ELSE s.cells[i]
    BY <1>1, <1>3
  <2> QED
    BY <1>1, <1>2, <1>4, <1>5, <2>1
<1>8. Rub(s, n).col = s.col - n
  BY <1>1, <1>3, <1>4, <1>5, <1>6
<1> QED
  BY <1>4, <1>5, <1>7, <1>8

\* The screen is what was drawn, if anything is.
LEMMA DrawIs ==
    ASSUME IsRow(screen), NEW s, IsRow(s), Draw(s)
    PROVE  IsRow(screen')
<1>1. screen' = s \/ screen' = screen
  BY DEF Draw
<1>2. CASE screen' = s
  BY <1>2 DEF IsRow, Width
<1>3. CASE screen' = screen
  BY <1>3 DEF IsRow, Width
<1> QED
  BY <1>1, <1>2, <1>3

-----------------------------------------------------------------------------
(* What a step does to the text field.                                     *)

\* The step is one of the text field, or leaves it as it is.
Stepped == [TF!Next]_<<Text, Len(line), hist>>

LEMMA TypedHalves ==
    ASSUME TypeOK
    PROVE  /\ line \in Lines /\ buff \in Lines /\ Text \in Lines
           /\ Len(line) \in Nat /\ Len(buff) \in Nat /\ Len(Text) = Len(line) + Len(buff)
           /\ TF!Left = line /\ TF!Right = buff
<1>1. line \in Seq(Characters) /\ buff \in Seq(Characters)
  BY DEF TypeOK, Lines
<1>2. /\ line \o buff \in Seq(Characters) /\ Len(line) \in Nat /\ Len(buff) \in Nat
      /\ Len(line \o buff) = Len(line) + Len(buff)
      /\ SubSeq(line \o buff, 1, Len(line)) = line
      /\ SubSeq(line \o buff, Len(line) + 1, Len(line \o buff)) = buff
  BY <1>1, Halves
<1> QED
  BY <1>1, <1>2 DEF Lines, Text, TF!Left, TF!Right

LEMMA InsertStep ==
    ASSUME TypeOK, NEW t \in Lines, line' = line \o t, buff' = buff, hist' = hist
    PROVE  line' \in Lines /\ Stepped
<1>1. /\ line \in Seq(Characters) /\ buff \in Seq(Characters) /\ t \in Seq(Characters)
      /\ Len(line) \in Nat /\ Len(buff) \in Nat /\ Len(Text) = Len(line) + Len(buff)
      /\ TF!Left = line /\ TF!Right = buff
  BY TypedHalves DEF Lines
<1>2. /\ line' \in Seq(Characters) /\ Len(t) \in Nat /\ Len(line') = Len(line) + Len(t)
      /\ SubSeq(line', 1, Len(line)) = line
  BY <1>1, Halves
<1>3. /\ Len(line' \o buff) = Len(line') + Len(buff)
      /\ SubSeq(line' \o buff, Len(line') + 1, Len(line' \o buff)) = buff
  BY <1>1, <1>2, Halves
<1>4. SubSeq(line' \o buff, 1, Len(line)) = line
  <2>1. Len(line) \in 0 .. Len(line')
    BY <1>1, <1>2
  <2> QED
    BY <1>1, <1>2, <2>1, PartOfLeft
<1>5. Text' = line' \o buff
  BY DEF Text
<1>6. TF!Insert
  BY <1>1, <1>2, <1>3, <1>4, <1>5 DEF TF!Insert
<1> QED
  BY <1>2, <1>6 DEF Stepped, TF!Next, Lines

LEMMA CutLeftStep ==
    ASSUME TypeOK, NEW k \in 0 .. Len(line) - 1, line' = SubSeq(line, 1, k), buff' = buff, hist' = hist
    PROVE  line' \in Lines /\ Stepped
<1>1. /\ line \in Seq(Characters) /\ buff \in Seq(Characters) /\ Len(line) \in Nat
      /\ TF!Left = line /\ TF!Right = buff
  BY TypedHalves DEF Lines
<1>2. k \in 0 .. Len(line)
  BY <1>1
<1>3. line' \in Seq(Characters) /\ Len(line') = k
  BY <1>1, <1>2, CutAt
<1>4. SubSeq(line \o buff, 1, k) = line'
  BY <1>1, <1>2, PartOfLeft
<1>5. TF!CutLeft
  BY <1>1, <1>3, <1>4 DEF TF!CutLeft, Text
<1> QED
  BY <1>3, <1>5 DEF Stepped, TF!Next, Lines

LEMMA CutRightStep ==
    ASSUME TypeOK, NEW n \in 1 .. Len(buff), buff' = SubSeq(buff, n + 1, Len(buff)), line' = line,
           hist' = hist
    PROVE  buff' \in Lines /\ Stepped
<1>1. /\ line \in Seq(Characters) /\ buff \in Seq(Characters) /\ Len(buff) \in Nat
      /\ TF!Left = line /\ TF!Right = buff
  BY TypedHalves DEF Lines
<1>2. n \in 0 .. Len(buff)
  BY <1>1
<1>3. buff' \in Seq(Characters)
  BY <1>1, <1>2, CutAt
<1>4. TF!CutRight
  BY <1>1 DEF TF!CutRight, Text
<1> QED
  BY <1>3, <1>4 DEF Stepped, TF!Next, Lines

LEMMA MoveStep ==
    ASSUME line' \in Lines, buff' \in Lines, line' \o buff' = line \o buff, hist' = hist
    PROVE  Stepped
<1>1. Len(line') \in Nat /\ Len(buff') \in Nat /\ Len(line' \o buff') = Len(line') + Len(buff')
  BY Halves DEF Lines
<1>2. Len(line') \in 0 .. Len(Text)
  BY <1>1 DEF Text
<1>3. TF!Move
  BY <1>2 DEF TF!Move, Text
<1> QED
  BY <1>3 DEF Stepped, TF!Next

LEMMA NewHalves ==
    ASSUME line' \in Lines, buff' \in Lines
    PROVE  Len(line') \in Nat /\ Len(buff') \in Nat /\ Len(line' \o buff') = Len(line') + Len(buff')
BY Halves DEF Lines

LEMMA RecallStep ==
    ASSUME line' \in Lines, buff' \in Lines, hist' = hist,
           NEW i \in 1 .. Len(hist), line' \o buff' = hist[i]
    PROVE  Stepped
<1>1. Len(line') \in Nat /\ Len(buff') \in Nat /\ Len(line' \o buff') = Len(line') + Len(buff')
  BY NewHalves
<1>2. Len(line') \in 0 .. Len(Text')
  BY <1>1 DEF Text
<1>3. TF!Recall
  BY <1>2 DEF TF!Recall, Text
<1> QED
  BY <1>3 DEF Stepped, TF!Next

LEMMA StayStep ==
    ASSUME UNCHANGED <<line, buff, hist>>
    PROVE  Stepped
BY DEF Stepped, Text

\* The invariant when the history and what was found in it stay.
LEMMA EditKeeps ==
    ASSUME IInv, line' \in Lines, buff' \in Lines, UNCHANGED <<hist, index, searchVars>>,
           copy' \in Nat \cup {Underflow}, IsRow(screen'),
           killers' \in Nat, clearing' \in BOOLEAN, crashed' \in BOOLEAN
    PROVE  IInv'
<1>1. screen'.col \in Int
  BY RowIs
<1>2. TypeOK'
  BY <1>1 DEF IInv, TypeOK, searchVars
<1>3. Positions' /\ FoundLines'
  BY DEF IInv, Positions, FoundLines, searchVars
<1> QED
  BY <1>2, <1>3 DEF IInv

LEMMA InitInv == Init => IInv /\ TF!Init
<1> SUFFICES ASSUME Init PROVE IInv /\ TF!Init
  OBVIOUS
<1>1. hist \in Seq(Lines) /\ Len(hist) \in Nat
  BY DataAssumption, LenProperties DEF Init
<1>2. <<>> \in Lines /\ <<>> \in Seq(Lines)
  BY EmptySeq DEF Lines
<1>3. IsRow(screen) /\ screen.col \in Int
  <2>1. screen = BlankRow
    BY DEF Init
  <2>2. BlankRow.col = 0 /\ IsRow(BlankRow)
    BY BlankIs
  <2> QED
    BY <2>1, <2>2
<1>4. TypeOK
  BY <1>1, <1>2, <1>3 DEF Init, TypeOK
<1>5. Positions /\ FoundLines
  BY <1>1 DEF Init, Positions, FoundLines
<1>6. TF!Init
  BY <1>2, ConcatEmptySeq DEF TF!Init, Init, Text, Lines
<1> QED
  BY <1>3, <1>4, <1>5, <1>6 DEF IInv

-----------------------------------------------------------------------------
(* The keys that edit the line.                                            *)

\* What a step that keeps both halves does
LEMMA StandsStill ==
    ASSUME IInv, UNCHANGED <<line, buff, hist, index, searchVars, copy>>, IsRow(screen'),
           killers' \in Nat, clearing' \in BOOLEAN, crashed' \in BOOLEAN
    PROVE  IInv' /\ Stepped
<1>1. line' \in Lines /\ buff' \in Lines /\ copy' \in Nat \cup {Underflow}
  BY DEF IInv, TypeOK
<1>2. IInv'
  BY <1>1, EditKeeps
<1> QED
  BY <1>2, StayStep

LEMMA TypeSteps ==
    ASSUME IInv, NEW c \in Chars, Type(c)
    PROVE  IInv' /\ Stepped
<1>1. TypeOK /\ IsRow(screen) /\ line \in Lines /\ Len(buff) \in Nat
  BY TypedHalves DEF IInv
<1>2. /\ line' = Append(line, c) /\ buff' = buff /\ UNCHANGED <<hist, index, searchVars, killers, clearing>>
      /\ Draw(Reprint(Put(screen, <<c>>), buff))
      /\ copy' \in {copy, copy + 1} /\ (copy' = copy \/ copy # Underflow)
      /\ crashed' \in BOOLEAN
  BY DEF Type
<1>3. line' = line \o <<c>> /\ <<c>> \in Lines
  <2>1. c \in Characters
    BY DEF Characters
  <2>2. <<c>> \in Seq(Characters)
    BY <2>1
  <2> QED
    BY <1>1, <1>2, <2>1, <2>2, AppendIsConcat DEF Lines
<1>4. line' \in Lines /\ Stepped
  BY <1>1, <1>2, <1>3, InsertStep
<1>5. IsRow(screen')
  <2>1. IsRow(Put(screen, <<c>>))
    <3>1. Len(<<c>>) \in Nat
      OBVIOUS
    <3> QED
      BY <1>1, <3>1, PutIs
  <2>2. IsRow(Reprint(Put(screen, <<c>>), buff))
    BY <1>1, <2>1, ReprintIs
  <2> QED
    BY <1>1, <1>2, <2>2, DrawIs
<1>6. copy' \in Nat \cup {Underflow}
  BY <1>1, <1>2 DEF TypeOK, Underflow
<1>7. buff' \in Lines /\ killers' \in Nat /\ clearing' \in BOOLEAN
  BY <1>1, <1>2 DEF TypeOK
<1>8. IInv'
  BY <1>2, <1>4, <1>5, <1>6, <1>7, EditKeeps
<1> QED
  BY <1>4, <1>8

\* The cursor moves, and nothing else.
LEMMA CursorSteps ==
    ASSUME IInv, NEW n \in 0 .. Len(Text), Cursor(n)
    PROVE  IInv' /\ Stepped
<1>1. /\ TypeOK /\ IsRow(screen) /\ line \in Lines /\ buff \in Lines /\ Text \in Seq(Characters)
      /\ Len(line) \in Nat /\ Len(buff) \in Nat /\ Len(Text) \in Nat
  BY TypedHalves DEF IInv, Lines
<1> DEFINE t == SubSeq(Text, 1, n)
           u == SubSeq(Text, n + 1, Len(Text))
<1>2. t \in Seq(Characters) /\ Len(t) = n /\ u \in Seq(Characters) /\ t \o u = Text
  BY <1>1, CutAt
<1>3. /\ line' = t /\ buff' = u /\ UNCHANGED <<copy, hist, index, searchVars, besideVars>>
      /\ \/ Len(t) < Len(line) /\ Draw(Back(screen, Len(line) - Len(t)))
         \/ ~(Len(t) < Len(line)) /\ Draw(Put(screen, SubSeq(t, Len(line) + 1, Len(t))))
  BY DEF Cursor, MoveTo
<1> HIDE DEF t, u
<1>4. line' \in Lines /\ buff' \in Lines /\ line' \o buff' = line \o buff
  BY <1>2, <1>3 DEF Lines, Text
<1>5. IsRow(screen')
  <2>1. ASSUME ~(Len(t) < Len(line))
        PROVE  IsRow(Put(screen, SubSeq(t, Len(line) + 1, Len(t))))
    <3>1. Len(line) + 1 \in 1 .. Len(t) + 1 /\ Len(t) \in (Len(line) + 1) - 1 .. Len(t)
          /\ Len(t) - (Len(line) + 1) + 1 \in Nat
      BY <1>1, <1>2, <2>1
    <3>2. Len(SubSeq(t, Len(line) + 1, Len(t))) \in Nat
      BY <1>2, <3>1, PartOf
    <3> QED
      BY <1>1, <3>2, PutIs
  <2>2. IsRow(Back(screen, Len(line) - Len(t)))
    <3>1. Len(line) - Len(t) \in Int
      BY <1>1, <1>2
    <3> QED
      BY <1>1, <3>1, BackIs
  <2> QED
    BY <1>1, <1>3, <2>1, <2>2, DrawIs
<1>6. /\ copy' \in Nat \cup {Underflow}
      /\ killers' \in Nat /\ clearing' \in BOOLEAN /\ crashed' \in BOOLEAN
  BY <1>1, <1>3 DEF TypeOK, besideVars
<1>7. IInv'
  BY <1>3, <1>4, <1>5, <1>6, EditKeeps
<1>8. Stepped
  BY <1>3, <1>4, MoveStep
<1> QED
  BY <1>7, <1>8

\* ctrl+right and ctrl+left stay in the line.
LEMMA WordRightIs ==
    ASSUME TypeOK
    PROVE  WordRight \in Len(line) .. Len(Text) /\ (buff # <<>> => WordRight > Len(line))
<1>1. /\ Len(line) \in Nat /\ Len(buff) \in Nat /\ Len(Text) = Len(line) + Len(buff)
      /\ buff # <<>> => Len(buff) > 0
  BY TypedHalves, EmptySeq DEF Lines
<1> DEFINE I == {i \in 1 .. Len(buff) : IsSpace(buff[i])}
           s == SelectInSeq(buff, IsSpace)
<1>2. s = IF I # {} THEN Min(I) ELSE 0
  BY DEF SelectInSeq
<1>3. I # {} => Min(I) \in I
  <2>1. I \in SUBSET Nat
    OBVIOUS
  <2> HIDE DEF I
  <2> QED
    BY <2>1, LeastOf
<1>4. s \in 0 .. Len(buff)
  BY <1>1, <1>2, <1>3
<1> HIDE DEF s
<1>5. WordRight = IF s = 0 THEN Len(Text) ELSE Len(line) + s
  BY DEF WordRight, s
<1> QED
  BY <1>1, <1>4, <1>5

LEMMA GreatestOrNone ==
    ASSUME NEW n \in Nat, NEW I \in SUBSET (1 .. n)
    PROVE  LET k == IF I # {} THEN Max(I) ELSE 0
           IN  k \in 0 .. n /\ (k # 0 => k \in I) /\ \A i \in I : i <= k
<1>1. CASE I = {}
  BY <1>1
<1>2. CASE I # {}
  <2>1. I \in SUBSET (0 .. n)
    OBVIOUS
  <2>2. PICK m : m = Max(I)
    OBVIOUS
  <2>3. m \in I /\ \A x \in I : x <= m
    BY <1>2, <2>1, <2>2, GreatestOf
  <2>4. m \in 0 .. n
    BY <2>3
  <2> QED
    BY <1>2, <2>2, <2>3, <2>4
<1> QED
  BY <1>1, <1>2

\* The last space of a sequence
LEMMA LastSpace ==
    ASSUME NEW S, NEW t \in Seq(S)
    PROVE  \E k \in 0 .. Len(t) :
               /\ k = SelectLastInSeq(t, IsSpace)
               /\ k # 0 => IsSpace(t[k])
               /\ \A i \in 1 .. Len(t) : i > k => ~IsSpace(t[i])
<1> DEFINE I == {i \in 1 .. Len(t) : IsSpace(t[i])}
           k == IF I # {} THEN Max(I) ELSE 0
<1>1. Len(t) \in Nat
  BY LenProperties
<1>2. \A i \in 1 .. Len(t) : i \in I <=> IsSpace(t[i])
  OBVIOUS
<1>3. I \in SUBSET (1 .. Len(t))
  OBVIOUS
<1>4. SelectLastInSeq(t, IsSpace) = k
  BY DEF SelectLastInSeq
<1> HIDE DEF I
<1>5. k \in 0 .. Len(t) /\ (k # 0 => k \in I) /\ \A i \in I : i <= k
  BY <1>1, <1>3, GreatestOrNone
<1> HIDE DEF k
<1>6. k # 0 => IsSpace(t[k])
  BY <1>1, <1>2, <1>3, <1>5
<1>7. ASSUME NEW i \in 1 .. Len(t), i > k
      PROVE  ~IsSpace(t[i])
  <2>1. i \notin I
    <3>1. i \in Int /\ k \in Int /\ ~(i <= k)
      BY <1>1, <1>5, <1>7
    <3> QED
      BY <1>5, <3>1
  <2> QED
    BY <1>2, <2>1
<1> QED
  BY <1>4, <1>5, <1>6, <1>7

LEMMA WordLeftIs ==
    ASSUME TypeOK, line # <<>>
    PROVE  WordLeft \in 0 .. Len(line) - 1
<1>1. line \in Seq(Characters) /\ Len(line) \in Nat /\ Len(line) > 0
  BY TypedHalves, EmptySeq DEF Lines
<1> DEFINE s == SelectLastInSeq(line, IsSpace)
<1>2. s \in 0 .. Len(line)
  <2>1. PICK k \in 0 .. Len(line) : k = SelectLastInSeq(line, IsSpace)
    BY <1>1, LastSpace
  <2> QED
    BY <2>1
<1> HIDE DEF s
<1>3. WordLeft = IF s = 0 THEN 0 ELSE s - 1
  BY DEF WordLeft, s
<1> QED
  BY <1>1, <1>2, <1>3

LEMMA MoveSteps ==
    ASSUME IInv, LeftArrow \/ RightArrow \/ CtrlA \/ CtrlE \/ CtrlRight \/ CtrlLeft
    PROVE  IInv' /\ Stepped
<1>1. /\ TypeOK /\ Len(line) \in Nat /\ Len(buff) \in Nat /\ Len(Text) = Len(line) + Len(buff)
      /\ (buff # <<>> => Len(buff) > 0) /\ (line # <<>> => Len(line) > 0)
  BY TypedHalves, EmptySeq DEF IInv, Lines
<1>2. CASE LeftArrow
  <2>1. Len(line) - 1 \in 0 .. Len(Text) /\ Cursor(Len(line) - 1)
    BY <1>1, <1>2 DEF LeftArrow
  <2> QED
    BY <2>1, CursorSteps
<1>3. CASE RightArrow
  <2>1. Len(line) + 1 \in 0 .. Len(Text) /\ Cursor(Len(line) + 1)
    BY <1>1, <1>3 DEF RightArrow
  <2> QED
    BY <2>1, CursorSteps
<1>4. CASE CtrlA
  <2>1. \A n \in 0 .. Len(Text) : Cursor(n) => IInv' /\ Stepped
    BY CursorSteps
  <2> QED
    BY <1>1, <1>4, <2>1 DEF CtrlA
<1>5. CASE CtrlE
  <2>1. Len(Text) \in 0 .. Len(Text) /\ Cursor(Len(Text))
    BY <1>1, <1>5 DEF CtrlE
  <2> QED
    BY <2>1, CursorSteps
<1>6. CASE CtrlRight
  <2>1. WordRight \in 0 .. Len(Text) /\ Cursor(WordRight)
    BY <1>1, <1>6, WordRightIs DEF CtrlRight
  <2> QED
    BY <2>1, CursorSteps
<1>7. CASE CtrlLeft
  <2>1. WordLeft \in 0 .. Len(Text) /\ Cursor(WordLeft)
    BY <1>1, <1>7, WordLeftIs DEF CtrlLeft
  <2> QED
    BY <2>1, CursorSteps
<1> QED
  BY <1>2, <1>3, <1>4, <1>5, <1>6, <1>7

\* The keys that take something away.
LEMMA PrintsRow ==
    ASSUME NEW s, IsRow(s), NEW S, NEW t \in Seq(S)
    PROVE  IsRow(Put(s, t)) /\ IsRow(Reprint(s, t)) /\ IsRow(Reprint(s, Append(t, " ")))
<1>1. Len(t) \in Nat
  BY LenProperties
<1>2. Len(Append(t, " ")) \in Nat
  <2>1. t \in Seq(S \cup {" "})
    BY SeqMonotonic
  <2>2. Append(t, " ") \in Seq(S \cup {" "})
    BY <2>1, AppendProperties
  <2> QED
    BY <2>2, LenProperties
<1> QED
  BY <1>1, <1>2, PutIs, ReprintIs

LEMMA BlanksRow ==
    ASSUME NEW s, IsRow(s), NEW n \in Nat
    PROVE  IsRow(Reprint(s, Spaces(n)))
<1>1. Len(Spaces(n)) \in Nat
  BY SpacesAre
<1> QED
  BY <1>1, ReprintIs

LEMMA BackspaceSteps ==
    ASSUME IInv, Backspace
    PROVE  IInv' /\ Stepped
<1>1. /\ TypeOK /\ IsRow(screen) /\ line \in Seq(Characters) /\ buff \in Seq(Characters)
      /\ Len(line) \in Nat /\ Len(line) > 0
  <2>1. /\ TypeOK /\ IsRow(screen) /\ line \in Seq(Characters) /\ buff \in Seq(Characters)
        /\ Len(line) \in Nat
    BY TypedHalves DEF IInv, Lines
  <2>2. line # <<>>
    BY DEF Backspace
  <2> QED
    BY <2>1, <2>2, EmptySeq
<1>2. /\ line' = SubSeq(line, 1, Len(line) - 1) /\ buff' = buff
      /\ UNCHANGED <<hist, index, searchVars, besideVars>>
      /\ copy' = (IF Newest /\ copy > 0 THEN copy - 1 ELSE copy)
      /\ Draw(Reprint(Back(screen, 1), Append(buff, " ")))
  BY DEF Backspace, Front, PopCopy
<1>3. line' \in Lines /\ Stepped
  <2>1. Len(line) - 1 \in 0 .. Len(line) - 1
    BY <1>1
  <2>2. hist' = hist
    BY <1>2
  <2> QED
    BY <1>1, <1>2, <2>1, <2>2, CutLeftStep
<1>4. IsRow(screen')
  <2>1. IsRow(Back(screen, 1))
    BY <1>1, BackIs
  <2> QED
    BY <1>1, <1>2, <2>1, PrintsRow, DrawIs
<1>5. copy' \in Nat \cup {Underflow}
  <2>1. copy' = copy \/ (copy > 0 /\ copy' = copy - 1)
    BY <1>2
  <2>2. copy \in Nat \cup {Underflow}
    BY <1>1 DEF TypeOK
  <2> QED
    BY <2>1, <2>2 DEF Underflow
<1>6. buff' \in Lines /\ killers' \in Nat /\ clearing' \in BOOLEAN /\ crashed' \in BOOLEAN
  BY <1>1, <1>2 DEF TypeOK, besideVars
<1>7. IInv'
  BY <1>2, <1>3, <1>4, <1>5, <1>6, EditKeeps
<1> QED
  BY <1>3, <1>7

\* One character right of the cursor goes, as ctrl+d, delete and the thread of ctrl+k have it.
LEMMA TailStep ==
    ASSUME TypeOK, buff # <<>>, buff' = Tail(buff), line' = line, hist' = hist
    PROVE  buff' \in Lines /\ Stepped
<1>1. buff \in Seq(Characters) /\ Len(buff) \in Nat /\ Len(buff) > 0
  BY TypedHalves, EmptySeq DEF Lines
<1>2. buff' = SubSeq(buff, 1 + 1, Len(buff)) /\ 1 \in 1 .. Len(buff)
  BY <1>1, TailIsSubSeq
<1> QED
  BY <1>1, <1>2, CutRightStep

LEMMA EraseSteps ==
    ASSUME IInv, CtrlD \/ Delete
    PROVE  IInv' /\ Stepped
<1>1. /\ TypeOK /\ IsRow(screen)
      /\ EraseRight
  BY DEF IInv, CtrlD, Delete
<1>2. /\ buff # <<>> /\ buff' = Tail(buff)
      /\ line' = line /\ UNCHANGED <<hist, index, searchVars>> /\ hist' = hist
      /\ killers' = killers /\ clearing' = clearing
      /\ Draw(Reprint(screen, Append(buff', " ")))
  BY <1>1 DEF EraseRight
<1>3. buff' \in Lines /\ Stepped
  BY <1>1, <1>2, TailStep
<1>4. IsRow(screen')
  BY <1>1, <1>2, <1>3, PrintsRow, DrawIs DEF Lines
<1>5. copy' \in Nat \cup {Underflow} /\ crashed' \in BOOLEAN
  <2>1. CASE CtrlD
    BY <1>1, <2>1 DEF CtrlD, TypeOK
  <2>2. CASE Delete /\ copy > 0 /\ copy' = copy - 1 /\ crashed' = crashed
    BY <1>1, <2>2 DEF TypeOK, Underflow
  <2>3. CASE copy' = Underflow /\ crashed' \in BOOLEAN
    BY <2>3
  <2>4. CASE UNCHANGED <<copy, crashed>>
    BY <1>1, <2>4 DEF TypeOK
  <2> QED
    BY <2>1, <2>2, <2>3, <2>4 DEF Delete
<1>6. line' \in Lines /\ killers' \in Nat /\ clearing' \in BOOLEAN
  BY <1>1, <1>2 DEF TypeOK
<1>7. IInv'
  BY <1>2, <1>3, <1>4, <1>5, <1>6, EditKeeps
<1> QED
  BY <1>3, <1>7

LEMMA CtrlDeleteSteps ==
    ASSUME IInv, CtrlDelete
    PROVE  IInv' /\ Stepped
<1>1. /\ TypeOK /\ IsRow(screen) /\ line \in Lines /\ buff \in Seq(Characters)
      /\ Len(line) \in Nat /\ Len(buff) \in Nat /\ Len(Text) = Len(line) + Len(buff)
  BY TypedHalves DEF IInv, Lines
<1> DEFINE n == WordRight - Len(line)
<1>2. n \in 0 .. Len(buff) /\ (buff # <<>> => n \in 1 .. Len(buff))
  BY <1>1, WordRightIs
<1>3. /\ buff' = SubSeq(buff, n + 1, Len(buff)) /\ line' = line
      /\ UNCHANGED <<copy, hist, index, searchVars, besideVars>> /\ hist' = hist
      /\ Draw(Reprint(Reprint(screen, Spaces(Len(buff))), buff'))
  BY DEF CtrlDelete
<1> HIDE DEF n
<1>4. buff' \in Lines /\ Stepped
  <2>1. CASE buff # <<>>
    BY <1>1, <1>2, <1>3, <2>1, CutRightStep
  <2>2. CASE buff = <<>>
    <3>1. Len(buff) = 0 /\ n = 0
      BY <1>1, <1>2, <2>2
    <3>2. SubSeq(buff, n + 1, Len(buff)) = <<>>
      BY <3>1, SubSeqEmpty
    <3>3. buff' = buff
      BY <1>3, <2>2, <3>2
    <3> QED
      BY <1>1, <1>3, <3>3, StayStep DEF Lines
  <2> QED
    BY <2>1, <2>2
<1>5. IsRow(screen')
  BY <1>1, <1>3, <1>4, BlanksRow, PrintsRow, DrawIs DEF Lines
<1>6. /\ line' \in Lines /\ copy' \in Nat \cup {Underflow}
      /\ killers' \in Nat /\ clearing' \in BOOLEAN /\ crashed' \in BOOLEAN
  BY <1>1, <1>3 DEF TypeOK, besideVars
<1>7. IInv'
  BY <1>3, <1>4, <1>5, <1>6, EditKeeps
<1> QED
  BY <1>4, <1>7

LEMMA CtrlWSteps ==
    ASSUME IInv, CtrlW
    PROVE  IInv' /\ Stepped
<1>1. /\ TypeOK /\ IsRow(screen) /\ line # <<>> /\ buff \in Seq(Characters)
      /\ Len(line) \in Nat /\ Len(buff) \in Nat
  BY TypedHalves DEF IInv, Lines, CtrlW
<1>2. WordLeft \in 0 .. Len(line) - 1 /\ Len(line) - WordLeft \in Nat
  <2>1. WordLeft \in 0 .. Len(line) - 1
    BY <1>1, WordLeftIs
  <2> QED
    BY <1>1, <2>1
<1> DEFINE s == Rub(Reprint(screen, Spaces(Len(buff))), Len(line) - WordLeft)
<1>3. /\ line' = SubSeq(line, 1, WordLeft) /\ buff' = buff /\ hist' = hist
      /\ UNCHANGED <<copy, hist, index, searchVars, besideVars>>
      /\ Draw(Reprint(s, IF line' = <<>> THEN <<" ">> \o buff ELSE buff))
  BY DEF CtrlW
<1>4. IsRow(s)
  BY <1>1, <1>2, BlanksRow, RubIs
<1> HIDE DEF s
<1>5. line' \in Lines /\ Stepped
  BY <1>1, <1>2, <1>3, CutLeftStep
<1>6. IsRow(screen')
  <2>1. buff \in Seq(Characters \cup {" "}) /\ <<" ">> \in Seq(Characters \cup {" "})
    <3>1. buff \in Seq(Characters \cup {" "})
      BY <1>1, SeqMonotonic
    <3>2. \A T : \A e \in T : <<e>> \in Seq(T)
      OBVIOUS
    <3> QED
      BY <3>1, <3>2
  <2>2. <<" ">> \o buff \in Seq(Characters \cup {" "})
    BY <2>1, ConcatProperties
  <2>3. IsRow(Reprint(s, <<" ">> \o buff)) /\ IsRow(Reprint(s, buff))
    BY <1>4, <2>1, <2>2, PrintsRow
  <2> QED
    BY <1>1, <1>3, <2>3, DrawIs
<1>7. /\ buff' \in Lines /\ copy' \in Nat \cup {Underflow}
      /\ killers' \in Nat /\ clearing' \in BOOLEAN /\ crashed' \in BOOLEAN
  BY <1>1, <1>3 DEF TypeOK, besideVars
<1>8. IInv'
  BY <1>3, <1>5, <1>6, <1>7, EditKeeps
<1> QED
  BY <1>5, <1>8

\* The keys and the steps beside them that keep both halves, or pop what is on top
LEMMA BesideSteps ==
    ASSUME IInv, CtrlK \/ Killer \/ CtrlL \/ ClearScreen
    PROVE  IInv' /\ Stepped
<1>1. /\ TypeOK /\ IsRow(screen) /\ line \in Seq(Characters) /\ buff \in Seq(Characters)
      /\ Len(buff) \in Nat /\ Len(buff) + 1 \in Nat
      /\ killers \in Nat /\ clearing \in BOOLEAN /\ crashed \in BOOLEAN
  BY TypedHalves DEF IInv, Lines, TypeOK
<1>2. CASE CtrlK
  <2>1. /\ UNCHANGED <<line, buff, hist, index, searchVars, copy>>
        /\ Draw(Reprint(screen, Spaces(Len(buff) + 1)))
        /\ killers' = killers + 1 /\ clearing' = clearing /\ crashed' = crashed
    BY <1>2 DEF CtrlK
  <2>2. IsRow(screen')
    <3>1. IsRow(Reprint(screen, Spaces(Len(buff) + 1)))
      BY <1>1, BlanksRow
    <3> QED
      BY <1>1, <2>1, <3>1, DrawIs
  <2> QED
    BY <1>1, <2>1, <2>2, StandsStill
<1>3. CASE Killer
  <2>1. /\ line' = line /\ hist' = hist /\ UNCHANGED <<hist, index, searchVars>> /\ screen' = screen
        /\ copy' = copy /\ clearing' = clearing /\ crashed' = crashed
    BY <1>3 DEF Killer
  <2>2. IsRow(screen')
    BY <1>1, <2>1 DEF IsRow, Width
  <2>3. CASE buff = <<>>
    <3>1. buff' = buff /\ killers' \in Nat
      BY <1>1, <1>3, <2>3 DEF Killer
    <3>2. UNCHANGED <<line, buff, hist, index, searchVars, copy>>
      BY <2>1, <3>1
    <3> QED
      BY <1>1, <2>1, <2>2, <3>1, <3>2, StandsStill
  <2>4. CASE buff # <<>>
    <3>1. buff' = Tail(buff) /\ killers' = killers
      BY <1>3, <2>4 DEF Killer
    <3>2. buff' \in Lines /\ Stepped
      BY <1>1, <2>1, <2>4, <3>1, TailStep
    <3>3. line' \in Lines /\ copy' \in Nat \cup {Underflow}
      BY <1>1, <2>1 DEF TypeOK
    <3>4. killers' \in Nat /\ clearing' \in BOOLEAN /\ crashed' \in BOOLEAN
      BY <1>1, <2>1, <3>1
    <3>5. IInv'
      BY <2>1, <2>2, <3>2, <3>3, <3>4, EditKeeps
    <3> QED
      BY <3>2, <3>5
  <2> QED
    BY <2>3, <2>4
<1>4. CASE CtrlL
  <2>1. /\ UNCHANGED <<line, buff, hist, index, searchVars, copy>>
        /\ Draw(Reprint(Put(BlankRow, line), buff))
        /\ killers' = killers /\ clearing' \in {clearing, TRUE} /\ crashed' = crashed
    BY <1>4 DEF CtrlL
  <2>2. IsRow(screen')
    <3>1. IsRow(Reprint(Put(BlankRow, line), buff))
      BY <1>1, BlankIs, PrintsRow
    <3> QED
      BY <1>1, <2>1, <3>1, DrawIs
  <2>3. clearing' \in BOOLEAN
    BY <1>1, <2>1
  <2> QED
    BY <1>1, <2>1, <2>2, <2>3, StandsStill
<1>5. CASE ClearScreen
  <2>1. /\ UNCHANGED <<line, buff, hist, index, searchVars, copy>> /\ Draw(BlankRow)
        /\ killers' = killers /\ clearing' = FALSE /\ crashed' = crashed
    BY <1>5 DEF ClearScreen
  <2>2. IsRow(screen')
    BY <1>1, <2>1, BlankIs, DrawIs
  <2> QED
    BY <1>1, <2>1, <2>2, StandsStill
<1> QED
  BY <1>2, <1>3, <1>4, <1>5

\* What m_buff may hold after a race is still a text.
LEMMA RaceKeeps ==
    ASSUME IInv, Race
    PROVE  IInv' /\ ~Undisturbed
<1>1. /\ TypeOK /\ IsRow(screen) /\ line \in Seq(Characters) /\ buff \in Seq(Characters)
      /\ killers \in Nat /\ clearing \in BOOLEAN /\ copy \in Nat \cup {Underflow}
  BY TypedHalves DEF IInv, Lines, TypeOK
<1>2. /\ line' = line /\ UNCHANGED <<hist, index, searchVars>> /\ screen' = screen
      /\ copy' = copy /\ clearing' = clearing
  BY DEF Race
<1>3. buff' \in Seq(Characters)
  <2>1. CASE buff' \in SeqOf(ToSet(Text) \cup Stale, MaxText - Len(line))
    <3>1. Text \in Seq(Characters)
      BY <1>1, ConcatProperties DEF Text
    <3>2. ToSet(Text) \cup Stale \subseteq Characters
      BY <3>1, DataAssumption DEF ToSet
    <3>3. PICK m \in 0 .. MaxText - Len(line) : buff' \in [1 .. m -> ToSet(Text) \cup Stale]
      BY <2>1 DEF SeqOf
    <3>4. buff' \in [1 .. m -> Characters] /\ m \in Nat
      BY <3>2, <3>3
    <3> QED
      BY <3>4
  <2>2. CASE buff' = buff
    BY <1>1, <2>2
  <2> QED
    BY <2>1, <2>2 DEF Race
<1>4. killers' \in Nat /\ crashed' \in BOOLEAN
  <2>1. \A n \in 0 .. killers : n \in Nat
    BY <1>1
  <2>2. crashed \in BOOLEAN
    BY <1>1 DEF TypeOK
  <2>3. \/ killers' \in 0 .. killers /\ crashed' = crashed
        \/ crashed' = TRUE /\ killers' = killers
    BY Zenon DEF Race
  <2> QED
    BY <1>1, <2>1, <2>2, <2>3
<1>5. IsRow(screen')
  BY <1>1, <1>2 DEF IsRow, Width
<1>6. IInv'
  BY <1>1, <1>2, <1>3, <1>4, <1>5, EditKeeps DEF Lines
<1> QED
  BY <1>1, <1>6 DEF Race, Undisturbed

LEMMA StutterSteps ==
    ASSUME IInv, UNCHANGED vars
    PROVE  IInv' /\ Stepped
<1>1. /\ UNCHANGED <<line, buff, hist, index, searchVars, copy>> /\ screen' = screen
      /\ killers' = killers /\ clearing' = clearing /\ crashed' = crashed
  BY DEF vars, editVars, besideVars
<1>2. IsRow(screen) /\ killers \in Nat /\ clearing \in BOOLEAN /\ crashed \in BOOLEAN
  BY DEF IInv, TypeOK
<1>3. IsRow(screen')
  BY <1>1, <1>2 DEF IsRow, Width
<1> QED
  BY <1>1, <1>2, <1>3, StandsStill

-----------------------------------------------------------------------------
(* The tab key.                                                            *)

\* Where the word begins that is completed
LEMMA StemIs ==
    ASSUME TypeOK
    PROVE  /\ Stem \in Lines /\ WordStart \in 0 .. Len(Stem) /\ Len(Word) \in Nat
           /\ line # <<>> =>
                  /\ WordStart \in 0 .. Len(line) - 1
                  /\ SubSeq(Stem, 1, WordStart) = SubSeq(line, 1, WordStart)
                  /\ WordStart = 0 \/ IsSpace(line[WordStart])
                  /\ \A i \in WordStart + 1 .. Len(line) - 1 : ~IsSpace(line[i])
<1>1. line \in Seq(Characters) /\ Len(line) \in Nat /\ (line # <<>> => Len(line) > 0)
  BY TypedHalves, EmptySeq DEF Lines
<1>2. /\ Stem \in Seq(Characters) /\ Len(Stem) \in {Len(line), Len(line) - 1}
      /\ Stem = SubSeq(line, 1, Len(Stem))
      /\ Len(Stem) = Len(line) /\ line # <<>> => ~IsSpace(line[Len(line)])
  <2>1. CASE line # <<>> /\ IsSpace(Last(line))
    <3>1. Stem = SubSeq(line, 1, Len(line) - 1) /\ Len(line) - 1 \in 0 .. Len(line)
      <4>1. Stem = SubSeq(line, 1, Len(line) - 1)
        BY <2>1 DEF Stem, Front
      <4>2. Len(line) - 1 \in 0 .. Len(line)
        BY <1>1, <2>1
      <4> QED
        BY <4>1, <4>2
    <3>2. Stem \in Seq(Characters) /\ Len(Stem) = Len(line) - 1
      BY <1>1, <3>1, CutAt
    <3>3. Len(line) - 1 # Len(line)
      BY <1>1
    <3> QED
      BY <3>1, <3>2, <3>3
  <2>2. CASE ~(line # <<>> /\ IsSpace(Last(line)))
    <3>1. Stem = line
      BY <2>2 DEF Stem
    <3>2. SubSeq(line, 1, Len(line)) = line
      BY <1>1, SubSeqFull
    <3>3. line # <<>> => ~IsSpace(line[Len(line)])
      BY <2>2 DEF Last
    <3> QED
      BY <1>1, <3>1, <3>2, <3>3
  <2> QED
    BY <2>1, <2>2
<1>3. /\ Len(Stem) \in Nat /\ Len(Stem) \in 0 .. Len(line)
      /\ line # <<>> => Len(line) - 1 <= Len(Stem)
  <2>1. Len(Stem) \in Nat
    BY <1>2, LenProperties
  <2> QED
    BY <1>1, <1>2, <2>1
<1>4. \A i \in 1 .. Len(Stem) : Stem[i] = line[i]
  <2>1. 1 \in 1 .. Len(line) + 1 /\ Len(Stem) \in 1 - 1 .. Len(line)
    BY <1>1, <1>3
  <2>2. \A i \in 1 .. Len(Stem) - 1 + 1 : SubSeq(line, 1, Len(Stem))[i] = line[1 + i - 1]
    BY <1>1, <2>1, PartOf
  <2> QED
    BY <1>2, <1>3, <2>2
<1>5. PICK k \in 0 .. Len(Stem) :
          /\ k = SelectLastInSeq(Stem, IsSpace)
          /\ k # 0 => IsSpace(Stem[k])
          /\ \A i \in 1 .. Len(Stem) : i > k => ~IsSpace(Stem[i])
  BY <1>2, LastSpace
<1>6. WordStart = k
  BY <1>5 DEF WordStart
<1>7. Len(Word) \in Nat
  <2>1. k + 1 \in 1 .. Len(Stem) + 1 /\ Len(Stem) \in (k + 1) - 1 .. Len(Stem)
        /\ Len(Stem) - (k + 1) + 1 \in Nat
    BY <1>3
  <2>2. Len(SubSeq(Stem, k + 1, Len(Stem))) = Len(Stem) - (k + 1) + 1
    BY <1>2, <2>1, PartOf
  <2> QED
    BY <1>6, <2>1, <2>2 DEF Word
<1>8. ASSUME line # <<>>
      PROVE  /\ k \in 0 .. Len(line) - 1
             /\ SubSeq(Stem, 1, k) = SubSeq(line, 1, k)
             /\ k = 0 \/ IsSpace(line[k])
             /\ \A i \in k + 1 .. Len(line) - 1 : ~IsSpace(line[i])
  <2>1. k # 0 => k \in 1 .. Len(Stem) /\ IsSpace(line[k])
    <3>1. k # 0 => k \in 1 .. Len(Stem)
      BY <1>3
    <3>2. k # 0 => Stem[k] = line[k]
      BY <1>4, <3>1
    <3> QED
      BY <1>5, <3>1, <3>2
  <2>2. k \in 0 .. Len(line) - 1
    <3>1. k # Len(line)
      BY <1>1, <1>2, <1>3, <1>8, <2>1, SMTT(20)
    <3> QED
      BY <1>1, <1>3, <1>8, <3>1
  <2>3. SubSeq(Stem, 1, k) = SubSeq(line, 1, k)
    <3>1. SubSeq(line, 1, Len(Stem)) \o SubSeq(line, Len(Stem) + 1, Len(line)) = line
          /\ SubSeq(line, Len(Stem) + 1, Len(line)) \in Seq(Characters)
      BY <1>1, <1>3, CutAt
    <3>2. SubSeq(Stem \o SubSeq(line, Len(Stem) + 1, Len(line)), 1, k) = SubSeq(Stem, 1, k)
      BY <1>2, <3>1, PartOfLeft
    <3> QED
      BY <1>2, <3>1, <3>2
  <2>4. ASSUME NEW i \in k + 1 .. Len(line) - 1
        PROVE  ~IsSpace(line[i])
    <3>1. i \in 1 .. Len(Stem) /\ i > k
      BY <1>1, <1>3, <1>8
    <3> QED
      BY <1>4, <1>5, <3>1
  <2> QED
    BY <2>1, <2>2, <2>3, <2>4
<1> QED
  BY <1>2, <1>5, <1>6, <1>7, <1>8 DEF Lines

LEMMA CompleteStep ==
    ASSUME TypeOK, NEW k \in 0 .. Len(line) - 1, k = 0 \/ IsSpace(line[k]),
           \A i \in k + 1 .. Len(line) - 1 : ~IsSpace(line[i]),
           NEW q \in Lines, line' = SubSeq(line, 1, k) \o q, buff' = buff, hist' = hist
    PROVE  line' \in Lines /\ Stepped
<1>1. /\ line \in Seq(Characters) /\ buff \in Seq(Characters) /\ q \in Seq(Characters)
      /\ Len(line) \in Nat /\ TF!Right = buff
  BY TypedHalves DEF Lines
<1> DEFINE p == SubSeq(line, 1, k)
<1>2. k \in 0 .. Len(line)
  BY <1>1
<1>3. p \in Seq(Characters) /\ Len(p) = k /\ SubSeq(Text, 1, k) = p
  BY <1>1, <1>2, CutAt, PartOfLeft DEF Text
<1> HIDE DEF p
<1>4. /\ line' = p \o q /\ line' \in Seq(Characters) /\ Len(q) \in Nat
      /\ Len(line') = Len(p) + Len(q) /\ SubSeq(line', 1, Len(p)) = p
  BY <1>1, <1>3, Halves DEF p
<1>5. Len(line') \in Nat /\ Len(line') >= k /\ k \in 0 .. Len(line')
  BY <1>3, <1>4
<1>6. SubSeq(line' \o buff, 1, k) = p
  BY <1>1, <1>3, <1>4, <1>5, PartOfLeft
<1>7. SubSeq(line' \o buff, Len(line') + 1, Len(line' \o buff)) = buff
  <2>1. PICK l : l = line'
    OBVIOUS
  <2>2. l \in Seq(Characters)
    BY <1>4, <2>1
  <2>3. SubSeq(l \o buff, Len(l) + 1, Len(l \o buff)) = buff
    BY <1>1, <2>2, Halves
  <2> QED
    BY <2>1, <2>3
<1>8. Text' = line' \o buff
  BY DEF Text
<1>9. \A i \in 1 .. Len(line) : Text[i] = line[i]
  <2>1. \A i \in 1 .. Len(line) + Len(buff) : Text[i] = IF i <= Len(line) THEN line[i]
                                                         ELSE buff[i - Len(line)]
    BY <1>1, ConcatProperties DEF Text
  <2>2. Len(buff) \in Nat
    BY <1>1, LenProperties
  <2> QED
    BY <1>1, <2>1, <2>2
<1>10. /\ k = 0 \/ IsSpace(Text[k])
       /\ \A i \in k + 1 .. Len(line) - 1 : ~IsSpace(Text[i])
  <2>1. k # 0 => k \in 1 .. Len(line)
    BY <1>1, <1>2
  <2>2. \A i \in k + 1 .. Len(line) - 1 : i \in 1 .. Len(line)
    BY <1>1, <1>2
  <2> QED
    BY <1>9, <2>1, <2>2
<1>11. TF!Complete
  <2>1. /\ k = 0 \/ Text[k] = " "
        /\ \A i \in k + 1 .. Len(line) - 1 : Text[i] # " "
    BY <1>10, Zenon DEF IsSpace
  <2>2. /\ Len(line') >= k /\ SubSeq(Text', 1, k) = SubSeq(Text, 1, k)
    BY <1>3, <1>5, <1>6, <1>8
  <2>3. k \in 0 .. Len(line) - 1
    OBVIOUS
  <2>4. SubSeq(Text', Len(line') + 1, Len(Text')) = TF!Right
    BY <1>1, <1>7, <1>8
  <2> QED
    BY <2>1, <2>2, <2>3, <2>4, Zenon DEF TF!Complete
<1> QED
  BY <1>4, <1>11 DEF Stepped, TF!Next, Lines

LEMMA QuoteIs ==
    ASSUME NEW n \in Lines
    PROVE  Quote(n) \in Lines /\ <<"/">> \o n \in Lines
<1>1. \A S : \A e \in S : <<e>> \in Seq(S)
  OBVIOUS
<1>2. "\"" \in Characters /\ "/" \in Characters
  BY DEF Characters
<1>3. <<"\"">> \in Lines /\ <<"/">> \in Lines
  BY <1>1, <1>2 DEF Lines
<1>4. \A s, t \in Lines : s \o t \in Lines
  BY ConcatProperties DEF Lines
<1>5. <<"\"">> \o n \o <<"\"">> \in Lines
  BY <1>3, <1>4
<1> QED
  BY <1>3, <1>4, <1>5 DEF Quote

LEMMA CompleteOneSteps ==
    ASSUME IInv, NEW n \in Lines, CompleteOne(n)
    PROVE  IInv' /\ Stepped
<1>1. /\ TypeOK /\ IsRow(screen) /\ Len(line) \in Nat
      /\ killers \in Nat /\ clearing \in BOOLEAN /\ crashed \in BOOLEAN
  BY TypedHalves DEF IInv, TypeOK
<1>2. UNCHANGED <<hist, index, searchVars>> /\ killers' = killers /\ clearing' = clearing
  BY DEF CompleteOne
<1>3. CASE line = <<>>
  <2>1. crashed' = TRUE /\ UNCHANGED <<line, buff, copy, screen>>
    BY <1>3 DEF CompleteOne, editVars
  <2>2. IsRow(screen')
    BY <1>1, <2>1 DEF IsRow, Width
  <2> QED
    BY <1>1, <1>2, <2>1, <2>2, StandsStill
<1>4. CASE line # <<>>
  <2> DEFINE q == Quote(n)
  <2>1. /\ line' = SubSeq(Stem, 1, WordStart) \o q /\ buff' = buff /\ crashed' = crashed
        /\ copy' = Len(line') /\ hist' = hist
        /\ Draw(Put(Rub(screen, Len(line)), line'))
    BY <1>2, <1>4 DEF CompleteOne
  <2>2. q \in Lines
    BY QuoteIs
  <2> HIDE DEF q
  <2>3. /\ WordStart \in 0 .. Len(line) - 1
        /\ SubSeq(Stem, 1, WordStart) = SubSeq(line, 1, WordStart)
        /\ WordStart = 0 \/ IsSpace(line[WordStart])
        /\ \A i \in WordStart + 1 .. Len(line) - 1 : ~IsSpace(line[i])
    BY <1>1, <1>4, StemIs
  <2>4. line' \in Lines /\ Stepped
    BY <1>1, <2>1, <2>2, <2>3, CompleteStep
  <2>5. IsRow(screen')
    BY <1>1, <2>1, <2>4, RubIs, PrintsRow, DrawIs DEF Lines
  <2>6. copy' \in Nat \cup {Underflow}
    BY <2>1, <2>4, LenProperties DEF Lines
  <2>7. buff' \in Lines /\ killers' \in Nat /\ clearing' \in BOOLEAN /\ crashed' \in BOOLEAN
    BY <1>1, <1>2, <2>1 DEF TypeOK
  <2>8. IInv'
    BY <1>2, <2>4, <2>5, <2>6, <2>7, EditKeeps
  <2> QED
    BY <2>4, <2>8
<1> QED
  BY <1>3, <1>4

\* What some names have in common is a line.
LEMMA CommonIs ==
    ASSUME NEW names \in Seq(Lines), Len(names) > 1
    PROVE  LongestCommon(names) \in Lines
<1>1. Len(names) \in Nat
  BY LenProperties
<1>2. \A i \in 1 .. Len(names) : names[i] \in Seq(Characters)
  BY ElementOfSeq DEF Lines
<1>3. 1 \in 1 .. Len(names)
  BY <1>1
<1> DEFINE a == names[1]
           same(n) == \A i \in 1 .. Len(names) :
                          n <= Len(names[i]) /\ SubSeq(names[i], 1, n) = SubSeq(a, 1, n)
           C == {n \in 0 .. Len(a) : same(n)}
<1>4. a \in Seq(Characters) /\ Len(a) \in Nat
  BY <1>2, <1>3, LenProperties
<1>5. same(0)
  <2>1. \A i \in 1 .. Len(names) : Len(names[i]) \in Nat
    BY <1>2, LenProperties
  <2>2. \A s : SubSeq(s, 1, 0) = <<>>
    BY SubSeqEmpty
  <2> QED
    BY <2>1, <2>2
<1>6. LongestCommon(names) = SubSeq(a, 1, Max(C))
  BY DEF LongestCommon
<1> HIDE DEF same
<1>7. 0 \in C /\ C \in SUBSET (0 .. Len(a))
  BY <1>4, <1>5
<1> HIDE DEF C, a
<1>8. Max(C) \in C
  BY <1>4, <1>7, GreatestOf
<1>9. Max(C) \in 0 .. Len(a)
  BY <1>7, <1>8
<1> QED
  BY <1>4, <1>6, <1>9, CutAt DEF Lines

LEMMA CompleteManySteps ==
    ASSUME IInv, NEW names \in Seq(Lines), Len(names) > 1, CompleteMany(names)
    PROVE  IInv' /\ Stepped
<1>1. TypeOK /\ IsRow(screen) /\ Len(Word) \in Nat
  BY StemIs DEF IInv
<1> DEFINE common == LongestCommon(names)
           t == SubSeq(common, Len(Word) + 1, Len(common))
<1>2. /\ line' = line \o t /\ buff' = buff /\ hist' = hist
      /\ UNCHANGED <<hist, index, searchVars, besideVars>>
      /\ copy' \in {copy, Len(line')} /\ Draw(Put(BlankRow, line'))
  BY DEF CompleteMany
<1>3. common \in Seq(Characters) /\ Len(common) \in Nat
  BY CommonIs, LenProperties DEF Lines
<1> HIDE DEF common
<1>4. t \in Lines
  <2>1. Len(Word) + 1 \in Int /\ Len(common) \in Int
    BY <1>1, <1>3
  <2>2. \A i \in Len(Word) + 1 .. Len(common) : i \in 1 .. Len(common)
    BY <1>1, <1>3
  <2>3. \A i \in Len(Word) + 1 .. Len(common) : common[i] \in Characters
    BY <1>3, <2>2, ElementOfSeq
  <2> QED
    BY <2>1, <2>3, SubSeqProperties DEF Lines
<1> HIDE DEF t
<1>5. line' \in Lines /\ Stepped
  BY <1>1, <1>2, <1>4, InsertStep
<1>6. IsRow(screen')
  BY <1>1, <1>2, <1>5, BlankIs, PrintsRow, DrawIs DEF Lines
<1>7. copy' \in Nat \cup {Underflow}
  <2>1. Len(line') \in Nat
    BY <1>5, LenProperties DEF Lines
  <2> QED
    BY <1>1, <1>2, <2>1 DEF TypeOK
<1>8. buff' \in Lines /\ killers' \in Nat /\ clearing' \in BOOLEAN /\ crashed' \in BOOLEAN
  BY <1>1, <1>2 DEF TypeOK, besideVars
<1>9. IInv'
  BY <1>2, <1>5, <1>6, <1>7, <1>8, EditKeeps
<1> QED
  BY <1>5, <1>9

LEMMA TabSteps ==
    ASSUME IInv, NEW files \in Listings, NEW programs \in Listings, Tab(files, programs)
    PROVE  IInv' /\ Stepped
<1> DEFINE here == Matching(files)
           inPath == Matching(programs)
<1>1. here \in Seq(Lines) /\ inPath \in Seq(Lines)
  <2>1. files \in Seq(Lines) /\ programs \in Seq(Lines)
    BY DataAssumption
  <2>2. \A T : Among(files, T) \in Seq(Lines) /\ Among(programs, T) \in Seq(Lines)
    BY <2>1, AmongElements
  <2> QED
    BY <2>2 DEF Matching
<1>2. \/ Len(here) = 1 /\ CompleteOne(here[1])
      \/ Len(here) > 1 /\ CompleteMany(here)
      \/ Len(inPath) = 1 /\ CompleteOne(<<"/">> \o inPath[1])
      \/ UNCHANGED vars
  BY DEF Tab
<1> HIDE DEF here, inPath
<1>3. CASE Len(here) = 1 /\ CompleteOne(here[1])
  <2>1. 1 \in 1 .. Len(here)
    BY <1>3
  <2>2. here[1] \in Lines
    BY <1>1, <2>1, ElementOfSeq
  <2> QED
    BY <1>3, <2>2, CompleteOneSteps
<1>4. CASE Len(here) > 1 /\ CompleteMany(here)
  BY <1>1, <1>4, CompleteManySteps
<1>5. CASE Len(inPath) = 1 /\ CompleteOne(<<"/">> \o inPath[1])
  <2>1. 1 \in 1 .. Len(inPath)
    BY <1>5
  <2>2. <<"/">> \o inPath[1] \in Lines
    BY <1>1, <2>1, ElementOfSeq, QuoteIs
  <2> QED
    BY <1>5, <2>2, CompleteOneSteps
<1>6. CASE UNCHANGED vars
  BY <1>6, StutterSteps
<1> QED
  BY <1>2, <1>3, <1>4, <1>5, <1>6

-----------------------------------------------------------------------------
(* The history.                                                            *)

LEMMA BangSteps ==
    ASSUME IInv, NEW t \in Lines, NEW shown, Len(shown) \in Nat, Bang(t, shown)
    PROVE  IInv' /\ Stepped
<1>1. TypeOK /\ IsRow(screen)
  BY DEF IInv
<1>2. /\ line' = line \o t /\ buff' = buff /\ hist' = hist
      /\ UNCHANGED <<copy, hist, index, searchVars, besideVars>>
      /\ Draw(BlankRow) \/ Draw(Put(screen, shown))
  BY DEF Bang
<1>3. line' \in Lines /\ Stepped
  BY <1>1, <1>2, InsertStep
<1>4. IsRow(screen')
  <2>1. IsRow(Put(screen, shown))
    BY <1>1, PutIs
  <2> QED
    BY <1>1, <1>2, <2>1, BlankIs, DrawIs
<1>5. /\ buff' \in Lines /\ copy' \in Nat \cup {Underflow}
      /\ killers' \in Nat /\ clearing' \in BOOLEAN /\ crashed' \in BOOLEAN
  BY <1>1, <1>2 DEF TypeOK, besideVars
<1>6. IInv'
  BY <1>2, <1>3, <1>4, <1>5, EditKeeps
<1> QED
  BY <1>3, <1>6

\* What is submitted is all of the text, or a line of the history in the middle of it.
LEMMA SubmitSteps ==
    ASSUME IInv, NEW t \in Lines, Submit(t),
           t = Text \/ \E i \in 1 .. Len(hist) : t = line \o hist[i] \o buff
    PROVE  IInv' /\ Stepped
<1>1. /\ TypeOK /\ IsRow(screen) /\ Positions /\ FoundLines
      /\ hist \in Seq(Lines) /\ found \in Seq(Lines) /\ Len(hist) \in Nat
      /\ TF!Left = line /\ TF!Right = buff
  BY TypedHalves, LenProperties DEF IInv, TypeOK
<1>2. /\ line' = <<>> /\ buff' = <<>> /\ hist' = Append(hist, t) /\ index' = Len(hist) /\ copy' = 0
      /\ Draw(BlankRow) /\ UNCHANGED <<searchVars, besideVars>>
  BY DEF Submit
<1>3. /\ hist' \in Seq(Lines) /\ Len(hist') = Len(hist) + 1
      /\ \A i \in 1 .. Len(hist) : hist'[i] = hist[i]
  BY <1>1, <1>2, AppendProperties
<1>4. line' \in Lines /\ buff' \in Lines
  BY <1>2, EmptySeq DEF Lines
<1>5. IsRow(screen') /\ screen'.col \in Int
  <2>1. IsRow(screen')
    BY <1>1, <1>2, BlankIs, DrawIs
  <2> QED
    BY <2>1, RowIs
<1>6. TypeOK'
  <2>1. index' \in Nat /\ copy' \in Nat
    BY <1>1, <1>2
  <2>2. /\ found' = found /\ search' = search /\ sindex' = sindex
        /\ killers' = killers /\ clearing' = clearing /\ crashed' = crashed
    BY <1>2 DEF searchVars, besideVars
  <2> QED
    BY <1>1, <1>3, <1>4, <1>5, <2>1, <2>2 DEF TypeOK
<1>7. Positions'
  BY <1>1, <1>2, <1>3 DEF Positions, searchVars
<1>8. FoundLines'
  <2>1. ToSet(hist) \subseteq ToSet(hist')
    <3>1. DOMAIN hist = 1 .. Len(hist) /\ DOMAIN hist' = 1 .. Len(hist')
      BY <1>1, <1>3, LenProperties
    <3>2. \A i \in 1 .. Len(hist) : i \in 1 .. Len(hist')
      BY <1>1, <1>3
    <3>3. ASSUME NEW h \in ToSet(hist)
          PROVE  h \in ToSet(hist')
      <4>1. PICK i \in 1 .. Len(hist) : h = hist[i]
        BY <3>1 DEF ToSet
      <4>2. i \in DOMAIN hist' /\ h = hist'[i]
        BY <1>3, <3>1, <3>2, <4>1
      <4> QED
        BY <4>2 DEF ToSet
    <3> QED
      BY <3>3
  <2>2. found' = found /\ search' = search
    BY <1>2 DEF searchVars
  <2> QED
    BY <1>1, <2>1, <2>2 DEF FoundLines
<1>9. Stepped
  <2>1. Text' = <<>> /\ Len(line') = 0
    BY <1>2, ConcatEmptySeq DEF Text
  <2>2. TF!Submit
    BY <1>1, <1>2, <2>1, Zenon DEF TF!Submit
  <2> QED
    BY <2>2 DEF Stepped, TF!Next
<1> QED
  BY <1>5, <1>6, <1>7, <1>8, <1>9 DEF IInv

LEMMA EnterSteps ==
    ASSUME IInv, Enter
    PROVE  IInv' /\ Stepped
<1>1. Text \in Lines
  BY TypedHalves DEF IInv
<1>2. Submit(Text)
  BY DEF Enter
<1> QED
  BY <1>1, <1>2, SubmitSteps

LEMMA AgoIs ==
    ASSUME TypeOK, hist # <<>>, NEW n \in Nat, n > 0
    PROVE  \E i \in 1 .. Len(hist) : Ago(n) = hist[i] /\ Ago(n) \in Lines
<1>1. Len(hist) \in Nat /\ Len(hist) > 0 /\ \A i \in 1 .. Len(hist) : hist[i] \in Lines
  BY LenProperties, EmptySeq, ElementOfSeq DEF TypeOK
<1> DEFINE i == IF n < Len(hist) THEN Len(hist) - n + 1 ELSE 1
<1>2. i \in 1 .. Len(hist)
  BY <1>1
<1>3. Ago(n) = hist[i]
  BY DEF Ago
<1> HIDE DEF i
<1> QED
  BY <1>1, <1>2, <1>3

LEMMA BangNumberSteps ==
    ASSUME IInv, NEW n \in Nat, NEW c, BangNumber(n, c)
    PROVE  IInv' /\ Stepped
<1>1. TypeOK /\ hist # <<>> /\ line \in Lines /\ buff \in Lines /\ <<>> \in Lines
  BY EmptySeq DEF IInv, TypeOK, BangNumber, Lines
<1>2. n > 0 => \E i \in 1 .. Len(hist) : Ago(n) = hist[i] /\ Ago(n) \in Lines
  BY <1>1, AgoIs
<1>3. CASE n > 0 /\ c = "\n"
  <2>1. PICK i \in 1 .. Len(hist) : Ago(n) = hist[i] /\ Ago(n) \in Lines
    BY <1>2, <1>3
  <2>2. Submit(line \o Ago(n) \o buff)
    BY <1>3 DEF BangNumber
  <2>3. PICK t : t = line \o Ago(n) \o buff
    OBVIOUS
  <2>4. t \in Lines
    <3>1. \A s, u \in Lines : s \o u \in Lines
      BY ConcatProperties DEF Lines
    <3> QED
      BY <1>1, <2>1, <2>3, <3>1
  <2>5. \E j \in 1 .. Len(hist) : t = line \o hist[j] \o buff
    BY <2>1, <2>3
  <2>6. Submit(t)
    BY <2>2, <2>3
  <2> QED
    BY <2>4, <2>5, <2>6, SubmitSteps
<1>4. CASE ~(n > 0 /\ c = "\n")
  <2>1. Bang(IF n > 0 THEN Ago(n) ELSE <<>>, <<"!", "-", "0", c>>)
    BY <1>4 DEF BangNumber
  <2>2. PICK t : t = IF n > 0 THEN Ago(n) ELSE <<>>
    OBVIOUS
  <2>3. t \in Lines /\ Bang(t, <<"!", "-", "0", c>>)
    BY <1>1, <1>2, <2>1, <2>2
  <2>4. Len(<<"!", "-", "0", c>>) \in Nat
    OBVIOUS
  <2> QED
    BY <2>3, <2>4, BangSteps
<1> QED
  BY <1>3, <1>4

LEMMA BangKeySteps ==
    ASSUME IInv, BangAlone \/ BangBang \/ \E c \in Chars \cup {"\n"} : BangOther(c)
    PROVE  IInv' /\ Stepped
<1>1. \A e \in Characters : <<e>> \in Lines
  <2>1. \A S : \A e \in S : <<e>> \in Seq(S)
    OBVIOUS
  <2> QED
    BY <2>1 DEF Lines
<1>2. \A d, e \in Characters : <<d, e>> \in Lines
  <2>1. \A S : \A d, e \in S : <<d, e>> \in Seq(S)
    OBVIOUS
  <2> QED
    BY <2>1 DEF Lines
<1>3. "!" \in Characters /\ \A c \in Chars \cup {"\n"} : c \in Characters
  BY DEF Characters
<1>4. \A d, e : Len(<<d>>) \in Nat /\ Len(<<d, e>>) \in Nat
  OBVIOUS
<1>5. CASE BangAlone
  <2>1. <<"!">> \in Lines /\ Bang(<<"!">>, <<"!">>)
    BY <1>1, <1>3, <1>5 DEF BangAlone
  <2> QED
    BY <1>4, <2>1, BangSteps
<1>6. CASE BangBang
  <2>1. Last(hist) \in Lines
    <3>1. hist \in Seq(Lines) /\ hist # <<>>
      BY <1>6 DEF IInv, TypeOK, BangBang
    <3>2. Len(hist) \in 1 .. Len(hist)
      BY <3>1, LenProperties, EmptySeq
    <3> QED
      BY <3>1, <3>2, ElementOfSeq DEF Last
  <2>2. Bang(Last(hist), <<"!", "!">>)
    BY <1>6 DEF BangBang
  <2> QED
    BY <1>4, <2>1, <2>2, BangSteps
<1>7. CASE \E c \in Chars \cup {"\n"} : BangOther(c)
  <2>1. PICK c \in Chars \cup {"\n"} : BangOther(c)
    BY <1>7
  <2>2. Bang(<<"!", c>>, <<"!", c>>) /\ <<"!", c>> \in Lines
    BY <1>2, <1>3, <2>1 DEF BangOther
  <2> QED
    BY <1>4, <2>2, BangSteps
<1> QED
  BY <1>5, <1>6, <1>7

\* What a search may have found
IsFind(f) ==
    /\ f.str \in Lines /\ f.res \in Seq(Lines) /\ f.i \in 0 .. Len(f.res)
    /\ \A i \in 1 .. Len(f.res) : /\ f.res[i] \in ToSet(hist)
                                  /\ IsPrefix(f.str, Append(f.res[i], "\n"))
    /\ Searching => f.str = line

LEMMA FindIs ==
    ASSUME IInv
    PROVE  IsFind(Find)
<1>1. /\ line \in Lines /\ search \in Lines /\ hist \in Seq(Lines) /\ found \in Seq(Lines)
      /\ sindex \in Nat /\ Len(found) \in Nat /\ sindex <= Len(found)
  BY LenProperties DEF IInv, TypeOK, Positions
<1>2. CASE Searching /\ line # search
  <2> DEFINE r == Starting
             f == [str |-> line, res |-> r, i |-> Len(r)]
  <2>1. /\ r \in Seq(Lines) /\ Len(r) \in Nat
        /\ \A i \in 1 .. Len(r) : r[i] \in {h \in ToSet(hist) : BeginsWithLine(h)}
    <3>1. \A T : /\ Among(hist, T) \in Seq(Lines) /\ Len(Among(hist, T)) \in Nat
                 /\ \A i \in 1 .. Len(Among(hist, T)) : Among(hist, T)[i] \in T
      BY <1>1, AmongElements
    <3> QED
      BY <3>1 DEF Starting
  <2>2. Find = f
    BY <1>2 DEF Find
  <2> HIDE DEF r
  <2>3. /\ f.str = line /\ f.res = r /\ f.i = Len(r) /\ Len(r) \in 0 .. Len(r)
    BY <2>1
  <2>4. \A i \in 1 .. Len(r) : r[i] \in ToSet(hist) /\ IsPrefix(line, Append(r[i], "\n"))
    BY <2>1 DEF BeginsWithLine
  <2> HIDE DEF f
  <2> QED
    BY <1>1, <2>1, <2>2, <2>3, <2>4 DEF IsFind
<1>3. CASE ~(Searching /\ line # search)
  <2> DEFINE f == [str |-> search, res |-> found, i |-> sindex]
  <2>1. Find = f
    BY <1>3 DEF Find
  <2>2. f.str = search /\ f.res = found /\ f.i = sindex /\ sindex \in 0 .. Len(found)
    BY <1>1
  <2> HIDE DEF f
  <2> QED
    BY <1>1, <1>3, <2>1, <2>2 DEF IsFind, IInv, FoundLines
<1> QED
  BY <1>2, <1>3

LEMMA StaySteps ==
    ASSUME IInv, NEW f, IsFind(f), Stay(f)
    PROVE  IInv' /\ Stepped
<1>1. /\ search' = f.str /\ found' = f.res /\ sindex' = f.i
      /\ line' = line /\ buff' = buff /\ copy' = copy /\ screen' = screen
      /\ hist' = hist /\ index' = index
      /\ killers' = killers /\ clearing' = clearing /\ crashed' = crashed
  BY DEF Stay, editVars, besideVars
<1>2. TypeOK /\ IsRow(screen) /\ Positions /\ Len(f.res) \in Nat
  BY LenProperties DEF IInv, IsFind
<1>3. f.i \in Nat /\ f.i <= Len(f.res)
  BY <1>2 DEF IsFind
<1>4. TypeOK'
  BY <1>1, <1>2, <1>3 DEF TypeOK, IsFind
<1>5. IsRow(screen')
  BY <1>1, <1>2 DEF IsRow, Width
<1>6. Positions' /\ FoundLines'
  BY <1>1, <1>2, <1>3 DEF Positions, FoundLines, IsFind
<1>7. Stepped
  BY <1>1, StayStep
<1> QED
  BY <1>4, <1>5, <1>6, <1>7 DEF IInv

\* A line of the history, or the text itself, takes the place of the text.
LEMMA ShowSteps ==
    ASSUME IInv, NEW f, IsFind(f), NEW t \in Lines, NEW i \in Nat,
           i <= IF Searching THEN Len(f.res) ELSE Len(hist),
           t = Text \/ t \in ToSet(hist), Show(f, t, i)
    PROVE  IInv' /\ Stepped
<1>1. /\ TypeOK /\ IsRow(screen) /\ Positions /\ Len(f.res) \in Nat /\ f.i \in Nat /\ f.i <= Len(f.res)
      /\ Len(hist) \in Nat /\ hist \in Seq(Lines) /\ Len(t) \in Nat /\ t \in Seq(Characters)
      /\ f.str \in Lines /\ Len(f.str) \in Nat /\ index \in Nat /\ index <= Len(hist)
      /\ Len(Text) \in Nat /\ buff \in Seq(Characters)
      /\ killers \in Nat /\ clearing \in BOOLEAN /\ crashed \in BOOLEAN
  <2>1. TypeOK /\ IsRow(screen) /\ Positions /\ index <= Len(hist)
    BY DEF IInv, Positions
  <2>2. /\ Len(f.res) \in Nat /\ f.i \in Nat /\ f.i <= Len(f.res)
        /\ f.str \in Lines /\ Len(f.str) \in Nat
    BY LenProperties DEF IsFind, Lines
  <2>3. Len(hist) \in Nat /\ hist \in Seq(Lines) /\ index \in Nat
        /\ killers \in Nat /\ clearing \in BOOLEAN /\ crashed \in BOOLEAN
    BY <2>1, LenProperties DEF TypeOK
  <2>4. Len(t) \in Nat /\ t \in Seq(Characters)
    BY LenProperties DEF Lines
  <2>5. Len(Text) \in Nat /\ buff \in Seq(Characters)
    BY <2>1, TypedHalves DEF Lines
  <2> QED
    BY <2>1, <2>2, <2>3, <2>4, <2>5
<1>2. CASE Searching /\ ~IsPrefix(f.str, t)
  <2>1. /\ crashed' = TRUE /\ UNCHANGED <<line, buff, hist, index, searchVars, copy>>
        /\ screen' = screen /\ killers' = killers /\ clearing' = clearing
    BY <1>2 DEF Show, editVars
  <2>2. IsRow(screen')
    BY <1>1, <2>1 DEF IsRow, Width
  <2> QED
    BY <1>1, <2>1, <2>2, StandsStill
<1>3. CASE ~(Searching /\ ~IsPrefix(f.str, t))
  <2> DEFINE str == IF Searching THEN f.str ELSE <<>>
             at == IF RevSearch = "unset" THEN Len(t) ELSE Len(str)
             s == Rub(Put(screen, buff), Len(Text))
  <2>1. /\ search' = str /\ found' = f.res
        /\ IF Searching THEN sindex' = i /\ index' = index ELSE index' = i /\ sindex' = f.i
        /\ line' = SubSeq(t, 1, at) /\ buff' = SubSeq(t, at + 1, Len(t))
        /\ Draw(Reprint(Put(s, line'), buff'))
        /\ copy' = copy /\ hist' = hist
        /\ killers' = killers /\ clearing' = clearing /\ crashed' = crashed
    BY <1>3 DEF Show, besideVars
  <2>2. IsRow(s)
    BY <1>1, PrintsRow, RubIs
  <2>3. str \in Lines /\ Len(str) \in 0 .. Len(t)
    <3>1. CASE Searching
      <4>1. Len(f.str) <= Len(t)
        BY <1>3, <3>1 DEF IsPrefix
      <4> QED
        BY <1>1, <3>1, <4>1
    <3>2. CASE ~Searching
      <4>1. str = <<>> /\ Len(<<>>) = 0 /\ <<>> \in Lines
        BY <3>2, EmptySeq DEF Lines
      <4> QED
        BY <1>1, <4>1
    <3> QED
      BY <3>1, <3>2
  <2>4. at \in 0 .. Len(t)
    BY <1>1, <2>3
  <2>5. \A x \in 1 .. Len(f.res) : f.res[x] \in ToSet(hist) /\ IsPrefix(str, Append(f.res[x], "\n"))
    <3>1. CASE Searching
      BY <3>1 DEF IsFind
    <3>2. CASE ~Searching
      <4>1. str = <<>>
        BY <3>2
      <4>2. \A u : Len(u) \in Nat => IsPrefix(<<>>, u)
        <5>1. \A u : SubSeq(u, 1, 0) = <<>>
          BY SubSeqEmpty
        <5> QED
          BY <5>1 DEF IsPrefix
      <4>3. ASSUME NEW x \in 1 .. Len(f.res)
            PROVE  Len(Append(f.res[x], "\n")) \in Nat
        <5>1. f.res[x] \in Seq(Characters) /\ "\n" \in Characters
          BY ElementOfSeq DEF IsFind, Lines, Characters
        <5> QED
          BY <5>1, AppendProperties, LenProperties
      <4> QED
        BY <4>1, <4>2, <4>3 DEF IsFind
    <3> QED
      BY <3>1, <3>2
  <2> HIDE DEF s, at, str
  <2>6. line' \in Lines /\ buff' \in Lines /\ line' \o buff' = t
    BY <1>1, <2>1, <2>4, CutAt DEF Lines
  <2>7. IsRow(screen') /\ screen'.col \in Int
    <3>1. IsRow(screen')
      BY <1>1, <2>1, <2>2, <2>6, PrintsRow, DrawIs DEF Lines
    <3> QED
      BY <3>1, RowIs
  <2>8. /\ index' \in Nat /\ index' <= Len(hist)
        /\ sindex' \in Nat /\ sindex' <= Len(f.res)
    BY <1>1, <2>1
  <2>9. TypeOK'
    BY <1>1, <2>1, <2>3, <2>6, <2>7, <2>8 DEF TypeOK, IsFind
  <2>10. Positions' /\ FoundLines'
    BY <2>1, <2>5, <2>8 DEF Positions, FoundLines
  <2>11. Stepped
    <3>1. CASE t = Text
      BY <2>1, <2>6, <3>1, MoveStep DEF Text
    <3>2. CASE t \in ToSet(hist)
      <4>1. PICK x \in DOMAIN hist : t = hist[x]
        BY <3>2 DEF ToSet
      <4>2. x \in 1 .. Len(hist)
        BY <1>1, LenProperties
      <4> QED
        BY <2>1, <2>6, <4>1, <4>2, RecallStep
    <3> QED
      BY <3>1, <3>2
  <2> QED
    BY <2>7, <2>9, <2>10, <2>11 DEF IInv
<1> QED
  BY <1>2, <1>3

\* The list that the arrows walk, and where they are in it
LEMMA WalkIs ==
    ASSUME IInv, NEW f, IsFind(f)
    PROVE  /\ Walked(f) \in Seq(Lines) /\ Len(Walked(f)) \in Nat /\ At(f) \in 0 .. Len(Walked(f))
           /\ Len(Walked(f)) = IF Searching THEN Len(f.res) ELSE Len(hist)
           /\ Walked(f) # <<>> => Len(Walked(f)) > 0
           /\ \A i \in 1 .. Len(Walked(f)) : Walked(f)[i] \in Lines /\ Walked(f)[i] \in ToSet(hist)
<1> DEFINE h == Walked(f)
<1>1. h \in Seq(Lines) /\ (Searching => h = f.res /\ At(f) = f.i) /\ (~Searching => h = hist /\ At(f) = index)
  BY DEF Walked, At, IsFind, IInv, TypeOK
<1>2. Len(h) \in Nat /\ (h # <<>> => Len(h) > 0) /\ \A i \in 1 .. Len(h) : h[i] \in Lines
  BY <1>1, LenProperties, EmptySeq, ElementOfSeq
<1>3. At(f) \in 0 .. Len(h)
  <2>1. f.i \in 0 .. Len(f.res)
    BY DEF IsFind
  <2>2. index \in 0 .. Len(hist)
    BY LenProperties DEF IInv, TypeOK, Positions
  <2> QED
    BY <1>1, <2>1, <2>2
<1>4. \A i \in 1 .. Len(h) : h[i] \in ToSet(hist)
  <2>1. CASE Searching
    BY <1>1, <2>1 DEF IsFind
  <2>2. CASE ~Searching
    <3>1. h = hist /\ DOMAIN hist = 1 .. Len(hist)
      BY <1>1, <2>2, LenProperties
    <3> QED
      BY <3>1 DEF ToSet
  <2> QED
    BY <2>1, <2>2
<1>5. Len(h) = IF Searching THEN Len(f.res) ELSE Len(hist)
  BY <1>1
<1> QED
  BY <1>1, <1>2, <1>3, <1>4, <1>5

LEMMA UpSteps ==
    ASSUME IInv, UpArrow
    PROVE  IInv' /\ Stepped
<1>1. PICK f : f = Find
  OBVIOUS
<1>2. IsFind(f)
  BY <1>1, FindIs
<1> DEFINE h == Walked(f)
           i == IF At(f) = Len(h) THEN At(f) - 1 ELSE At(f)
<1>3. IF h = <<>> THEN Stay(f) ELSE Show(f, h[i + 1], IF i > 0 THEN i - 1 ELSE 0)
  BY <1>1 DEF UpArrow
<1>4. /\ h \in Seq(Lines) /\ Len(h) \in Nat /\ At(f) \in 0 .. Len(h)
      /\ Len(h) = IF Searching THEN Len(f.res) ELSE Len(hist)
      /\ h # <<>> => Len(h) > 0
      /\ \A x \in 1 .. Len(h) : h[x] \in Lines /\ h[x] \in ToSet(hist)
  BY <1>2, WalkIs
<1> HIDE DEF h
<1>5. CASE h = <<>>
  BY <1>2, <1>3, <1>5, StaySteps
<1>6. CASE h # <<>>
  <2>1. i + 1 \in 1 .. Len(h) /\ i \in Nat
    BY <1>4, <1>6
  <2>2. PICK j : j = IF i > 0 THEN i - 1 ELSE 0
    OBVIOUS
  <2>3. Show(f, h[i + 1], j)
    BY <1>3, <1>6, <2>2
  <2> HIDE DEF i
  <2>4. j \in Nat /\ j <= Len(h)
    BY <1>4, <2>1, <2>2
  <2>5. PICK t : t = h[i + 1]
    OBVIOUS
  <2>6. t \in Lines /\ t \in ToSet(hist) /\ Show(f, t, j)
    BY <1>4, <2>1, <2>3, <2>5
  <2>7. j <= IF Searching THEN Len(f.res) ELSE Len(hist)
    BY <1>4, <2>4
  <2> QED
    BY <1>2, <2>4, <2>6, <2>7, ShowSteps
<1> QED
  BY <1>5, <1>6

LEMMA DownSteps ==
    ASSUME IInv, DownArrow
    PROVE  IInv' /\ Stepped
<1>1. PICK f : f = Find
  OBVIOUS
<1>2. IsFind(f)
  BY <1>1, FindIs
<1> DEFINE h == Walked(f)
           i == At(f)
<1>3. IF i = Len(h) THEN Stay(f)
      ELSE IF i = Len(h) - 1 THEN Show(f, Text, i) ELSE Show(f, h[i + 2], i + 1)
  BY <1>1 DEF DownArrow
<1>4. /\ h \in Seq(Lines) /\ Len(h) \in Nat /\ i \in 0 .. Len(h)
      /\ Len(h) = IF Searching THEN Len(f.res) ELSE Len(hist)
      /\ \A x \in 1 .. Len(h) : h[x] \in Lines /\ h[x] \in ToSet(hist)
  BY <1>2, WalkIs
<1>5. Text \in Lines
  BY TypedHalves DEF IInv
<1> HIDE DEF h, i
<1>6. CASE i = Len(h)
  BY <1>2, <1>3, <1>6, StaySteps
<1>7. CASE i # Len(h) /\ i = Len(h) - 1
  <2>1. i \in Nat /\ i <= Len(h)
    BY <1>4
  <2>2. Show(f, Text, i)
    BY <1>3, <1>7
  <2>3. PICK t : t = Text
    OBVIOUS
  <2>4. PICK j : j = i
    OBVIOUS
  <2>5. /\ t \in Lines /\ t = Text /\ Show(f, t, j) /\ j \in Nat
        /\ j <= IF Searching THEN Len(f.res) ELSE Len(hist)
    BY <1>4, <1>5, <2>1, <2>2, <2>3, <2>4
  <2> QED
    BY <1>2, <2>5, ShowSteps
<1>8. CASE i # Len(h) /\ i # Len(h) - 1
  <2>1. i + 1 \in Nat /\ i + 1 <= Len(h) /\ i + 2 \in 1 .. Len(h)
    BY <1>4, <1>8
  <2>2. Show(f, h[i + 2], i + 1)
    BY <1>3, <1>8
  <2>3. PICK t : t = h[i + 2]
    OBVIOUS
  <2>4. PICK j : j = i + 1
    OBVIOUS
  <2>5. /\ t \in Lines /\ t \in ToSet(hist) /\ Show(f, t, j) /\ j \in Nat
        /\ j <= IF Searching THEN Len(f.res) ELSE Len(hist)
    BY <1>4, <2>1, <2>2, <2>3, <2>4
  <2> QED
    BY <1>2, <2>5, ShowSteps
<1> QED
  BY <1>6, <1>7, <1>8

-----------------------------------------------------------------------------
(* The theorems.                                                           *)

LEMMA NextInv == IInv /\ [Next]_vars => IInv' /\ (Undisturbed => Stepped)
<1> SUFFICES ASSUME IInv, [Next]_vars PROVE IInv' /\ (Undisturbed => Stepped)
  OBVIOUS
<1>1. CASE \E c \in Chars : Type(c)
  BY <1>1, TypeSteps
<1>2. CASE LeftArrow \/ RightArrow \/ CtrlA \/ CtrlE \/ CtrlRight \/ CtrlLeft
  BY <1>2, MoveSteps
<1>3. CASE Backspace
  BY <1>3, BackspaceSteps
<1>4. CASE CtrlD \/ Delete
  BY <1>4, EraseSteps
<1>5. CASE CtrlDelete
  BY <1>5, CtrlDeleteSteps
<1>6. CASE CtrlW
  BY <1>6, CtrlWSteps
<1>7. CASE CtrlK \/ Killer \/ CtrlL \/ ClearScreen
  BY <1>7, BesideSteps
<1>8. CASE \E files, programs \in Listings : Tab(files, programs)
  BY <1>8, TabSteps
<1>9. CASE Enter
  BY <1>9, EnterSteps
<1>10. CASE UpArrow
  BY <1>10, UpSteps
<1>11. CASE DownArrow
  BY <1>11, DownSteps
<1>12. CASE BangAlone \/ BangBang \/ \E c \in Chars \cup {"\n"} : BangOther(c)
  BY <1>12, BangKeySteps
<1>13. CASE \E n \in 0 .. MaxHist, c \in {" ", "\n"} : BangNumber(n, c)
  <2>1. \A m \in 0 .. MaxHist : m \in Nat
    BY BoundAssumption
  <2>2. PICK n \in 0 .. MaxHist, c \in {" ", "\n"} : BangNumber(n, c)
    BY <1>13
  <2> QED
    BY <2>1, <2>2, BangNumberSteps
<1>14. CASE UNCHANGED vars
  BY <1>14, StutterSteps
<1>15. CASE Race
  BY <1>15, RaceKeeps
<1> QED
  BY <1>1, <1>2, <1>3, <1>4, <1>5, <1>6, <1>7, <1>8, <1>9, <1>10, <1>11, <1>12, <1>13, <1>14, <1>15
     DEF Next, Edit, History

LEMMA Invariance == Spec => []IInv
<1>1. Init => IInv
  BY InitInv
<1>2. IInv /\ [Next]_vars => IInv'
  BY NextInv
<1> QED
  BY <1>1, <1>2, PTL DEF Spec

\* Every variable of the line editor keeps to its domain, whatever keys are typed and whatever
\* is in the history and in the directories.
THEOREM TypeCorrect == Spec => []TypeOK
<1>1. IInv => TypeOK
  BY DEF IInv
<1> QED
  BY <1>1, Invariance, PTL

\* What begins with a text that does not end in a newline begins with it without its newline too.
LEMMA PrefixOfLine ==
    ASSUME NEW s \in Lines, NEW h \in Lines, s # <<>>, Last(s) # "\n", IsPrefix(s, Append(h, "\n"))
    PROVE  IsPrefix(s, h)
<1> DEFINE n == Len(s)
           m == Len(h)
           a == Append(h, "\n")
<1>1. /\ s \in Seq(Characters) /\ h \in Seq(Characters) /\ n \in Nat /\ n > 0 /\ m \in Nat
      /\ "\n" \in Characters
  <2>1. s \in Seq(Characters) /\ h \in Seq(Characters)
    BY DEF Lines
  <2>2. "\n" \in Characters
    BY DEF Characters
  <2> QED
    BY <2>1, <2>2, LenProperties, EmptySeq
<1>2. /\ a \in Seq(Characters) /\ Len(a) = m + 1 /\ a = h \o <<"\n">> /\ a[m + 1] = "\n"
  BY <1>1, AppendProperties, AppendIsConcat
<1>3. n <= m + 1 /\ SubSeq(s, 1, n) = SubSeq(a, 1, n)
  BY <1>2 DEF IsPrefix
<1>4. n # m + 1
  <2> SUFFICES ASSUME n = m + 1 PROVE FALSE
    OBVIOUS
  <2>1. SubSeq(s, 1, n) = s /\ SubSeq(a, 1, n) = a
    BY <1>1, <1>2, SubSeqFull
  <2>2. s[n] = "\n"
    BY <1>2, <1>3, <2>1
  <2> QED
    BY <2>2 DEF Last
<1>5. n \in 0 .. m
  BY <1>1, <1>3, <1>4
<1>6. SubSeq(a, 1, n) = SubSeq(h, 1, n)
  <2>1. \A S : \A e \in S : <<e>> \in Seq(S)
    OBVIOUS
  <2>2. <<"\n">> \in Seq(Characters)
    BY <1>1, <2>1
  <2>3. PICK b : b = <<"\n">>
    OBVIOUS
  <2>4. SubSeq(h \o b, 1, n) = SubSeq(h, 1, n)
    BY <1>1, <1>5, <2>2, <2>3, PartOfLeft
  <2> QED
    BY <1>2, <2>3, <2>4
<1>7. n <= m
  BY <1>5
<1> QED
  BY <1>3, <1>6, <1>7 DEF IsPrefix

\* The arrows stay within the history and within what was found in it, which begins with what was
\* searched for: vector::at does not throw, and the loops that take the rest of a line off end.
THEOREM RecallStaysInBounds == Spec => []RecallInBounds
<1>1. IInv => RecallInBounds
  <2> SUFFICES ASSUME IInv PROVE RecallInBounds
    OBVIOUS
  <2>1. index <= Len(hist) /\ sindex <= Len(found)
    BY DEF IInv, Positions
  <2>2. ASSUME search # <<>>, Last(search) # "\n", NEW i \in 1 .. Len(found)
        PROVE  IsPrefix(search, found[i])
    <3>1. search \in Lines /\ found[i] \in Lines /\ IsPrefix(search, Append(found[i], "\n"))
      BY ElementOfSeq DEF IInv, TypeOK, FoundLines
    <3> QED
      BY <2>2, <3>1, PrefixOfLine
  <2> QED
    BY <2>1, <2>2 DEF RecallInBounds
<1> QED
  BY <1>1, Invariance, PTL

\* The line editor implements the text field, while no thread of ctrl+k is in its way: no key, in
\* whatever state of the two halves of the line, loses, duplicates or reorders text away from the
\* cursor, and all of the text is submitted; and the thread, if no key comes before it is done, only
\* takes away what is right of the cursor.
THEOREM EditorEditsText == Spec => EditsText
<1>1. Init => TF!Init
  BY InitInv
<1>2. IInv /\ [Next]_vars => [Undisturbed => [TF!Next]_<<Text, Len(line), hist>>]_vars
  BY NextInv DEF Stepped
<1> QED
  BY <1>1, <1>2, Invariance, PTL DEF Spec, EditsText

-----------------------------------------------------------------------------
(* Second part: what the screen shows.                                     *)

\* What a screen may show: the characters of lines, and blanks
Glyphs == Characters \cup {" "}

Cell(t, i) == IF i <= Len(t) THEN t[i] ELSE " "

\* The row shows the text t, with the cursor after n characters.
Shows(s, t, n) == s.col = n /\ \A i \in 1 .. Width : s.cells[i] = Cell(t, i)

\* The text t is left of the cursor, and right of it nothing beyond column n.
Holds(s, t, n) ==
    /\ s.col = Len(t)
    /\ \A i \in 1 .. Width : s.cells[i] = IF i <= Len(t) THEN t[i]
                                          ELSE IF i > n THEN " " ELSE s.cells[i]

LEMMA GlyphsOf ==
    ASSUME NEW t \in Lines
    PROVE  t \in Seq(Glyphs) /\ Len(t) \in Nat /\ Append(t, " ") \in Seq(Glyphs)
           /\ Len(Append(t, " ")) = Len(t) + 1
<1>1. t \in Seq(Characters) /\ Characters \subseteq Glyphs /\ " " \in Glyphs
  BY DEF Lines, Glyphs
<1>2. t \in Seq(Glyphs)
  BY <1>1, SeqMonotonic
<1> QED
  BY <1>1, <1>2, LenProperties, AppendProperties

LEMMA SpacesGlyphs ==
    ASSUME NEW n \in Nat
    PROVE  Spaces(n) \in Seq(Glyphs) /\ Len(Spaces(n)) = n
<1>1. Spaces(n) \in [1 .. n -> Glyphs]
  BY DEF Spaces, Glyphs
<1>2. Spaces(n) \in Seq(Glyphs)
  BY <1>1, SeqDef
<1> QED
  BY <1>2, SpacesAre

\* The cells of two texts after one another
LEMMA CellOfTwo ==
    ASSUME NEW a \in Seq(Glyphs), NEW b \in Seq(Glyphs)
    PROVE  /\ a \o b \in Seq(Glyphs) /\ Len(a) \in Nat /\ Len(b) \in Nat
           /\ Len(a \o b) = Len(a) + Len(b)
           /\ \A i \in 1 .. Width : Cell(a \o b, i) = IF i <= Len(a) THEN a[i] ELSE Cell(b, i - Len(a))
<1>1. /\ a \o b \in Seq(Glyphs) /\ Len(a) \in Nat /\ Len(b) \in Nat
      /\ Len(a \o b) = Len(a) + Len(b)
      /\ \A i \in 1 .. Len(a) + Len(b) : (a \o b)[i] = IF i <= Len(a) THEN a[i] ELSE b[i - Len(a)]
  BY ConcatProperties, LenProperties
<1>2. Width \in Nat
  BY WidthIs
<1>3. ASSUME NEW i \in 1 .. Width
      PROVE  Cell(a \o b, i) = IF i <= Len(a) THEN a[i] ELSE Cell(b, i - Len(a))
  <2> DEFINE u == a \o b
             m == Len(a)
             n == Len(b)
  <2>1. /\ i \in Int /\ i >= 1 /\ m \in Nat /\ n \in Nat /\ Len(u) = m + n
        /\ \A j \in 1 .. m + n : u[j] = IF j <= m THEN a[j] ELSE b[j - m]
    BY <1>1, <1>2
  <2>2. Cell(u, i) = (IF i <= Len(u) THEN u[i] ELSE " ")
        /\ Cell(b, i - m) = (IF i - m <= n THEN b[i - m] ELSE " ")
    BY DEF Cell
  <2> HIDE DEF u, m, n
  <2>3. i <= m + n => i \in 1 .. m + n
    BY <2>1
  <2>4. i <= m => i <= m + n
    BY <2>1
  <2>5. i - m <= n <=> i <= m + n
    BY <2>1
  <2>6. Cell(u, i) = IF i <= m THEN a[i] ELSE Cell(b, i - m)
    BY <2>1, <2>2, <2>3, <2>4, <2>5
  <2> QED
    BY <2>6 DEF u, m
<1> QED
  BY <1>1, <1>3

LEMMA ShownHolds ==
    ASSUME NEW s, NEW a \in Seq(Glyphs), NEW b \in Seq(Glyphs), Shows(s, a \o b, Len(a))
    PROVE  Holds(s, a, Len(a) + Len(b))
<1>1. /\ Len(a) \in Nat /\ Len(b) \in Nat
      /\ \A i \in 1 .. Width : Cell(a \o b, i) = IF i <= Len(a) THEN a[i] ELSE Cell(b, i - Len(a))
  BY CellOfTwo
<1>2. s.col = Len(a) /\ \A i \in 1 .. Width : s.cells[i] = Cell(a \o b, i)
  BY DEF Shows
<1>3. ASSUME NEW i \in 1 .. Width
      PROVE  s.cells[i] = IF i <= Len(a) THEN a[i]
                          ELSE IF i > Len(a) + Len(b) THEN " " ELSE s.cells[i]
  <2>1. Width \in Nat
    BY WidthIs
  <2>2. i > Len(a) + Len(b) => ~(i - Len(a) <= Len(b)) /\ ~(i <= Len(a))
    BY <1>1, <2>1
  <2> QED
    BY <1>1, <1>2, <2>2 DEF Cell
<1> QED
  BY <1>2, <1>3 DEF Holds

\* What is printed stands left of the cursor.
LEMMA PutHolds ==
    ASSUME NEW s, IsRow(s), NEW a \in Seq(Glyphs), NEW n \in Nat, Holds(s, a, n), NEW t \in Seq(Glyphs)
    PROVE  IsRow(Put(s, t)) /\ Holds(Put(s, t), a \o t, n)
<1>1. /\ Len(a) \in Nat /\ Len(t) \in Nat /\ Len(a \o t) = Len(a) + Len(t)
      /\ \A i \in 1 .. Len(a) + Len(t) : (a \o t)[i] = IF i <= Len(a) THEN a[i] ELSE t[i - Len(a)]
  BY ConcatProperties, LenProperties
<1>2. s.col = Len(a)
  BY DEF Holds
<1>3. /\ IsRow(Put(s, t)) /\ Put(s, t).col = s.col + Len(t)
      /\ \A i \in 1 .. Width : Put(s, t).cells[i] = IF i - s.col \in 1 .. Len(t)
                                                    THEN t[i - s.col] ELSE s.cells[i]
  BY <1>1, PutIs
<1> DEFINE p == Put(s, t)
<1> HIDE DEF p
<1>4. ASSUME NEW i \in 1 .. Width
      PROVE  p.cells[i] = IF i <= Len(a) + Len(t) THEN (a \o t)[i]
                          ELSE IF i > n THEN " " ELSE p.cells[i]
  <2>1. Width \in Nat
    BY WidthIs
  <2>2. /\ p.cells[i] = IF i - Len(a) \in 1 .. Len(t) THEN t[i - Len(a)] ELSE s.cells[i]
        /\ s.cells[i] = IF i <= Len(a) THEN a[i] ELSE IF i > n THEN " " ELSE s.cells[i]
    BY <1>2, <1>3 DEF p, Holds
  <2>3. CASE i <= Len(a)
    <3>1. i \in 1 .. Len(a) + Len(t) /\ ~(i - Len(a) \in 1 .. Len(t)) /\ i <= Len(a) + Len(t)
      BY <1>1, <2>1, <2>3
    <3> QED
      BY <1>1, <2>2, <2>3, <3>1
  <2>4. CASE ~(i <= Len(a)) /\ i <= Len(a) + Len(t)
    <3>1. i \in 1 .. Len(a) + Len(t) /\ i - Len(a) \in 1 .. Len(t)
      BY <1>1, <2>1, <2>4
    <3> QED
      BY <1>1, <2>2, <2>4, <3>1
  <2>5. CASE ~(i <= Len(a)) /\ ~(i <= Len(a) + Len(t))
    <3>1. ~(i - Len(a) \in 1 .. Len(t))
      BY <1>1, <2>1, <2>5
    <3> QED
      BY <2>2, <2>5, <3>1
  <2>6. ~(i <= Len(a) + Len(t)) => ~(i <= Len(a))
    BY <1>1, <2>1
  <2> QED
    BY <2>3, <2>4, <2>5, <2>6
<1>5. p.col = Len(a \o t)
  BY <1>1, <1>2, <1>3 DEF p
<1>6. Holds(p, a \o t, n)
  BY <1>1, <1>4, <1>5 DEF Holds
<1> QED
  BY <1>3, <1>6 DEF p

\* Nothing is left of what was there when as much is printed.
LEMMA HeldShows ==
    ASSUME NEW s, NEW a \in Seq(Glyphs), NEW n \in Nat, Holds(s, a, n), n <= Len(a)
    PROVE  Shows(s, a, Len(a))
<1>1. Len(a) \in Nat /\ Width \in Nat
  BY LenProperties, WidthIs
<1>2. ASSUME NEW i \in 1 .. Width
      PROVE  s.cells[i] = Cell(a, i)
  <2>1. s.cells[i] = IF i <= Len(a) THEN a[i] ELSE IF i > n THEN " " ELSE s.cells[i]
    BY DEF Holds
  <2>2. ~(i <= Len(a)) => i > n
    BY <1>1
  <2> QED
    BY <2>1, <2>2 DEF Cell
<1> QED
  BY <1>2 DEF Shows, Holds

LEMMA ReprintShows ==
    ASSUME NEW s, IsRow(s), NEW a \in Seq(Glyphs), NEW n \in Nat, Holds(s, a, n),
           NEW t \in Seq(Glyphs), n <= Len(a) + Len(t)
    PROVE  IsRow(Reprint(s, t)) /\ Shows(Reprint(s, t), a \o t, Len(a))
<1>1. /\ a \o t \in Seq(Glyphs) /\ Len(a) \in Nat /\ Len(t) \in Nat /\ Len(a \o t) = Len(a) + Len(t)
  BY CellOfTwo
<1> DEFINE p == Put(s, t)
           u == a \o t
<1>2. IsRow(p) /\ Holds(p, u, n)
  BY PutHolds
<1>3. Reprint(s, t) = Back(p, Len(t))
  BY DEF Reprint
<1> HIDE DEF p, u
<1>4. Shows(p, u, Len(u))
  BY <1>1, <1>2, HeldShows DEF u
<1>5. IsRow(Back(p, Len(t))) /\ Back(p, Len(t)).col = p.col - Len(t) /\ Back(p, Len(t)).cells = p.cells
  BY <1>1, <1>2, BackIs
<1>6. Back(p, Len(t)).col = Len(a)
  BY <1>1, <1>4, <1>5 DEF Shows, u
<1>7. Shows(Back(p, Len(t)), u, Len(a))
  BY <1>4, <1>5, <1>6 DEF Shows
<1> QED
  BY <1>3, <1>5, <1>7 DEF u

\* Blanks at the end are not to be seen.
LEMMA BlanksUnseen ==
    ASSUME NEW s, NEW a \in Seq(Glyphs), NEW b \in Seq(Glyphs), NEW c \in Seq(Glyphs), NEW n,
           Len(b) <= Len(c), \A i \in 1 .. Len(b) : c[i] = b[i],
           \A i \in Len(b) + 1 .. Len(c) : IsSpace(c[i]),
           Shows(s, a \o c, n)
    PROVE  Shows(s, a \o b, n)
<1>1. Len(a) \in Nat /\ Len(b) \in Nat /\ Len(c) \in Nat /\ Width \in Nat
  BY LenProperties, WidthIs
<1>2. ASSUME NEW j \in Int, j >= 1
      PROVE  Cell(c, j) = Cell(b, j)
  <2>1. CASE j <= Len(b)
    <3>1. j \in 1 .. Len(b) /\ j <= Len(c)
      BY <1>1, <1>2, <2>1
    <3> QED
      BY <2>1, <3>1 DEF Cell
  <2>2. CASE ~(j <= Len(b)) /\ j <= Len(c)
    <3>1. j \in Len(b) + 1 .. Len(c)
      BY <1>1, <1>2, <2>2
    <3>2. c[j] = " "
      BY <3>1 DEF IsSpace
    <3> QED
      BY <2>2, <3>2 DEF Cell
  <2>3. CASE ~(j <= Len(b)) /\ ~(j <= Len(c))
    BY <2>3 DEF Cell
  <2> QED
    BY <2>1, <2>2, <2>3
<1>3. ASSUME NEW i \in 1 .. Width
      PROVE  Cell(a \o c, i) = Cell(a \o b, i)
  <2>1. /\ Cell(a \o c, i) = IF i <= Len(a) THEN a[i] ELSE Cell(c, i - Len(a))
        /\ Cell(a \o b, i) = IF i <= Len(a) THEN a[i] ELSE Cell(b, i - Len(a))
    BY CellOfTwo
  <2>2. ~(i <= Len(a)) => i - Len(a) \in Int /\ i - Len(a) >= 1
    BY <1>1
  <2> QED
    BY <1>2, <2>1, <2>2
<1> QED
  BY <1>3 DEF Shows

\* All left of the cursor is blanked.
LEMMA RubHolds ==
    ASSUME NEW s, IsRow(s), NEW t \in Seq(Glyphs), Holds(s, t, Len(t))
    PROVE  IsRow(Rub(s, Len(t))) /\ Holds(Rub(s, Len(t)), <<>>, 0)
<1>1. Len(t) \in Nat /\ Width \in Nat /\ Len(<<>>) = 0
  BY LenProperties, WidthIs
<1>2. /\ IsRow(Rub(s, Len(t))) /\ Rub(s, Len(t)).col = s.col - Len(t)
      /\ \A i \in 1 .. Width : Rub(s, Len(t)).cells[i] = IF i - (s.col - Len(t)) \in 1 .. Len(t)
                                                         THEN " " ELSE s.cells[i]
  BY <1>1, RubIs
<1>3. s.col - Len(t) = 0
  <2>1. s.col = Len(t)
    BY DEF Holds
  <2> QED
    BY <1>1, <2>1
<1>4. ASSUME NEW i \in 1 .. Width
      PROVE  Rub(s, Len(t)).cells[i] = " " /\ ~(i <= 0) /\ i > 0
  <2>1. s.cells[i] = IF i <= Len(t) THEN t[i] ELSE IF i > Len(t) THEN " " ELSE s.cells[i]
    BY DEF Holds
  <2>2. i - (s.col - Len(t)) \in 1 .. Len(t) \/ (~(i <= Len(t)) /\ i > Len(t))
    BY <1>1, <1>3
  <2>3. ~(i <= 0) /\ i > 0
    BY <1>1
  <2> QED
    BY <1>2, <2>1, <2>2, <2>3
<1> QED
  BY <1>1, <1>2, <1>3, <1>4 DEF Holds

LEMMA BlankShows == IsRow(BlankRow) /\ Shows(BlankRow, <<>>, 0) /\ Holds(BlankRow, <<>>, 0)
<1>1. Width \in Nat /\ Len(<<>>) = 0
  BY WidthIs
<1>2. \A i \in 1 .. Width : ~(i <= 0) /\ i > 0
  BY <1>1
<1> QED
  BY <1>1, <1>2, BlankIs DEF Shows, Holds, Cell

\* Reprint of b with the cursor after a, over no more than b and a blank
LEMMA ReprintBlank ==
    ASSUME NEW s, IsRow(s), NEW a \in Seq(Glyphs), NEW b \in Lines, Holds(s, a, Len(a) + Len(b) + 1)
    PROVE  Shows(Reprint(s, Append(b, " ")), a \o b, Len(a))
<1>1. PICK c : c = Append(b, " ")
  OBVIOUS
<1>2. b \in Seq(Glyphs) /\ Len(b) \in Nat /\ Len(a) \in Nat
  BY GlyphsOf, LenProperties
<1>3. /\ c \in Seq(Glyphs) /\ Len(c) = Len(b) + 1 /\ IsSpace(c[Len(b) + 1])
      /\ \A i \in 1 .. Len(b) : c[i] = b[i]
  <2>1. PICK e \in Glyphs : e = " "
    BY DEF Glyphs
  <2>2. c = Append(b, e) /\ IsSpace(e)
    BY <1>1, <2>1 DEF IsSpace
  <2> QED
    BY <1>2, <2>2, AppendProperties
<1>4. PICK n \in Nat : n = Len(a) + Len(b) + 1
  BY <1>2
<1>5. Holds(s, a, n) /\ n <= Len(a) + Len(c)
  BY <1>2, <1>3, <1>4
<1>6. Shows(Reprint(s, c), a \o c, Len(a))
  BY <1>3, <1>5, ReprintShows
<1>7. Len(b) <= Len(c) /\ \A i \in Len(b) + 1 .. Len(c) : IsSpace(c[i])
  BY <1>2, <1>3
<1>8. Shows(Reprint(s, c), a \o b, Len(a))
  BY <1>2, <1>3, <1>6, <1>7, BlanksUnseen
<1> QED
  BY <1>1, <1>8

\* The rest of the row is blanked.
LEMMA ReprintSpaces ==
    ASSUME NEW s, IsRow(s), NEW a \in Seq(Glyphs), NEW n \in Nat, Holds(s, a, n),
           NEW k \in Nat, n <= Len(a) + k
    PROVE  IsRow(Reprint(s, Spaces(k))) /\ Shows(Reprint(s, Spaces(k)), a, Len(a))
<1>1. PICK c : c = Spaces(k)
  OBVIOUS
<1>2. c \in Seq(Glyphs) /\ Len(c) = k /\ \A i \in 1 .. k : IsSpace(c[i])
  BY <1>1, SpacesGlyphs, SpacesAre DEF IsSpace
<1>3. IsRow(Reprint(s, c)) /\ Shows(Reprint(s, c), a \o c, Len(a))
  BY <1>2, ReprintShows
<1>4. <<>> \in Seq(Glyphs) /\ a \o <<>> = a /\ Len(<<>>) = 0
  BY EmptySeq, ConcatEmptySeq
<1>5. PICK e : e = <<>>
  OBVIOUS
<1>6. /\ e \in Seq(Glyphs) /\ Len(e) <= Len(c) /\ \A i \in 1 .. Len(e) : c[i] = e[i]
      /\ \A i \in Len(e) + 1 .. Len(c) : IsSpace(c[i])
  BY <1>2, <1>4, <1>5
<1>7. Shows(Reprint(s, c), a \o e, Len(a))
  BY <1>2, <1>3, <1>6, BlanksUnseen
<1> QED
  BY <1>1, <1>3, <1>4, <1>5, <1>7

-----------------------------------------------------------------------------
(* The invariant of the screen.                                            *)

\* While the thread of ctrl+k is at work the rest is gone from the screen, but not yet from m_buff.
ShownText == IF killers > 0 THEN line ELSE Text

ScreenInv == ~clearing /\ Shows(screen, ShownText, Len(line))

\* What is shown when a key is read
LEMMA ShownNow ==
    ASSUME IInv, ScreenInv, Paced, NEW k, Key(k)
    PROVE  /\ killers = 0 /\ clearing = FALSE /\ IsRow(screen)
           /\ line \in Lines /\ buff \in Lines /\ line \in Seq(Glyphs) /\ buff \in Seq(Glyphs)
           /\ Len(line) \in Nat /\ Len(buff) \in Nat /\ Len(line \o buff) = Len(line) + Len(buff)
           /\ Shows(screen, line \o buff, Len(line)) /\ Holds(screen, line, Len(line) + Len(buff))
           /\ k \in Keys
<1>1. killers = 0 /\ clearing = FALSE /\ IsRow(screen) /\ k \in Keys
  BY DEF Key, ScreenInv, IInv, TypeOK
<1>2. /\ line \in Lines /\ buff \in Lines /\ Len(line) \in Nat /\ Len(buff) \in Nat
      /\ Len(line \o buff) = Len(line) + Len(buff)
  BY TypedHalves DEF IInv, Text
<1>3. line \in Seq(Glyphs) /\ buff \in Seq(Glyphs)
  BY <1>2, GlyphsOf
<1>4. Shows(screen, line \o buff, Len(line))
  BY <1>1 DEF ScreenInv, ShownText, Text
<1>5. Holds(screen, line, Len(line) + Len(buff))
  BY <1>3, <1>4, ShownHolds
<1> QED
  BY <1>1, <1>2, <1>3, <1>4, <1>5

LEMMA ShownNext ==
    ASSUME killers' = 0, clearing' = FALSE, Shows(screen', line' \o buff', Len(line'))
    PROVE  ScreenInv'
<1>1. Text' = line' \o buff'
  BY DEF Text
<1>2. ShownText' = line' \o buff'
  BY <1>1 DEF ShownText
<1> QED
  BY <1>2 DEF ScreenInv, Shows, Cell, Width

LEMMA NewTexts ==
    ASSUME IInv'
    PROVE  /\ line' \in Lines /\ buff' \in Lines /\ line' \in Seq(Glyphs) /\ buff' \in Seq(Glyphs)
           /\ Len(line') \in Nat /\ Len(buff') \in Nat
<1>1. line' \in Lines /\ buff' \in Lines
  BY DEF IInv, TypeOK
<1>2. \A t \in Lines : t \in Seq(Glyphs) /\ Len(t) \in Nat
  BY GlyphsOf
<1> QED
  BY <1>1, <1>2

LEMMA TypeShown ==
    ASSUME IInv, IInv', ScreenInv, Drawn, Paced, NEW c \in Chars, Type(c)
    PROVE  ScreenInv'
<1>1. /\ Key("char") /\ line' = Append(line, c) /\ buff' = buff
      /\ screen' = Reprint(Put(screen, <<c>>), buff)
      /\ killers' = killers /\ clearing' = clearing
  BY DEF Type, Draw
<1>2. /\ killers = 0 /\ clearing = FALSE /\ IsRow(screen)
      /\ line \in Seq(Glyphs) /\ buff \in Seq(Glyphs) /\ Len(line) \in Nat /\ Len(buff) \in Nat
      /\ Holds(screen, line, Len(line) + Len(buff))
  BY <1>1, ShownNow
<1>3. c \in Glyphs
  BY DEF Glyphs, Characters
<1>4. PICK t : t = <<c>>
  OBVIOUS
<1>5. t \in Seq(Glyphs) /\ line' = line \o t /\ Len(line') = Len(line) + 1 /\ line' \in Seq(Glyphs)
  <2>1. \A S : \A e \in S : <<e>> \in Seq(S)
    OBVIOUS
  <2>2. t \in Seq(Glyphs)
    BY <1>3, <1>4, <2>1
  <2> QED
    BY <1>1, <1>2, <1>3, <1>4, <2>2, AppendProperties, AppendIsConcat
<1>6. PICK n \in Nat : n = Len(line) + Len(buff)
  BY <1>2
<1>7. IsRow(Put(screen, t)) /\ Holds(Put(screen, t), line', n)
  BY <1>2, <1>5, <1>6, PutHolds
<1>8. PICK l \in Seq(Glyphs) : l = line'
  BY <1>5
<1>9. n <= Len(l) + Len(buff)
  BY <1>2, <1>5, <1>6, <1>8
<1>10. Shows(Reprint(Put(screen, t), buff), l \o buff, Len(l))
  BY <1>2, <1>7, <1>8, <1>9, ReprintShows
<1>11. Shows(screen', line' \o buff', Len(line'))
  BY <1>1, <1>4, <1>8, <1>10
<1> QED
  BY <1>1, <1>2, <1>11, ShownNext

LEMMA CursorShown ==
    ASSUME IInv, IInv', ScreenInv, Drawn, Paced, NEW k, Key(k), NEW n \in 0 .. Len(Text), Cursor(n)
    PROVE  ScreenInv'
<1>1. /\ killers = 0 /\ clearing = FALSE /\ IsRow(screen)
      /\ line \in Seq(Glyphs) /\ buff \in Seq(Glyphs) /\ Len(line) \in Nat /\ Len(buff) \in Nat
      /\ Shows(screen, Text, Len(line))
  BY ShownNow DEF Text
<1>2. Text \in Seq(Glyphs) /\ Len(Text) = Len(line) + Len(buff)
  BY <1>1, ConcatProperties DEF Text
<1> DEFINE t == SubSeq(Text, 1, n)
           u == SubSeq(Text, n + 1, Len(Text))
           p == SubSeq(t, Len(line) + 1, Len(t))
<1>3. t \in Seq(Glyphs) /\ Len(t) = n /\ t \o u = Text /\ n \in Nat /\ n <= Len(Text)
  <2>1. t \in Seq(Glyphs) /\ Len(t) = n /\ t \o u = Text
    BY <1>2, CutAt
  <2>2. n \in Nat /\ n <= Len(Text)
    BY <1>1, <1>2
  <2> QED
    BY <2>1, <2>2
<1>4. \A i \in 1 .. n : t[i] = Text[i]
  <2>1. 1 \in 1 .. Len(Text) + 1 /\ n \in 1 - 1 .. Len(Text)
    BY <1>1, <1>2
  <2>2. \A i \in 1 .. n - 1 + 1 : t[i] = Text[1 + i - 1]
    BY <1>2, <2>1, PartOf
  <2> QED
    BY <1>3, <2>2
<1>5. /\ line' = t /\ buff' = u /\ killers' = killers /\ clearing' = clearing
      /\ screen' = IF Len(t) < Len(line) THEN Back(screen, Len(line) - Len(t)) ELSE Put(screen, p)
  BY DEF Cursor, MoveTo, Draw, besideVars
<1> HIDE DEF t, u, p
<1>6. Shows(screen', Text, n)
  <2>1. CASE n < Len(line)
    <3>1. Len(line) - n \in Int /\ screen' = Back(screen, Len(line) - n)
      BY <1>1, <1>3, <1>5, <2>1
    <3>2. screen'.col = screen.col - (Len(line) - n) /\ screen'.cells = screen.cells
      BY <1>1, <3>1, BackIs
    <3>3. screen'.col = n
      BY <1>1, <1>3, <3>2 DEF Shows
    <3> QED
      BY <1>1, <3>2, <3>3 DEF Shows
  <2>2. CASE ~(n < Len(line))
    <3>1. Len(line) + 1 \in 1 .. Len(t) + 1 /\ Len(t) \in (Len(line) + 1) - 1 .. Len(t)
      BY <1>1, <1>3, <2>2
    <3>2. /\ Len(p) = Len(t) - (Len(line) + 1) + 1
          /\ \A i \in 1 .. Len(t) - (Len(line) + 1) + 1 : p[i] = t[(Len(line) + 1) + i - 1]
      BY <1>3, <3>1, PartOf DEF p
    <3>3. /\ Len(p) = n - Len(line) /\ Len(p) \in Nat
          /\ \A i \in 1 .. n - Len(line) : p[i] = t[Len(line) + i]
      BY <1>1, <1>3, <2>2, <3>2
    <3>4. /\ screen'.col = screen.col + Len(p)
          /\ \A i \in 1 .. Width : screen'.cells[i] = IF i - screen.col \in 1 .. Len(p)
                                                      THEN p[i - screen.col] ELSE screen.cells[i]
      <4>1. screen' = Put(screen, p)
        BY <1>3, <1>5, <2>2
      <4> QED
        BY <1>1, <3>3, <4>1, PutIs, ZenonT(30)
    <3>5. screen.col = Len(line) /\ \A i \in 1 .. Width : screen.cells[i] = Cell(Text, i)
      BY <1>1 DEF Shows
    <3>6. ASSUME NEW i \in 1 .. Width
          PROVE  screen'.cells[i] = Cell(Text, i)
      <4>1. CASE i - Len(line) \in 1 .. n - Len(line)
        <5>1. /\ i \in 1 .. n /\ Len(line) + (i - Len(line)) = i /\ i <= Len(Text)
          <6>1. Width \in Nat
            BY WidthIs
          <6> QED
            BY <1>1, <1>3, <2>2, <4>1, <6>1
        <5>2. screen'.cells[i] = t[i]
          BY <3>3, <3>4, <3>5, <4>1, <5>1
        <5> QED
          BY <1>4, <5>1, <5>2 DEF Cell
      <4>2. CASE ~(i - Len(line) \in 1 .. n - Len(line))
        BY <3>3, <3>4, <3>5, <4>2
      <4> QED
        BY <4>1, <4>2
    <3>7. screen'.col = n
      BY <1>1, <1>3, <3>3, <3>4, <3>5
    <3> QED
      BY <3>6, <3>7 DEF Shows
  <2> QED
    BY <2>1, <2>2
<1>7. Shows(screen', line' \o buff', Len(line'))
  BY <1>3, <1>5, <1>6
<1> QED
  BY <1>1, <1>5, <1>7, ShownNext

LEMMA MoveShown ==
    ASSUME IInv, IInv', ScreenInv, Drawn, Paced,
           LeftArrow \/ RightArrow \/ CtrlA \/ CtrlE \/ CtrlRight \/ CtrlLeft
    PROVE  ScreenInv'
<1>1. /\ TypeOK /\ Len(line) \in Nat /\ Len(buff) \in Nat /\ Len(Text) = Len(line) + Len(buff)
      /\ (buff # <<>> => Len(buff) > 0) /\ (line # <<>> => Len(line) > 0)
  BY TypedHalves, EmptySeq DEF IInv, Lines
<1>2. ASSUME NEW n \in 0 .. Len(Text), NEW k, Key(k), Cursor(n)
      PROVE  ScreenInv'
  BY <1>2, CursorShown
<1>3. CASE LeftArrow
  <2>1. Len(line) - 1 \in 0 .. Len(Text) /\ Key("left") /\ Cursor(Len(line) - 1)
    BY <1>1, <1>3 DEF LeftArrow
  <2> QED
    BY <1>2, <2>1
<1>4. CASE RightArrow
  <2>1. Len(line) + 1 \in 0 .. Len(Text) /\ Key("right") /\ Cursor(Len(line) + 1)
    BY <1>1, <1>4 DEF RightArrow
  <2> QED
    BY <1>2, <2>1
<1>5. CASE CtrlA
  <2>1. 0 \in 0 .. Len(Text) /\ Key("ctrl_a") /\ Cursor(0)
    BY <1>1, <1>5 DEF CtrlA
  <2> QED
    BY <1>2, <2>1
<1>6. CASE CtrlE
  <2>1. Len(Text) \in 0 .. Len(Text) /\ Key("ctrl_e") /\ Cursor(Len(Text))
    BY <1>1, <1>6 DEF CtrlE
  <2> QED
    BY <1>2, <2>1
<1>7. CASE CtrlRight
  <2>1. WordRight \in 0 .. Len(Text) /\ Key("ctrl_right") /\ Cursor(WordRight)
    BY <1>1, <1>7, WordRightIs DEF CtrlRight
  <2> QED
    BY <1>2, <2>1
<1>8. CASE CtrlLeft
  <2>1. WordLeft \in 0 .. Len(Text) /\ Key("ctrl_left") /\ Cursor(WordLeft)
    BY <1>1, <1>8, WordLeftIs DEF CtrlLeft
  <2> QED
    BY <1>2, <2>1
<1> QED
  BY <1>3, <1>4, <1>5, <1>6, <1>7, <1>8

LEMMA BackspaceShown ==
    ASSUME IInv, IInv', ScreenInv, Drawn, Paced, Backspace
    PROVE  ScreenInv'
<1>1. /\ Key("backspace") /\ line # <<>> /\ line' = SubSeq(line, 1, Len(line) - 1) /\ buff' = buff
      /\ screen' = Reprint(Back(screen, 1), Append(buff, " "))
      /\ killers' = killers /\ clearing' = clearing
  BY DEF Backspace, Draw, Front, besideVars
<1>2. /\ killers = 0 /\ clearing = FALSE /\ IsRow(screen) /\ buff \in Lines
      /\ line \in Seq(Glyphs) /\ buff \in Seq(Glyphs) /\ Len(line) \in Nat /\ Len(buff) \in Nat
      /\ Holds(screen, line, Len(line) + Len(buff))
  BY <1>1, ShownNow
<1>3. Len(line) > 0 /\ Len(line) - 1 \in 0 .. Len(line)
  <2>1. line # <<>>
    BY <1>1
  <2> QED
    BY <1>2, <2>1, EmptySeq
<1> DEFINE t == SubSeq(line, 1, Len(line) - 1)
           b == Back(screen, 1)
<1>4. t \in Seq(Glyphs) /\ Len(t) = Len(line) - 1 /\ \A i \in 1 .. Len(t) : t[i] = line[i]
  <2>1. t \in Seq(Glyphs) /\ Len(t) = Len(line) - 1
    BY <1>2, <1>3, CutAt
  <2>2. 1 \in 1 .. Len(line) + 1 /\ Len(line) - 1 \in 1 - 1 .. Len(line)
    BY <1>2, <1>3
  <2>3. \A i \in 1 .. (Len(line) - 1) - 1 + 1 : t[i] = line[1 + i - 1]
    BY <1>2, <2>2, PartOf
  <2>4. \A i \in 1 .. Len(line) - 1 : t[i] = line[i]
    <3> HIDE DEF t
    <3> QED
      BY <1>2, <2>3
  <2> QED
    BY <2>1, <2>4
<1>5. IsRow(b) /\ b.col = screen.col - 1 /\ b.cells = screen.cells
  BY <1>2, BackIs
<1> HIDE DEF t, b
<1>6. Holds(b, t, Len(t) + Len(buff) + 1)
  <2>1. /\ screen.col = Len(line)
        /\ \A i \in 1 .. Width : screen.cells[i] = IF i <= Len(line) THEN line[i]
               ELSE IF i > Len(line) + Len(buff) THEN " " ELSE screen.cells[i]
    BY <1>2 DEF Holds
  <2>2. b.col = Len(t)
    BY <1>2, <1>4, <1>5, <2>1
  <2>3. ASSUME NEW i \in 1 .. Width
        PROVE  b.cells[i] = IF i <= Len(t) THEN t[i]
                            ELSE IF i > Len(t) + Len(buff) + 1 THEN " " ELSE b.cells[i]
    <3>1. Width \in Nat
      BY WidthIs
    <3>2. i <= Len(t) => i \in 1 .. Len(t) /\ i <= Len(line)
      BY <1>2, <1>4, <3>1
    <3>3. i > Len(t) + Len(buff) + 1 => i > Len(line) + Len(buff) /\ ~(i <= Len(line))
      BY <1>2, <1>4, <3>1
    <3>4. i <= Len(t) => t[i] = line[i]
      BY <1>4, <3>2
    <3> QED
      BY <1>5, <2>1, <3>2, <3>3, <3>4
  <2> QED
    BY <2>2, <2>3 DEF Holds
<1>7. Shows(Reprint(b, Append(buff, " ")), t \o buff, Len(t))
  BY <1>2, <1>4, <1>5, <1>6, ReprintBlank
<1>8. Shows(screen', line' \o buff', Len(line'))
  BY <1>1, <1>7 DEF t, b
<1> QED
  BY <1>1, <1>2, <1>8, ShownNext

LEMMA EraseShown ==
    ASSUME IInv, IInv', ScreenInv, Drawn, Paced, CtrlD \/ Delete
    PROVE  ScreenInv'
<1>1. /\ Key("ctrl_d") \/ Key("delete")
      /\ buff # <<>> /\ buff' = Tail(buff) /\ line' = line
      /\ screen' = Reprint(screen, Append(buff', " "))
      /\ killers' = killers /\ clearing' = clearing
  BY DEF CtrlD, Delete, EraseRight, Draw
<1>2. /\ killers = 0 /\ clearing = FALSE /\ IsRow(screen)
      /\ line \in Seq(Glyphs) /\ buff \in Seq(Glyphs) /\ Len(line) \in Nat /\ Len(buff) \in Nat
      /\ Holds(screen, line, Len(line) + Len(buff))
  BY <1>1, ShownNow
<1>3. buff' \in Lines
  BY NewTexts
<1>4. Len(line) + Len(buff) = Len(line) + Len(buff') + 1
  <2>1. Len(buff') = Len(buff) - 1
    BY <1>1, <1>2, HeadTailProperties
  <2> QED
    BY <1>2, <2>1
<1>5. PICK b \in Lines : b = buff'
  BY <1>3
<1>6. Holds(screen, line, Len(line) + Len(b) + 1)
  BY <1>2, <1>4, <1>5
<1>7. Shows(Reprint(screen, Append(b, " ")), line \o b, Len(line))
  BY <1>2, <1>6, ReprintBlank
<1>8. Shows(screen', line' \o buff', Len(line'))
  BY <1>1, <1>5, <1>7
<1> QED
  BY <1>1, <1>2, <1>8, ShownNext

\* The rest of the line is blanked before what is left of it is shown.
LEMMA CtrlDeleteShown ==
    ASSUME IInv, IInv', ScreenInv, Drawn, Paced, CtrlDelete
    PROVE  ScreenInv'
<1> DEFINE s == Reprint(screen, Spaces(Len(buff)))
<1>1. /\ Key("ctrl_delete") /\ line' = line /\ screen' = Reprint(s, buff')
      /\ killers' = killers /\ clearing' = clearing
  BY DEF CtrlDelete, Draw, besideVars
<1>2. /\ killers = 0 /\ clearing = FALSE /\ IsRow(screen)
      /\ line \in Seq(Glyphs) /\ Len(line) \in Nat /\ Len(buff) \in Nat
      /\ Holds(screen, line, Len(line) + Len(buff))
  BY <1>1, ShownNow
<1>3. PICK n \in Nat : n = Len(line) + Len(buff)
  BY <1>2
<1>4. IsRow(s) /\ Shows(s, line, Len(line))
  <2>1. n <= Len(line) + Len(buff) /\ Holds(screen, line, n)
    BY <1>2, <1>3
  <2> QED
    BY <1>2, <2>1, ReprintSpaces
<1> HIDE DEF s
<1>5. Holds(s, line, Len(line))
  <2>1. PICK e \in Seq(Glyphs) : e = <<>> /\ line \o e = line /\ Len(e) = 0
    BY <1>2, EmptySeq, ConcatEmptySeq
  <2>2. Shows(s, line \o e, Len(line)) /\ Len(line) + Len(e) = Len(line)
    BY <1>2, <1>4, <2>1
  <2> QED
    BY <1>2, <2>2, ShownHolds
<1>6. PICK b \in Seq(Glyphs) : b = buff' /\ Len(b) \in Nat
  BY NewTexts
<1>7. Len(line) <= Len(line) + Len(b)
  BY <1>2, <1>6
<1>8. Shows(Reprint(s, b), line \o b, Len(line))
  BY <1>2, <1>4, <1>5, <1>6, <1>7, ReprintShows
<1>9. Shows(screen', line' \o buff', Len(line'))
  BY <1>1, <1>6, <1>8
<1> QED
  BY <1>1, <1>2, <1>9, ShownNext

LEMMA KillShown ==
    ASSUME IInv, IInv', ScreenInv, Drawn, Paced, CtrlK
    PROVE  ScreenInv'
<1>1. /\ Key("ctrl_k") /\ line' = line /\ killers' > 0 /\ clearing' = clearing
      /\ screen' = Reprint(screen, Spaces(Len(buff) + 1))
  BY DEF CtrlK, Draw, IInv, TypeOK
<1>2. /\ clearing = FALSE /\ IsRow(screen)
      /\ line \in Seq(Glyphs) /\ Len(line) \in Nat /\ Len(buff) \in Nat
      /\ Holds(screen, line, Len(line) + Len(buff))
  BY <1>1, ShownNow
<1>3. PICK n \in Nat : n = Len(line) + Len(buff)
  BY <1>2
<1>4. PICK k \in Nat : k = Len(buff) + 1 /\ n <= Len(line) + k
  BY <1>2, <1>3
<1>5. Shows(Reprint(screen, Spaces(k)), line, Len(line))
  BY <1>2, <1>3, <1>4, ReprintSpaces
<1>6. ShownText' = line' /\ Shows(screen', line', Len(line'))
  BY <1>1, <1>4, <1>5 DEF ShownText
<1> QED
  BY <1>1, <1>2, <1>6 DEF ScreenInv, Shows, Cell, Width

\* Nothing of the rest is on the screen when the last of it is popped.
LEMMA KillerShown ==
    ASSUME IInv, ScreenInv, Killer
    PROVE  ScreenInv'
<1>1. line' = line /\ screen' = screen /\ clearing' = clearing /\ killers > 0 /\ killers \in Nat
  BY DEF Killer, IInv, TypeOK
<1>2. clearing = FALSE /\ Shows(screen, line, Len(line))
  BY <1>1 DEF ScreenInv, ShownText, IInv, TypeOK
<1>3. CASE killers' = 0
  <2>1. buff' = <<>>
    BY <1>1, <1>3 DEF Killer
  <2>2. line' \o buff' = line
    BY <1>1, <2>1, ConcatEmptySeq DEF IInv, TypeOK, Lines
  <2>3. Shows(screen', line' \o buff', Len(line'))
    BY <1>1, <1>2, <2>2
  <2> QED
    BY <1>1, <1>2, <1>3, <2>3, ShownNext
<1>4. CASE killers' > 0
  <2>1. ShownText' = line' /\ Shows(screen', line', Len(line'))
    BY <1>1, <1>2, <1>4 DEF ShownText
  <2> QED
    BY <1>1, <1>2, <2>1 DEF ScreenInv, Shows, Cell, Width
<1>5. killers' \in Nat
  BY <1>1 DEF Killer
<1> QED
  BY <1>3, <1>4, <1>5

LEMMA StandsShown ==
    ASSUME ScreenInv, UNCHANGED <<line, buff, screen, killers, clearing>>
    PROVE  ScreenInv'
BY DEF ScreenInv, ShownText, Text, Shows, Cell, Width

\* A text printed on a row that is blank, with the cursor at its start
LEMMA PutOnBlank ==
    ASSUME NEW s, IsRow(s), Holds(s, <<>>, 0), NEW t \in Seq(Glyphs), NEW u \in Seq(Glyphs)
    PROVE  /\ Shows(Put(s, t), t, Len(t))
           /\ Shows(Reprint(Put(s, t), u), t \o u, Len(t))
<1>1. <<>> \in Seq(Glyphs) /\ <<>> \o t = t /\ Len(t) \in Nat /\ Len(u) \in Nat
  BY EmptySeq, ConcatEmptySeq, LenProperties
<1>2. PICK e \in Seq(Glyphs) : e = <<>> /\ e \o t = t
  BY <1>1
<1>3. Holds(s, e, 0)
  BY <1>2
<1>4. IsRow(Put(s, t)) /\ Holds(Put(s, t), t, 0)
  BY <1>2, <1>3, PutHolds
<1>5. 0 <= Len(t) /\ 0 <= Len(t) + Len(u)
  BY <1>1
<1> QED
  BY <1>4, <1>5, HeldShows, ReprintShows

LEMMA CompleteOneShown ==
    ASSUME IInv, IInv', ScreenInv, Drawn, Paced, Key("tab"), buff = <<>>, NEW n, CompleteOne(n)
    PROVE  ScreenInv'
<1>1. CASE line = <<>>
  <2>1. UNCHANGED <<line, buff, screen, killers, clearing>>
    BY <1>1 DEF CompleteOne, editVars
  <2> QED
    BY <2>1, StandsShown
<1>2. CASE line # <<>>
  <2>1. /\ screen' = Put(Rub(screen, Len(line)), line') /\ buff' = <<>>
        /\ killers' = killers /\ clearing' = clearing
    BY <1>2 DEF CompleteOne, Draw
  <2>2. /\ killers = 0 /\ clearing = FALSE /\ IsRow(screen)
        /\ line \in Seq(Glyphs) /\ Len(line) \in Nat /\ Len(buff) \in Nat
        /\ Holds(screen, line, Len(line) + Len(buff))
    BY ShownNow
  <2>3. Len(line) + Len(buff) = Len(line)
    <3>1. Len(buff) = 0
      OBVIOUS
    <3> QED
      BY <2>2, <3>1
  <2>4. IsRow(Rub(screen, Len(line))) /\ Holds(Rub(screen, Len(line)), <<>>, 0)
    BY <2>2, <2>3, RubHolds
  <2>5. line' \in Seq(Glyphs)
    BY NewTexts
  <2>6. PICK t \in Seq(Glyphs) : t = line'
    BY <2>5
  <2>7. Shows(Put(Rub(screen, Len(line)), t), t, Len(t))
    BY <2>4, PutOnBlank
  <2>8. line' \o buff' = line'
    BY <2>1, <2>5, ConcatEmptySeq
  <2>9. Shows(screen', line' \o buff', Len(line'))
    BY <2>1, <2>6, <2>7, <2>8
  <2> QED
    BY <2>1, <2>2, <2>9, ShownNext
<1> QED
  BY <1>1, <1>2

LEMMA CompleteManyShown ==
    ASSUME IInv, IInv', ScreenInv, Drawn, Paced, Key("tab"), buff = <<>>, NEW names, CompleteMany(names)
    PROVE  ScreenInv'
<1>1. /\ screen' = Put(BlankRow, line') /\ buff' = <<>>
      /\ killers' = killers /\ clearing' = clearing
  BY DEF CompleteMany, Draw, besideVars
<1>2. killers = 0 /\ clearing = FALSE
  BY ShownNow
<1>3. PICK t \in Seq(Glyphs) : t = line'
  BY NewTexts
<1>4. Shows(Put(BlankRow, t), t, Len(t))
  BY BlankShows, PutOnBlank
<1>5. line' \o buff' = line'
  BY <1>1, <1>3, ConcatEmptySeq
<1>6. Shows(screen', line' \o buff', Len(line'))
  BY <1>1, <1>3, <1>4, <1>5
<1> QED
  BY <1>1, <1>2, <1>6, ShownNext

LEMMA TabShown ==
    ASSUME IInv, IInv', ScreenInv, Drawn, Paced, "tab_inside" \notin Keys,
           NEW files, NEW programs, Tab(files, programs)
    PROVE  ScreenInv'
<1>1. Key(IF buff = <<>> THEN "tab" ELSE "tab_inside")
  BY DEF Tab
<1>2. buff = <<>> /\ Key("tab")
  BY <1>1 DEF Key
<1>3. \/ \E n : CompleteOne(n)
      \/ \E names : CompleteMany(names)
      \/ UNCHANGED vars
  BY DEF Tab
<1>4. CASE \E n : CompleteOne(n)
  BY <1>2, <1>4, CompleteOneShown
<1>5. CASE \E names : CompleteMany(names)
  BY <1>2, <1>5, CompleteManyShown
<1>6. CASE UNCHANGED vars
  BY <1>6, StandsShown DEF vars, editVars, besideVars
<1> QED
  BY <1>3, <1>4, <1>5, <1>6

LEMMA EnterShown ==
    ASSUME IInv, ScreenInv, Drawn, Paced, Enter
    PROVE  ScreenInv'
<1>1. /\ Key("enter") /\ line' = <<>> /\ buff' = <<>> /\ screen' = BlankRow
      /\ killers' = killers /\ clearing' = clearing
  BY DEF Enter, Submit, Draw, besideVars
<1>2. killers = 0 /\ clearing = FALSE
  BY <1>1, ShownNow
<1>3. line' \o buff' = <<>> /\ Len(line') = 0
  <2>1. <<>> \in Seq(Glyphs)
    BY EmptySeq
  <2>2. <<>> \o <<>> = <<>>
    BY <2>1, ConcatEmptySeq
  <2> QED
    BY <1>1, <2>2
<1>4. Shows(screen', line' \o buff', Len(line'))
  BY <1>1, <1>3, BlankShows
<1> QED
  BY <1>1, <1>2, <1>4, ShownNext

\* The line is shown to its end, blanked, and the new one takes its place.
LEMMA ShowShown ==
    ASSUME IInv, IInv', ScreenInv, Drawn, Paced, NEW k, Key(k), NEW f, NEW t, NEW i, Show(f, t, i)
    PROVE  ScreenInv'
<1>1. CASE Searching /\ ~IsPrefix(f.str, t)
  <2>1. UNCHANGED <<line, buff, screen, killers, clearing>>
    BY <1>1 DEF Show, editVars
  <2> QED
    BY <2>1, StandsShown
<1>2. CASE ~(Searching /\ ~IsPrefix(f.str, t))
  <2> DEFINE p == Put(screen, buff)
             r == Rub(p, Len(Text))
  <2>1. /\ screen' = Reprint(Put(r, line'), buff')
        /\ killers' = killers /\ clearing' = clearing
    BY <1>2 DEF Show, Draw, besideVars
  <2>2. /\ killers = 0 /\ clearing = FALSE /\ IsRow(screen)
        /\ line \in Seq(Glyphs) /\ buff \in Seq(Glyphs) /\ Len(line) \in Nat /\ Len(buff) \in Nat
        /\ Len(Text) = Len(line) + Len(buff) /\ Holds(screen, line, Len(line) + Len(buff))
    BY ShownNow DEF Text
  <2>3. Text \in Seq(Glyphs) /\ Len(Text) \in Nat /\ Text = line \o buff
    BY <2>2, ConcatProperties DEF Text
  <2>4. IsRow(p) /\ Holds(p, Text, Len(Text))
    BY <2>2, <2>3, PutHolds
  <2> HIDE DEF p
  <2>5. IsRow(r) /\ Holds(r, <<>>, 0)
    BY <2>3, <2>4, RubHolds
  <2> HIDE DEF r
  <2>6. PICK a, b \in Seq(Glyphs) : a = line' /\ b = buff'
    BY NewTexts
  <2>7. Shows(Reprint(Put(r, a), b), a \o b, Len(a))
    BY <2>5, PutOnBlank
  <2>8. Shows(screen', line' \o buff', Len(line'))
    BY <2>1, <2>6, <2>7
  <2> QED
    BY <2>1, <2>2, <2>8, ShownNext
<1> QED
  BY <1>1, <1>2

LEMMA ArrowShown ==
    ASSUME IInv, IInv', ScreenInv, Drawn, Paced, UpArrow \/ DownArrow
    PROVE  ScreenInv'
<1>1. \E k : Key(k)
  BY DEF UpArrow, DownArrow
<1>2. (\E f : Stay(f)) \/ \E f, t, i : Show(f, t, i)
  BY Zenon DEF UpArrow, DownArrow
<1>3. ASSUME NEW f, Stay(f)
      PROVE  ScreenInv'
  BY <1>3, StandsShown DEF Stay, editVars, besideVars
<1> QED
  BY <1>1, <1>2, <1>3, ShowShown

-----------------------------------------------------------------------------

LEMMA ScreenNext ==
    ASSUME Drawn, Paced, Keys \cap {"ctrl_w", "ctrl_l", "bang", "tab_inside"} = {},
           IInv, IInv', ScreenInv, [Next]_vars
    PROVE  ScreenInv'
<1>1. /\ ~Key("ctrl_w") /\ ~Key("ctrl_l") /\ ~Key("bang") /\ "tab_inside" \notin Keys
      /\ ~clearing
  BY DEF Key, ScreenInv
<1>2. CASE \E c \in Chars : Type(c)
  BY <1>2, TypeShown
<1>3. CASE LeftArrow \/ RightArrow \/ CtrlA \/ CtrlE \/ CtrlRight \/ CtrlLeft
  BY <1>3, MoveShown
<1>4. CASE Backspace
  BY <1>4, BackspaceShown
<1>5. CASE CtrlD \/ Delete
  BY <1>5, EraseShown
<1>6. CASE CtrlDelete
  BY <1>6, CtrlDeleteShown
<1>7. CASE CtrlK
  BY <1>7, KillShown
<1>8. CASE Killer
  BY <1>8, KillerShown
<1>9. CASE \E files, programs \in Listings : Tab(files, programs)
  BY <1>1, <1>9, TabShown
<1>10. CASE Enter
  BY <1>10, EnterShown
<1>11. CASE UpArrow \/ DownArrow
  BY <1>11, ArrowShown
<1>12. CASE CtrlW \/ CtrlL \/ ClearScreen
  BY <1>1, <1>12 DEF CtrlW, CtrlL, ClearScreen
<1>13. CASE BangAlone \/ BangBang \/ \E c \in Chars \cup {"\n"} : BangOther(c)
  BY <1>1, <1>13 DEF BangAlone, BangBang, BangOther, Bang
<1>14. CASE \E n \in 0 .. MaxHist, c \in {" ", "\n"} : BangNumber(n, c)
  BY <1>1, <1>14, Zenon DEF BangNumber, Bang
<1>15. CASE UNCHANGED vars
  BY <1>15, StandsShown DEF vars, editVars, besideVars
<1>16. CASE Race
  BY <1>16 DEF Race
<1> QED
  BY <1>2, <1>3, <1>4, <1>5, <1>6, <1>7, <1>8, <1>9, <1>10, <1>11, <1>12, <1>13, <1>14, <1>15,
     <1>16 DEF Next, Edit, History

LEMMA ScreenInit ==
    ASSUME Init
    PROVE  ScreenInv
<1>1. /\ line = <<>> /\ buff = <<>> /\ screen = BlankRow /\ killers = 0 /\ clearing = FALSE
  BY DEF Init
<1>2. Text = <<>> /\ Len(line) = 0
  <2>1. <<>> \in Seq(Glyphs)
    BY EmptySeq
  <2>2. <<>> \o <<>> = <<>>
    BY <2>1, ConcatEmptySeq
  <2> QED
    BY <1>1, <2>2 DEF Text
<1> QED
  BY <1>1, <1>2, BlankShows DEF ScreenInv, ShownText

LEMMA ShownFaithful ==
    ASSUME IInv, ScreenInv
    PROVE  ScreenFaithful
<1> SUFFICES ASSUME killers = 0 PROVE ScreenFaithful
  BY DEF ScreenFaithful
<1>1. IsRow(screen) /\ Shows(screen, Text, Len(line)) /\ Len(line) \in Nat
  BY TypedHalves DEF IInv, ScreenInv, ShownText
<1> DEFINE d == [i \in 1 .. Width |-> Cell(Text, i)]
<1>2. d = [i \in 1 .. Width |-> d[i]] /\ \A i \in 1 .. Width : d[i] = Cell(Text, i)
  OBVIOUS
<1>3. d = [i \in 1 .. Width |-> IF i <= Len(Text) THEN Text[i] ELSE " "]
  BY DEF Cell
<1> HIDE DEF d
<1>4. PICK n \in Int : n = Len(line)
  BY <1>1
<1>5. PICK r : r = [cells |-> d, col |-> n]
  OBVIOUS
<1>6. IsRow(r) /\ r.cells = d /\ r.col = n
  <2>1. IsRow([cells |-> d, col |-> n])
    BY <1>2, RowOf
  <2> QED
    BY <1>5, <2>1
<1>7. \A i \in 1 .. Width : screen.cells[i] = r.cells[i]
  BY <1>1, <1>2, <1>6 DEF Shows
<1>8. screen.col = r.col
  BY <1>1, <1>4, <1>6 DEF Shows
<1>9. screen = r
  BY <1>1, <1>6, <1>7, <1>8, RowEqual
<1> QED
  BY <1>3, <1>4, <1>5, <1>9 DEF ScreenFaithful

\* The screen shows the line, with the cursor where the next character will go, at every moment the
\* thread of ctrl+k is not at work, for lines of any length and any history: as long as nothing is
\* typed while it is, and neither ctrl+w, ctrl+l, "!" nor a tab inside the line is.
THEOREM ScreenShowsLine ==
    ASSUME Drawn, Paced, Keys \cap {"ctrl_w", "ctrl_l", "bang", "tab_inside"} = {}
    PROVE  Spec => []ScreenFaithful
<1>1. Init => ScreenInv
  BY ScreenInit
<1>2. IInv /\ IInv' /\ ScreenInv /\ [Next]_vars => ScreenInv'
  BY ScreenNext
<1>3. IInv /\ ScreenInv => ScreenFaithful
  BY ShownFaithful
<1> QED
  BY <1>1, <1>2, <1>3, Invariance, PTL DEF Spec

=============================================================================
