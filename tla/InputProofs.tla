----------------------------- MODULE InputProofs -----------------------------
(***************************************************************************)
(* What holds of Input for all files and scripts, any number of lines and  *)
(* whatever writes to the history file fail, in four parts:                *)
(*   IInv: get() returns the line that was typed, though it takes it from  *)
(*     the history;                                                        *)
(*   SourceInv: the variables keep to their domains, and the shell ends or *)
(*     crashes for the known reasons only;                                 *)
(*   OrderInv: the lines of a file reach the parser in their order;        *)
(*   FileInv: the history file keeps what is written to it.                *)
(***************************************************************************)
EXTENDS Input, FiniteSetTheorems, TLAPS

-----------------------------------------------------------------------------
(* The inductive invariant.                                                *)

IsSequence(s) == \E S : s \in Seq(S)
Sequences == IsSequence(submitted) /\ IsSequence(hist) /\ IsSequence(got)

N == Len(submitted)

\* Every line that was typed was handed over but, perhaps, the last one.
InStep == Len(got) = IF editor = "idle" THEN N ELSE N - 1

\* The lines are numbered as they are typed; only those can have failed, and the last
\* one only when the editor is done with it.
Numbered ==
    /\ \A k \in 1 .. N : submitted[k].from = "typed" /\ submitted[k].n = k
    /\ failed \subseteq 1 .. N
    /\ editor \in {"text", "newline", "push"} => N \notin failed

\* A line from before line k
Before(x, k) == x = Old \/ (x.from = "typed" /\ x.n \in Nat /\ x.n < k)

\* The history holds lines that were typed, the last one only when it was pushed.
HistoryIsPast ==
    \A i \in 1 .. Len(hist) :
        Before(hist[i], IF editor \in {"text", "newline", "push"} \/ N \in failed
                        THEN N ELSE N + 1)

\* Where get() is called the line is the last one there, unless it has failed.
PushedLast ==
    editor = "get" /\ N \notin failed => hist # <<>> /\ Last(hist) = submitted[N]

IInv == Sequences /\ InStep /\ Numbered /\ HistoryIsPast /\ PushedLast /\ TypedLineIsRun

-----------------------------------------------------------------------------
LEMMA AppendSequence ==
    ASSUME NEW s, IsSequence(s), NEW x
    PROVE  /\ IsSequence(Append(s, x)) /\ Len(Append(s, x)) = Len(s) + 1 /\ Len(s) \in Nat
           /\ \A i \in 1 .. Len(s) + 1 :
                  Append(s, x)[i] = IF i = Len(s) + 1 THEN x ELSE s[i]
           /\ Last(Append(s, x)) = x
<1>1. PICK S : s \in Seq(S)
  BY DEF IsSequence
<1> DEFINE T == S \cup {x}
           t == Append(s, x)
<1>2. s \in Seq(T) /\ x \in T
  BY <1>1
<1> HIDE DEF T
<1>3. /\ t \in Seq(T) /\ Len(t) = Len(s) + 1 /\ Len(s) \in Nat
      /\ \A i \in 1 .. Len(s) + 1 : t[i] = IF i = Len(s) + 1 THEN x ELSE s[i]
  BY <1>2
<1> HIDE DEF t
<1>4. Last(t) = x
  BY <1>3 DEF Last
<1> QED
  BY <1>3, <1>4 DEF IsSequence, t

LEMMA SequenceLength == ASSUME NEW s, IsSequence(s) PROVE Len(s) \in Nat
<1>1. PICK S : s \in Seq(S)
  BY DEF IsSequence
<1> QED
  BY <1>1

LEMMA NotEmpty == ASSUME NEW s, IsSequence(s), s # <<>> PROVE Len(s) \in 1 .. Len(s)
<1>1. PICK S : s \in Seq(S)
  BY DEF IsSequence
<1> QED
  BY <1>1

LEMMA InitHolds == Init => IInv
<1> SUFFICES ASSUME Init PROVE IInv
  OBVIOUS
<1>1. IsSequence(<<>>) /\ IsSequence(<<Old>>)
  <2>1. <<>> \in Seq({}) /\ <<Old>> \in Seq({Old})
    OBVIOUS
  <2> QED
    BY <2>1 DEF IsSequence
<1>2. Sequences /\ InStep /\ Numbered /\ PushedLast /\ TypedLineIsRun
  BY <1>1 DEF Init, Sequences, InStep, Numbered, PushedLast, TypedLineIsRun, N
<1>3. HistoryIsPast
  <2>1. hist = <<>> \/ hist = <<Old>>
    BY DEF Init
  <2> QED
    BY <2>1 DEF HistoryIsPast, Before
<1> QED
  BY <1>2, <1>3 DEF IInv

-----------------------------------------------------------------------------
(* The steps.                                                              *)

\* The scanner, the parser and the other shell leave the editor alone.
LEMMA OtherStep == IInv /\ UNCHANGED editorVars => IInv'
BY DEF IInv, editorVars, Sequences, InStep, Numbered, HistoryIsPast, PushedLast, TypedLineIsRun, N, Before, Old, Line

\* A line is typed.
LEMMA TypedNumbers ==
    ASSUME IInv, NEW src, submitted' = Append(submitted, Line("typed", N + 1, src)),
           UNCHANGED failed
    PROVE  /\ IsSequence(submitted') /\ N' = N + 1 /\ N \in Nat /\ N' \notin failed
           /\ failed \subseteq 1 .. N'
           /\ \A k \in 1 .. N' : submitted'[k].from = "typed" /\ submitted'[k].n = k
           /\ \A k \in 1 .. N : submitted'[k] = submitted[k]
           /\ Last(submitted') = submitted'[N']
<1> DEFINE l == Line("typed", N + 1, src)
<1>1. IsSequence(submitted) /\ failed \subseteq 1 .. N
      /\ \A k \in 1 .. N : submitted[k].from = "typed" /\ submitted[k].n = k
  BY DEF IInv, Sequences, Numbered
<1>2. l.from = "typed" /\ l.n = N + 1
  BY DEF Line
<1>3. submitted' = Append(submitted, l)
  OBVIOUS
<1> HIDE DEF l
<1>4. /\ IsSequence(submitted') /\ Len(submitted') = N + 1 /\ N \in Nat
      /\ \A i \in 1 .. N + 1 : submitted'[i] = IF i = N + 1 THEN l ELSE submitted[i]
      /\ Last(submitted') = l
  BY <1>1, <1>3, AppendSequence DEF N
<1>5. N' = N + 1
  BY <1>4 DEF N
<1> HIDE DEF N
<1> QED
  BY <1>1, <1>2, <1>4, <1>5

LEMMA BeforeLater ==
    ASSUME NEW x, NEW k \in Nat, Before(x, k)
    PROVE  Before(x, k + 1)
BY DEF Before

LEMMA EnterStep ==
    ASSUME IInv, NEW src, Enter(src)
    PROVE  IInv'
<1>1. /\ editor = "idle" /\ submitted' = Append(submitted, Line("typed", N + 1, src))
      /\ editor' \in {"text", "push"} /\ UNCHANGED <<hist, failed, got>>
  BY DEF Enter, Running, N
<1>2. /\ IsSequence(submitted') /\ N' = N + 1 /\ N \in Nat /\ N' \notin failed
      /\ failed \subseteq 1 .. N'
      /\ \A k \in 1 .. N' : submitted'[k].from = "typed" /\ submitted'[k].n = k
      /\ \A k \in 1 .. N : submitted'[k] = submitted[k]
  BY <1>1, TypedNumbers
<1>3. Len(got) = N
  BY <1>1 DEF IInv, InStep
<1>4. Sequences' /\ InStep' /\ Numbered' /\ PushedLast'
  <2>1. Sequences' /\ PushedLast'
    BY <1>1, <1>2 DEF IInv, Sequences, PushedLast
  <2>2. InStep'
    BY <1>1, <1>2, <1>3 DEF InStep
  <2>3. Numbered'
    BY <1>1, <1>2 DEF Numbered
  <2> QED
    BY <2>1, <2>2, <2>3
<1>5. HistoryIsPast'
  <2>1. ASSUME NEW i \in 1 .. Len(hist) PROVE Before(hist[i], N + 1)
    BY <1>1, <1>2, <2>1, BeforeLater DEF IInv, HistoryIsPast
  <2> QED
    BY <1>1, <1>2, <2>1 DEF HistoryIsPast, Before, Old, Line
<1>6. TypedLineIsRun'
  BY <1>1, <1>2, <1>3 DEF IInv, TypedLineIsRun, Old, Line
<1> QED
  BY <1>4, <1>5, <1>6 DEF IInv

\* Before main has set m_interactive there is no editor: the line comes as it is.
LEMMA CookedStep ==
    ASSUME IInv, NEW src, Cooked(src)
    PROVE  IInv'
<1>1. CASE UNCHANGED <<submitted, got>>
  BY <1>1, OtherStep DEF Cooked, editorVars
<1>2. CASE /\ submitted' = Append(submitted, Line("typed", N + 1, src))
           /\ got' = Append(got, Last(submitted'))
  <2>1. editor = "idle" /\ UNCHANGED <<editor, hist, failed>>
    BY DEF Cooked, Running
  <2>2. /\ IsSequence(submitted') /\ N' = N + 1 /\ N \in Nat /\ N' \notin failed
        /\ failed \subseteq 1 .. N'
        /\ \A k \in 1 .. N' : submitted'[k].from = "typed" /\ submitted'[k].n = k
        /\ \A k \in 1 .. N : submitted'[k] = submitted[k]
        /\ Last(submitted') = submitted'[N']
    BY <1>2, <2>1, TypedNumbers
  <2>3. IsSequence(got) /\ Len(got) = N
    BY <2>1 DEF IInv, Sequences, InStep
  <2>4. /\ IsSequence(got') /\ Len(got') = N + 1
        /\ \A k \in 1 .. N + 1 : got'[k] = IF k = N + 1 THEN Last(submitted') ELSE got[k]
    BY <1>2, <2>3, AppendSequence
  <2>5. Sequences' /\ InStep' /\ Numbered' /\ PushedLast'
    BY <2>1, <2>2, <2>4 DEF IInv, Sequences, InStep, Numbered, PushedLast
  <2>6. HistoryIsPast'
    <3>1. ASSUME NEW i \in 1 .. Len(hist) PROVE Before(hist[i], N + 1 + 1)
      <4>1. Before(hist[i], N) \/ Before(hist[i], N + 1)
        BY <2>1 DEF IInv, HistoryIsPast
      <4> QED
        BY <2>2, <4>1, BeforeLater
    <3> QED
      BY <2>1, <2>2, <3>1 DEF HistoryIsPast, Before, Old, Line
  <2>7. TypedLineIsRun'
    <3>1. ASSUME NEW k \in 1 .. N + 1
          PROVE  IF k \in failed THEN got'[k] = Old \/ (got'[k].from = "typed" /\ got'[k].n < k)
                 ELSE got'[k] = submitted'[k]
      <4>1. CASE k = N + 1
        BY <2>2, <2>4, <4>1
      <4>2. CASE k # N + 1
        <5>1. k \in 1 .. N /\ got'[k] = got[k] /\ submitted'[k] = submitted[k]
          BY <2>2, <2>4, <4>2
        <5> QED
          BY <2>3, <5>1 DEF IInv, TypedLineIsRun
      <4> QED
        BY <4>1, <4>2
    <3> QED
      BY <2>1, <2>4, <3>1 DEF TypedLineIsRun, Old, Line
  <2> QED
    BY <2>5, <2>6, <2>7 DEF IInv
<1> QED
  BY <1>1, <1>2 DEF Cooked, N

\* A line that cannot be written is not pushed, and get() finds one from before it.
LEMMA WriteStep ==
    ASSUME IInv, NEW now \in {"text", "newline"}, NEW x, NEW next \in {"newline", "push"},
           Write(now, x, next)
    PROVE  IInv'
<1>1. /\ editor \in {"text", "newline"} /\ UNCHANGED <<hist, submitted, got>>
      /\ \/ editor' \in {"newline", "push"} /\ UNCHANGED failed
         \/ editor' = "get" /\ failed' = failed \cup {N}
  BY DEF Write, N
<1>2. /\ IsSequence(submitted) /\ IsSequence(got) /\ Len(got) = N - 1
      /\ N \in Nat /\ Len(got) \in Nat
  BY <1>1, SequenceLength DEF IInv, Sequences, InStep, N
<1>3. N \in 1 .. N /\ N' = N
  <2>1. N' = N
    BY <1>1 DEF N
  <2> HIDE DEF N
  <2> QED
    BY <1>2, <2>1
<1> HIDE DEF N
<1>4. Sequences' /\ InStep' /\ PushedLast'
  BY <1>1, <1>2, <1>3 DEF IInv, Sequences, InStep, PushedLast
<1>5. Numbered'
  BY <1>1, <1>2, <1>3 DEF IInv, Numbered
<1>6. HistoryIsPast'
  BY <1>1, <1>3 DEF IInv, HistoryIsPast, Before, Old, Line
<1>7. TypedLineIsRun'
  <2>1. \A k \in 1 .. Len(got) : k # N
    BY <1>2
  <2> QED
    BY <1>1, <2>1 DEF IInv, TypedLineIsRun, Old, Line
<1> QED
  BY <1>4, <1>5, <1>6, <1>7 DEF IInv

LEMMA PushStep == IInv /\ Push => IInv'
<1> SUFFICES ASSUME IInv, Push PROVE IInv'
  OBVIOUS
<1>1. /\ editor = "push" /\ editor' = "get" /\ UNCHANGED <<submitted, failed, got>>
      /\ hist' = Append(hist, Last(submitted))
  BY DEF Push
<1>2. /\ IsSequence(submitted) /\ IsSequence(hist) /\ IsSequence(got) /\ Len(got) = N - 1
      /\ N \in Nat /\ Len(got) \in Nat /\ N \notin failed
  BY <1>1, SequenceLength DEF IInv, Sequences, InStep, Numbered, N
<1>3. Last(submitted) = submitted[N] /\ N' = N
  BY <1>1 DEF Last, N
<1>4. N \in 1 .. N
  <2> HIDE DEF N
  <2> QED
    BY <1>2
<1>5. /\ IsSequence(hist') /\ Len(hist') = Len(hist) + 1 /\ Len(hist) \in Nat
      /\ \A i \in 1 .. Len(hist) + 1 :
             hist'[i] = IF i = Len(hist) + 1 THEN Last(submitted) ELSE hist[i]
      /\ Last(hist') = Last(submitted)
  BY <1>1, <1>2, AppendSequence
<1> HIDE DEF N
<1>6. Sequences' /\ InStep' /\ Numbered'
  BY <1>1, <1>2, <1>3, <1>5 DEF IInv, Sequences, InStep, Numbered
<1>7. PushedLast'
  <2>1. hist' # <<>>
    BY <1>5
  <2> QED
    BY <1>1, <1>3, <1>5, <2>1 DEF PushedLast
<1>8. HistoryIsPast'
  <2>1. ASSUME NEW i \in 1 .. Len(hist) + 1 PROVE Before(hist'[i], N + 1)
    <3>1. CASE i = Len(hist) + 1
      <4>1. hist'[i] = submitted[N]
        BY <1>3, <1>5, <3>1
      <4>2. submitted[N].from = "typed" /\ submitted[N].n = N
        BY <1>4 DEF IInv, Numbered
      <4> QED
        BY <1>2, <4>1, <4>2 DEF Before
    <3>2. CASE i # Len(hist) + 1
      <4>1. i \in 1 .. Len(hist) /\ hist'[i] = hist[i]
        BY <1>5, <3>2
      <4>2. Before(hist[i], N)
        BY <1>1, <4>1 DEF IInv, HistoryIsPast
      <4> QED
        BY <1>2, <4>1, <4>2, BeforeLater
    <3> QED
      BY <3>1, <3>2
  <2> QED
    BY <1>1, <1>2, <1>3, <1>5, <2>1 DEF HistoryIsPast, Before, Old, Line
<1>9. TypedLineIsRun'
  BY <1>1 DEF IInv, TypedLineIsRun, Old, Line
<1> QED
  BY <1>6, <1>7, <1>8, <1>9 DEF IInv

LEMMA GetStep == IInv /\ Get => IInv'
<1> SUFFICES ASSUME IInv, Get PROVE IInv'
  OBVIOUS
<1>1. CASE hist = <<>>
  BY <1>1, OtherStep DEF Get, editorVars
<1>2. CASE hist # <<>>
  <2>1. /\ editor = "get" /\ editor' = "idle" /\ UNCHANGED <<hist, submitted, failed>>
        /\ got' = Append(got, Last(hist))
    BY <1>2 DEF Get
  <2>2. /\ IsSequence(submitted) /\ IsSequence(hist) /\ IsSequence(got) /\ Len(got) = N - 1
        /\ N \in Nat /\ Len(got) \in Nat
    BY <2>1, SequenceLength DEF IInv, Sequences, InStep, N
  <2>3. N' = N
    BY <2>1 DEF N
  <2> HIDE DEF N
  <2>4. /\ IsSequence(got') /\ Len(got') = N
        /\ \A k \in 1 .. N : got'[k] = IF k = N THEN Last(hist) ELSE got[k]
    <3>1. /\ IsSequence(got') /\ Len(got') = Len(got) + 1
          /\ \A k \in 1 .. Len(got) + 1 :
                 got'[k] = IF k = Len(got) + 1 THEN Last(hist) ELSE got[k]
      BY <2>1, <2>2, AppendSequence
    <3> QED
      BY <2>2, <3>1
  <2>5. Sequences' /\ InStep' /\ Numbered' /\ PushedLast'
    BY <2>1, <2>2, <2>3, <2>4 DEF IInv, Sequences, InStep, Numbered, PushedLast
  <2>6. HistoryIsPast'
    BY <2>1, <2>3 DEF IInv, HistoryIsPast, Before, Old, Line
  <2>7. ASSUME NEW k \in 1 .. N
        PROVE  IF k \in failed THEN got'[k] = Old \/ (got'[k].from = "typed" /\ got'[k].n < k)
               ELSE got'[k] = submitted[k]
    <3>1. CASE k = N /\ N \notin failed
      <4>1. Last(hist) = submitted[N]
        BY <2>1, <3>1 DEF IInv, PushedLast
      <4> QED
        BY <2>4, <3>1, <4>1
    <3>2. CASE k = N /\ N \in failed
      <4>1. Last(hist) = hist[Len(hist)] /\ Len(hist) \in 1 .. Len(hist)
        BY <1>2, <2>2, NotEmpty DEF Last
      <4>2. Before(Last(hist), N)
        BY <3>2, <4>1 DEF IInv, HistoryIsPast
      <4> QED
        BY <2>4, <3>2, <4>2 DEF Before
    <3>3. CASE k # N
      <4>1. k \in 1 .. Len(got) /\ got'[k] = got[k]
        BY <2>2, <2>4, <3>3
      <4> QED
        BY <4>1 DEF IInv, TypedLineIsRun
    <3> QED
      BY <3>1, <3>2, <3>3
  <2>8. TypedLineIsRun'
    BY <2>1, <2>4, <2>7 DEF TypedLineIsRun, Old, Line
  <2> QED
    BY <2>5, <2>6, <2>8 DEF IInv
<1> QED
  BY <1>1, <1>2

LEMMA NextHolds == IInv /\ [Next]_vars => IInv'
<1> SUFFICES ASSUME IInv, [Next]_vars
             PROVE  IInv'
  OBVIOUS
<1>1. CASE Reads
  BY <1>1, OtherStep DEF Reads, Parse, Fill, Return
<1>2. CASE WriteText
  BY <1>2, WriteStep DEF WriteText
<1>3. CASE WriteNewline
  BY <1>3, WriteStep DEF WriteNewline
<1>4. CASE Push
  BY <1>4, PushStep
<1>5. CASE Get
  BY <1>5, GetStep
<1>6. ASSUME NEW src \in Typed, Cooked(src) PROVE IInv'
  BY <1>6, CookedStep
<1>7. ASSUME NEW src \in Typed, Enter(src) PROVE IInv'
  BY <1>7, EnterStep
<1>8. CASE OtherWrites
  BY <1>8, OtherStep DEF OtherWrites
<1>9. CASE UNCHANGED vars
  BY <1>9, OtherStep DEF vars
<1> QED
  BY <1>1, <1>2, <1>3, <1>4, <1>5, <1>6, <1>7, <1>8, <1>9 DEF Next, Hands

\* However many lines are typed, wherever yyparse is when they are, and whatever writes
\* to the history file fail, get() returns the line that was typed, or, where that one
\* could not be written, one from before it (TypedLineIsRun).
THEOREM TypedLinesAreRun == Spec => []TypedLineIsRun
<1>1. IInv => TypedLineIsRun
  BY DEF IInv
<1> QED
  BY <1>1, InitHolds, NextHolds, PTL DEF Spec

-----------------------------------------------------------------------------
(***************************************************************************)
(* What holds of Input's calls of yyparse, its streams and the buffer of   *)
(* the scanner, for all files and scripts and any number of lines: every   *)
(* variable keeps to its domain, and the shell ends or crashes only for    *)
(* the reasons that EndsOnPurpose gives.                                   *)
(***************************************************************************)
(* The inductive invariant.                                                *)

\* A file is read for the caller in front: .yashrc or `source`.
ForFile == Head(stack) \in {"rc", "file"}

\* The calls of yyparse end with that of main, or that of .yashrc before it.
Typing == /\ TypeOK
          /\ submitted \in Seq(LineType) /\ script \in Seq(Sources)
          /\ stack[Len(stack)] \in {"main", "rc"}

\* Lines are typed only while the scanner takes them one by one.
ByHand == ~linewise => editor = "idle" /\ \A i \in 1 .. Len(buf) : buf[i].from # "typed"

\* A file is read by whoever opened it, and the terminal by the editor, unless it was
\* closed; nothing but the end of standard input ends the shell.
Reader == /\ yyin = "stdin" /\ tty => linewise \/ ~open
          /\ yyin \in DOMAIN Files => ForFile
          /\ interactive => tty
          /\ state = "ended" => ~interactive

\* A `source`, or an empty line, in a file or a script has been met: what follows
\* may be read from a stream that is null or closed.
SourceInFile == \E i \in 1 .. Len(handed) : handed[i].from # "typed" /\ handed[i].src # "none"

\* Until then each file is sourced by hand, and its end closes it and nothing else.
SourcedByHand ==
    /\ open
    /\ yyin = "null" => linewise
    /\ linewise => interactive /\ ~ForFile
    /\ ForFile => yyin \in DOMAIN Files
    /\ Head(stack) = "file" => interactive
    /\ \A i \in 2 .. Len(stack) : stack[i] \notin {"rc", "file"}
    /\ state = "crashed" => failed # {}

SourceInv == Typing /\ ByHand /\ Reader /\ (SourceInFile \/ SourcedByHand)

-----------------------------------------------------------------------------
(* Sequences.                                                              *)

LEMMA TailOf ==
    ASSUME NEW S, NEW s \in Seq(S), s # <<>>
    PROVE  /\ Head(s) \in S /\ Head(s) = s[1] /\ Tail(s) \in Seq(S)
           /\ Len(s) \in Nat \ {0} /\ Len(Tail(s)) = Len(s) - 1
           /\ \A i \in 1 .. Len(s) - 1 : Tail(s)[i] = s[i + 1]
OBVIOUS

LEMMA PushOnto ==
    ASSUME NEW S, NEW s \in Seq(S), NEW e \in S
    PROVE  /\ <<e>> \o s \in Seq(S) /\ <<e>> \o s # <<>> /\ Len(<<e>> \o s) = Len(s) + 1
           /\ Head(<<e>> \o s) = e /\ (<<e>> \o s)[1] = e
           /\ \A i \in 2 .. Len(s) + 1 : (<<e>> \o s)[i] = s[i - 1]
OBVIOUS

LEMMA AppendTo ==
    ASSUME NEW S, NEW s \in Seq(S), NEW e \in S
    PROVE  /\ Append(s, e) \in Seq(S) /\ Len(Append(s, e)) = Len(s) + 1 /\ Len(s) \in Nat
           /\ \A i \in 1 .. Len(s) : Append(s, e)[i] = s[i]
           /\ Append(s, e)[Len(s) + 1] = e /\ Last(Append(s, e)) = e
BY DEF Last

LEMMA LastOf ==
    ASSUME NEW S, NEW s \in Seq(S), s # <<>>
    PROVE  Last(s) \in S
BY DEF Last

\* What the lines of a file and of a script may source
LEMMA FileLines ==
    /\ \A f \in DOMAIN Files : Files[f] \in Seq(Sources)
    /\ \A s \in Scripts : s \in Seq(Sources)
<1>1. ASSUME NEW s \in Seq(STRING), Range(s) \subseteq Sources PROVE s \in Seq(Sources)
  <2>1. \A i \in 1 .. Len(s) : s[i] \in Sources
    BY <1>1 DEF Range
  <2> HIDE DEF Sources
  <2> QED
    BY <2>1
<1>2. \A f \in DOMAIN Files : Range(Files[f]) \subseteq Sources
  BY DEF Sources
<1>3. \A s \in Scripts : Range(s) \subseteq Sources
  BY DEF Sources
<1> QED
  BY <1>1, <1>2, <1>3, FilesAssumption

\* The lines that a read from a stream brings are of that stream.
LEMMA ReadLines ==
    ASSUME Typing, NEW f \in Streams
    PROVE  /\ Read(f) \in Seq(LineType)
           /\ \A i \in 1 .. Len(Read(f)) : Read(f)[i].from # "typed"
<1> DEFINE L == Lines(f)
           m == IF pos[f] + Block < Len(L) THEN pos[f] + Block ELSE Len(L)
           l(i) == Line(f, pos[f] + i, L[pos[f] + i])
<1>1. L \in Seq(Sources) /\ pos[f] \in Nat /\ f # "typed"
  BY FilesAssumption, FileLines DEF Typing, TypeOK, Lines, Streams
<1>2. Read(f) = [i \in 1 .. m - pos[f] |-> l(i)]
  BY DEF Read
<1>3. m \in Nat /\ m <= Len(L)
  <2> HIDE DEF L
  <2> QED
    BY <1>1, BoundAssumption
<1>4. \A i \in 1 .. m - pos[f] : l(i) \in LineType /\ l(i).from # "typed"
  <2>1. ASSUME NEW i \in 1 .. m - pos[f] PROVE pos[f] + i \in Nat /\ L[pos[f] + i] \in Sources
    <3> HIDE DEF L, m
    <3> QED
      BY <1>1, <1>3
  <2> HIDE DEF L, m
  <2> QED
    BY <1>1, <2>1 DEF Line, LineType
<1> HIDE DEF l, m, L
<1>5. CASE m - pos[f] \in Nat
  BY <1>2, <1>4, <1>5
<1>6. CASE m - pos[f] \notin Nat
  <2>1. 1 .. m - pos[f] = {}
    BY <1>1, <1>3, <1>6
  <2>2. Read(f) = <<>>
    BY <1>2, <2>1
  <2> QED
    BY <2>2
<1> QED
  BY <1>5, <1>6

\* What is known of the lines already bounds the numbers of those that failed.
Counts == /\ failed \subseteq 1 .. Len(submitted) /\ Len(got) <= Len(submitted)
          /\ editor \in {"text", "newline", "push"} => submitted # <<>>

LEMMA Counted == (IInv => Counts) /\ (IInv' => Counts')
<1>1. IInv => Counts
  <2>1. IInv => Len(submitted) \in Nat /\ Len(got) \in Nat
    BY SequenceLength DEF IInv, Sequences
  <2>2. Len(<<>>) = 0
    OBVIOUS
  <2> QED
    BY <2>1, <2>2 DEF IInv, InStep, Numbered, N, Counts
<1>2. IInv' => Counts'
  <2>1. IInv' => Len(submitted') \in Nat /\ Len(got') \in Nat
    BY SequenceLength DEF IInv, Sequences
  <2>2. Len(<<>>) = 0
    OBVIOUS
  <2> QED
    BY <2>1, <2>2 DEF IInv, InStep, Numbered, N, Counts
<1> QED
  BY <1>1, <1>2

LEMMA InitSource == Init => SourceInv
<1> SUFFICES ASSUME Init PROVE SourceInv
  OBVIOUS
<1>1. tty \in BOOLEAN /\ script \in Seq(Sources)
  <2>1. tty \in Terminals /\ script \in (IF tty THEN {<<>>} ELSE Scripts)
    BY DEF Init
  <2>2. script = <<>> \/ script \in Scripts
    BY <2>1
  <2>3. <<>> \in Seq(Sources)
    OBVIOUS
  <2>4. script \in Seq(Sources)
    BY <2>2, <2>3, FileLines
  <2>5. tty \in BOOLEAN
    BY <2>1, TerminalAssumption
  <2> QED
    BY <2>4, <2>5
<1>2. Old \in LineType
  <2>1. Old = [from |-> "old", n |-> 1, src |-> "none"]
    BY DEF Old, Line
  <2> QED
    BY <2>1 DEF LineType, Sources
<1>3. PICK rc \in RcFiles :
          IF rc = "none"
          THEN stack = <<"main">> /\ yyin = "stdin" /\ linewise = tty /\ interactive = tty
          ELSE stack = <<"rc">> /\ yyin = rc /\ linewise = FALSE /\ interactive = FALSE
  BY DEF Init
<1>4. yyin = "stdin" \/ yyin \in DOMAIN Files
  BY <1>3, FilesAssumption
<1>5. Typing
  <2>1. stack \in Seq({"rc", "main", "file", "rest"}) /\ stack # <<>>
        /\ stack[Len(stack)] \in {"main", "rc"}
    <3>1. stack = <<"main">> \/ stack = <<"rc">>
      BY <1>3
    <3> QED
      BY <3>1
  <2>2. hist \in Seq(LineType)
    <3>1. hist = <<>> \/ hist = <<Old>>
      BY DEF Init
    <3> HIDE DEF LineType
    <3>2. CASE hist = <<>>
      BY <3>2
    <3>3. CASE hist = <<Old>>
      BY <1>2, <3>3
    <3> QED
      BY <3>1, <3>2, <3>3
  <2>3. Counts
    BY InitHolds, Counted
  <2>4. linewise \in BOOLEAN /\ interactive \in BOOLEAN
    BY <1>1, <1>3
  <2> HIDE DEF LineType
  <2>5. <<>> \in Seq(LineType)
    OBVIOUS
  <2>6. pos \in [Streams -> Nat] /\ yyin \in Streams \cup {"null"}
    BY <1>4 DEF Init, Streams
  <2> QED
    BY <1>1, <2>1, <2>2, <2>3, <2>4, <2>5, <2>6 DEF Init, Typing, TypeOK, Counts
<1>6. ByHand /\ Reader /\ SourcedByHand
  BY <1>1, <1>3, <1>4, FilesAssumption DEF Init, ByHand, Reader, SourcedByHand, ForFile
<1> QED
  BY <1>5, <1>6 DEF SourceInv

-----------------------------------------------------------------------------
(* The steps of the editor and of the other shell.                         *)

\* The calls and the streams are left alone.
LEMMA KeepsSource ==
    ASSUME SourceInv, Typing', UNCHANGED <<streamVars, scannerVars, handed>>,
           editor' # "idle" => linewise, failed \subseteq failed'
    PROVE  SourceInv'
<1>1. ByHand' /\ Reader'
  BY DEF SourceInv, ByHand, Reader, ForFile, streamVars, scannerVars
<1>2. SourceInFile' = SourceInFile
  BY DEF SourceInFile
<1>3. SourcedByHand => SourcedByHand'
  BY DEF SourcedByHand, ForFile, streamVars, scannerVars
<1> QED
  BY <1>1, <1>2, <1>3 DEF SourceInv

LEMMA EditorSource ==
    ASSUME SourceInv, IInv, IInv',
           \/ \E src \in Typed : Enter(src)
           \/ WriteText \/ WriteNewline \/ Push \/ OtherWrites \/ UNCHANGED vars
    PROVE  SourceInv'
<1>1. /\ UNCHANGED <<streamVars, scannerVars, handed>> /\ failed \subseteq failed'
      /\ editor' # "idle" => linewise
  BY DEF Enter, WriteText, WriteNewline, Write, Push, OtherWrites, vars, editorVars, SourceInv, ByHand
<1>2. submitted' \in Seq(LineType) /\ hist' \in Seq(LineType)
  <2>1. submitted \in Seq(LineType) /\ hist \in Seq(LineType)
    BY DEF SourceInv, Typing, TypeOK
  <2>2. ASSUME NEW src \in Typed, Enter(src) PROVE submitted' \in Seq(LineType) /\ hist' = hist
    <3> DEFINE l == Line("typed", Len(submitted) + 1, src)
    <3>1. l \in LineType
      <4>1. src \in Sources /\ Len(submitted) + 1 \in Nat
        BY <2>1 DEF Sources
      <4> QED
        BY <4>1 DEF Line, LineType
    <3>2. submitted' = Append(submitted, l) /\ hist' = hist
      BY <2>2 DEF Enter
    <3> HIDE DEF l
    <3> QED
      BY <2>1, <3>1, <3>2, AppendTo
  <2>3. CASE Push
    <3>1. submitted # <<>> /\ submitted' = submitted /\ hist' = Append(hist, Last(submitted))
      BY <2>3, Counted DEF Counts, Push
    <3>2. Last(submitted) \in LineType
      BY <2>1, <3>1, LastOf
    <3> QED
      BY <2>1, <3>1, <3>2, AppendTo
  <2>4. CASE WriteText \/ WriteNewline \/ OtherWrites \/ UNCHANGED vars
    BY <2>1, <2>4 DEF WriteText, WriteNewline, Write, OtherWrites, vars, editorVars
  <2> QED
    BY <2>1, <2>2, <2>3, <2>4
<1>3. editor' \in {"idle", "text", "newline", "push", "get"}
  BY DEF Enter, WriteText, WriteNewline, Write, Push, OtherWrites, vars, editorVars, SourceInv, Typing, TypeOK
<1>4. Typing'
  <2>1. Counts'
    BY Counted
  <2> QED
    BY <1>1, <1>2, <1>3, <2>1 DEF SourceInv, Typing, TypeOK, Streams, Counts, streamVars, scannerVars
<1> QED
  BY <1>1, <1>4, KeepsSource

\* get() crashes only where a line could not be written.
LEMMA GetSource ==
    ASSUME SourceInv, IInv, IInv', Get
    PROVE  SourceInv'
<1>1. /\ linewise /\ UNCHANGED <<streamVars, stack, linewise, interactive, failed, handed>>
      /\ UNCHANGED <<hist, submitted>>
  BY DEF Get, SourceInv, ByHand
<1>2. buf' \in Seq(LineType) /\ editor' \in {"get", "idle"} /\ state' \in {state, "crashed"}
  <2>1. buf \in Seq(LineType) /\ hist \in Seq(LineType)
    BY DEF SourceInv, Typing, TypeOK
  <2>2. CASE hist = <<>>
    BY <2>1, <2>2 DEF Get, Crash
  <2>3. CASE hist # <<>>
    <3>1. buf' = <<Last(hist)>> /\ Last(hist) \in LineType
      BY <2>1, <2>3, LastOf DEF Get
    <3> QED
      BY <2>3, <3>1 DEF Get
  <2> QED
    BY <2>2, <2>3
<1>3. Typing'
  <2>1. Counts'
    BY Counted
  <2> QED
    BY <1>1, <1>2, <2>1 DEF SourceInv, Typing, TypeOK, Streams, Counts, streamVars
<1>4. ByHand' /\ Reader'
  BY <1>1, <1>2 DEF SourceInv, ByHand, Reader, ForFile, streamVars
<1>5. SourceInFile' = SourceInFile
  BY <1>1 DEF SourceInFile
<1>6. state' = "crashed" => state = "crashed" \/ failed # {}
  BY DEF Get, Crash, IInv, PushedLast
<1>7. SourcedByHand => SourcedByHand'
  BY <1>1, <1>6 DEF SourcedByHand, ForFile, streamVars
<1> QED
  BY <1>3, <1>4, <1>5, <1>7 DEF SourceInv

-----------------------------------------------------------------------------
(* The steps of the scanner and of the parser.                             *)

\* The terminal as it is: yyin is null only after a `source` in .yashrc.
LEMMA CookedSource ==
    ASSUME SourceInv, IInv', NEW src \in Typed, Cooked(src)
    PROVE  SourceInv'
<1>1. /\ linewise /\ ~interactive /\ editor = "idle" /\ state = "run"
      /\ UNCHANGED <<streamVars, stack, linewise, interactive, editor, hist, failed, handed>>
  BY DEF Cooked, Running
<1>2. /\ buf' \in Seq(LineType) /\ submitted' \in Seq(LineType)
      /\ state' = "run" \/ (state' = "crashed" /\ yyin = "null")
  <2>1. buf \in Seq(LineType) /\ submitted \in Seq(LineType)
    BY DEF SourceInv, Typing, TypeOK
  <2>2. CASE yyin = "null"
    BY <2>1, <2>2 DEF Cooked, Crash
  <2>3. CASE yyin # "null"
    <3> DEFINE l == Line("typed", Len(submitted) + 1, src)
    <3>1. l \in LineType
      <4>1. src \in Sources /\ Len(submitted) + 1 \in Nat
        BY <2>1 DEF Sources
      <4> QED
        BY <4>1 DEF Line, LineType
    <3>2. submitted' = Append(submitted, l) /\ buf' = <<Last(submitted')>> /\ UNCHANGED state
      BY <2>3 DEF Cooked
    <3> HIDE DEF l
    <3>3. submitted' \in Seq(LineType) /\ Last(submitted') = l
      BY <2>1, <3>1, <3>2, AppendTo
    <3> QED
      BY <1>1, <3>1, <3>2, <3>3
  <2> QED
    BY <2>2, <2>3
<1>3. Typing'
  <2>1. Counts'
    BY Counted
  <2> QED
    BY <1>1, <1>2, <2>1 DEF SourceInv, Typing, TypeOK, Streams, Counts, streamVars
<1>4. ByHand' /\ Reader'
  BY <1>1, <1>2 DEF SourceInv, ByHand, Reader, ForFile, streamVars
<1>5. SourceInFile'
  <2>1. SourceInFile
    BY <1>1 DEF SourceInv, SourcedByHand
  <2> QED
    BY <1>1, <2>1 DEF SourceInFile
<1> QED
  BY <1>3, <1>4, <1>5 DEF SourceInv

\* A null stream is read by the block only after a `source` in a file, and so is
\* standard input once it was closed.
LEMMA FillSource ==
    ASSUME SourceInv, IInv', Fill
    PROVE  SourceInv'
<1>1. /\ ~linewise /\ editor = "idle" /\ state = "run"
      /\ UNCHANGED <<tty, script, yyin, open, stack, linewise, interactive, editorVars, handed>>
  BY DEF Fill, Running
<1>2. \/ /\ yyin = "null" \/ (yyin = "stdin" /\ ~open)
         /\ state' = "crashed" /\ UNCHANGED <<buf, pos>>
      \/ /\ yyin # "null" /\ buf' = Read(yyin) /\ UNCHANGED state
         /\ pos' = [pos EXCEPT ![yyin] = @ + Len(buf')]
  BY DEF Fill, Crash
<1>3. /\ buf \in Seq(LineType) /\ pos \in [Streams -> Nat] /\ yyin \in Streams \cup {"null"}
      /\ \A i \in 1 .. Len(buf) : buf[i].from # "typed"
  BY <1>1 DEF SourceInv, Typing, TypeOK, ByHand
<1>4. /\ buf' \in Seq(LineType) /\ pos' \in [Streams -> Nat]
      /\ \A i \in 1 .. Len(buf') : buf'[i].from # "typed"
  <2>1. CASE UNCHANGED <<buf, pos>>
    BY <1>3, <2>1
  <2>2. CASE /\ yyin # "null" /\ buf' = Read(yyin)
             /\ pos' = [pos EXCEPT ![yyin] = @ + Len(buf')]
    <3>1. /\ yyin \in Streams /\ buf' \in Seq(LineType)
          /\ \A i \in 1 .. Len(buf') : buf'[i].from # "typed"
      BY <1>3, <2>2, ReadLines DEF SourceInv
    <3>2. pos[yyin] + Len(buf') \in Nat
      BY <1>3, <3>1
    <3> QED
      BY <1>3, <2>2, <3>1, <3>2
  <2> QED
    BY <1>2, <2>1, <2>2
<1>5. Typing'
  <2>1. Counts'
    BY Counted
  <2> QED
    BY <1>1, <1>2, <1>4, <2>1 DEF SourceInv, Typing, TypeOK, Streams, Counts, editorVars
<1>6. ByHand' /\ Reader'
  BY <1>1, <1>2, <1>4 DEF SourceInv, ByHand, Reader, ForFile, editorVars
<1>7. SourceInFile' = SourceInFile
  BY <1>1 DEF SourceInFile
<1>8. SourcedByHand => SourcedByHand'
  BY <1>1, <1>2 DEF SourcedByHand, Reader, ForFile, SourceInv, editorVars
<1> QED
  BY <1>5, <1>6, <1>7, <1>8 DEF SourceInv

\* What was met stays met.
LEMMA ParsedLine ==
    ASSUME SourceInv, buf # <<>>, handed' = Append(handed, Head(buf))
    PROVE  /\ handed' \in Seq(LineType) /\ Tail(buf) \in Seq(LineType)
           /\ SourceInFile => SourceInFile'
           /\ Head(buf).from # "typed" /\ Head(buf).src # "none" => SourceInFile'
           /\ ~linewise => /\ Head(buf).from # "typed"
                           /\ \A i \in 1 .. Len(Tail(buf)) : Tail(buf)[i].from # "typed"
<1> DEFINE h == Head(buf)
           t == Tail(buf)
<1>1. buf \in Seq(LineType) /\ handed \in Seq(LineType)
  BY DEF SourceInv, Typing, TypeOK
<1>2. /\ h \in LineType /\ h = buf[1] /\ t \in Seq(LineType)
      /\ Len(buf) \in Nat \ {0} /\ Len(t) = Len(buf) - 1
      /\ \A i \in 1 .. Len(buf) - 1 : t[i] = buf[i + 1]
  BY <1>1, TailOf
<1> HIDE DEF h, t
<1>3. /\ handed' \in Seq(LineType) /\ Len(handed') = Len(handed) + 1 /\ Len(handed) \in Nat
      /\ \A i \in 1 .. Len(handed) : handed'[i] = handed[i]
      /\ handed'[Len(handed) + 1] = h
  BY <1>1, <1>2, AppendTo DEF h
<1>4. SourceInFile => SourceInFile'
  BY <1>3 DEF SourceInFile
<1>5. h.from # "typed" /\ h.src # "none" => SourceInFile'
  <2>1. Len(handed) + 1 \in 1 .. Len(handed')
    BY <1>3
  <2> QED
    BY <1>3, <2>1 DEF SourceInFile
<1>6. ASSUME ~linewise
      PROVE  h.from # "typed" /\ \A i \in 1 .. Len(t) : t[i].from # "typed"
  <2>1. \A i \in 1 .. Len(buf) : buf[i].from # "typed"
    BY <1>6 DEF SourceInv, ByHand
  <2> QED
    BY <1>2, <2>1
<1> QED
  BY <1>2, <1>3, <1>4, <1>5, <1>6 DEF h, t

\* A call of yyparse within the others
LEMMA CallPushed ==
    ASSUME Typing, NEW c \in {"file", "rest"}, stack' = <<c>> \o stack
    PROVE  /\ stack' \in Seq({"rc", "main", "file", "rest"}) /\ stack' # <<>> /\ Head(stack') = c
           /\ stack'[Len(stack')] \in {"main", "rc"}
           /\ (/\ ~ForFile
               /\ \A i \in 2 .. Len(stack) : stack[i] \notin {"rc", "file"})
              => \A i \in 2 .. Len(stack') : stack'[i] \notin {"rc", "file"}
<1> DEFINE S == {"rc", "main", "file", "rest"}
<1>1. stack \in Seq(S) /\ stack # <<>> /\ stack[Len(stack)] \in {"main", "rc"} /\ c \in S
  BY DEF Typing, TypeOK
<1> HIDE DEF S
<1>2. /\ stack' \in Seq(S) /\ stack' # <<>> /\ Len(stack') = Len(stack) + 1 /\ Head(stack') = c
      /\ \A i \in 2 .. Len(stack) + 1 : stack'[i] = stack[i - 1]
  BY <1>1, PushOnto
<1>3. Len(stack) \in Nat \ {0} /\ Head(stack) = stack[1]
  BY <1>1
<1>4. stack'[Len(stack')] = stack[Len(stack)]
  BY <1>2, <1>3
<1>5. ASSUME ~ForFile, \A i \in 2 .. Len(stack) : stack[i] \notin {"rc", "file"},
             NEW i \in 2 .. Len(stack')
      PROVE  stack'[i] \notin {"rc", "file"}
  <2>1. i - 1 \in 1 .. Len(stack) /\ stack'[i] = stack[i - 1]
    BY <1>2, <1>3
  <2> QED
    BY <1>3, <1>5, <2>1 DEF ForFile
<1> QED
  BY <1>1, <1>2, <1>4, <1>5 DEF S

LEMMA ParseSource ==
    ASSUME SourceInv, IInv', Parse
    PROVE  SourceInv'
<1> DEFINE h == Head(buf)
<1>1. /\ editor = "idle" /\ state = "run" /\ buf # <<>> /\ handed' = Append(handed, h)
      /\ UNCHANGED <<tty, script, interactive, state, editorVars>>
  BY DEF Parse, Running
<1>2. /\ handed' \in Seq(LineType) /\ Tail(buf) \in Seq(LineType)
      /\ SourceInFile => SourceInFile'
      /\ h.from # "typed" /\ h.src # "none" => SourceInFile'
      /\ ~linewise => /\ h.from # "typed"
                      /\ \A i \in 1 .. Len(Tail(buf)) : Tail(buf)[i].from # "typed"
  BY <1>1, ParsedLine
<1>3. Counts'
  BY Counted
<1> HIDE DEF h
<1>4. ASSUME buf' = Tail(buf), UNCHANGED <<yyin, pos, stack, open, linewise>>
      PROVE  SourceInv'
  <2>1. Typing'
    BY <1>1, <1>2, <1>3, <1>4 DEF SourceInv, Typing, TypeOK, Streams, Counts, editorVars
  <2>2. ByHand' /\ Reader'
    BY <1>1, <1>2, <1>4 DEF SourceInv, ByHand, Reader, ForFile, editorVars
  <2>3. SourcedByHand => SourcedByHand'
    BY <1>1, <1>4 DEF SourcedByHand, ForFile, editorVars
  <2> QED
    BY <1>2, <2>1, <2>2, <2>3 DEF SourceInv
<1>5. ASSUME h.src \in DOMAIN Files, h.src # "none", UNCHANGED open,
             yyin' = h.src, pos' = [pos EXCEPT ![h.src] = 0], stack' = <<"file">> \o stack,
             buf' = <<>>, linewise' = (h.src = "stdin" /\ tty /\ open')
      PROVE  SourceInv'
  <2>1. h.src \notin {"stdin", "null"} /\ linewise' = FALSE /\ h.src \in Streams
    BY <1>5, FilesAssumption DEF Streams
  <2>2. /\ stack' \in Seq({"rc", "main", "file", "rest"}) /\ stack' # <<>> /\ Head(stack') = "file"
        /\ stack'[Len(stack')] \in {"main", "rc"}
        /\ (/\ ~ForFile
            /\ \A i \in 2 .. Len(stack) : stack[i] \notin {"rc", "file"})
           => \A i \in 2 .. Len(stack') : stack'[i] \notin {"rc", "file"}
    BY <1>5, CallPushed DEF SourceInv
  <2>3. buf' \in Seq(LineType) /\ Len(buf') = 0
    <3> HIDE DEF LineType
    <3> QED
      BY <1>5
  <2>4. pos' \in [Streams -> Nat]
    BY <1>5, <2>1 DEF SourceInv, Typing, TypeOK
  <2>5. Typing'
    BY <1>1, <1>2, <1>3, <1>5, <2>1, <2>2, <2>3, <2>4
       DEF SourceInv, Typing, TypeOK, Streams, Counts, editorVars
  <2>6. ByHand' /\ Reader'
    BY <1>1, <1>5, <2>1, <2>2, <2>3 DEF SourceInv, ByHand, Reader, ForFile, editorVars
  <2>7. CASE SourceInFile \/ h.from # "typed"
    BY <1>2, <1>5, <2>5, <2>6, <2>7 DEF SourceInv
  <2>8. CASE SourcedByHand /\ h.from = "typed"
    <3>1. linewise /\ interactive /\ ~ForFile
      BY <1>2, <2>8 DEF SourcedByHand
    <3>2. SourcedByHand'
      BY <1>1, <1>5, <2>1, <2>2, <2>8, <3>1 DEF SourcedByHand, ForFile, editorVars
    <3> QED
      BY <2>5, <2>6, <3>2 DEF SourceInv
  <2> QED
    BY <2>7, <2>8 DEF SourceInv
<1>6. ASSUME h.src # "none", UNCHANGED <<open, pos, linewise>>, yyin' = "null",
             stack' = <<"rest">> \o stack, buf' = Tail(buf)
      PROVE  SourceInv'
  <2>1. "null" \notin DOMAIN Files
    BY FilesAssumption
  <2>2. /\ stack' \in Seq({"rc", "main", "file", "rest"}) /\ stack' # <<>> /\ Head(stack') = "rest"
        /\ stack'[Len(stack')] \in {"main", "rc"}
        /\ (/\ ~ForFile
            /\ \A i \in 2 .. Len(stack) : stack[i] \notin {"rc", "file"})
           => \A i \in 2 .. Len(stack') : stack'[i] \notin {"rc", "file"}
    BY <1>6, CallPushed DEF SourceInv
  <2>3. Typing'
    BY <1>1, <1>2, <1>3, <1>6, <2>2 DEF SourceInv, Typing, TypeOK, Streams, Counts, editorVars
  <2>4. ByHand' /\ Reader'
    BY <1>1, <1>2, <1>6, <2>1, <2>2 DEF SourceInv, ByHand, Reader, ForFile, editorVars
  <2>5. CASE SourceInFile \/ h.from # "typed"
    BY <1>2, <1>6, <2>3, <2>4, <2>5 DEF SourceInv
  <2>6. CASE SourcedByHand /\ h.from = "typed"
    <3>1. linewise /\ interactive /\ ~ForFile
      BY <1>2, <2>6 DEF SourcedByHand
    <3>2. SourcedByHand'
      BY <1>1, <1>6, <2>2, <2>6, <3>1 DEF SourcedByHand, ForFile, editorVars
    <3> QED
      BY <2>3, <2>4, <3>2 DEF SourceInv
  <2> QED
    BY <2>5, <2>6 DEF SourceInv
<1>7. CASE h.src \in {"none", "empty"}
  BY <1>4, <1>7 DEF Parse, h
<1>8. CASE h.src \notin {"none", "empty"} /\ Exists(h.src)
  <2>1. Source(h.src)
    BY <1>8 DEF Parse, h
  <2> QED
    BY <1>5, <1>8, <2>1 DEF Source, Restart, Exists
<1>9. CASE h.src \notin {"none", "empty"} /\ ~Exists(h.src)
  <2>1. Source(h.src)
    BY <1>9 DEF Parse, h
  <2> QED
    BY <1>6, <1>9, <2>1 DEF Source
<1> QED
  BY <1>7, <1>8, <1>9

\* A call of yyparse that is not the outermost returns.
LEMMA CallReturned ==
    ASSUME Typing, ~(Head(stack) \in {"main", "rc"})
    PROVE  /\ Tail(stack) \in Seq({"rc", "main", "file", "rest"}) /\ Tail(stack) # <<>>
           /\ Len(Tail(stack)) \in Nat /\ Len(stack) = Len(Tail(stack)) + 1
           /\ Tail(stack)[Len(Tail(stack))] \in {"main", "rc"}
           /\ Head(Tail(stack)) = stack[2] /\ 2 \in 2 .. Len(stack)
           /\ \A i \in 1 .. Len(Tail(stack)) : Tail(stack)[i] = stack[i + 1]
<1> DEFINE S == {"rc", "main", "file", "rest"}
           t == Tail(stack)
<1>1. stack \in Seq(S) /\ stack # <<>> /\ stack[Len(stack)] \in {"main", "rc"}
  BY DEF Typing, TypeOK
<1> HIDE DEF S
<1>2. /\ Head(stack) = stack[1] /\ t \in Seq(S) /\ Len(stack) \in Nat \ {0}
      /\ Len(t) = Len(stack) - 1 /\ \A i \in 1 .. Len(stack) - 1 : t[i] = stack[i + 1]
  BY <1>1, TailOf
<1> HIDE DEF t
<1>3. Len(stack) # 1
  BY <1>1, <1>2
<1>4. t # <<>> /\ Len(t) \in Nat \ {0} /\ t[Len(t)] = stack[Len(stack)] /\ Head(t) = stack[2]
  BY <1>2, <1>3
<1> QED
  BY <1>1, <1>2, <1>3, <1>4 DEF S, t

LEMMA ReturnSource ==
    ASSUME SourceInv, IInv', Return
    PROVE  SourceInv'
<1>1. /\ editor = "idle" /\ state = "run" /\ buf = <<>> /\ yyin # "null"
      /\ IF linewise THEN ~interactive ELSE yyin = "stdin" => open
      /\ UNCHANGED <<tty, script, pos, editorVars, handed>>
  BY DEF Return, AtEnd, Running
<1>2. Counts' /\ SourceInFile' = SourceInFile /\ Len(<<>>) = 0 /\ <<>> \in Seq(LineType)
  <2>1. Counts' /\ SourceInFile' = SourceInFile
    BY <1>1, Counted DEF SourceInFile
  <2> HIDE DEF LineType
  <2>2. Len(<<>>) = 0 /\ <<>> \in Seq(LineType)
    OBVIOUS
  <2> QED
    BY <2>1, <2>2
<1>3. Head(stack) \in {"rc", "main", "file", "rest"}
  BY TailOf DEF SourceInv, Typing, TypeOK
<1>4. CASE Head(stack) = "rc"
  <2>1. /\ open' = (open /\ yyin # "stdin") /\ yyin' = "stdin" /\ buf' = <<>>
        /\ linewise' = (tty /\ open') /\ stack' = <<"main">>
        /\ interactive' = (tty /\ open') /\ UNCHANGED state
    BY <1>4 DEF Return, CloseStream, Restart
  <2>2. /\ stack' \in Seq({"rc", "main", "file", "rest"}) /\ stack' # <<>>
        /\ stack'[Len(stack')] \in {"main", "rc"} /\ Len(stack') = 1 /\ Head(stack') = "main"
    BY <2>1
  <2>3. Typing'
    BY <1>1, <1>2, <2>1, <2>2 DEF SourceInv, Typing, TypeOK, Streams, Counts, editorVars
  <2>4. ByHand' /\ Reader'
    <3>1. editor' = "idle" /\ \A i \in 1 .. Len(buf') : buf'[i].from # "typed"
      BY <1>1, <1>2, <2>1 DEF editorVars
    <3>2. yyin' \notin DOMAIN Files /\ state' # "ended"
      BY <1>1, <2>1, FilesAssumption
    <3>3. (tty' => linewise' \/ ~open') /\ (interactive' => tty')
      BY <1>1, <2>1
    <3> QED
      BY <3>1, <3>2, <3>3 DEF ByHand, Reader
  <2>5. ASSUME SourcedByHand PROVE SourcedByHand'
    <3>1. open' /\ linewise' = interactive'
      BY <1>4, <2>1, <2>5, FilesAssumption DEF SourcedByHand, ForFile
    <3> QED
      BY <1>1, <2>1, <2>2, <3>1 DEF SourcedByHand, ForFile, editorVars
  <2> QED
    BY <1>2, <2>3, <2>4, <2>5 DEF SourceInv
<1>5. CASE Head(stack) = "file"
  <2> DEFINE S == {"rc", "main", "file", "rest"}
             t == Tail(stack)
  <2>1. /\ open' = (open /\ yyin # "stdin") /\ yyin' = "stdin" /\ buf' = <<>>
        /\ linewise' = (tty /\ open') /\ stack' = <<"rest">> \o t
        /\ UNCHANGED <<interactive, state>>
    BY <1>5 DEF Return, CloseStream, Restart
  <2>2. /\ t \in Seq(S) /\ Len(t) \in Nat /\ t # <<>> /\ t[Len(t)] \in {"main", "rc"}
        /\ Len(stack) = Len(t) + 1 /\ \A i \in 1 .. Len(t) : t[i] = stack[i + 1]
        /\ "rest" \in S
    BY <1>5, CallReturned DEF SourceInv
  <2> HIDE DEF S, t
  <2>3. /\ stack' \in Seq(S) /\ stack' # <<>> /\ Len(stack') = Len(t) + 1 /\ Head(stack') = "rest"
        /\ \A i \in 2 .. Len(t) + 1 : stack'[i] = t[i - 1]
    BY <2>1, <2>2, PushOnto
  <2>4. stack'[Len(stack')] = t[Len(t)] /\ \A i \in 2 .. Len(stack') : stack'[i] = stack[i]
    <3>1. Len(t) # 0
      BY <2>2
    <3> QED
      BY <2>2, <2>3, <3>1
  <2>5. Typing'
    BY <1>1, <1>2, <2>1, <2>2, <2>3, <2>4
       DEF SourceInv, Typing, TypeOK, Streams, Counts, editorVars, S
  <2>6. ByHand' /\ Reader'
    <3>1. editor' = "idle" /\ \A i \in 1 .. Len(buf') : buf'[i].from # "typed"
      BY <1>1, <1>2, <2>1 DEF editorVars
    <3>2. yyin' \notin DOMAIN Files /\ state' # "ended"
      BY <1>1, <2>1, FilesAssumption
    <3>3. (tty' => linewise' \/ ~open') /\ (interactive' => tty')
      BY <1>1, <2>1 DEF SourceInv, Reader
    <3> QED
      BY <3>1, <3>2, <3>3 DEF ByHand, Reader
  <2>7. ASSUME SourcedByHand PROVE SourcedByHand'
    <3>1. open' /\ interactive'
      BY <1>5, <2>1, <2>7, FilesAssumption DEF SourcedByHand, ForFile
    <3>2. \A i \in 2 .. Len(stack') : stack'[i] \notin {"rc", "file"}
      BY <2>2, <2>3, <2>4, <2>7 DEF SourcedByHand
    <3> QED
      BY <1>1, <2>1, <2>3, <3>1, <3>2 DEF SourcedByHand, ForFile, editorVars
  <2> QED
    BY <1>2, <2>5, <2>6, <2>7 DEF SourceInv
<1>6. CASE Head(stack) = "rest"
  <2>1. stack' = Tail(stack) /\ UNCHANGED <<open, yyin, buf, linewise, interactive, state>>
    BY <1>6 DEF Return
  <2>2. /\ stack' \in Seq({"rc", "main", "file", "rest"}) /\ stack' # <<>>
        /\ Len(stack') \in Nat /\ Len(stack) = Len(stack') + 1
        /\ stack'[Len(stack')] \in {"main", "rc"}
        /\ Head(stack') = stack[2] /\ 2 \in 2 .. Len(stack)
        /\ \A i \in 1 .. Len(stack') : stack'[i] = stack[i + 1]
    BY <1>6, <2>1, CallReturned DEF SourceInv
  <2>3. Typing'
    BY <1>1, <1>2, <2>1, <2>2 DEF SourceInv, Typing, TypeOK, Streams, Counts, editorVars
  <2>4. ByHand' /\ Reader'
    BY <1>1, <1>2, <1>6, <2>1 DEF SourceInv, ByHand, Reader, ForFile, editorVars
  <2>5. ASSUME SourcedByHand PROVE SourcedByHand'
    <3>1. Head(stack') \notin {"rc", "file"}
      BY <2>2, <2>5 DEF SourcedByHand
    <3>2. ASSUME NEW i \in 2 .. Len(stack') PROVE stack'[i] \notin {"rc", "file"}
      <4>1. i + 1 \in 2 .. Len(stack) /\ stack'[i] = stack[i + 1]
        BY <2>2
      <4> QED
        BY <2>5, <4>1 DEF SourcedByHand
    <3>3. linewise' => interactive'
      BY <2>1, <2>5 DEF SourcedByHand
    <3> QED
      BY <1>1, <2>1, <2>5, <3>1, <3>2, <3>3 DEF SourcedByHand, ForFile, editorVars
  <2> QED
    BY <1>2, <2>3, <2>4, <2>5 DEF SourceInv
<1>7. CASE Head(stack) = "main"
  <2>1. state' = "ended" /\ UNCHANGED <<open, yyin, buf, linewise, stack, interactive>>
    BY <1>7 DEF Return
  <2>2. Typing'
    BY <1>1, <1>2, <2>1 DEF SourceInv, Typing, TypeOK, Streams, Counts, editorVars
  <2>3. ~interactive
    <3>1. yyin = "stdin" \/ yyin \in DOMAIN Files
      BY <1>1 DEF SourceInv, Typing, TypeOK, Streams
    <3> QED
      BY <1>1, <1>7, <3>1 DEF SourceInv, Reader, ForFile
  <2>4. ByHand' /\ Reader'
    BY <1>1, <1>2, <2>1, <2>3 DEF SourceInv, ByHand, Reader, ForFile, editorVars
  <2>5. SourcedByHand => SourcedByHand'
    BY <1>1, <2>1 DEF SourcedByHand, ForFile, editorVars
  <2> QED
    BY <1>2, <2>2, <2>4, <2>5 DEF SourceInv
<1> QED
  BY <1>3, <1>4, <1>5, <1>6, <1>7

-----------------------------------------------------------------------------
(* Theorems.                                                               *)

LEMMA NextSource ==
    ASSUME SourceInv, IInv, IInv', [Next]_vars
    PROVE  SourceInv'
<1>1. CASE Reads
  BY <1>1, ParseSource, FillSource, ReturnSource DEF Reads
<1>2. CASE Hands
  BY <1>2, EditorSource, GetSource DEF Hands
<1>3. ASSUME NEW src \in Typed, Cooked(src) \/ Enter(src) PROVE SourceInv'
  BY <1>3, CookedSource, EditorSource
<1>4. CASE OtherWrites \/ UNCHANGED vars
  BY <1>4, EditorSource
<1> QED
  BY <1>1, <1>2, <1>3, <1>4 DEF Next

LEMMA SourceInvariance == Spec => [](IInv /\ SourceInv)
<1>1. Init => IInv /\ SourceInv
  BY InitHolds, InitSource
<1>2. (IInv /\ SourceInv) /\ [Next]_vars => (IInv /\ SourceInv)'
  BY NextHolds, NextSource
<1> QED
  BY <1>1, <1>2, PTL DEF Spec

\* Every variable keeps to its domain: the lines that reach the parser are those of the
\* streams there are, and a stream that cannot be opened is null.
THEOREM TypeCorrect == Spec => []TypeOK
<1>1. IInv /\ SourceInv => TypeOK
  BY DEF SourceInv, Typing
<1> QED
  BY <1>1, SourceInvariance, PTL

\* Whatever files source whatever others, to any depth, the shell ends only at the end of
\* a stream that is not its editor, and it crashes only after a `source` or an empty line
\* in a file or a script, or where a line could not be written to the history.
THEOREM EndsForAReason == Spec => []EndsOnPurpose
<1>1. IInv /\ SourceInv => EndsOnPurpose
  BY DEF SourceInv, Reader, SourcedByHand, SourceInFile, EndsOnPurpose
<1> QED
  BY <1>1, SourceInvariance, PTL

-----------------------------------------------------------------------------
(***************************************************************************)
(* The lines of a file reach Input's parser in their order, for all files  *)
(* and scripts, whatever sources what, and for reads of any size.          *)
(***************************************************************************)
(* The inductive invariant.                                                *)

IsLineOf(f, x, n) == x = Line(f, n, Lines(f)[n]) /\ n \in 1 .. Len(Lines(f))
InStream(x) == x.from \in Streams /\ IsLineOf(x.from, x, x.n)

\* The buffer holds lines that follow each other up to where the stream has been read,
\* or one line that was typed or is from the history.
Contiguous ==
    /\ ~linewise =>
          /\ \A i \in 1 .. Len(buf) : InStream(buf[i])
          /\ \A i \in 1 .. Len(buf) - 1 : buf[i + 1].from = buf[i].from
                                          /\ buf[i + 1].n = buf[i].n + 1
          /\ buf # <<>> /\ yyin # "null" => /\ buf[Len(buf)].from = yyin
                                            /\ buf[Len(buf)].n = pos[yyin]
    /\ linewise => Len(buf) <= 1 /\ \A i \in 1 .. Len(buf) : buf[i].from \notin Streams

\* The line x is the next that the scanner gives to the parser, unless it crashes.
NextIs(x) ==
    /\ ~linewise
    /\ IF buf # <<>> THEN buf[1] = x
       ELSE yyin = "null" \/ (yyin \in Streams /\ IsLineOf(yyin, x, pos[yyin] + 1))

Pending ==
    handed # <<>> /\ HasSuccessor(Last(handed)) /\ state # "crashed" =>
        NextIs(Successor(Last(handed)))

OrderInv == Contiguous /\ Pending /\ FilesRunInOrder

-----------------------------------------------------------------------------
(* The steps.                                                              *)

\* What one read brings is what follows, as far as there is anything.
LEMMA ReadFollows ==
    ASSUME Typing, NEW f \in Streams
    PROVE  /\ Len(Read(f)) \in Nat
           /\ \A i \in 1 .. Len(Read(f)) : IsLineOf(f, Read(f)[i], pos[f] + i)
           /\ pos[f] < Len(Lines(f)) => Read(f) # <<>>
<1> DEFINE L == Lines(f)
           m == IF pos[f] + Block < Len(L) THEN pos[f] + Block ELSE Len(L)
           l(i) == Line(f, pos[f] + i, L[pos[f] + i])
<1>1. Len(L) \in Nat /\ pos[f] \in Nat
  <2>1. L \in Seq(Sources)
    BY FileLines DEF Typing, TypeOK, Lines, Streams
  <2> HIDE DEF L
  <2> QED
    BY <2>1 DEF Typing, TypeOK
<1>2. Read(f) = [i \in 1 .. m - pos[f] |-> l(i)] /\ Read(f) \in Seq(LineType)
  BY ReadLines DEF Read
<1>3. m \in Nat /\ m <= Len(L) /\ (pos[f] < Len(L) => m > pos[f])
  <2> HIDE DEF L
  <2> QED
    BY <1>1, BoundAssumption
<1>4. Len(Read(f)) \in Nat /\ 1 .. Len(Read(f)) = 1 .. m - pos[f]
  <2> HIDE DEF m, l
  <2>1. DOMAIN Read(f) = 1 .. m - pos[f]
    BY <1>2
  <2>2. Len(Read(f)) \in Nat /\ DOMAIN Read(f) = 1 .. Len(Read(f))
    <3>1. \A S : \A s \in Seq(S) : Len(s) \in Nat /\ DOMAIN s = 1 .. Len(s)
      OBVIOUS
    <3> QED
      BY <1>2, <3>1
  <2> QED
    BY <2>1, <2>2
<1>5. ASSUME NEW i \in 1 .. Len(Read(f)) PROVE IsLineOf(f, Read(f)[i], pos[f] + i)
  <2>1. i \in 1 .. m - pos[f]
    BY <1>4
  <2>2. Read(f)[i] = Line(f, pos[f] + i, Lines(f)[pos[f] + i])
    BY <1>2, <2>1
  <2>3. pos[f] + i \in 1 .. Len(Lines(f))
    <3> HIDE DEF m, L
    <3>1. pos[f] + i \in 1 .. Len(L)
      BY <1>1, <1>3, <2>1
    <3> QED
      BY <3>1 DEF L
  <2> QED
    BY <2>2, <2>3 DEF IsLineOf
<1>6. ASSUME pos[f] < Len(Lines(f)) PROVE Read(f) # <<>>
  <2> HIDE DEF m
  <2>1. 1 \in 1 .. m - pos[f]
    BY <1>1, <1>3, <1>6
  <2>2. 1 \in 1 .. Len(Read(f))
    BY <1>4, <2>1
  <2> QED
    BY <2>2
<1> QED
  BY <1>4, <1>5, <1>6

\* A step that leaves the buffer, the streams and what was handed over alone.
LEMMA KeepsOrder ==
    ASSUME OrderInv, UNCHANGED <<script, yyin, pos, buf, linewise, handed>>,
           state' = state \/ state' # "run"
    PROVE  Contiguous' /\ FilesRunInOrder' /\ (state' = state => Pending')
<1>1. \A f : Lines(f)' = Lines(f)
  BY DEF Lines
<1>2. \A x : InStream(x)' = InStream(x)
  BY <1>1 DEF InStream, IsLineOf
<1>3. \A a : HasSuccessor(a)' = HasSuccessor(a) /\ Successor(a)' = Successor(a)
  BY <1>1 DEF HasSuccessor, Successor, InFile
<1>4. Contiguous'
  BY <1>2 DEF OrderInv, Contiguous
<1>5. FilesRunInOrder'
  BY <1>3 DEF OrderInv, FilesRunInOrder
<1>6. state' = state => Pending'
  BY <1>1, <1>3 DEF OrderInv, Pending, NextIs, IsLineOf
<1> QED
  BY <1>4, <1>5, <1>6

\* Nothing is handed over, the buffer is empty or one line by hand, and nothing is pending.
LEMMA NothingPending ==
    ASSUME OrderInv, UNCHANGED <<script, handed>>, ~HasSuccessor(Last(handed)) \/ handed = <<>>
    PROVE  FilesRunInOrder' /\ Pending'
<1>1. \A f : Lines(f)' = Lines(f)
  BY DEF Lines
<1>2. \A a : HasSuccessor(a)' = HasSuccessor(a) /\ Successor(a)' = Successor(a)
  BY <1>1 DEF HasSuccessor, Successor, InFile
<1>3. FilesRunInOrder'
  BY <1>2 DEF OrderInv, FilesRunInOrder
<1>4. Last(handed)' = Last(handed)
  OBVIOUS
<1> QED
  BY <1>2, <1>3, <1>4 DEF Pending

\* While the editor has the word nothing is pending.
LEMMA ByHandOrder ==
    ASSUME OrderInv, linewise, state = "run", linewise' = linewise,
           UNCHANGED <<script, handed>>,
           Len(buf') <= 1 /\ \A i \in 1 .. Len(buf') : buf'[i].from \notin Streams
    PROVE  OrderInv'
<1>1. Contiguous'
  BY DEF Contiguous
<1>2. ~HasSuccessor(Last(handed)) \/ handed = <<>>
  BY DEF OrderInv, Pending, NextIs
<1> QED
  BY <1>1, <1>2, NothingPending DEF OrderInv

LEMMA GetOrder ==
    ASSUME OrderInv, SourceInv, IInv, Get
    PROVE  OrderInv'
<1>1. linewise /\ state = "run" /\ UNCHANGED <<script, handed, linewise>>
  BY DEF Get, SourceInv, ByHand, streamVars
<1>2. Len(buf) <= 1 /\ \A i \in 1 .. Len(buf) : buf[i].from \notin Streams
  BY <1>1 DEF OrderInv, Contiguous
<1>3. CASE hist = <<>>
  BY <1>1, <1>2, <1>3, ByHandOrder DEF Get
<1>4. CASE hist # <<>>
  <2>1. buf' = <<Last(hist)>>
    BY <1>4 DEF Get
  <2>2. Last(hist) = hist[Len(hist)] /\ Len(hist) \in 1 .. Len(hist)
    BY <1>4, NotEmpty DEF Last, IInv, Sequences
  <2>3. Last(hist).from \in {"old", "typed"}
    BY <2>2 DEF IInv, HistoryIsPast, Before, Old, Line
  <2>4. Last(hist).from \notin Streams
    BY <2>3, FilesAssumption DEF Streams
  <2>5. Len(buf') <= 1 /\ \A i \in 1 .. Len(buf') : buf'[i].from \notin Streams
    BY <2>1, <2>4
  <2> QED
    BY <1>1, <2>5, ByHandOrder
<1> QED
  BY <1>3, <1>4

LEMMA CookedOrder ==
    ASSUME OrderInv, SourceInv, NEW src \in Typed, Cooked(src)
    PROVE  OrderInv'
<1>1. linewise /\ state = "run" /\ UNCHANGED <<script, handed, linewise>>
  BY DEF Cooked, Running, streamVars
<1>2. CASE yyin = "null"
  BY <1>1, <1>2, ByHandOrder DEF Cooked, OrderInv, Contiguous
<1>3. CASE yyin # "null"
  <2> DEFINE l == Line("typed", Len(submitted) + 1, src)
  <2>1. l.from = "typed" /\ submitted' = Append(submitted, l) /\ buf' = <<Last(submitted')>>
    BY <1>3 DEF Cooked, Line
  <2> HIDE DEF l
  <2>2. PICK S : submitted \in Seq(S) /\ l \in S
    <3>1. submitted \in Seq(LineType \cup {l})
      BY DEF SourceInv, Typing
    <3> QED
      BY <3>1
  <2>3. Last(submitted') = l
    BY <2>1, <2>2, AppendTo
  <2>4. l.from \notin Streams
    BY <2>1, FilesAssumption DEF Streams
  <2>5. Len(buf') <= 1 /\ \A i \in 1 .. Len(buf') : buf'[i].from \notin Streams
    BY <2>1, <2>3, <2>4
  <2> QED
    BY <1>1, <2>5, ByHandOrder
<1> QED
  BY <1>2, <1>3

LEMMA EditorOrder ==
    ASSUME OrderInv, \/ \E src \in Typed : Enter(src)
                     \/ WriteText \/ WriteNewline \/ Push \/ OtherWrites \/ UNCHANGED vars
    PROVE  OrderInv'
<1>1. UNCHANGED <<script, yyin, pos, buf, linewise, handed, state>>
  BY DEF Enter, WriteText, WriteNewline, Write, Push, OtherWrites, vars, streamVars, scannerVars
<1> QED
  BY <1>1, KeepsOrder DEF OrderInv

\* The end of a stream: where a line is pending there is one to be read.
LEMMA ReturnOrder ==
    ASSUME OrderInv, SourceInv, Return
    PROVE  OrderInv'
<1>1. /\ buf = <<>> /\ state = "run" /\ yyin # "null" /\ UNCHANGED <<script, pos, handed>>
      /\ ~linewise => Read(yyin) = <<>>
      /\ buf' = <<>>
  <2>1. Head(stack) \in {"rc", "main", "file", "rest"}
    BY TailOf DEF SourceInv, Typing, TypeOK
  <2>2. buf' = buf \/ buf' = <<>>
    BY <2>1 DEF Return, CloseStream, Restart
  <2> QED
    BY <2>2 DEF Return, AtEnd, Running
<1>2. Contiguous'
  <2>1. Len(buf') = 0
    BY <1>1
  <2> QED
    BY <1>1, <2>1 DEF Contiguous
<1>3. ~HasSuccessor(Last(handed)) \/ handed = <<>>
  <2>1. SUFFICES ASSUME NextIs(Successor(Last(handed))) PROVE FALSE
    BY <1>1 DEF OrderInv, Pending
  <2>2. yyin \in Streams /\ pos[yyin] + 1 \in 1 .. Len(Lines(yyin)) /\ Read(yyin) = <<>>
    BY <1>1, <2>1 DEF NextIs, IsLineOf
  <2>3. pos[yyin] \in Nat
    BY <2>2 DEF SourceInv, Typing, TypeOK
  <2>4. pos[yyin] < Len(Lines(yyin))
    <3>1. Lines(yyin) \in Seq(Sources)
      BY <2>2, FileLines DEF SourceInv, Typing, TypeOK, Lines, Streams
    <3> HIDE DEF Sources
    <3> QED
      BY <2>2, <2>3, <3>1
  <2> QED
    BY <2>2, <2>4, ReadFollows DEF SourceInv
<1> QED
  BY <1>1, <1>2, <1>3, NothingPending DEF OrderInv

\* What is to be shown of a step that fills the buffer or takes a line from it
LEMMA ContiguousNext ==
    ASSUME UNCHANGED script, ~linewise',
           \A i \in 1 .. Len(buf') : InStream(buf'[i]),
           \A i \in 1 .. Len(buf') - 1 : buf'[i + 1].from = buf'[i].from
                                         /\ buf'[i + 1].n = buf'[i].n + 1,
           buf' # <<>> /\ yyin' # "null" => /\ buf'[Len(buf')].from = yyin'
                                            /\ buf'[Len(buf')].n = pos'[yyin']
    PROVE  Contiguous'
BY DEF Contiguous, InStream, IsLineOf, Lines

LEMMA PendingNext ==
    ASSUME UNCHANGED script,
           HasSuccessor(Last(handed')) =>
              /\ ~linewise'
              /\ buf' # <<>> => buf'[1] = Successor(Last(handed'))
              /\ buf' = <<>> /\ yyin' # "null" =>
                    yyin' \in Streams /\ IsLineOf(yyin', Successor(Last(handed')), pos'[yyin'] + 1)
    PROVE  Pending'
<1>1. HasSuccessor(Last(handed))' = HasSuccessor(Last(handed'))
  BY DEF HasSuccessor, InFile, Lines
<1>2. Successor(Last(handed))' = Successor(Last(handed'))
  BY DEF Successor, Lines
<1>3. HasSuccessor(Last(handed')) => NextIs(Successor(Last(handed)))'
  BY <1>2 DEF NextIs, IsLineOf, Lines
<1> QED
  BY <1>1, <1>3 DEF Pending

LEMMA FillOrder ==
    ASSUME OrderInv, SourceInv, Fill
    PROVE  OrderInv'
<1>1. /\ buf = <<>> /\ ~linewise /\ state = "run"
      /\ UNCHANGED <<script, yyin, linewise, handed>>
  BY DEF Fill, Running
<1>2. CASE state' = "crashed" /\ UNCHANGED <<buf, pos>>
  BY <1>1, <1>2, KeepsOrder DEF OrderInv, Pending
<1>3. CASE /\ yyin # "null" /\ Read(yyin) # <<>> /\ buf' = Read(yyin) /\ UNCHANGED state
           /\ pos' = [pos EXCEPT ![yyin] = @ + Len(buf')]
  <2> DEFINE n == Len(buf')
  <2>1. yyin \in Streams /\ pos \in [Streams -> Nat]
    BY <1>3 DEF SourceInv, Typing, TypeOK
  <2>2. n \in Nat /\ \A i \in 1 .. n : IsLineOf(yyin, buf'[i], pos[yyin] + i)
    BY <1>3, <2>1, ReadFollows DEF SourceInv
  <2>3. pos'[yyin] = pos[yyin] + n /\ pos[yyin] \in Nat
    BY <1>3, <2>1
  <2>4. buf' \in Seq(LineType)
    BY <1>3, <2>1, ReadLines DEF SourceInv
  <2>5. n # 0
    BY <1>3, <2>4
  <2> HIDE DEF n
  <2>6. \A i \in 1 .. n : buf'[i].from = yyin /\ buf'[i].n = pos[yyin] + i
    <3>1. ASSUME NEW i \in 1 .. n PROVE buf'[i].from = yyin /\ buf'[i].n = pos[yyin] + i
      <4>1. buf'[i] = Line(yyin, pos[yyin] + i, Lines(yyin)[pos[yyin] + i])
        BY <2>2 DEF IsLineOf
      <4> QED
        BY <4>1 DEF Line
    <3> QED
      BY <3>1
  <2>7. \A i \in 1 .. n : InStream(buf'[i])
    BY <2>1, <2>2, <2>6 DEF InStream
  <2>8. ASSUME NEW i \in 1 .. n - 1
        PROVE  buf'[i + 1].from = buf'[i].from /\ buf'[i + 1].n = buf'[i].n + 1
    <3>1. i \in 1 .. n /\ i + 1 \in 1 .. n
      BY <2>2
    <3> QED
      BY <2>3, <2>6, <3>1
  <2>9. Contiguous'
    <3>1. n \in 1 .. n
      BY <2>2, <2>5
    <3> QED
      BY <1>1, <2>3, <2>6, <2>7, <2>8, <3>1, ContiguousNext DEF n
  <2>10. Pending' /\ FilesRunInOrder'
    <3>1. CASE ~HasSuccessor(Last(handed)) \/ handed = <<>>
      BY <1>1, <3>1, NothingPending
    <3>2. CASE HasSuccessor(Last(handed)) /\ handed # <<>>
      <4>1. IsLineOf(yyin, Successor(Last(handed)), pos[yyin] + 1)
        BY <1>1, <1>3, <3>2 DEF OrderInv, Pending, NextIs
      <4>2. 1 \in 1 .. n
        BY <2>2, <2>5
      <4>3. buf'[1] = Successor(Last(handed)) /\ buf' # <<>>
        BY <1>3, <2>2, <4>1, <4>2 DEF IsLineOf
      <4>4. \A a : HasSuccessor(a)' = HasSuccessor(a) /\ Successor(a)' = Successor(a)
        BY <1>1 DEF HasSuccessor, Successor, InFile, Lines
      <4>5. Last(handed') = Last(handed)
        BY <1>1
      <4> QED
        BY <1>1, <4>3, <4>4, <4>5 DEF OrderInv, Pending, NextIs, FilesRunInOrder
    <3> QED
      BY <3>1, <3>2
  <2> QED
    BY <2>9, <2>10 DEF OrderInv
<1> QED
  BY <1>2, <1>3 DEF Fill, Crash

LEMMA ParseOrder ==
    ASSUME OrderInv, SourceInv, Parse
    PROVE  OrderInv'
<1> DEFINE h == Head(buf)
           t == Tail(buf)
<1>1. /\ state = "run" /\ UNCHANGED state /\ buf # <<>> /\ handed' = Append(handed, h)
      /\ UNCHANGED script
  BY DEF Parse, Running
<1>2. /\ h = buf[1] /\ h \in LineType /\ t \in Seq(LineType)
      /\ Len(buf) \in Nat \ {0} /\ Len(t) = Len(buf) - 1
      /\ \A i \in 1 .. Len(buf) - 1 : t[i] = buf[i + 1]
  BY <1>1, TailOf DEF SourceInv, Typing, TypeOK
<1> HIDE DEF h, t
<1>3. /\ handed' \in Seq(LineType) /\ Len(handed') = Len(handed) + 1 /\ Len(handed) \in Nat
      /\ \A i \in 1 .. Len(handed) : handed'[i] = handed[i]
      /\ handed'[Len(handed) + 1] = h /\ Last(handed') = h
  BY <1>1, <1>2, AppendTo DEF SourceInv, Typing, TypeOK
<1>4. /\ \A f : Lines(f)' = Lines(f)
      /\ \A a : HasSuccessor(a)' = HasSuccessor(a) /\ Successor(a)' = Successor(a)
      /\ \A x : InStream(x)' = InStream(x)
  BY <1>1 DEF HasSuccessor, Successor, InFile, Lines, InStream, IsLineOf
<1>5. FilesRunInOrder'
  <2>1. ASSUME NEW i \in 1 .. Len(handed), HasSuccessor(handed[i])
        PROVE  handed'[i + 1] = Successor(handed[i])
    <3>1. CASE i = Len(handed)
      <4>1. handed # <<>> /\ Last(handed) = handed[i]
        BY <1>3, <3>1 DEF Last
      <4>2. buf[1] = Successor(handed[i])
        BY <1>1, <2>1, <4>1 DEF OrderInv, Pending, NextIs
      <4> QED
        BY <1>2, <1>3, <3>1, <4>2
    <3>2. CASE i # Len(handed)
      <4>1. i \in 1 .. Len(handed) - 1 /\ i + 1 \in 1 .. Len(handed)
        BY <1>3, <3>2
      <4> QED
        BY <1>3, <2>1, <4>1 DEF OrderInv, FilesRunInOrder
    <3> QED
      BY <3>1, <3>2
  <2>2. \A i \in 1 .. Len(handed') - 1 : i \in 1 .. Len(handed) /\ handed'[i] = handed[i]
    BY <1>3
  <2> QED
    BY <1>4, <2>1, <2>2 DEF FilesRunInOrder
<1>6. ASSUME buf' = t, UNCHANGED <<pos, linewise>>, yyin' = yyin \/ yyin' = "null",
             ~Exists(h.src)
      PROVE  Contiguous' /\ Pending'
  <2>1. CASE linewise
    <3>1. Len(buf) <= 1 /\ h.from \notin Streams
      BY <1>2, <2>1 DEF OrderInv, Contiguous
    <3>2. Len(t) = 0
      BY <1>2, <3>1
    <3>3. ~HasSuccessor(h)
      BY <1>6, <3>1 DEF HasSuccessor, InFile
    <3> QED
      BY <1>3, <1>4, <1>6, <2>1, <3>2, <3>3 DEF Contiguous, Pending
  <2>2. CASE ~linewise
    <3>1. /\ \A i \in 1 .. Len(buf) : InStream(buf[i])
          /\ \A i \in 1 .. Len(buf) - 1 : buf[i + 1].from = buf[i].from
                                          /\ buf[i + 1].n = buf[i].n + 1
          /\ yyin # "null" => buf[Len(buf)].from = yyin /\ buf[Len(buf)].n = pos[yyin]
      BY <1>1, <2>2 DEF OrderInv, Contiguous
    <3>2. \A i \in 1 .. Len(t) : t[i] = buf[i + 1] /\ i + 1 \in 1 .. Len(buf)
      BY <1>2
    <3>3. \A i \in 1 .. Len(t) : InStream(t[i])
      BY <3>1, <3>2
    <3>4. ASSUME NEW i \in 1 .. Len(t) - 1
          PROVE  t[i + 1].from = t[i].from /\ t[i + 1].n = t[i].n + 1
      <4>1. /\ i \in 1 .. Len(t) /\ i + 1 \in 1 .. Len(t) /\ i + 1 \in 1 .. Len(buf) - 1
        BY <1>2
      <4> QED
        BY <3>1, <3>2, <4>1
    <3>5. ASSUME t # <<>>, yyin' # "null"
          PROVE  t[Len(t)].from = yyin' /\ t[Len(t)].n = pos'[yyin']
      <4>1. Len(t) \in 1 .. Len(t) /\ Len(t) + 1 = Len(buf)
        BY <1>2, <3>5
      <4> QED
        BY <1>6, <3>1, <3>2, <3>5, <4>1
    <3>6. Contiguous'
      BY <1>1, <1>6, <2>2, <3>3, <3>4, <3>5, ContiguousNext
    <3>7. ASSUME HasSuccessor(h)
          PROVE  /\ ~linewise'
                 /\ buf' # <<>> => buf'[1] = Successor(h)
                 /\ buf' = <<>> /\ yyin' # "null" =>
                       yyin' \in Streams /\ IsLineOf(yyin', Successor(h), pos'[yyin'] + 1)
      <4>1. InStream(h) /\ h.n < Len(Lines(h.from)) /\ h.from \in Streams
            /\ Successor(h) = Line(h.from, h.n + 1, Lines(h.from)[h.n + 1])
        BY <1>2, <1>6, <3>1, <3>7 DEF HasSuccessor, InFile, Successor
      <4>2. CASE t # <<>>
        <5>1. 1 \in 1 .. Len(t) /\ 1 \in 1 .. Len(buf) - 1
          BY <1>2, <4>2
        <5>2. t[1].from = h.from /\ t[1].n = h.n + 1 /\ InStream(t[1])
          <6>1. t[1] = buf[1 + 1] /\ 1 + 1 \in 1 .. Len(buf)
            BY <3>2, <5>1
          <6> QED
            BY <1>2, <3>1, <5>1, <6>1
        <5>3. t[1] = Successor(h)
          BY <4>1, <5>2 DEF InStream, IsLineOf
        <5> QED
          BY <1>6, <2>2, <4>2, <5>3
      <4>3. CASE t = <<>>
        <5>1. Len(t) = 0
          BY <4>3
        <5>2. Len(buf) = 1
          BY <1>2, <5>1
        <5>3. yyin # "null" => h.from = yyin /\ h.n = pos[yyin]
          BY <1>2, <3>1, <5>2
        <5>4. h.n + 1 \in 1 .. Len(Lines(h.from))
          <6>1. Lines(h.from) \in Seq(Sources) /\ h.n \in Nat
            BY <1>2, <4>1, FileLines DEF SourceInv, Typing, TypeOK, Lines, Streams, LineType
          <6> HIDE DEF Sources
          <6>2. Len(Lines(h.from)) \in Nat
            BY <6>1
          <6> QED
            BY <4>1, <6>1, <6>2
        <5> QED
          BY <1>6, <2>2, <4>1, <4>3, <5>3, <5>4 DEF IsLineOf
      <4> QED
        BY <4>2, <4>3
    <3> QED
      BY <1>1, <1>3, <3>6, <3>7, PendingNext
  <2> QED
    BY <2>1, <2>2
<1>7. ASSUME Exists(h.src), yyin' = h.src, pos' = [pos EXCEPT ![h.src] = 0], buf' = <<>>,
             linewise' = FALSE
      PROVE  Contiguous' /\ Pending'
  <2>1. h.src \in Streams /\ h.src # "stdin"
    BY <1>7, FilesAssumption DEF Exists, Streams
  <2>2. pos'[h.src] = 0
    BY <1>7, <2>1 DEF SourceInv, Typing, TypeOK
  <2>3. Contiguous'
    <3>1. Len(buf') = 0
      BY <1>7
    <3> QED
      BY <1>7, <3>1 DEF Contiguous
  <2>4. ASSUME HasSuccessor(h)
        PROVE  yyin' \in Streams /\ IsLineOf(yyin', Successor(h), pos'[yyin'] + 1)
    <3>1. /\ Lines(h.src) = Files[h.src] /\ Files[h.src] # <<>>
          /\ Successor(h) = Line(h.src, 1, Files[h.src][1])
      BY <1>7, <2>1, <2>4 DEF HasSuccessor, Successor, Lines
    <3>2. 1 \in 1 .. Len(Files[h.src])
      <4>1. Files[h.src] \in Seq(Sources)
        BY <1>7, FileLines DEF Exists
      <4> HIDE DEF Sources
      <4> QED
        BY <3>1, <4>1
    <3> QED
      BY <1>7, <2>1, <2>2, <3>1, <3>2 DEF IsLineOf
  <2> QED
    BY <1>1, <1>3, <1>7, <2>3, <2>4, PendingNext
<1>8. CASE h.src \in {"none", "empty"}
  <2>1. ~Exists(h.src)
    BY <1>8, FilesAssumption DEF Exists
  <2> QED
    BY <1>5, <1>6, <1>8, <2>1 DEF Parse, OrderInv, h, t
<1>9. CASE h.src \notin {"none", "empty"} /\ Exists(h.src)
  <2>1. Source(h.src)
    BY <1>9 DEF Parse, h
  <2>2. h.src # "stdin"
    BY <1>9, FilesAssumption DEF Exists
  <2> QED
    BY <1>5, <1>7, <1>9, <2>1, <2>2 DEF Source, Restart, OrderInv
<1>10. CASE h.src \notin {"none", "empty"} /\ ~Exists(h.src)
  <2>1. Source(h.src)
    BY <1>10 DEF Parse, h
  <2> QED
    BY <1>5, <1>6, <1>10, <2>1 DEF Source, OrderInv, t
<1> QED
  BY <1>8, <1>9, <1>10

-----------------------------------------------------------------------------
LEMMA InitOrder == Init => OrderInv
<1> SUFFICES ASSUME Init PROVE OrderInv
  OBVIOUS
<1>1. handed = <<>> /\ Len(handed) = 0 /\ buf = <<>> /\ Len(buf) = 0
  BY DEF Init
<1> QED
  BY <1>1 DEF OrderInv, Contiguous, Pending, FilesRunInOrder

LEMMA NextOrder ==
    ASSUME OrderInv, SourceInv, IInv, [Next]_vars
    PROVE  OrderInv'
<1>1. CASE Reads
  BY <1>1, ParseOrder, FillOrder, ReturnOrder DEF Reads
<1>2. CASE Hands
  BY <1>2, EditorOrder, GetOrder DEF Hands
<1>3. ASSUME NEW src \in Typed, Cooked(src) \/ Enter(src) PROVE OrderInv'
  BY <1>3, CookedOrder, EditorOrder
<1>4. CASE OtherWrites \/ UNCHANGED vars
  BY <1>4, EditorOrder
<1> QED
  BY <1>1, <1>2, <1>3, <1>4 DEF Next

\* However the files, the scripts and .yashrc source each other, to any depth, and however
\* many lines one read brings: a file that is sourced follows at once, from its first line
\* on and without a gap, and no line of where it was called comes in between
\* (FilesRunInOrder).
THEOREM FilesStayInOrder == Spec => []FilesRunInOrder
<1>1. Init => OrderInv
  BY InitOrder
<1>2. OrderInv /\ (IInv /\ SourceInv) /\ [Next]_vars => OrderInv'
  BY NextOrder
<1>3. OrderInv => FilesRunInOrder
  BY DEF OrderInv
<1> QED
  BY <1>1, <1>2, <1>3, SourceInvariance, PTL DEF Spec

-----------------------------------------------------------------------------
(***************************************************************************)
(* The history file of Input keeps what two shells write to it, for any    *)
(* number of lines, whatever files are sourced and whatever writes fail.   *)
(***************************************************************************)
(* The inductive invariant.                                                *)

\* Where lines are typed the scanner reads the terminal; .yashrc, should it go on after
\* that, can only close it.
TerminalRead ==
    /\ linewise => yyin \in {"stdin", "null"}
    /\ submitted # <<>> /\ ~interactive /\ Head(stack) # "file" => yyin \in {"stdin", "null"}

OthersKept ==
    /\ IsSequence(log)
    /\ CountOf("other", Len(log)) = other
    /\ \A i \in 1 .. Len(log) :
           log[i].by = "other" => log[i].x = OtherUnit(CountOf("other", i))

\* The text of the last line is not there while the editor is about to write it.
OwnInOrder ==
    /\ \A i \in 1 .. Len(log) :
           OwnText(i) => log[i].x \in 1 .. N /\ (editor = "text" => log[i].x # N)
    /\ \A i, j \in 1 .. Len(log) : i < j /\ OwnText(i) /\ OwnText(j) => log[i].x < log[j].x

Own(k) == [by |-> "me", x |-> k]
InFileOwn(k) == \E i \in 1 .. Len(log) : log[i] = Own(k)

\* Every line with a text is there as soon as the editor has written it.
OwnKept ==
    interactive =>
        \A k \in 1 .. N :
            \/ k \in failed \/ submitted[k].src = "empty" \/ (k = N /\ editor = "text")
            \/ InFileOwn(k)

FileInv == TerminalRead /\ OthersKept /\ OwnInOrder /\ OwnKept

-----------------------------------------------------------------------------
(* The steps.                                                              *)

LEMMA InitFile == Init => FileInv
<1> SUFFICES ASSUME Init PROVE FileInv
  OBVIOUS
<1>1. log = <<>> /\ Len(log) = 0 /\ other = 0 /\ submitted = <<>> /\ N = 0 /\ 1 .. 0 = {}
  BY DEF Init, N
<1>2. TerminalRead
  BY <1>1 DEF Init, TerminalRead
<1>3. OthersKept
  <2>1. {i \in 1 .. Len(log) : log[i].by = "other"} = {}
    BY <1>1
  <2>2. Cardinality({}) = 0
    BY FS_EmptySet
  <2>3. IsSequence(log)
    <3>1. <<>> \in Seq({})
      OBVIOUS
    <3> QED
      BY <1>1, <3>1 DEF IsSequence
  <2> QED
    BY <1>1, <2>1, <2>2, <2>3 DEF OthersKept, CountOf
<1>4. OwnInOrder /\ OwnKept
  BY <1>1 DEF OwnInOrder, OwnKept
<1> QED
  BY <1>2, <1>3, <1>4 DEF FileInv

\* One unit more at the end of the file
LEMMA CountMore ==
    ASSUME IsSequence(log), NEW u, log' = Append(log, u)
    PROVE  /\ IsSequence(log') /\ Len(log') = Len(log) + 1 /\ Len(log) \in Nat
           /\ log'[Len(log) + 1] = u /\ \A i \in 1 .. Len(log) : log'[i] = log[i]
           /\ \A i \in 1 .. Len(log) : CountOf("other", i)' = CountOf("other", i)
           /\ CountOf("other", Len(log)) \in Nat
           /\ Cardinality({i \in 1 .. Len(log') : log'[i].by = "other"})
                = IF u.by = "other" THEN CountOf("other", Len(log)) + 1
                  ELSE CountOf("other", Len(log))
<1> DEFINE n == Len(log)
<1>1. /\ IsSequence(log') /\ Len(log') = n + 1 /\ n \in Nat
      /\ \A i \in 1 .. n + 1 : log'[i] = IF i = n + 1 THEN u ELSE log[i]
  BY AppendSequence
<1> DEFINE A == {i \in 1 .. n : log[i].by = "other"}
           B == {i \in 1 .. Len(log') : log'[i].by = "other"}
<1>2. CountOf("other", n) = Cardinality(A)
  BY DEF CountOf
<1>3. ASSUME NEW i \in 1 .. n
      PROVE  CountOf("other", i)' = CountOf("other", i)
  <2>1. {j \in 1 .. i : log'[j].by = "other"} = {j \in 1 .. i : log[j].by = "other"}
    <3> HIDE DEF n
    <3> QED
      BY <1>1
  <2> QED
    BY <2>1 DEF CountOf
<1> HIDE DEF n
<1>4. IsFiniteSet(A) /\ n + 1 \notin A
  <2>1. IsFiniteSet(1 .. n)
    BY <1>1, FS_Interval
  <2> QED
    BY <1>1, <2>1, FS_Subset
<1>5. B = IF u.by = "other" THEN A \cup {n + 1} ELSE A
  BY <1>1
<1> HIDE DEF A, B
<1>6. Cardinality(B) = (IF u.by = "other" THEN Cardinality(A) + 1 ELSE Cardinality(A))
  BY <1>4, <1>5, FS_AddElement
<1>7. Cardinality(A) \in Nat
  BY <1>4, FS_CardinalityType
<1>8. log'[n + 1] = u /\ \A i \in 1 .. n : log'[i] = log[i]
  BY <1>1
<1> QED
  BY <1>1, <1>2, <1>3, <1>6, <1>7, <1>8 DEF n, B

\* The file is left alone, and the lines but for what is known to have failed.
LEMMA KeepsFile ==
    ASSUME FileInv, TerminalRead', UNCHANGED <<log, other, submitted>>, failed \subseteq failed',
           editor' = "text" => editor = "text",
           editor = "text" /\ editor' # "text" => N \in failed',
           interactive' => interactive \/ submitted = <<>>
    PROVE  FileInv'
<1>1. N' = N
  BY DEF N
<1>2. OthersKept'
  BY DEF FileInv, OthersKept, CountOf, IsSequence
<1>3. OwnInOrder'
  BY <1>1 DEF FileInv, OwnInOrder, OwnText
<1>4. OwnKept'
  <2>1. CASE submitted = <<>>
    <3>1. N = 0
      BY <2>1 DEF N
    <3> HIDE DEF N
    <3> QED
      BY <1>1, <3>1 DEF OwnKept
  <2>2. CASE interactive
    BY <1>1, <2>2 DEF FileInv, OwnKept, InFileOwn
  <2>3. CASE ~interactive'
    BY <2>3 DEF OwnKept
  <2> QED
    BY <2>1, <2>2, <2>3
<1> QED
  BY <1>2, <1>3, <1>4 DEF FileInv

LEMMA ParseFile ==
    ASSUME FileInv, SourceInv, Parse
    PROVE  FileInv'
<1>1. /\ UNCHANGED <<log, other, interactive, editorVars>>
      /\ \/ UNCHANGED <<yyin, stack, linewise>>
         \/ stack' = <<"file">> \o stack /\ linewise' = (yyin' = "stdin" /\ tty /\ open')
         \/ yyin' = "null" /\ stack' = <<"rest">> \o stack /\ linewise' = linewise
  BY DEF Parse, Source, Restart
<1>2. TerminalRead'
  <2>1. CASE UNCHANGED <<yyin, stack, linewise>>
    BY <1>1, <2>1 DEF FileInv, TerminalRead, editorVars
  <2>2. CASE stack' = <<"file">> \o stack /\ linewise' = (yyin' = "stdin" /\ tty /\ open')
    <3>1. Head(stack') = "file"
      BY <2>2, PushOnto DEF SourceInv, Typing, TypeOK
    <3> QED
      BY <2>2, <3>1 DEF TerminalRead
  <2>3. CASE yyin' = "null"
    BY <2>3 DEF TerminalRead
  <2> QED
    BY <1>1, <2>1, <2>2, <2>3
<1> QED
  BY <1>1, <1>2, KeepsFile DEF editorVars

LEMMA ReturnFile ==
    ASSUME FileInv, SourceInv, Return
    PROVE  FileInv'
<1>1. /\ yyin # "null" /\ editor = "idle"
      /\ UNCHANGED <<tty, script, pos, editorVars, handed, log, other>>
  BY DEF Return, AtEnd, Running
<1>2. Head(stack) \in {"rc", "main", "file", "rest"}
  BY TailOf DEF SourceInv, Typing, TypeOK
<1>3. CASE Head(stack) = "rc"
  <2>1. /\ open' = (open /\ yyin # "stdin") /\ yyin' = "stdin"
        /\ interactive' = (tty /\ open')
    BY <1>3 DEF Return, CloseStream
  <2>2. interactive' => interactive \/ submitted = <<>>
    BY <1>1, <1>3, <2>1 DEF FileInv, TerminalRead
  <2>3. TerminalRead'
    BY <2>1 DEF TerminalRead
  <2> QED
    BY <1>1, <2>2, <2>3, KeepsFile DEF editorVars
<1>4. CASE Head(stack) = "file"
  <2>1. yyin' = "stdin" /\ UNCHANGED interactive
    BY <1>4 DEF Return, CloseStream
  <2> QED
    BY <1>1, <2>1, KeepsFile DEF editorVars, TerminalRead
<1>5. CASE Head(stack) = "rest"
  <2>1. UNCHANGED <<yyin, linewise, interactive>>
    BY <1>5 DEF Return
  <2>2. TerminalRead'
    BY <1>1, <1>5, <2>1 DEF FileInv, TerminalRead, editorVars
  <2> QED
    BY <1>1, <2>1, <2>2, KeepsFile DEF editorVars
<1>6. CASE Head(stack) = "main"
  <2>1. UNCHANGED <<yyin, linewise, interactive, stack>>
    BY <1>6 DEF Return
  <2>2. TerminalRead'
    BY <1>1, <2>1 DEF FileInv, TerminalRead, editorVars
  <2> QED
    BY <1>1, <2>1, <2>2, KeepsFile DEF editorVars
<1> QED
  BY <1>2, <1>3, <1>4, <1>5, <1>6

LEMMA CookedFile ==
    ASSUME FileInv, IInv, NEW src, Cooked(src)
    PROVE  FileInv'
<1>1. /\ ~interactive /\ linewise /\ editor = "idle"
      /\ UNCHANGED <<streamVars, stack, linewise, interactive, editor, hist, failed, log, other>>
  BY DEF Cooked, Running
<1>2. CASE UNCHANGED submitted
  <2>1. TerminalRead'
    BY <1>1, <1>2 DEF FileInv, TerminalRead, streamVars
  <2> QED
    BY <1>1, <1>2, <2>1, KeepsFile
<1>3. CASE submitted' = Append(submitted, Line("typed", N + 1, src))
  <2>1. N' = N + 1 /\ N \in Nat
    BY <1>1, <1>3, TypedNumbers
  <2>2. TerminalRead'
    BY <1>1 DEF FileInv, TerminalRead, streamVars
  <2>3. OthersKept'
    BY <1>1 DEF FileInv, OthersKept, CountOf, IsSequence
  <2>4. OwnInOrder'
    <3>1. 1 .. N \subseteq 1 .. N + 1
      BY <2>1
    <3> QED
      BY <1>1, <2>1, <3>1 DEF FileInv, OwnInOrder, OwnText
  <2> QED
    BY <1>1, <2>2, <2>3, <2>4 DEF FileInv, OwnKept
<1> QED
  BY <1>2, <1>3 DEF Cooked, N

LEMMA EnterFile ==
    ASSUME FileInv, IInv, NEW src, Enter(src)
    PROVE  FileInv'
<1>1. /\ editor = "idle" /\ interactive /\ linewise
      /\ submitted' = Append(submitted, Line("typed", N + 1, src))
      /\ editor' = IF src = "empty" THEN "push" ELSE "text"
      /\ UNCHANGED <<streamVars, scannerVars, failed, log, other>>
  BY DEF Enter, Running, N
<1>2. /\ N' = N + 1 /\ N \in Nat /\ \A k \in 1 .. N : submitted'[k] = submitted[k]
  BY <1>1, TypedNumbers
<1>3. submitted'[N + 1].src = src
  <2>1. IsSequence(submitted)
    BY DEF IInv, Sequences
  <2> DEFINE l == Line("typed", N + 1, src)
  <2>2. submitted' = Append(submitted, l) /\ l.src = src
    BY <1>1 DEF Line
  <2> HIDE DEF l
  <2>3. submitted'[Len(submitted) + 1] = l
    BY <2>1, <2>2, AppendSequence
  <2> QED
    BY <2>2, <2>3 DEF N
<1>4. TerminalRead'
  BY <1>1 DEF FileInv, TerminalRead, streamVars, scannerVars
<1>5. OthersKept'
  BY <1>1 DEF FileInv, OthersKept, CountOf, IsSequence
<1>6. OwnInOrder'
  <2>1. \A x \in 1 .. N : x \in 1 .. N + 1 /\ x # N + 1
    BY <1>2
  <2> HIDE DEF N
  <2> QED
    BY <1>1, <1>2, <2>1 DEF FileInv, OwnInOrder, OwnText
<1>7. OwnKept'
  <2>1. ASSUME NEW k \in 1 .. N + 1
        PROVE  \/ k \in failed \/ submitted'[k].src = "empty" \/ (k = N + 1 /\ editor' = "text")
               \/ InFileOwn(k)
    <3>1. CASE k = N + 1
      BY <1>1, <1>3, <3>1
    <3>2. CASE k # N + 1
      <4>1. k \in 1 .. N
        BY <1>2, <3>2
      <4> QED
        BY <1>1, <1>2, <4>1 DEF FileInv, OwnKept
    <3> QED
      BY <3>1, <3>2
  <2> QED
    BY <1>1, <1>2, <2>1 DEF OwnKept, InFileOwn
<1> QED
  BY <1>4, <1>5, <1>6, <1>7 DEF FileInv

\* What is written goes to the end.
LEMMA WrittenFile ==
    ASSUME FileInv, IInv, NEW x, log' = Append(log, Own(x)),
           UNCHANGED <<streamVars, scannerVars, submitted, failed, other>>,
           editor # "text" => x = 0, editor = "text" => x = N, editor' # "text",
           editor \in {"text", "newline"}
    PROVE  FileInv'
<1>1. /\ IsSequence(log') /\ Len(log') = Len(log) + 1 /\ Len(log) \in Nat
      /\ log'[Len(log) + 1] = Own(x) /\ \A i \in 1 .. Len(log) : log'[i] = log[i]
      /\ \A i \in 1 .. Len(log) : CountOf("other", i)' = CountOf("other", i)
      /\ Cardinality({i \in 1 .. Len(log') : log'[i].by = "other"}) = CountOf("other", Len(log))
  BY CountMore DEF FileInv, OthersKept, Own
<1>2. N' = N /\ N \in Nat \ {0}
  <2>1. N' = N
    BY DEF N
  <2>2. N \in Nat /\ Len(got) \in Nat /\ Len(got) = N - 1
    BY SequenceLength DEF IInv, Sequences, InStep, N
  <2> HIDE DEF N
  <2> QED
    BY <2>1, <2>2
<1> DEFINE n == Len(log)
<1>3. n \in Nat /\ Len(log') = n + 1
  BY <1>1
<1>4. Own(x).by = "me" /\ Own(x).x = x
  BY DEF Own
<1>5. TerminalRead'
  BY DEF FileInv, TerminalRead, streamVars, scannerVars
<1>6. OthersKept'
  <2>1. CountOf("other", Len(log))' = other'
    BY <1>1 DEF FileInv, OthersKept, CountOf
  <2>2. ASSUME NEW i \in 1 .. Len(log'), log'[i].by = "other"
        PROVE  log'[i].x = OtherUnit(CountOf("other", i)')
    <3>1. i \in 1 .. Len(log)
      BY <1>1, <1>4, <2>2
    <3> QED
      BY <1>1, <2>2, <3>1 DEF FileInv, OthersKept
  <2> QED
    BY <1>1, <2>1, <2>2 DEF OthersKept
<1> HIDE DEF n, N
<1>7. OwnInOrder'
  <2>1. \A i \in 1 .. n : OwnText(i)' = OwnText(i)
    BY <1>1 DEF OwnText, n
  <2>2. \A i \in 1 .. n : OwnText(i) => log[i].x \in 1 .. N /\ (editor = "text" => log[i].x # N)
    BY DEF FileInv, OwnInOrder, n
  <2>3. log'[n + 1].x = x /\ (log'[n + 1].x # 0 => editor = "text" /\ x = N)
    BY <1>1, <1>4 DEF n
  <2>4. ASSUME NEW i \in 1 .. n + 1, OwnText(i)'
        PROVE  log'[i].x \in 1 .. N
    <3>1. CASE i = n + 1
      <4>1. log'[i].x # 0
        BY <2>4 DEF OwnText
      <4>2. log'[i].x = N
        BY <2>3, <3>1, <4>1
      <4> QED
        BY <1>2, <4>2
    <3>2. CASE i # n + 1
      <4>1. i \in 1 .. n
        BY <1>3, <3>2
      <4> QED
        BY <1>1, <2>1, <2>2, <2>4, <4>1 DEF n
    <3> QED
      BY <3>1, <3>2
  <2>5. ASSUME NEW i \in 1 .. n + 1, NEW j \in 1 .. n + 1, i < j, OwnText(i)', OwnText(j)'
        PROVE  log'[i].x < log'[j].x
    <3>1. i \in 1 .. n /\ OwnText(i) /\ log'[i] = log[i]
      <4>1. i \in 1 .. n
        BY <1>3, <2>5
      <4> QED
        BY <1>1, <2>1, <2>5, <4>1 DEF n
    <3>2. CASE j = n + 1
      <4>1. editor = "text" /\ log'[j].x = N
        BY <2>3, <2>5, <3>2 DEF OwnText
      <4>2. log[i].x \in 1 .. N /\ log[i].x # N
        BY <2>2, <3>1, <4>1
      <4> QED
        BY <1>2, <3>1, <4>1, <4>2
    <3>3. CASE j # n + 1
      <4>1. j \in 1 .. n
        BY <1>3, <3>3
      <4>2. OwnText(j) /\ log'[j] = log[j]
        BY <1>1, <2>1, <2>5, <4>1 DEF n
      <4> QED
        BY <2>5, <3>1, <4>1, <4>2 DEF FileInv, OwnInOrder, n
    <3> QED
      BY <3>2, <3>3
  <2> QED
    BY <1>2, <1>3, <2>4, <2>5 DEF OwnInOrder
<1>8. OwnKept'
  <2>1. \A k : InFileOwn(k) => InFileOwn(k)'
    <3>1. \A i \in 1 .. n : i \in 1 .. n + 1 /\ log'[i] = log[i]
      BY <1>1, <1>3 DEF n
    <3> QED
      BY <1>3, <3>1 DEF InFileOwn, n
  <2>2. editor = "text" => InFileOwn(N)'
    <3> SUFFICES ASSUME editor = "text" PROVE InFileOwn(N)'
      OBVIOUS
    <3>1. n + 1 \in 1 .. Len(log') /\ log'[n + 1] = Own(N)
      BY <1>1, <1>3 DEF n
    <3> QED
      BY <1>2, <3>1 DEF InFileOwn
  <2> QED
    BY <1>2, <2>1, <2>2 DEF FileInv, OwnKept, scannerVars
<1> QED
  BY <1>5, <1>6, <1>7, <1>8 DEF FileInv

LEMMA WriteFile ==
    ASSUME FileInv, IInv, WriteText \/ WriteNewline
    PROVE  FileInv'
<1>1. /\ UNCHANGED <<streamVars, scannerVars, submitted, other>>
      /\ editor \in {"text", "newline"} /\ editor' # "text"
      /\ \/ /\ \/ editor = "text" /\ log' = Append(log, Own(N))
               \/ editor = "newline" /\ log' = Append(log, Own(0))
            /\ UNCHANGED failed
         \/ failed' = failed \cup {N} /\ UNCHANGED log
  BY DEF WriteText, WriteNewline, Write, Appended, Own, N
<1>2. CASE failed' = failed \cup {N} /\ UNCHANGED log
  <2>1. TerminalRead'
    BY <1>1 DEF FileInv, TerminalRead, streamVars, scannerVars
  <2> QED
    BY <1>1, <1>2, <2>1, KeepsFile DEF scannerVars
<1>3. CASE editor = "text" /\ log' = Append(log, Own(N)) /\ UNCHANGED failed
  BY <1>1, <1>3, WrittenFile
<1>4. CASE editor = "newline" /\ log' = Append(log, Own(0)) /\ UNCHANGED failed
  BY <1>1, <1>4, WrittenFile
<1> QED
  BY <1>1, <1>2, <1>3, <1>4

LEMMA OtherWritesFile ==
    ASSUME FileInv, OtherWrites
    PROVE  FileInv'
<1> DEFINE u == [by |-> "other", x |-> OtherUnit(other')]
<1>1. /\ log' = Append(log, u) /\ other' = other + 1
      /\ UNCHANGED <<streamVars, scannerVars, editorVars>>
  BY DEF OtherWrites, Appended
<1>2. u.by = "other" /\ u.x = OtherUnit(other')
  OBVIOUS
<1> HIDE DEF u
<1>3. /\ IsSequence(log') /\ Len(log') = Len(log) + 1 /\ Len(log) \in Nat
      /\ log'[Len(log) + 1] = u /\ \A i \in 1 .. Len(log) : log'[i] = log[i]
      /\ \A i \in 1 .. Len(log) : CountOf("other", i)' = CountOf("other", i)
      /\ Cardinality({i \in 1 .. Len(log') : log'[i].by = "other"})
           = CountOf("other", Len(log)) + 1
  BY <1>1, <1>2, CountMore DEF FileInv, OthersKept
<1>4. TerminalRead'
  BY <1>1 DEF FileInv, TerminalRead, streamVars, scannerVars, editorVars
<1> DEFINE n == Len(log)
<1>5. n \in Nat /\ Len(log') = n + 1 /\ n + 1 \in 1 .. n + 1 /\ N' = N
  BY <1>1, <1>3 DEF N, editorVars
<1>6. OthersKept'
  <2>1. CountOf("other", Len(log))' = other'
    BY <1>1, <1>3 DEF FileInv, OthersKept, CountOf
  <2>2. ASSUME NEW i \in 1 .. Len(log'), log'[i].by = "other"
        PROVE  log'[i].x = OtherUnit(CountOf("other", i)')
    <3>1. CASE i = Len(log')
      BY <1>2, <1>3, <2>1, <3>1 DEF CountOf
    <3>2. CASE i # Len(log')
      <4>1. i \in 1 .. Len(log)
        BY <1>3, <3>2
      <4> QED
        BY <1>3, <2>2, <4>1 DEF FileInv, OthersKept
    <3> QED
      BY <3>1, <3>2
  <2> QED
    BY <1>3, <2>1, <2>2 DEF OthersKept
<1>7. /\ log'[n + 1].by = "other" /\ \A i \in 1 .. n : log'[i] = log[i]
  BY <1>2, <1>3
<1> HIDE DEF n, N
<1>8. OwnInOrder'
  <2>1. ASSUME NEW i \in 1 .. n + 1, OwnText(i)'
        PROVE  i \in 1 .. n /\ OwnText(i) /\ log'[i] = log[i]
    <3>1. i # n + 1
      BY <1>7, <2>1 DEF OwnText
    <3>2. i \in 1 .. n
      BY <1>5, <3>1
    <3> QED
      BY <1>7, <2>1, <3>2 DEF OwnText
  <2> QED
    BY <1>1, <1>5, <2>1 DEF FileInv, OwnInOrder, editorVars, n
<1>9. OwnKept'
  <2>1. \A k : InFileOwn(k) => InFileOwn(k)'
    <3>1. \A i \in 1 .. n : i \in 1 .. n + 1
      BY <1>5
    <3> QED
      BY <1>5, <1>7, <3>1 DEF InFileOwn, n
  <2> QED
    BY <1>1, <1>5, <2>1 DEF FileInv, OwnKept, scannerVars, editorVars
<1> QED
  BY <1>4, <1>6, <1>8, <1>9 DEF FileInv

LEMMA NextFile ==
    ASSUME FileInv, SourceInv, IInv, [Next]_vars
    PROVE  FileInv'
<1>1. CASE Fill \/ Push \/ Get \/ UNCHANGED vars
  <2>1. /\ UNCHANGED <<yyin, stack, linewise, interactive, submitted, failed, log, other>>
        /\ editor = "text" <=> editor' = "text"
    BY <1>1 DEF Fill, Push, Get, vars, streamVars, scannerVars, editorVars
  <2>2. TerminalRead'
    BY <2>1 DEF FileInv, TerminalRead
  <2> QED
    BY <2>1, <2>2, KeepsFile
<1>2. ASSUME NEW src \in Typed, Cooked(src) \/ Enter(src) PROVE FileInv'
  BY <1>2, CookedFile, EnterFile
<1> QED
  BY <1>1, <1>2, ParseFile, ReturnFile, WriteFile, OtherWritesFile DEF Next, Reads, Hands

\* Another shell may write to the history file between any two writes of this one: all
\* that it writes stays there in its order, and so does each line of this shell, once, but
\* for those whose write has failed (HistoryFileKeeps).
THEOREM HistoryIsKept == Spec => []HistoryFileKeeps
<1>1. Init => FileInv
  BY InitFile
<1>2. FileInv /\ (IInv /\ SourceInv) /\ [Next]_vars => FileInv'
  BY NextFile
<1>3. IInv /\ SourceInv /\ FileInv => HistoryFileKeeps
  <2> SUFFICES ASSUME IInv, FileInv PROVE HistoryFileKeeps
    OBVIOUS
  <2>1. ASSUME NEW k \in 1 .. Len(submitted), k < Len(submitted), k \notin failed,
               submitted[k].src # "empty", interactive
        PROVE  \E i \in 1 .. Len(log) : log[i] = [by |-> "me", x |-> k]
    <3>1. Len(submitted) \in Nat
      BY SequenceLength DEF IInv, Sequences
    <3>2. k \in 1 .. N /\ k # N
      BY <2>1, <3>1 DEF N
    <3>3. InFileOwn(k)
      BY <2>1, <3>2 DEF FileInv, OwnKept
    <3> QED
      BY <3>3 DEF InFileOwn, Own
  <2> QED
    BY <2>1 DEF FileInv, OthersKept, OwnInOrder, HistoryFileKeeps
<1> QED
  BY <1>1, <1>2, <1>3, SourceInvariance, PTL DEF Spec

=============================================================================
