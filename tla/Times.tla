------------------------------- MODULE Times -------------------------------
(***************************************************************************)
(* The times that `time` prints: the difference and sum of two struct      *)
(* timeval, and the seconds and milliseconds they are printed as.  An      *)
(* argument that the code changes in place is a result here.               *)
(***************************************************************************)
EXTENDS Integers, TLAPS

Million == 1000000

Timeval == [sec : Int, usec : Int]

\* What the kernel hands out
Normal(t) == t \in Timeval /\ 0 <= t.usec /\ t.usec < Million

Micros(t) == t.sec * Million + t.usec

\* operator-: borrows from, or gives back to, the subtrahend
Borrow(t1, t2) ==
    IF t1.usec < t2.usec
    THEN LET n == (t2.usec - t1.usec) \div Million + 1
         IN  [sec |-> t2.sec + n, usec |-> t2.usec - Million * n]
    ELSE t2

GiveBack(t1, t2) ==
    IF t1.usec - t2.usec > Million
    THEN LET n == (t1.usec - t2.usec) \div Million
         IN  [sec |-> t2.sec - n, usec |-> t2.usec + Million * n]
    ELSE t2

Difference(t1, t2) ==
    LET t == GiveBack(t1, Borrow(t1, t2))
    IN  [sec |-> t1.sec - t.sec, usec |-> t1.usec - t.usec]

\* difftimeval(d, t1, t2): d is t2 - t1, and nothing if that is negative
DiffTimeval(t1, t2) ==
    LET d == [sec |-> t2.sec - t1.sec, usec |-> t2.usec - t1.usec]
    IN  IF d.usec >= 0 THEN d
        ELSE IF d.sec - 1 < 0 THEN [sec |-> 0, usec |-> 0]
        ELSE [sec |-> d.sec - 1, usec |-> d.usec + Million]

\* addtimeval
AddTimeval(t1, t2) ==
    LET usec == t1.usec + t2.usec
    IN  IF usec >= Million THEN [sec |-> t1.sec + t2.sec + 1, usec |-> usec - Million]
                           ELSE [sec |-> t1.sec + t2.sec, usec |-> usec]

\* timeval_to_secs: seconds and milliseconds, rounded to the nearest
Millis(t) == ((t.usec % Million) * 1000) \div Million
             + IF (t.usec % Million) % 1000 >= 500 THEN 1 ELSE 0

Seconds(t) == IF Millis(t) >= 1000 THEN [s |-> t.sec + 1, ms |-> Millis(t) - 1000]
                                   ELSE [s |-> t.sec, ms |-> Millis(t)]

-----------------------------------------------------------------------------
\* The real time (operator- in execute) is exact and normal, however the microseconds
\* of the two lie to each other.
THEOREM DifferenceExact ==
    ASSUME NEW t1, NEW t2, Normal(t1), Normal(t2)
    PROVE  /\ Micros(Difference(t1, t2)) = Micros(t1) - Micros(t2)
           /\ Normal(Difference(t1, t2))
<1> DEFINE b == Borrow(t1, t2)
<1>1. /\ b \in Timeval /\ Micros(b) = Micros(t2)
      /\ 0 <= t1.usec - b.usec /\ t1.usec - b.usec < Million
  <2>1. CASE t1.usec < t2.usec
    <3>1. (t2.usec - t1.usec) \div Million = 0
      BY <2>1, SMT DEF Normal, Timeval, Million
    <3>2. b = [sec |-> t2.sec + 1, usec |-> t2.usec - Million]
      BY <2>1, <3>1, SMT DEF Borrow, Million, Normal, Timeval
    <3> QED
      BY <2>1, <3>2, SMT DEF Normal, Timeval, Micros, Million
  <2>2. CASE ~(t1.usec < t2.usec)
    BY <2>2, SMT DEF Borrow, Normal, Timeval, Micros, Million
  <2> QED
    BY <2>1, <2>2
<1>2. GiveBack(t1, b) = b
  BY <1>1, SMT DEF GiveBack, Normal, Timeval, Million
<1>3. Difference(t1, t2) = [sec |-> t1.sec - b.sec, usec |-> t1.usec - b.usec]
  BY <1>2, SMT DEF Difference
<1> HIDE DEF b
<1> QED
  BY <1>1, <1>3, SMT DEF Micros, Normal, Timeval, Million

\* Of two times in their order, difftimeval gives the exact difference; if they are
\* not and the microseconds are less, too, or a second lies between them, it may be
\* nothing, but what it gives always has microseconds that can be printed.
THEOREM DiffTimevalExact ==
    ASSUME NEW t1, NEW t2, Normal(t1), Normal(t2)
    PROVE  /\ Normal(DiffTimeval(t1, t2))
           /\ Micros(t1) <= Micros(t2) =>
                 Micros(DiffTimeval(t1, t2)) = Micros(t2) - Micros(t1)
<1>1. Normal(DiffTimeval(t1, t2))
  BY SMT DEF DiffTimeval, Normal, Timeval, Million
<1>2. ASSUME Micros(t1) <= Micros(t2)
      PROVE  Micros(DiffTimeval(t1, t2)) = Micros(t2) - Micros(t1)
  <2>1. CASE t2.usec >= t1.usec
    BY <2>1, SMT DEF DiffTimeval, Normal, Timeval, Million, Micros
  <2>2. CASE t2.usec < t1.usec
    <3>1. t2.sec - t1.sec - 1 >= 0
      BY <1>2, <2>2, SMT DEF Normal, Timeval, Million, Micros
    <3> QED
      BY <2>2, <3>1, SMT DEF DiffTimeval, Normal, Timeval, Million, Micros
  <2> QED
    BY <2>1, <2>2, SMT DEF Normal, Timeval
<1> QED
  BY <1>1, <1>2

\* addtimeval carries once, which is enough.
THEOREM AddTimevalExact ==
    ASSUME NEW t1, NEW t2, Normal(t1), Normal(t2)
    PROVE  /\ Micros(AddTimeval(t1, t2)) = Micros(t1) + Micros(t2)
           /\ Normal(AddTimeval(t1, t2))
BY SMT DEF AddTimeval, Normal, Timeval, Million, Micros

\* What is printed, "%ld.%03d", is the time to the nearest millisecond: the carry of
\* the rounding goes into the seconds, and there are never four digits of milliseconds.
THEOREM SecondsNearest ==
    ASSUME NEW t, Normal(t)
    PROVE  LET printed == (Seconds(t).s * 1000 + Seconds(t).ms) * 1000
           IN  /\ 0 <= Seconds(t).ms /\ Seconds(t).ms <= 999
               /\ -500 <= Micros(t) - printed /\ Micros(t) - printed < 500
<1> DEFINE u == t.usec
           q == u \div 1000
           r == u % 1000
<1>1. u \in Int /\ 0 <= u /\ u < Million /\ t.sec \in Int
  BY SMT DEF Normal, Timeval
<1>2. /\ q \in Int /\ 0 <= q /\ q <= 999 /\ r \in Int /\ 0 <= r /\ r <= 999
      /\ u = 1000 * q + r
  BY <1>1, SMT DEF Million
<1>3. Millis(t) = q + IF r >= 500 THEN 1 ELSE 0
  <2>1. u % Million = u
    BY <1>1, SMT DEF Million
  <2>2. (u * 1000) \div Million = q
    BY <1>1, <1>2, SMT DEF Million
  <2> QED
    BY <2>1, <2>2, SMT DEF Millis
<1> HIDE DEF q, r, u
<1>4. CASE Millis(t) >= 1000
  <2>1. Seconds(t).s = t.sec + 1 /\ Seconds(t).ms = Millis(t) - 1000
    BY <1>4, SMT DEF Seconds
  <2>2. Micros(t) = t.sec * Million + u
    BY SMT DEF Micros, u
  <2> QED
    BY <1>1, <1>2, <1>3, <1>4, <2>1, <2>2, SMT DEF Million
<1>5. CASE ~(Millis(t) >= 1000)
  <2>1. Seconds(t).s = t.sec /\ Seconds(t).ms = Millis(t)
    BY <1>5, SMT DEF Seconds
  <2>2. Micros(t) = t.sec * Million + u
    BY SMT DEF Micros, u
  <2> QED
    BY <1>1, <1>2, <1>3, <1>5, <2>1, <2>2, SMT DEF Million
<1> QED
  BY <1>4, <1>5
=============================================================================
