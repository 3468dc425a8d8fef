-------------------------- MODULE CJsonText_proofs --------------------------
(***************************************************************************)
(* The parser and the printer for every set of texts, every nesting limit,  *)
(* every INT_MAX and every failing allocation.  First what the functions on *)
(* bytes return (how far they read, how much they write), then the print    *)
(* buffer by itself, the printer, the parser, and both together.            *)
(*                                                                         *)
(* The recursive functions of CJsonString are defined on intervals.  What   *)
(* they return is shown by induction over a set (LeastOne, Upwards,         *)
(* Downwards, StrongDown); that they exist, by RecursionDown and            *)
(* RecursionUp.                                                             *)
(***************************************************************************)
EXTENDS CJsonText, SequenceTheorems, WellFoundedInduction, TLAPS

-----------------------------------------------------------------------------
(* Induction over intervals.                                                *)

\* The naturals are well founded.
LEMMA LeastOne ==
  ASSUME NEW S \in SUBSET Nat, S # {}
  PROVE  \E m \in S : \A k \in S : m <= k
<1>1. PICK m \in S : \A k \in S : <<k, m>> \notin OpToRel(<, Nat)
  BY WFMin, NatLessThanWellFounded, Zenon
<1>2. \A k \in S : ~ (k < m)
  BY <1>1, Zenon DEF OpToRel
<1> QED BY <1>2

\* Induction over an interval, upwards, for a set instead of a predicate.
LEMMA Upwards ==
  ASSUME NEW lo \in Int, NEW hi \in Int, NEW S, lo \in S,
         \A n \in lo..(hi - 1) : n \in S => n + 1 \in S
  PROVE  lo..hi \subseteq S
<1> DEFINE Bad == {n \in Nat : lo + n <= hi /\ lo + n \notin S}
<1>1. CASE Bad # {}
  <2>1. Bad \in SUBSET Nat
    OBVIOUS
  <2>2. PICK m \in Bad : \A k \in Bad : m <= k
    BY <1>1, <2>1, LeastOne
  <2>3. m # 0
    BY <2>2
  <2>4. m - 1 \in Nat /\ m - 1 \notin Bad
    BY <2>2, <2>3
  <2>5. lo + (m - 1) \in S
    BY <2>2, <2>4
  <2>6. lo + (m - 1) \in lo..(hi - 1)
    BY <2>2, <2>3
  <2>7. (lo + (m - 1)) + 1 = lo + m
    BY <2>2
  <2> QED BY <2>2, <2>5, <2>6, <2>7
<1>2. CASE Bad = {}
  <2> SUFFICES ASSUME NEW i \in lo..hi PROVE i \in S
    OBVIOUS
  <2>1. i - lo \in Nat /\ lo + (i - lo) = i
    OBVIOUS
  <2>2. i - lo \notin Bad
    BY <1>2
  <2> QED BY <2>1, <2>2
<1> QED BY <1>1, <1>2

\* The same downwards.
LEMMA Downwards ==
  ASSUME NEW lo \in Int, NEW hi \in Int, NEW S, hi \in S,
         \A n \in (lo + 1)..hi : n \in S => n - 1 \in S
  PROVE  lo..hi \subseteq S
<1> DEFINE Bad == {n \in Nat : lo <= hi - n /\ hi - n \notin S}
<1>1. CASE Bad # {}
  <2>1. Bad \in SUBSET Nat
    OBVIOUS
  <2>2. PICK m \in Bad : \A k \in Bad : m <= k
    BY <1>1, <2>1, LeastOne
  <2>3. m # 0
    BY <2>2
  <2>4. m - 1 \in Nat /\ m - 1 \notin Bad
    BY <2>2, <2>3
  <2>5. hi - (m - 1) \in S
    BY <2>2, <2>4
  <2>6. hi - (m - 1) \in (lo + 1)..hi
    BY <2>2, <2>3
  <2>7. (hi - (m - 1)) - 1 = hi - m
    BY <2>2
  <2> QED BY <2>2, <2>5, <2>6, <2>7
<1>2. CASE Bad = {}
  <2> SUFFICES ASSUME NEW i \in lo..hi PROVE i \in S
    OBVIOUS
  <2>1. hi - i \in Nat /\ hi - (hi - i) = i
    OBVIOUS
  <2>2. hi - i \notin Bad
    BY <1>2
  <2> QED BY <2>1, <2>2
<1> QED BY <1>1, <1>2

\* Induction downwards from all that is above.
LEMMA StrongDown ==
  ASSUME NEW lo \in Int, NEW hi \in Int, NEW S,
         \A n \in lo..hi : (\A j \in (n + 1)..hi : j \in S) => n \in S
  PROVE  lo..hi \subseteq S
<1> DEFINE T == {n \in lo..(hi + 1) : \A j \in n..hi : j \in S}
           top == hi + 1
<1>1. CASE lo <= hi
  <2>1. top \in T /\ top \in Int
    BY <1>1
  <2>2. ASSUME NEW n \in (lo + 1)..top, n \in T
        PROVE  n - 1 \in T
    <3>1. n - 1 \in lo..hi /\ \A j \in ((n - 1) + 1)..hi : j \in S
      BY <2>2
    <3>2. n - 1 \in S
      BY <3>1
    <3>3. \A j \in (n - 1)..hi : j = n - 1 \/ j \in n..hi
      OBVIOUS
    <3> QED BY <2>2, <3>1, <3>2, <3>3
  <2>3. lo..top \subseteq T
    <3> HIDE DEF T, top
    <3> QED BY <2>1, <2>2, Downwards
  <2>4. lo \in T
    BY <1>1, <2>3
  <2> QED BY <2>4
<1>2. CASE ~(lo <= hi)
  BY <1>2
<1> QED BY <1>1, <1>2

-----------------------------------------------------------------------------
(* Runs and blanks.                                                         *)

\* A run of bytes ends at the first byte that is not of its kind.
LEMMA RunEnds ==
  ASSUME NEW t \in Seq(Nat), NEW o \in 0..Len(t), NEW kind
  PROVE  LET end == EndOfRun(t, o, kind)
         IN /\ end \in o..Len(t)
            /\ end < Len(t) => Byte(t, end) \notin kind
            /\ \A j \in o..(end - 1) : Byte(t, j) \in kind
<1> DEFINE Stops == {i \in o..Len(t) : i < Len(t) => Byte(t, i) \notin kind}
<1>1. Stops \in SUBSET Nat /\ Len(t) \in Stops
  OBVIOUS
<1>2. PICK m \in Stops : \A k \in Stops : m <= k
  BY <1>1, LeastOne
<1>3. \A j \in o..(m - 1) : Byte(t, j) \in kind
  <2> SUFFICES ASSUME NEW j \in o..(m - 1) PROVE Byte(t, j) \in kind
    OBVIOUS
  <2>1. j \notin Stops /\ j \in o..Len(t)
    BY <1>2
  <2> QED BY <2>1
<1> QED BY <1>2, <1>3 DEF EndOfRun

\* buffer_skip_whitespace goes forward, and never from a byte to the end.
LEMMA BlanksEnd ==
  ASSUME NEW t \in Seq(Nat), NEW o \in 0..Len(t)
  PROVE  /\ SkipBlanks(t, o) \in o..Len(t)
         /\ o < Len(t) => SkipBlanks(t, o) < Len(t)
BY RunEnds DEF SkipBlanks

-----------------------------------------------------------------------------
(* Recursion over an interval.  The body is a function, B[i][g] being what a *)
(* recursive function g has at i.                                            *)

Bodies(lo, hi, R) == [lo..hi -> [[lo..hi -> R] -> R]]

\* A body that reads the places above its own defines a function.
LEMMA RecursionDown ==
  ASSUME NEW lo \in Int, NEW hi \in Int, NEW R, R # {},
         NEW B \in Bodies(lo, hi, R),
         \A i \in lo..hi : \A g, h \in [lo..hi -> R] :
           (\A j \in (i + 1)..hi : g[j] = h[j]) => B[i][g] = B[i][h]
  PROVE  \E g \in [lo..hi -> R] : \A i \in lo..hi : g[i] = B[i][g]
<1> DEFINE F == [lo..hi -> R]
           P(n) == \E g \in F : \A i \in n..hi : i \in lo..hi => g[i] = B[i][g]
           S == {n \in lo..(hi + 1) : P(n)}
<1>1. CASE lo <= hi
  <2>1. hi + 1 \in S
    <3>1. PICK r \in R : TRUE
      OBVIOUS
    <3> DEFINE g == [i \in lo..hi |-> r]
    <3>2. g \in F
      OBVIOUS
    <3>3. (hi + 1)..hi = {}
      OBVIOUS
    <3> HIDE DEF g
    <3>4. P(hi + 1)
      BY <3>2, <3>3
    <3>5. hi + 1 \in lo..(hi + 1)
      BY <1>1
    <3> HIDE DEF P
    <3> QED BY <3>4, <3>5
  <2>2. ASSUME NEW n \in (lo + 1)..(hi + 1), n \in S
        PROVE  n - 1 \in S
    <3>1. PICK g \in F : \A i \in n..hi : i \in lo..hi => g[i] = B[i][g]
      BY <2>2
    <3> DEFINE f == [g EXCEPT ![n - 1] = B[n - 1][g]]
    <3>2. n - 1 \in lo..hi
      OBVIOUS
    <3>3. B[n - 1][g] \in R
      BY <3>2 DEF Bodies
    <3>4. f \in F /\ f[n - 1] = B[n - 1][g]
      BY <3>2, <3>3
    <3>5. \A j \in lo..hi : j # n - 1 => f[j] = g[j]
      OBVIOUS
    <3> HIDE DEF f
    <3>6. ASSUME NEW i \in (n - 1)..hi
          PROVE  f[i] = B[i][f]
      <4>1. i \in lo..hi
        OBVIOUS
      <4>2. \A j \in (i + 1)..hi : g[j] = f[j]
        BY <3>5
      <4>3. B[i][g] = B[i][f]
        BY <3>4, <4>1, <4>2
      <4>4. f[i] = B[i][g]
        BY <3>1, <3>4, <3>5, <4>1
      <4> QED BY <4>3, <4>4
    <3>7. P(n - 1)
      BY <3>4, <3>6
    <3> HIDE DEF P
    <3> QED BY <3>7
  <2> HIDE DEF P
  <2>3. lo \in lo..(hi + 1) /\ hi + 1 \in Int
    BY <1>1
  <2>4. lo..(hi + 1) \subseteq S
    <3> HIDE DEF S
    <3> QED BY <2>1, <2>2, <2>3, Downwards
  <2>5. P(lo)
    BY <2>3, <2>4
  <2> QED BY <2>5 DEF P
<1>2. CASE ~(lo <= hi)
  <2>1. lo..hi = {}
    BY <1>2
  <2>2. [i \in lo..hi |-> 0] \in F
    BY <2>1
  <2> QED BY <2>1, <2>2
<1> QED BY <1>1, <1>2

\* B is a body with values in R that reads the places below its own.
ReadsBelow(lo, hi, R, B) ==
  /\ lo \in Int /\ hi \in Int /\ R # {} /\ B \in Bodies(lo, hi, R)
  /\ \A i \in lo..hi : \A g, h \in [lo..hi -> R] :
       (\A j \in lo..(i - 1) : g[j] = h[j]) => B[i][g] = B[i][h]

Solvable(lo, hi, R, B) ==
  \E g \in [lo..hi -> R] : \A i \in lo..hi : g[i] = B[i][g]

\* Such a body defines a function.
LEMMA RecursionUp ==
  ASSUME NEW lo, NEW hi, NEW R, NEW B, ReadsBelow(lo, hi, R, B)
  PROVE  Solvable(lo, hi, R, B)
<1>0. /\ lo \in Int /\ hi \in Int /\ R # {} /\ B \in Bodies(lo, hi, R)
  BY DEF ReadsBelow
<1> USE <1>0
<1> DEFINE F == [lo..hi -> R]
           P(n) == \E g \in F : \A i \in lo..n : i \in lo..hi => g[i] = B[i][g]
           S == {n \in (lo - 1)..hi : P(n)}
<1>1. CASE lo <= hi
  <2>1. lo - 1 \in S
    <3>1. PICK r \in R : TRUE
      OBVIOUS
    <3> DEFINE g == [i \in lo..hi |-> r]
    <3>2. g \in F
      OBVIOUS
    <3>3. lo..(lo - 1) = {}
      OBVIOUS
    <3> HIDE DEF g
    <3>4. P(lo - 1)
      BY <3>2, <3>3
    <3>5. lo - 1 \in (lo - 1)..hi
      BY <1>1
    <3> HIDE DEF P
    <3> QED BY <3>4, <3>5
  <2>2. ASSUME NEW n \in (lo - 1)..(hi - 1), n \in S
        PROVE  n + 1 \in S
    <3>1. PICK g \in F : \A i \in lo..n : i \in lo..hi => g[i] = B[i][g]
      BY <2>2
    <3> DEFINE f == [g EXCEPT ![n + 1] = B[n + 1][g]]
    <3>2. n + 1 \in lo..hi
      OBVIOUS
    <3>3. B[n + 1][g] \in R
      BY <3>2 DEF Bodies
    <3>4. f \in F /\ f[n + 1] = B[n + 1][g]
      BY <3>2, <3>3
    <3>5. \A j \in lo..hi : j # n + 1 => f[j] = g[j]
      OBVIOUS
    <3> HIDE DEF f
    <3>6. ASSUME NEW i \in lo..(n + 1)
          PROVE  f[i] = B[i][f]
      <4>1. i \in lo..hi
        OBVIOUS
      <4>2. \A j \in lo..(i - 1) : g[j] = f[j]
        BY <3>5
      <4>3. B[i][g] = B[i][f]
        BY <3>4, <4>1, <4>2 DEF ReadsBelow
      <4>4. f[i] = B[i][g]
        BY <3>1, <3>4, <3>5, <4>1
      <4> QED BY <4>3, <4>4
    <3>7. P(n + 1)
      BY <3>4, <3>6
    <3> HIDE DEF P
    <3> QED BY <3>7
  <2> HIDE DEF P
  <2>3. hi \in (lo - 1)..hi /\ lo - 1 \in Int
    BY <1>1
  <2>4. (lo - 1)..hi \subseteq S
    <3> HIDE DEF S
    <3> QED BY <2>1, <2>2, <2>3, Upwards
  <2>5. P(hi)
    BY <2>3, <2>4
  <2> QED BY <2>5 DEF P, Solvable
<1>2. CASE ~(lo <= hi)
  <2>1. lo..hi = {}
    BY <1>2
  <2>2. [i \in lo..hi |-> 0] \in F
    BY <2>1
  <2> QED BY <2>1, <2>2 DEF Solvable
<1> QED BY <1>1, <1>2 DEF Solvable

-----------------------------------------------------------------------------
(* Strings.                                                                 *)

\* What ClosingQuote's scan finds at i, when g is what it finds behind.
ScanAt(t, g, i) ==
  IF i = Len(t) THEN [at |-> Len(t), skipped |-> 0]
  ELSE IF Byte(t, i) = Quote THEN [at |-> i, skipped |-> 0]
  ELSE IF Byte(t, i) # Backslash THEN g[i + 1]
  ELSE IF i + 1 = Len(t) THEN [at |-> Len(t), skipped |-> 0]
  ELSE [at |-> g[i + 2].at, skipped |-> g[i + 2].skipped + 1]

Scans == [at : Nat, skipped : Nat]

\* ClosingQuote is a function that obeys its recursion.
LEMMA ScanIs ==
  ASSUME NEW t \in Seq(Nat), NEW o \in 0..Len(t)
  PROVE  \E c : /\ ClosingQuote(t, o) = c[o]
               /\ \A i \in o..Len(t) : c[i] = ScanAt(t, c, i)
<1> DEFINE F == [o..Len(t) -> Scans]
           B == [i \in o..Len(t) |-> [g \in F |-> ScanAt(t, g, i)]]
           c == CHOOSE g : g = [i \in o..Len(t) |-> ScanAt(t, g, i)]
<1>1. ASSUME NEW i \in o..Len(t), NEW g \in F
      PROVE  ScanAt(t, g, i) \in Scans
  <2>1. i # Len(t) => g[i + 1] \in Scans
    OBVIOUS
  <2>2. i # Len(t) /\ i + 1 # Len(t) => g[i + 2] \in Scans
    OBVIOUS
  <2> QED BY <2>1, <2>2 DEF ScanAt, Scans
<1>2. B \in Bodies(o, Len(t), Scans)
  BY <1>1 DEF Bodies
<1>3. ASSUME NEW i \in o..Len(t), NEW g \in F, NEW h \in F,
             \A j \in (i + 1)..Len(t) : g[j] = h[j]
      PROVE  B[i][g] = B[i][h]
  <2>1. i < Len(t) => g[i + 1] = h[i + 1]
    BY <1>3
  <2>2. i < Len(t) /\ i + 1 # Len(t) => g[i + 2] = h[i + 2]
    BY <1>3
  <2>3. ScanAt(t, g, i) = ScanAt(t, h, i)
    BY <2>1, <2>2 DEF ScanAt
  <2>4. B[i][g] = ScanAt(t, g, i) /\ B[i][h] = ScanAt(t, h, i)
    OBVIOUS
  <2> QED BY <2>3, <2>4
<1>4. Scans # {}
  <2>1. [at |-> 0, skipped |-> 0] \in Scans
    BY DEF Scans
  <2> QED BY <2>1
<1>5. \E g \in F : \A i \in o..Len(t) : g[i] = B[i][g]
  <2> HIDE DEF B
  <2>1. o \in Int /\ Len(t) \in Int
    OBVIOUS
  <2>2. \A i \in o..Len(t) : \A g, h \in F :
          (\A j \in (i + 1)..Len(t) : g[j] = h[j]) => B[i][g] = B[i][h]
    BY <1>3
  <2> QED BY <1>2, <1>4, <2>1, <2>2, RecursionDown
<1>6. PICK g \in F : \A i \in o..Len(t) : g[i] = ScanAt(t, g, i)
  BY <1>5
<1>7. g = [i \in o..Len(t) |-> ScanAt(t, g, i)]
  BY <1>6
<1>8. c = [i \in o..Len(t) |-> ScanAt(t, c, i)]
  BY <1>7
<1>9. ClosingQuote(t, o) = c[o]
  BY DEF ClosingQuote, ScanAt
<1> HIDE DEF c
<1> QED BY <1>8, <1>9

\* K[i] counts the escapes that the first pass meets from i to e: two of them
\* never touch, and none holds the quote at e.
Counts(t, K, o, e) ==
  /\ K \in [Nat -> Nat]
  /\ \A j \in Nat : j >= e => K[j] = 0
  /\ \A i \in o..(e - 1) :
       \/ K[i] = K[i + 1]
       \/ /\ K[i] = K[i + 1] + 1 /\ K[i + 1] = K[i + 2]
          /\ Byte(t, i) = Backslash /\ i + 1 < e

\* What the first pass finds from o on.
Scanned(t, o, r) ==
  /\ r.at \in o..Len(t)
  /\ r.at < Len(t) => Byte(t, r.at) = Quote
  /\ \E K : Counts(t, K, o, r.at) /\ K[o] = r.skipped

\* A byte that is no escape.
LEMMA CountByte ==
  ASSUME NEW t, NEW i \in Nat, NEW e \in Nat, i < e,
         NEW K, Counts(t, K, i + 1, e)
  PROVE  \E M : Counts(t, M, i, e) /\ M[i] = K[i + 1]
<1> DEFINE M == [K EXCEPT ![i] = K[i + 1]]
<1>1. /\ M \in [Nat -> Nat] /\ M[i] = K[i + 1]
      /\ \A j \in Nat : j # i => M[j] = K[j]
  BY DEF Counts
<1> HIDE DEF M
<1>2. \A j \in Nat : j >= e => M[j] = 0
  BY <1>1 DEF Counts
<1>3. ASSUME NEW j \in i..(e - 1)
      PROVE  \/ M[j] = M[j + 1]
             \/ /\ M[j] = M[j + 1] + 1 /\ M[j + 1] = M[j + 2]
                /\ Byte(t, j) = Backslash /\ j + 1 < e
  <2>1. M[j + 1] = K[j + 1] /\ M[j + 2] = K[j + 2]
    BY <1>1
  <2>2. CASE j = i
    BY <1>1, <2>1, <2>2
  <2>3. CASE j # i
    <3>1. j \in (i + 1)..(e - 1) /\ M[j] = K[j]
      BY <1>1, <2>3
    <3> QED BY <2>1, <3>1 DEF Counts
  <2> QED BY <2>2, <2>3
<1>4. Counts(t, M, i, e)
  BY <1>1, <1>2, <1>3 DEF Counts
<1> QED BY <1>1, <1>4

\* An escape.
LEMMA CountEscape ==
  ASSUME NEW t, NEW i \in Nat, NEW e \in Nat, i + 1 < e,
         NEW K, Counts(t, K, i + 2, e), Byte(t, i) = Backslash
  PROVE  \E M : Counts(t, M, i, e) /\ M[i] = K[i + 2] + 1
<1> DEFINE M == [j \in Nat |-> IF j = i THEN K[i + 2] + 1
                               ELSE IF j = i + 1 THEN K[i + 2] ELSE K[j]]
<1>1. /\ M \in [Nat -> Nat] /\ M[i] = K[i + 2] + 1 /\ M[i + 1] = K[i + 2]
      /\ \A j \in Nat : j # i /\ j # i + 1 => M[j] = K[j]
  <2>1. K \in [Nat -> Nat]
    BY DEF Counts
  <2>2. \A j \in Nat : K[j] \in Nat
    BY <2>1
  <2>3. i + 2 \in Nat /\ i + 1 \in Nat /\ K[i + 2] \in Nat
    BY <2>2
  <2> QED BY <2>2, <2>3
<1> HIDE DEF M
<1>2. \A j \in Nat : j >= e => M[j] = 0
  BY <1>1 DEF Counts
<1>3. ASSUME NEW j \in i..(e - 1)
      PROVE  \/ M[j] = M[j + 1]
             \/ /\ M[j] = M[j + 1] + 1 /\ M[j + 1] = M[j + 2]
                /\ Byte(t, j) = Backslash /\ j + 1 < e
  <2>1. M[j + 2] = K[j + 2] /\ (j # i => M[j + 1] = K[j + 1])
    BY <1>1
  <2>2. CASE j = i
    BY <1>1, <2>1, <2>2
  <2>3. CASE j = i + 1
    <3>1. j + 1 = i + 2
      BY <2>3
    <3> QED BY <1>1, <2>1, <2>3, <3>1
  <2>4. CASE j # i /\ j # i + 1
    <3>1. j \in (i + 2)..(e - 1) /\ M[j] = K[j]
      BY <1>1, <2>4
    <3> QED BY <2>1, <2>4, <3>1 DEF Counts
  <2> QED BY <2>2, <2>3, <2>4
<1>4. Counts(t, M, i, e)
  BY <1>1, <1>2, <1>3 DEF Counts
<1> QED BY <1>1, <1>4

\* The first pass finds a quote or the end, and counts its escapes.
LEMMA ScanEnds ==
  ASSUME NEW t \in Seq(Nat), NEW o \in 0..Len(t)
  PROVE  Scanned(t, o, ClosingQuote(t, o))
<1>1. PICK c : /\ ClosingQuote(t, o) = c[o]
               /\ \A i \in o..Len(t) : c[i] = ScanAt(t, c, i)
  BY ScanIs
<1> DEFINE S == {n \in o..Len(t) : \A i \in n..Len(t) : Scanned(t, i, c[i])}
<1>2. ASSUME NEW i \in o..Len(t), NEW e \in i..Len(t),
             c[i] = [at |-> e, skipped |-> 0], e < Len(t) => Byte(t, e) = Quote
      PROVE  Scanned(t, i, c[i])
  <2> DEFINE K == [j \in Nat |-> 0]
  <2>1. K \in [Nat -> Nat] /\ \A j \in Nat : K[j] = 0
    OBVIOUS
  <2> HIDE DEF K
  <2>2. Counts(t, K, i, e) /\ K[i] = 0
    BY <2>1 DEF Counts
  <2> QED BY <1>2, <2>2 DEF Scanned
<1>3. Len(t) \in S
  <2>2. Len(t) \in o..Len(t) /\ Len(t) \in Len(t)..Len(t)
    OBVIOUS
  <2>5. c[Len(t)] = ScanAt(t, c, Len(t))
    BY <1>1, <2>2
  <2>1. c[Len(t)] = [at |-> Len(t), skipped |-> 0]
    BY <2>5 DEF ScanAt
  <2>3. Scanned(t, Len(t), c[Len(t)])
    BY <1>2, <2>1, <2>2
  <2>4. \A i \in Len(t)..Len(t) : i = Len(t)
    OBVIOUS
  <2> QED BY <2>2, <2>3, <2>4
<1>4. ASSUME NEW n \in (o + 1)..Len(t), n \in S PROVE n - 1 \in S
  <2> DEFINE i == n - 1
  <2>1. i \in o..Len(t) /\ i < Len(t) /\ i \in Nat /\ n = i + 1
    OBVIOUS
  <2>2. c[i] = ScanAt(t, c, i)
    BY <1>1, <2>1
  <2>3. \A j \in n..Len(t) : Scanned(t, j, c[j])
    BY <1>4
  <2> HIDE DEF i
  <2>4. Scanned(t, i, c[i])
    <3>1. CASE Byte(t, i) = Quote
      <4>1. c[i] = [at |-> i, skipped |-> 0]
        BY <2>1, <2>2, <3>1 DEF ScanAt
      <4>2. i \in i..Len(t)
        BY <2>1
      <4> QED BY <1>2, <2>1, <3>1, <4>1, <4>2
    <3>2. CASE Byte(t, i) # Quote /\ Byte(t, i) # Backslash
      <4>1. c[i] = c[i + 1] /\ Scanned(t, i + 1, c[i + 1])
        BY <2>1, <2>2, <2>3, <3>2 DEF ScanAt
      <4>2. /\ c[i].at \in (i + 1)..Len(t) /\ c[i].at \in i..Len(t)
            /\ c[i].at \in Nat /\ i < c[i].at
            /\ c[i].at < Len(t) => Byte(t, c[i].at) = Quote
        BY <2>1, <4>1 DEF Scanned
      <4>3. PICK K : Counts(t, K, i + 1, c[i].at) /\ K[i + 1] = c[i].skipped
        BY <4>1 DEF Scanned
      <4>4. PICK M : Counts(t, M, i, c[i].at) /\ M[i] = K[i + 1]
        BY <2>1, <4>2, <4>3, CountByte
      <4> QED BY <4>2, <4>3, <4>4 DEF Scanned
    <3>3. CASE Byte(t, i) = Backslash /\ i + 1 = Len(t)
      <4>1. c[i] = [at |-> Len(t), skipped |-> 0]
        BY <2>1, <2>2, <3>3 DEF ScanAt, Quote, Backslash
      <4>2. Len(t) \in i..Len(t)
        BY <2>1
      <4> QED BY <1>2, <2>1, <4>1, <4>2
    <3>4. CASE Byte(t, i) = Backslash /\ i + 1 # Len(t)
      <4>1. /\ c[i] = [at |-> c[i + 2].at, skipped |-> c[i + 2].skipped + 1]
            /\ Scanned(t, i + 2, c[i + 2])
        BY <2>1, <2>2, <2>3, <3>4 DEF ScanAt, Quote, Backslash
      <4>2. /\ c[i].at = c[i + 2].at
            /\ c[i].skipped = c[i + 2].skipped + 1
        BY <4>1
      <4>3. /\ c[i].at \in (i + 2)..Len(t) /\ c[i].at \in i..Len(t)
            /\ c[i].at \in Nat /\ i + 1 < c[i].at
            /\ c[i].at < Len(t) => Byte(t, c[i].at) = Quote
        BY <2>1, <4>1, <4>2 DEF Scanned
      <4>4. PICK K : /\ Counts(t, K, i + 2, c[i].at)
                     /\ K[i + 2] = c[i + 2].skipped
        BY <4>1, <4>2 DEF Scanned
      <4>5. PICK M : Counts(t, M, i, c[i].at) /\ M[i] = K[i + 2] + 1
        BY <2>1, <3>4, <4>3, <4>4, CountEscape
      <4> QED BY <4>2, <4>3, <4>4, <4>5 DEF Scanned
    <3> QED BY <3>1, <3>2, <3>3, <3>4
  <2>5. \A j \in i..Len(t) : j = i \/ j \in n..Len(t)
    BY <2>1
  <2> QED BY <2>1, <2>3, <2>4, <2>5 DEF i
<1> HIDE DEF S
<1>5. o..Len(t) \subseteq S
  <2>1. o \in Int /\ Len(t) \in Int
    OBVIOUS
  <2> QED BY <1>3, <1>4, <2>1, Downwards
<1>6. Scanned(t, o, c[o])
  <2>1. o \in S
    BY <1>5
  <2> QED BY <2>1 DEF S
<1> QED BY <1>1, <1>6

\* A hexadecimal digit is below 16.
LEMMA HexIs ==
  ASSUME NEW c \in HexDigits
  PROVE  Hex(c) \in Nat /\ Hex(c) < 16
BY DEF Hex, HexDigits, Digits

\* parse_hex4 gives sixteen bits.
LEMMA Hex4Is ==
  ASSUME NEW t \in Seq(Nat), NEW o \in Nat
  PROVE  Hex4(t, o) \in Nat /\ Hex4(t, o) < 65536
<1>1. CASE \E i \in 0..3 : Byte(t, o + i) \notin HexDigits
  BY <1>1 DEF Hex4
<1>2. CASE \A i \in 0..3 : Byte(t, o + i) \in HexDigits
  <2> DEFINE h(i) == Hex(Byte(t, o + i))
  <2>1. /\ h(0) \in Nat /\ h(0) < 16 /\ h(1) \in Nat /\ h(1) < 16
        /\ h(2) \in Nat /\ h(2) < 16 /\ h(3) \in Nat /\ h(3) < 16
    BY <1>2, HexIs
  <2>2. Hex4(t, o) = ((h(0) * 16 + h(1)) * 16 + h(2)) * 16 + h(3)
    BY <1>2 DEF Hex4
  <2> HIDE DEF h
  <2> QED BY <2>1, <2>2
<1> QED BY <1>1, <1>2

\* A code point takes four bytes at most,
LEMMA Utf8Is ==
  ASSUME NEW code \in Nat
  PROVE  /\ Utf8(code) \in Seq(Nat)
         /\ Len(Utf8(code)) <= 4
<1>1. /\ 192 + (code \div 64) \in Nat /\ 224 + (code \div 4096) \in Nat
      /\ 240 + (code \div 262144) \in Nat
      /\ 128 + (code % 64) \in Nat
      /\ 128 + ((code \div 64) % 64) \in Nat
      /\ 128 + ((code \div 4096) % 64) \in Nat
  OBVIOUS
<1> QED BY <1>1 DEF Utf8

\* and three below 65536.
LEMMA Utf8Short ==
  ASSUME NEW code \in Nat, code < 65536
  PROVE  Utf8(code) \in Seq(Nat) /\ Len(Utf8(code)) <= 3
<1>1. /\ 192 + (code \div 64) \in Nat /\ 224 + (code \div 4096) \in Nat
      /\ 128 + (code % 64) \in Nat
      /\ 128 + ((code \div 64) % 64) \in Nat
  OBVIOUS
<1> QED BY <1>1 DEF Utf8

\* The short escapes are bytes.
LEMMA ShortIs == \A k \in DOMAIN ShortEscapes : ShortEscapes[k] \in Nat \X Nat
BY DEF ShortEscapes, Quote, Backslash, Slash

\* One character: what it takes and what it gives.
Taken(t, i, e, c) ==
  /\ c.bytes \in Seq(Nat)
  /\ \/ c.length = 0
     \/ c.length = 1 /\ Len(c.bytes) = 1 /\ Byte(t, i) # Backslash
     \/ c.length = 2 /\ Len(c.bytes) = 1
     \/ c.length = 6 /\ Len(c.bytes) <= 3 /\ i + 6 <= e
     \/ c.length = 12 /\ Len(c.bytes) <= 4 /\ i + 12 <= e

\* utf16_literal_to_utf8 takes 6 bytes for 3 at most, or 12 for 4.
LEMMA LiteralIs ==
  ASSUME NEW t \in Seq(Nat), NEW i \in Nat, NEW e \in Nat
  PROVE  Taken(t, i, e, Utf16Literal(t, i, e))
<1> DEFINE first == Hex4(t, i + 2)
           second == Hex4(t, i + 8)
           code == 65536 + (first % 1024) * 1024 + (second % 1024)
<1>1. first \in Nat /\ first < 65536 /\ second \in Nat
  BY Hex4Is
<1> HIDE DEF first, second
<1>2. code \in Nat
  BY <1>1
<1> HIDE DEF code
<1>3. CASE e - i < 6 \/ first \in Low
  BY <1>3 DEF Utf16Literal, Taken, Invalid, first
<1>4. CASE ~(e - i < 6 \/ first \in Low) /\ first \notin High
  <2>1. Utf16Literal(t, i, e) = [length |-> 6, bytes |-> Utf8(first)]
    BY <1>4 DEF Utf16Literal, first
  <2>2. /\ Utf8(first) \in Seq(Nat) /\ Len(Utf8(first)) <= 3
    BY <1>1, Utf8Short
  <2>3. i + 6 <= e
    BY <1>4
  <2> QED BY <2>1, <2>2, <2>3 DEF Taken
<1>5. CASE ~(e - i < 6 \/ first \in Low) /\ first \in High
  <2>1. \/ Utf16Literal(t, i, e) = Invalid
        \/ /\ Utf16Literal(t, i, e) = [length |-> 12, bytes |-> Utf8(code)]
           /\ ~(e - i < 12)
    BY <1>5 DEF Utf16Literal, first, second, code
  <2>2. Utf8(code) \in Seq(Nat) /\ Len(Utf8(code)) <= 4
    BY <1>2, Utf8Is
  <2>3. CASE Utf16Literal(t, i, e) = Invalid
    BY <2>3 DEF Taken, Invalid
  <2>4. CASE /\ Utf16Literal(t, i, e) = [length |-> 12, bytes |-> Utf8(code)]
             /\ ~(e - i < 12)
    <3>1. i + 12 <= e
      BY <2>4
    <3> QED BY <2>2, <2>4, <3>1 DEF Taken
  <2> QED BY <2>1, <2>3, <2>4
<1> QED BY <1>3, <1>4, <1>5

\* A character gives no more bytes than it takes.
LEMMA CharacterIs ==
  ASSUME NEW t \in Seq(Nat), NEW i \in Nat, NEW e \in Nat, i < e, e < Len(t)
  PROVE  Taken(t, i, e, Character(t, i, e))
<1> DEFINE c == Byte(t, i + 1)
           short == {k \in DOMAIN ShortEscapes : ShortEscapes[k][1] = c}
<1>1. CASE Byte(t, i) # Backslash
  <2>1. Byte(t, i) \in Nat
    BY DEF Byte
  <2> QED BY <1>1, <2>1 DEF Character, Taken
<1>2. CASE Byte(t, i) = Backslash /\ c = LetterU
  BY <1>2, LiteralIs DEF Character
<1>3. CASE Byte(t, i) = Backslash /\ c # LetterU /\ short = {}
  BY <1>3 DEF Character, Taken, Invalid
<1>4. CASE Byte(t, i) = Backslash /\ c # LetterU /\ short # {}
  <2> DEFINE k == CHOOSE k \in short : TRUE
  <2>1. k \in DOMAIN ShortEscapes
    BY <1>4
  <2>2. ShortEscapes[k][2] \in Nat
    BY <2>1, ShortIs
  <2>3. Character(t, i, e) = [length |-> 2, bytes |-> <<ShortEscapes[k][2]>>]
    BY <1>4 DEF Character
  <2> HIDE DEF k
  <2> QED BY <2>2, <2>3 DEF Taken
<1> QED BY <1>1, <1>2, <1>3, <1>4

\* The escapes still to come from i on, when two bytes hold one at most.
Sparse(t, K, e, i) ==
  /\ K[i] \in Nat
  /\ (i < e /\ Byte(t, i) # Backslash) => K[i] = K[i + 1]
  /\ (i + 1 = e) => K[i] = 0
  /\ K[i] <= K[i + 2] + 1
  /\ (i + 6 <= e) => K[i] <= K[i + 6] + 3
  /\ (i + 12 <= e) => K[i] <= K[i + 12] + 6

\* What the first pass has counted is sparse.
LEMMA FewEscapes ==
  ASSUME NEW t, NEW K, NEW o \in Nat, NEW e \in Nat, Counts(t, K, o, e),
         NEW i \in o..e
  PROVE  Sparse(t, K, e, i)
<1>1. \A j \in Nat : K[j] \in Nat /\ (j >= e => K[j] = 0)
  BY DEF Counts
<1>2. ASSUME NEW j \in o..(e - 1)
      PROVE  \/ K[j] = K[j + 1]
             \/ /\ K[j] = K[j + 1] + 1 /\ K[j + 1] = K[j + 2]
                /\ Byte(t, j) = Backslash /\ j + 1 < e
  BY DEF Counts
<1>3. ASSUME NEW j \in o..e PROVE K[j] <= K[j + 2] + 1
  <2>1. j \in Nat /\ j + 1 \in Nat /\ j + 2 \in Nat
    OBVIOUS
  <2>2. K[j] \in Nat /\ K[j + 1] \in Nat /\ K[j + 2] \in Nat
    BY <1>1, <2>1
  <2>3. CASE j >= e
    <3>1. K[j] = 0
      BY <1>1, <2>1, <2>3
    <3> QED BY <2>2, <3>1
  <2>4. CASE j + 1 = e
    <3>1. K[j + 1] = 0 /\ j \in o..(e - 1)
      BY <1>1, <2>1, <2>4
    <3>2. K[j] = K[j + 1] \/ K[j] = K[j + 1] + 1
      BY <1>2, <3>1
    <3> QED BY <2>2, <3>1, <3>2
  <2>5. CASE j + 1 < e
    <3>1. j \in o..(e - 1) /\ j + 1 \in o..(e - 1) /\ (j + 1) + 1 = j + 2
      BY <2>5
    <3>2. K[j] = K[j + 1] \/ (K[j] = K[j + 1] + 1 /\ K[j + 1] = K[j + 2])
      BY <1>2, <3>1
    <3>3. K[j + 1] = K[(j + 1) + 1] \/ K[j + 1] = K[(j + 1) + 1] + 1
      BY <1>2, <3>1
    <3> QED BY <2>2, <3>1, <3>2, <3>3
  <2> QED BY <2>1, <2>3, <2>4, <2>5
<1>4. i \in Nat /\ o <= i /\ i <= e
  OBVIOUS
<1>5. ASSUME i < e, Byte(t, i) # Backslash PROVE K[i] = K[i + 1]
  BY <1>2, <1>5
<1>6. ASSUME i + 1 = e PROVE K[i] = 0
  <2>1. K[i + 1] = 0 /\ ~(i + 1 < e) /\ i \in o..(e - 1)
    BY <1>1, <1>4, <1>6
  <2> QED BY <1>2, <2>1
<1>7. ASSUME NEW j \in o..e, j + 6 <= e PROVE K[j] <= K[j + 6] + 3
  <2>1. /\ j \in o..e /\ j + 2 \in o..e /\ j + 4 \in o..e
        /\ (j + 2) + 2 = j + 4 /\ (j + 4) + 2 = j + 6
    BY <1>7
  <2>2. /\ K[j] <= K[j + 2] + 1 /\ K[j + 2] <= K[(j + 2) + 2] + 1
        /\ K[j + 4] <= K[(j + 4) + 2] + 1
    BY <1>3, <2>1
  <2>3. K[j] \in Nat /\ K[j + 2] \in Nat /\ K[j + 4] \in Nat /\ K[j + 6] \in Nat
    BY <1>1, <1>7
  <2> QED BY <2>1, <2>2, <2>3
<1>8. ASSUME i + 12 <= e PROVE K[i] <= K[i + 12] + 6
  <2>1. i + 6 \in o..e /\ (i + 6) + 6 = i + 12 /\ (i + 6) + 6 <= e
    BY <1>4, <1>8
  <2>2. K[i] <= K[i + 6] + 3 /\ K[i + 6] <= K[(i + 6) + 6] + 3
    BY <1>7, <1>8, <2>1, <1>4
  <2>3. K[i] \in Nat /\ K[i + 6] \in Nat /\ K[i + 12] \in Nat
    BY <1>1, <1>8
  <2> QED BY <2>1, <2>2, <2>3
<1>9. K[i] \in Nat /\ K[i] <= K[i + 2] + 1
  BY <1>1, <1>3, <1>4
<1>10. (i + 6 <= e) => K[i] <= K[i + 6] + 3
  BY <1>7
<1> QED BY <1>5, <1>6, <1>8, <1>9, <1>10 DEF Sparse

-----------------------------------------------------------------------------
\* What the second pass has copied from i on, when g is what it copies behind.
CopyAt(t, e, g, i) ==
  IF i >= e THEN [ok |-> TRUE, off |-> e + 1, bytes |-> <<>>]
  ELSE LET c == Character(t, i, e)
           rest == g[i + c.length]
       IN IF c.length = 0 THEN [ok |-> FALSE, off |-> i, bytes |-> <<>>]
          ELSE [ok |-> rest.ok, off |-> rest.off,
                bytes |-> c.bytes \o rest.bytes]

Copies == [ok : BOOLEAN, off : Nat, bytes : Seq(Nat)]

\* The next character begins behind i, and not behind the closing quote.
LEMMA Forward ==
  ASSUME NEW t \in Seq(Nat), NEW i \in Nat, NEW e \in Nat, i < e, e < Len(t),
         NEW h, h = Character(t, i, e), h.length # 0
  PROVE  /\ h.bytes \in Seq(Nat)
         /\ i + h.length \in Nat /\ i < i + h.length /\ i + h.length <= e + 1
<1>1. Taken(t, i, e, h)
  BY CharacterIs
<1>2. \/ h.length = 1
      \/ h.length = 2
      \/ h.length = 6 /\ i + 6 <= e
      \/ h.length = 12 /\ i + 12 <= e
  BY <1>1 DEF Taken
<1>3. h.bytes \in Seq(Nat)
  BY <1>1 DEF Taken
<1>4. h.length \in Nat /\ 0 < h.length
  BY <1>2
<1>5. i + h.length <= e + 1
  BY <1>2
<1> QED BY <1>3, <1>4, <1>5

\* The second pass is a function that obeys its recursion.
LEMMA CopyIs ==
  ASSUME NEW t \in Seq(Nat), NEW o \in Nat, NEW e \in Nat, NEW q \in Int,
         e < Len(t), q = e + 1
  PROVE  \E c : c = [i \in o..q |-> CopyAt(t, e, c, i)]
<1> DEFINE F == [o..q -> Copies]
           B == [i \in o..q |-> [g \in F |-> CopyAt(t, e, g, i)]]
<1>1. ASSUME NEW i \in o..q, NEW g \in F
      PROVE  CopyAt(t, e, g, i) \in Copies
  <2>1. CASE i >= e
    BY <2>1 DEF CopyAt, Copies
  <2>2. CASE i < e /\ Character(t, i, e).length = 0
    BY <2>2 DEF CopyAt, Copies
  <2>3. CASE i < e /\ Character(t, i, e).length # 0
    <3> DEFINE h == Character(t, i, e)
    <3>1. i + h.length \in o..q /\ h.bytes \in Seq(Nat)
      BY <2>3, Forward
    <3>2. g[i + h.length] \in Copies
      BY <3>1
    <3>3. CopyAt(t, e, g, i) = [ok |-> g[i + h.length].ok,
                                off |-> g[i + h.length].off,
                                bytes |-> h.bytes \o g[i + h.length].bytes]
      BY <2>3 DEF CopyAt
    <3> HIDE DEF h
    <3> QED BY <3>1, <3>2, <3>3 DEF Copies
  <2> QED BY <2>1, <2>2, <2>3
<1>2. B \in Bodies(o, q, Copies)
  BY <1>1 DEF Bodies
<1>3. ASSUME NEW i \in o..q, NEW g \in F, NEW h \in F,
             \A j \in (i + 1)..q : g[j] = h[j]
      PROVE  B[i][g] = B[i][h]
  <2>1. CopyAt(t, e, g, i) = CopyAt(t, e, h, i)
    <3>1. CASE i >= e
      BY <3>1 DEF CopyAt
    <3>2. CASE i < e
      <4> DEFINE c == Character(t, i, e)
      <4>1. c.length # 0 => i + c.length \in (i + 1)..q
        BY <3>2, Forward
      <4>2. c.length # 0 => g[i + c.length] = h[i + c.length]
        BY <1>3, <4>1
      <4> QED BY <3>2, <4>2 DEF CopyAt
    <3> QED BY <3>1, <3>2
  <2>2. B[i][g] = CopyAt(t, e, g, i) /\ B[i][h] = CopyAt(t, e, h, i)
    OBVIOUS
  <2> QED BY <2>1, <2>2
<1>4. Copies # {}
  <2>1. [ok |-> TRUE, off |-> 0, bytes |-> <<>>] \in Copies
    BY DEF Copies
  <2> QED BY <2>1
<1>5. \E g \in F : \A i \in o..q : g[i] = B[i][g]
  <2> HIDE DEF B
  <2>1. o \in Int /\ q \in Int
    OBVIOUS
  <2>2. \A i \in o..q : \A g, h \in F :
          (\A j \in (i + 1)..q : g[j] = h[j]) => B[i][g] = B[i][h]
    BY <1>3
  <2> QED BY ONLY <1>2, <1>4, <2>1, <2>2, RecursionDown
<1>6. PICK g \in F : \A i \in o..q : g[i] = CopyAt(t, e, g, i)
  BY <1>5
<1>7. g = [i \in o..q |-> CopyAt(t, e, g, i)]
  BY <1>6
<1> QED BY <1>7

\* The copy from i on keeps to the room that is left for it.
Copied(K, o, e, i, r) ==
  /\ r.ok \in BOOLEAN /\ r.off \in Nat /\ o <= r.off /\ r.off <= e + 1
  /\ r.bytes \in Seq(Nat)
  /\ r.ok => IF i <= e THEN Len(r.bytes) <= e - i - K[i]
             ELSE Len(r.bytes) = 0

\* A character and what is copied behind it.
LEMMA CopyMore ==
  ASSUME NEW t \in Seq(Nat), NEW o \in Nat, NEW e \in Nat,
         NEW K, Counts(t, K, o, e), NEW i \in o..e, i < e,
         NEW h, Taken(t, i, e, h), h.length # 0,
         NEW rest, Copied(K, o, e, i + h.length, rest), rest.ok
  PROVE  Len(h.bytes) + Len(rest.bytes) <= e - i - K[i]
<1>1. Sparse(t, K, e, i)
  BY FewEscapes
<1>2. \A j \in Nat : K[j] \in Nat
  <2>1. K \in [Nat -> Nat]
    BY DEF Counts
  <2> QED BY <2>1
<1>3. i \in Nat
  OBVIOUS
<1>4. Len(rest.bytes) \in Nat /\ Len(h.bytes) \in Nat
  <2>1. rest.bytes \in Seq(Nat) /\ h.bytes \in Seq(Nat)
    BY DEF Copied, Taken
  <2> QED BY <2>1
<1>5. /\ i + h.length <= e =>
           Len(rest.bytes) <= e - (i + h.length) - K[i + h.length]
      /\ ~(i + h.length <= e) => Len(rest.bytes) = 0
  BY DEF Copied
<1>6. PICK a \in Nat : a = Len(h.bytes)
  BY <1>4
<1>7. PICK b \in Nat : b = Len(rest.bytes)
  BY <1>4
<1>8. PICK k \in Nat : k = K[i]
  BY <1>1 DEF Sparse
<1>9. CASE h.length = 1 /\ Len(h.bytes) = 1 /\ Byte(t, i) # Backslash
  <2>1. PICK m \in Nat : m = K[i + 1]
    BY <1>2, <1>3
  <2>2. a = 1 /\ k = m /\ i + 1 <= e /\ b <= e - (i + 1) - m
    BY <1>1, <1>5, <1>6, <1>7, <1>8, <1>9, <2>1 DEF Sparse
  <2>3. a + b <= e - i - k
    BY <2>2
  <2> QED BY <1>6, <1>7, <1>8, <2>3
<1>10. CASE h.length = 2 /\ Len(h.bytes) = 1
  <2>1. PICK m \in Nat : m = K[i + 2]
    BY <1>2, <1>3
  <2>2. /\ a = 1 /\ k <= m + 1 /\ (i + 1 = e => k = 0)
        /\ i + 2 <= e => b <= e - (i + 2) - m
        /\ ~(i + 2 <= e) => b = 0
    BY <1>1, <1>5, <1>6, <1>7, <1>8, <1>10, <2>1 DEF Sparse
  <2>3. a + b <= e - i - k
    BY <2>2
  <2> QED BY <1>6, <1>7, <1>8, <2>3
<1>11. CASE h.length = 6 /\ Len(h.bytes) <= 3 /\ i + 6 <= e
  <2>1. PICK m \in Nat : m = K[i + 6]
    BY <1>2, <1>3
  <2>2. a <= 3 /\ k <= m + 3 /\ b <= e - (i + 6) - m
    BY <1>1, <1>5, <1>6, <1>7, <1>8, <1>11, <2>1 DEF Sparse
  <2>3. a + b <= e - i - k
    BY <2>2
  <2> QED BY <1>6, <1>7, <1>8, <2>3
<1>12. CASE h.length = 12 /\ Len(h.bytes) <= 4 /\ i + 12 <= e
  <2>1. PICK m \in Nat : m = K[i + 12]
    BY <1>2, <1>3
  <2>2. a <= 4 /\ k <= m + 6 /\ b <= e - (i + 12) - m
    BY <1>1, <1>5, <1>6, <1>7, <1>8, <1>12, <2>1 DEF Sparse
  <2>3. a + b <= e - i - k
    BY <2>2
  <2> QED BY <1>6, <1>7, <1>8, <2>3
<1> QED BY <1>9, <1>10, <1>11, <1>12 DEF Taken

\* If the copy keeps to its room from all later places, so it does here.
LEMMA CopyStep ==
  ASSUME NEW t \in Seq(Nat), NEW o \in Nat, NEW e \in Nat, o <= e, e < Len(t),
         NEW K, Counts(t, K, o, e), NEW i \in o..(e + 1),
         NEW c, c[i] = CopyAt(t, e, c, i),
         \A j \in (i + 1)..(e + 1) : Copied(K, o, e, j, c[j])
  PROVE  Copied(K, o, e, i, c[i])
<1>1. i \in Nat /\ o <= i /\ i <= e + 1
  OBVIOUS
<1>2. PICK r : r = c[i]
  OBVIOUS
<1>3. CASE i >= e
  <2>1. r = [ok |-> TRUE, off |-> e + 1, bytes |-> <<>>]
    BY <1>2, <1>3 DEF CopyAt
  <2>2. i = e \/ i = e + 1
    BY <1>1, <1>3
  <2>3. K[e] = 0
    BY DEF Counts
  <2>4. Copied(K, o, e, i, r)
    BY <2>1, <2>2, <2>3 DEF Copied
  <2> QED BY <1>2, <2>4
<1>4. CASE i < e
  <2>1. PICK h : h = Character(t, i, e)
    OBVIOUS
  <2>2. Taken(t, i, e, h)
    BY <1>1, <1>4, <2>1, CharacterIs
  <2>3. CASE h.length = 0
    <3>1. r = [ok |-> FALSE, off |-> i, bytes |-> <<>>]
      BY <1>2, <1>4, <2>1, <2>3 DEF CopyAt
    <3>2. Copied(K, o, e, i, r)
      BY <1>1, <3>1 DEF Copied
    <3> QED BY <1>2, <3>2
  <2>4. CASE h.length # 0
    <3>1. PICK rest : rest = c[i + h.length]
      OBVIOUS
    <3>2. r = [ok |-> rest.ok, off |-> rest.off,
               bytes |-> h.bytes \o rest.bytes]
      BY <1>2, <1>4, <2>1, <2>4, <3>1 DEF CopyAt
    <3>3. /\ h.bytes \in Seq(Nat)
          /\ i + h.length \in Nat /\ i < i + h.length
          /\ i + h.length <= e + 1
      BY <1>1, <1>4, <2>1, <2>4, Forward
    <3>4. Copied(K, o, e, i + h.length, rest)
      BY <1>1, <3>1, <3>3
    <3>5. ASSUME rest.ok
          PROVE  Len(h.bytes) + Len(rest.bytes) <= e - i - K[i]
      <4>1. i \in o..e
        BY <1>1, <1>4
      <4> QED BY <1>4, <2>2, <2>4, <3>4, <3>5, <4>1, CopyMore
    <3>6. /\ rest.ok \in BOOLEAN /\ rest.off \in Nat
          /\ o <= rest.off /\ rest.off <= e + 1 /\ rest.bytes \in Seq(Nat)
      BY <3>4 DEF Copied
    <3>7. /\ r.ok = rest.ok /\ r.off = rest.off
          /\ r.bytes = h.bytes \o rest.bytes
      BY <3>2
    <3>8. /\ r.bytes \in Seq(Nat)
          /\ Len(r.bytes) = Len(h.bytes) + Len(rest.bytes)
      BY <3>3, <3>6, <3>7
    <3>10. r.ok => Len(r.bytes) <= e - i - K[i]
      BY <3>5, <3>7, <3>8
    <3>11. r.ok \in BOOLEAN
      BY ONLY <3>6, <3>7, Zenon
    <3>12. r.off \in Nat /\ o <= r.off /\ r.off <= e + 1
      BY <3>6, <3>7
    <3>13. i <= e
      BY <1>1, <1>4
    <3>9. Copied(K, o, e, i, r)
      BY ONLY <3>8, <3>10, <3>11, <3>12, <3>13 DEF Copied
    <3> QED BY <1>2, <3>9
  <2> QED BY <2>3, <2>4
<1> QED BY <1>1, <1>3, <1>4

\* The whole copy keeps to its room.
LEMMA CopyEnds ==
  ASSUME NEW t \in Seq(Nat), NEW o \in Nat, NEW e \in Nat, o <= e, e < Len(t),
         NEW q, q = e + 1, NEW K, Counts(t, K, o, e),
         NEW c, \A i \in o..q : c[i] = CopyAt(t, e, c, i)
  PROVE  Copied(K, o, e, o, c[o])
<1> DEFINE S == {i \in o..q : Copied(K, o, e, i, c[i])}
<1>1. ASSUME NEW n \in o..q, \A j \in (n + 1)..q : j \in S
      PROVE  n \in S
  <2>1. \A j \in (n + 1)..q : Copied(K, o, e, j, c[j])
    BY <1>1
  <2> QED BY <2>1, CopyStep
<1> HIDE DEF S
<1>2. o \in Int /\ q \in Int
  OBVIOUS
<1>3. o..q \subseteq S
  <2>1. \A n \in o..q : (\A j \in (n + 1)..q : j \in S) => n \in S
    BY <1>1
  <2> QED BY ONLY <1>2, <2>1, StrongDown
<1>4. o \in S
  BY <1>3
<1> QED BY <1>4 DEF S

\* parse_string at o: what it gives back, where, and in which block.
StringGot(t, o, got) ==
  /\ got.ok \in BOOLEAN /\ got.needs \in BOOLEAN
  /\ got.off \in Nat /\ o < got.off /\ got.off <= Len(t)
  /\ got.str \in Seq(Nat)
  /\ got.ok => got.needs /\ Len(got.str) + 1 <= got.room

\* No string outgrows its block: parse_string, cJSON.c:857-858.
LEMMA StringIs ==
  ASSUME NEW t \in Seq(Nat), NEW o \in Nat, o < Len(t)
  PROVE  StringGot(t, o, StringAt(t, o))
<1> DEFINE end == ClosingQuote(t, o + 1)
           e == end.at
           q == e + 1
           c == CHOOSE g : g = [i \in (o + 1)..q |-> CopyAt(t, e, g, i)]
           needs == Byte(t, o) = Quote /\ e < Len(t)
           got == StringAt(t, o)
<1>1. Scanned(t, o + 1, end)
  BY ScanEnds
<1>2. /\ e \in Nat /\ o + 1 <= e /\ e <= Len(t)
      /\ \E K : Counts(t, K, o + 1, e) /\ K[o + 1] = end.skipped
  BY <1>1 DEF Scanned
<1> DEFINE r == IF needs THEN c[o + 1]
                ELSE [ok |-> FALSE, off |-> o + 1, bytes |-> <<>>]
<1>9. got = [ok |-> r.ok, off |-> r.off, str |-> r.bytes, needs |-> needs,
             room |-> IF needs THEN Room(o, e, end.skipped) ELSE 0]
  BY DEF StringAt, CopyAt
<1> HIDE DEF got
<1>3. /\ got.ok = (IF needs THEN c[o + 1].ok ELSE FALSE)
      /\ got.off = (IF needs THEN c[o + 1].off ELSE o + 1)
      /\ got.str = (IF needs THEN c[o + 1].bytes ELSE <<>>)
      /\ got.needs = needs
      /\ got.room = (IF needs THEN Room(o, e, end.skipped) ELSE 0)
  BY <1>9
<1> HIDE DEF r
<1>4. CASE ~needs
  <2>1. /\ got.ok = FALSE /\ got.off = o + 1 /\ got.str = <<>>
        /\ got.needs = FALSE
    BY <1>3, <1>4
  <2>2. got.ok \in BOOLEAN /\ got.needs \in BOOLEAN /\ ~got.ok
    BY ONLY <2>1, Zenon
  <2>3. got.off \in Nat /\ o < got.off /\ got.off <= Len(t)
    BY ONLY <2>1, o \in Nat, o < Len(t), t \in Seq(Nat)
  <2>4. got.str \in Seq(Nat)
    BY <2>1
  <2> QED BY ONLY <2>2, <2>3, <2>4, Zenon DEF StringGot, got
<1>5. CASE needs
  <2>1. e < Len(t) /\ q \in Int /\ o + 1 \in Nat
    BY <1>2, <1>5
  <2> HIDE DEF end
  <2>2. c = [i \in (o + 1)..q |-> CopyAt(t, e, c, i)]
    <3>1. \E g : g = [i \in (o + 1)..q |-> CopyAt(t, e, g, i)]
      <4> HIDE DEF e
      <4> QED BY <1>2, <2>1, CopyIs
    <3> QED BY <3>1
  <2>3. PICK K : Counts(t, K, o + 1, e) /\ K[o + 1] = end.skipped
    BY <1>2
  <2> HIDE DEF c
  <2>4. \A i \in (o + 1)..q : c[i] = CopyAt(t, e, c, i)
    BY <2>2
  <2>5. Copied(K, o + 1, e, o + 1, c[o + 1])
    <3> HIDE DEF e
    <3> QED BY <1>2, <2>1, <2>3, <2>4, CopyEnds
  <2>6. PICK p : p = c[o + 1]
    OBVIOUS
  <2>7. /\ p.ok \in BOOLEAN /\ p.off \in Nat
        /\ o + 1 <= p.off /\ p.off <= e + 1 /\ p.bytes \in Seq(Nat)
        /\ p.ok => Len(p.bytes) <= e - (o + 1) - K[o + 1]
    BY <1>2, <2>5, <2>6 DEF Copied
  <2>8. K[o + 1] \in Nat
    BY <2>1, <2>3 DEF Counts
  <2>9. /\ got.off = p.off /\ got.str = p.bytes
        /\ got.room = e - o - K[o + 1] + 1
    BY <1>3, <1>5, <2>3, <2>6 DEF Room
  <2>10. got.ok = p.ok /\ got.needs = TRUE
    BY <1>3, <1>5, <2>6
  <2>11. got.off \in Nat /\ o < got.off /\ got.off <= Len(t)
    BY <2>1, <2>7, <2>9, <1>2
  <2>12. ASSUME p.ok PROVE Len(got.str) + 1 <= got.room
    <3>1. PICK n \in Nat : n = Len(p.bytes)
      BY <2>7
    <3>2. PICK k \in Nat : k = K[o + 1]
      BY <2>8
    <3>3. n <= e - (o + 1) - k
      BY <2>7, <2>12, <3>1, <3>2
    <3>4. got.room = e - o - k + 1 /\ Len(got.str) = n
      BY <2>9, <3>1, <3>2
    <3> HIDE DEF e
    <3> QED BY <1>2, <3>3, <3>4
  <2>13. got.ok \in BOOLEAN
    BY ONLY <2>7, <2>10, Zenon
  <2>14. got.needs \in BOOLEAN /\ (got.ok => got.needs)
    BY ONLY <2>10, Zenon
  <2>15. got.ok => Len(got.str) + 1 <= got.room
    BY ONLY <2>10, <2>12, Zenon
  <2>16. got.str \in Seq(Nat)
    BY <2>7, <2>9
  <2> QED BY ONLY <2>11, <2>13, <2>14, <2>15, <2>16, Zenon DEF StringGot, got
<1> QED BY <1>4, <1>5

-----------------------------------------------------------------------------
(* Numbers.                                                                 *)

ValueAt(t, first, g, i) ==
  IF i = first THEN 0 ELSE g[i - 1] * 10 + Byte(t, i - 1) - 48

\* The value of the digits is a function that obeys its recursion,
LEMMA ValueIs ==
  ASSUME NEW t \in Seq(Nat), NEW first \in Nat, NEW stop \in Nat,
         first <= stop, stop <= Len(t)
  PROVE  \E c : c = [i \in first..stop |-> ValueAt(t, first, c, i)]
<1> DEFINE R == Int
           F == [first..stop -> R]
           B == [i \in first..stop |-> [g \in F |-> ValueAt(t, first, g, i)]]
<1>1. ASSUME NEW i \in first..stop, NEW g \in F
      PROVE  ValueAt(t, first, g, i) \in Int
  <2>1. CASE i = first
    BY <2>1 DEF ValueAt
  <2>2. CASE i # first
    <3>1. i - 1 \in first..stop /\ (i - 1) + 1 \in 1..Len(t)
      BY <2>2
    <3>2. Byte(t, i - 1) \in Nat /\ g[i - 1] \in Int
      BY <3>1 DEF Byte
    <3> QED BY <2>2, <3>2 DEF ValueAt
  <2> QED BY <2>1, <2>2
<1>2. B \in Bodies(first, stop, R)
  BY <1>1 DEF Bodies
<1>3. ASSUME NEW i \in first..stop, NEW g \in F, NEW h \in F,
             \A j \in first..(i - 1) : g[j] = h[j]
      PROVE  B[i][g] = B[i][h]
  <2>1. i # first => g[i - 1] = h[i - 1]
    BY <1>3
  <2>2. ValueAt(t, first, g, i) = ValueAt(t, first, h, i)
    BY <2>1 DEF ValueAt
  <2>3. /\ B[i][g] = ValueAt(t, first, g, i)
        /\ B[i][h] = ValueAt(t, first, h, i)
    OBVIOUS
  <2> QED BY <2>2, <2>3
<1>4. \E g \in F : \A i \in first..stop : g[i] = B[i][g]
  <2>1. first \in Int /\ stop \in Int
    OBVIOUS
  <2>3. R # {}
    OBVIOUS
  <2> HIDE DEF B, R
  <2>2. ReadsBelow(first, stop, R, B)
    BY <1>2, <1>3, <2>1, <2>3 DEF ReadsBelow
  <2>9. Solvable(first, stop, R, B)
    BY ONLY <2>2, RecursionUp
  <2> QED BY <2>9 DEF Solvable
<1>5. PICK g \in F : \A i \in first..stop : g[i] = ValueAt(t, first, g, i)
  BY <1>4
<1>6. g = [i \in first..stop |-> ValueAt(t, first, g, i)]
  BY <1>5
<1> QED BY <1>6

\* and its values are integers.
LEMMA ValueEnds ==
  ASSUME NEW t \in Seq(Nat), NEW first \in Nat, NEW stop \in Nat,
         first <= stop, stop <= Len(t),
         NEW c, \A i \in first..stop : c[i] = ValueAt(t, first, c, i)
  PROVE  c[stop] \in Int
<1> DEFINE S == {i \in first..stop : c[i] \in Int}
<1>9. first \in S
  BY DEF ValueAt
<1>10. ASSUME NEW n \in first..(stop - 1), n \in S PROVE n + 1 \in S
  <2>1. n + 1 \in first..stop /\ n + 1 # first /\ (n + 1) - 1 = n
    OBVIOUS
  <2>2. c[n + 1] = c[n] * 10 + Byte(t, n) - 48
    BY <2>1 DEF ValueAt
  <2>3. Byte(t, n) \in Nat /\ c[n] \in Int
    BY <1>10 DEF Byte
  <2> QED BY <2>1, <2>2, <2>3
<1> HIDE DEF S
<1>11. first..stop \subseteq S
  <2>1. first \in Int /\ stop \in Int
    OBVIOUS
  <2> QED BY ONLY <1>9, <1>10, <2>1, Upwards
<1> QED BY <1>11 DEF S

\* parse_number goes on behind the digits.
LEMMA NumberIs ==
  ASSUME NEW t \in Seq(Nat), NEW o \in Nat, o < Len(t)
  PROVE  /\ NumberAt(t, o).ok \in BOOLEAN
         /\ NumberAt(t, o).off \in Nat /\ o <= NumberAt(t, o).off
         /\ NumberAt(t, o).off <= Len(t)
         /\ NumberAt(t, o).num \in Int
<1> DEFINE sign == IF Byte(t, o) = Minus THEN 1 ELSE 0
           first == o + sign
           stop == EndOfRun(t, first, Digits)
           c == CHOOSE g : g = [i \in first..stop |-> ValueAt(t, first, g, i)]
<1>1. first \in Nat /\ o <= first /\ first <= Len(t)
  OBVIOUS
<1>2. stop \in Nat /\ first <= stop /\ stop <= Len(t)
  BY <1>1, RunEnds
<1>3. NumberAt(t, o) = [ok |-> stop > first, off |-> stop,
                        num |-> IF sign = 1 THEN -c[stop] ELSE c[stop]]
  BY DEF NumberAt, ValueAt
<1>4. c[stop] \in Int
  <2> HIDE DEF first, stop
  <2>1. \E g : g = [i \in first..stop |-> ValueAt(t, first, g, i)]
    BY <1>1, <1>2, ValueIs
  <2>2. c = [i \in first..stop |-> ValueAt(t, first, c, i)]
    BY <2>1
  <2> HIDE DEF c
  <2>3. \A i \in first..stop : c[i] = ValueAt(t, first, c, i)
    BY <2>2
  <2> QED BY <1>1, <1>2, <2>3, ValueEnds
<1> HIDE DEF c, stop, first
<1>5. /\ NumberAt(t, o).ok = (stop > first) /\ NumberAt(t, o).off = stop
      /\ NumberAt(t, o).num = (IF sign = 1 THEN -c[stop] ELSE c[stop])
  BY <1>3
<1> QED BY <1>1, <1>2, <1>4, <1>5

-----------------------------------------------------------------------------
(* Sequences.                                                               *)

FlatAt(s, g, i) == IF i = 1 THEN s[i] ELSE g[i - 1] \o s[i]

\* Sequences of a set's members one behind the other are one of them.
LEMMA FlatIs ==
  ASSUME NEW S, NEW s \in Seq(Seq(S))
  PROVE  FlattenSeq(s) \in Seq(S)
<1> DEFINE R == Seq(S)
<1>9. PICK n \in Nat : n = Len(s) /\ \A i \in 1..n : s[i] \in R
  OBVIOUS
<1> DEFINE F == [1..n -> R]
           B == [i \in 1..n |-> [g \in F |-> FlatAt(s, g, i)]]
           c == CHOOSE g : g = [i \in 1..n |-> FlatAt(s, g, i)]
<1>1. CASE n = 0
  BY <1>1, <1>9 DEF FlattenSeq
<1>2. CASE n # 0
  <2>1. ASSUME NEW i \in 1..n, NEW g \in F
        PROVE  FlatAt(s, g, i) \in R
    <3>1. s[i] \in R
      BY <1>9
    <3>2. i # 1 => g[i - 1] \in R
      OBVIOUS
    <3> QED BY <3>1, <3>2 DEF FlatAt
  <2>2. B \in Bodies(1, n, R)
    BY <2>1 DEF Bodies
  <2>3. ASSUME NEW i \in 1..n, NEW g \in F, NEW h \in F,
               \A j \in 1..(i - 1) : g[j] = h[j]
        PROVE  B[i][g] = B[i][h]
    <3>1. i # 1 => g[i - 1] = h[i - 1]
      BY <2>3
    <3>2. FlatAt(s, g, i) = FlatAt(s, h, i)
      BY <3>1 DEF FlatAt
    <3>3. B[i][g] = FlatAt(s, g, i) /\ B[i][h] = FlatAt(s, h, i)
      OBVIOUS
    <3> QED BY <3>2, <3>3
  <2>4. R # {}
    <3>1. <<>> \in Seq(S)
      OBVIOUS
    <3> QED BY <3>1
  <2>5. \E g \in F : \A i \in 1..n : g[i] = B[i][g]
    <3>1. 1 \in Int /\ n \in Int
      OBVIOUS
    <3> HIDE DEF B, R
    <3>2. ReadsBelow(1, n, R, B)
      BY <2>2, <2>3, <2>4, <3>1 DEF ReadsBelow
    <3>9. Solvable(1, n, R, B)
      BY ONLY <3>2, RecursionUp
    <3> QED BY <3>9 DEF Solvable
  <2>6. PICK g \in F : \A i \in 1..n : g[i] = FlatAt(s, g, i)
    BY <2>5
  <2>7. g = [i \in 1..n |-> FlatAt(s, g, i)]
    BY <2>6
  <2>8. c = [i \in 1..n |-> FlatAt(s, c, i)]
    BY <2>7
  <2>9. FlattenSeq(s) = c[n]
    BY <1>2, <1>9 DEF FlattenSeq, FlatAt
  <2> HIDE DEF c
  <2>10. \A i \in 1..n : c[i] = FlatAt(s, c, i)
    BY <2>8
  <2> DEFINE T == {i \in 1..n : c[i] \in R}
  <2>11. 1 \in T
    <3>1. s[1] \in R /\ 1 \in 1..n
      BY <1>2, <1>9
    <3> QED BY <2>10, <3>1 DEF FlatAt
  <2>12. ASSUME NEW k \in 1..(n - 1), k \in T PROVE k + 1 \in T
    <3>1. k + 1 \in 1..n /\ k + 1 # 1 /\ (k + 1) - 1 = k
      OBVIOUS
    <3>2. c[k + 1] = c[k] \o s[k + 1]
      BY <2>10, <3>1 DEF FlatAt
    <3>3. s[k + 1] \in R /\ c[k] \in R
      BY <1>9, <2>12, <3>1
    <3>4. c[k] \o s[k + 1] \in R
      BY <3>3
    <3> HIDE DEF R
    <3> QED BY <3>1, <3>2, <3>4
  <2>14. 1 \in Int /\ n \in Int
    OBVIOUS
  <2> HIDE DEF T
  <2>13. 1..n \subseteq T
    BY ONLY <2>11, <2>12, <2>14, Upwards
  <2>15. n \in 1..n
    BY <1>2
  <2> QED BY <2>9, <2>13, <2>15 DEF T
<1> QED BY <1>1, <1>2

\* What comes before the first zero.
LEMMA CStringIs ==
  ASSUME NEW s \in Seq(Nat)
  PROVE  CString(s) \in Seq(Nat) /\ Len(CString(s)) <= Len(s)
<1> DEFINE zeros == {i \in 1..Len(s) : s[i] = 0}
<1>1. CASE zeros = {}
  BY <1>1 DEF CString
<1>2. CASE zeros # {}
  <2> DEFINE k == CHOOSE i \in zeros : \A j \in zeros : i <= j
  <2>1. zeros \in SUBSET Nat
    OBVIOUS
  <2>2. \E i \in zeros : \A j \in zeros : i <= j
    <3> HIDE DEF zeros
    <3> QED BY <1>2, <2>1, LeastOne
  <2>3. k \in zeros
    BY <2>2
  <2>4. k \in 1..Len(s)
    BY <2>3
  <2>5. CString(s) = SubSeq(s, 1, k - 1)
    BY <1>2 DEF CString
  <2> HIDE DEF k
  <2>6. /\ k - 1 \in Nat /\ k - 1 <= Len(s)
    BY <2>4
  <2>7. /\ SubSeq(s, 1, k - 1) \in Seq(Nat)
        /\ Len(SubSeq(s, 1, k - 1)) = k - 1
    BY <2>6
  <2> QED BY <2>5, <2>6, <2>7
<1> QED BY <1>1, <1>2

\* print_string_ptr prints bytes.
LEMMA EscapedIs ==
  ASSUME NEW s \in Seq(Nat)
  PROVE  Escaped(s) \in Seq(Nat)
<1> DEFINE short(c) == {k \in PrintedShort : ShortEscapes[k][2] = c}
           one(c) ==
             IF short(c) # {}
             THEN <<Backslash, ShortEscapes[CHOOSE k \in short(c) : TRUE][1]>>
             ELSE IF c >= Blank THEN <<c>>
             ELSE <<Backslash, LetterU, 48, 48, HexDigit(c \div 16),
                    HexDigit(c % 16)>>
           r == [i \in DOMAIN CString(s) |-> one(s[i])]
<1>1. ASSUME NEW c \in Nat PROVE one(c) \in Seq(Nat)
  <2>1. CASE short(c) # {}
    <3> DEFINE k == CHOOSE k \in short(c) : TRUE
    <3>1. k \in PrintedShort
      BY <2>1
    <3>2. k \in DOMAIN ShortEscapes
      <4>1. DOMAIN ShortEscapes = 1..8
        BY DEF ShortEscapes
      <4> HIDE DEF k
      <4> QED BY <3>1, <4>1 DEF PrintedShort
    <3>3. ShortEscapes[k][1] \in Nat
      BY <3>2, ShortIs
    <3>4. one(c) = <<Backslash, ShortEscapes[k][1]>>
      BY <2>1
    <3> HIDE DEF k, one
    <3> QED BY <3>3, <3>4 DEF Backslash
  <2>2. CASE short(c) = {} /\ c >= Blank
    BY <2>2
  <2>3. CASE short(c) = {} /\ ~(c >= Blank)
    <3>1. HexDigit(c \div 16) \in Nat /\ HexDigit(c % 16) \in Nat
      BY DEF HexDigit
    <3>2. one(c) = <<Backslash, LetterU, 48, 48, HexDigit(c \div 16),
                     HexDigit(c % 16)>>
      BY <2>3
    <3> HIDE DEF one
    <3> QED BY <3>1, <3>2 DEF Backslash, LetterU
  <2> QED BY <2>1, <2>2, <2>3
<1>2. Escaped(s) = <<Quote>> \o FlattenSeq(r) \o <<Quote>>
  BY DEF Escaped
<1> HIDE DEF one
<1>3. r \in Seq(Seq(Nat))
  <2>1. CString(s) \in Seq(Nat) /\ Len(CString(s)) <= Len(s)
    BY CStringIs
  <2>2. PICK m \in Nat : m = Len(CString(s)) /\ DOMAIN CString(s) = 1..m
    BY <2>1
  <2>3. \A i \in 1..m : one(s[i]) \in Seq(Nat)
    <3>1. \A i \in 1..m : s[i] \in Nat
      BY <2>1, <2>2
    <3> QED BY <1>1, <3>1
  <2>4. r = [i \in 1..m |-> one(s[i])]
    BY <2>2
  <2> QED BY <2>3, <2>4
<1> HIDE DEF r
<1>4. FlattenSeq(r) \in Seq(Nat)
  BY <1>3, FlatIs
<1> QED BY <1>2, <1>4 DEF Quote

DigitsAt(g, k) ==
  IF k < 10 THEN <<48 + k>> ELSE Append(g[k \div 10], 48 + (k % 10))

\* The digits of a number are a function that obeys its recursion,
LEMMA DigitsAre ==
  ASSUME NEW top \in Nat
  PROVE  \E c : c = [k \in 0..top |-> DigitsAt(c, k)]
<1> DEFINE R == Seq(Nat)
           F == [0..top -> R]
           B == [k \in 0..top |-> [g \in F |-> DigitsAt(g, k)]]
<1>1. ASSUME NEW k \in 0..top, NEW g \in F
      PROVE  DigitsAt(g, k) \in R
  <2>1. CASE k < 10
    BY <2>1 DEF DigitsAt
  <2>2. CASE ~(k < 10)
    <3>1. k \div 10 \in 0..top /\ 48 + (k % 10) \in Nat
      BY <2>2
    <3>2. g[k \div 10] \in R
      BY <3>1
    <3> QED BY <2>2, <3>1, <3>2 DEF DigitsAt
  <2> QED BY <2>1, <2>2
<1>2. B \in Bodies(0, top, R)
  BY <1>1 DEF Bodies
<1>3. ASSUME NEW k \in 0..top, NEW g \in F, NEW h \in F,
             \A j \in 0..(k - 1) : g[j] = h[j]
      PROVE  B[k][g] = B[k][h]
  <2>1. ~(k < 10) => g[k \div 10] = h[k \div 10]
    BY <1>3
  <2>2. DigitsAt(g, k) = DigitsAt(h, k)
    BY <2>1 DEF DigitsAt
  <2>3. B[k][g] = DigitsAt(g, k) /\ B[k][h] = DigitsAt(h, k)
    OBVIOUS
  <2> QED BY <2>2, <2>3
<1>4. R # {}
  <2>1. <<>> \in Seq(Nat)
    OBVIOUS
  <2> QED BY <2>1
<1>5. \E g \in F : \A k \in 0..top : g[k] = B[k][g]
  <2> HIDE DEF B, R
  <2>1. 0 \in Int /\ top \in Int
    OBVIOUS
  <2>2. ReadsBelow(0, top, R, B)
    BY <1>2, <1>3, <1>4, <2>1 DEF ReadsBelow
  <2>9. Solvable(0, top, R, B)
    BY ONLY <2>2, RecursionUp
  <2> QED BY <2>9 DEF Solvable
<1>6. PICK g \in F : \A k \in 0..top : g[k] = DigitsAt(g, k)
  BY <1>5
<1>7. g = [k \in 0..top |-> DigitsAt(g, k)]
  BY <1>6
<1> QED BY <1>7

\* and they are bytes.
LEMMA DigitsEnd ==
  ASSUME NEW top \in Nat,
         NEW c, \A k \in 0..top : c[k] = DigitsAt(c, k)
  PROVE  c[top] \in Seq(Nat)
<1> DEFINE R == Seq(Nat)
           S == {k \in 0..top : \A j \in 0..k : c[j] \in R}
<1>10. 0 \in S
  <2>1. c[0] = <<48 + 0>>
    <3>1. 0 \in 0..top /\ 0 < 10
      OBVIOUS
    <3>2. c[0] = DigitsAt(c, 0)
      BY <3>1
    <3> QED BY <3>1, <3>2 DEF DigitsAt
  <2>2. <<48 + 0>> \in R
    OBVIOUS
  <2>3. \A j \in 0..0 : j = 0
    OBVIOUS
  <2> HIDE DEF R
  <2> QED BY <2>1, <2>2, <2>3
<1>11. ASSUME NEW k \in 0..(top - 1), k \in S PROVE k + 1 \in S
  <2>1. k + 1 \in 0..top
    OBVIOUS
  <2>2. c[k + 1] = DigitsAt(c, k + 1)
    BY <2>1
  <2>3. c[k + 1] \in R
    <3>1. CASE k + 1 < 10
      <4>1. c[k + 1] = <<48 + (k + 1)>> /\ 48 + (k + 1) \in Nat
        BY <2>2, <3>1 DEF DigitsAt
      <4> QED BY <4>1
    <3>2. CASE ~(k + 1 < 10)
      <4>1. (k + 1) \div 10 \in 0..k /\ 48 + ((k + 1) % 10) \in Nat
        BY <3>2
      <4>2. c[(k + 1) \div 10] \in R
        BY <1>11, <4>1
      <4>3. PICK d \in Nat : d = 48 + ((k + 1) % 10)
        BY <4>1
      <4>4. PICK r \in R : r = c[(k + 1) \div 10]
        BY <4>2
      <4>5. c[k + 1] = Append(r, d)
        BY <2>2, <3>2, <4>3, <4>4 DEF DigitsAt
      <4> QED BY ONLY <4>5
    <3> QED BY <3>1, <3>2
  <2>4. \A j \in 0..(k + 1) : j \in 0..k \/ j = k + 1
    OBVIOUS
  <2> QED BY <1>11, <2>1, <2>3, <2>4
<1> HIDE DEF S
<1>12. 0..top \subseteq S
  <2>1. 0 \in Int /\ top \in Int
    OBVIOUS
  <2> QED BY ONLY <1>10, <1>11, <2>1, Upwards
<1>13. top \in S /\ top \in 0..top
  BY <1>12
<1> QED BY <1>13 DEF S

\* print_number prints bytes.
LEMMA DecimalIs ==
  ASSUME NEW num \in Int, NEW int \in Int
  PROVE  Decimal(num, int) \in Seq(Nat)
<1> DEFINE n == IF num = int THEN int ELSE num
           top == IF n < 0 THEN -n ELSE n
           c == CHOOSE g : g = [k \in 0..top |-> DigitsAt(g, k)]
<1>1. top \in Nat
  OBVIOUS
<1>2. Decimal(num, int) = If(n < 0, <<Minus>>) \o c[top]
  BY DEF Decimal, DigitsAt
<1>3. c[top] \in Seq(Nat)
  <2> HIDE DEF top
  <2>1. \E g : g = [k \in 0..top |-> DigitsAt(g, k)]
    BY <1>1, DigitsAre
  <2>2. c = [k \in 0..top |-> DigitsAt(c, k)]
    BY <2>1
  <2> HIDE DEF c
  <2>3. \A k \in 0..top : c[k] = DigitsAt(c, k)
    BY <2>2
  <2> QED BY <1>1, <2>3, DigitsEnd
<1>4. If(n < 0, <<Minus>>) \in Seq(Nat)
  BY DEF If, Minus
<1> HIDE DEF c
<1> QED BY <1>2, <1>3, <1>4

-----------------------------------------------------------------------------
(* Items and jobs.                                                          *)

ItemTypes == {"null", "true", "false", "number", "string", "array", "object"}

\* A set of items that holds the children of each.
Trees(G) ==
  G \subseteq [type : ItemTypes, num : Int, str : Seq(Nat), kids : Seq(G),
               key : Seq(Nat)]

\* A chunk asks for what it writes; a value to take apart is one of G.
Chunks ==
  {j \in [op : {"chunk"}, bytes : Seq(Nat), zero : {0, 1}, needed : Nat,
          item : {<<>>}, depth : {0}] :
     Honest(Len(j.bytes), j.zero, j.needed)}

Jobs(G) ==
  Chunks \cup [op : {"value"}, bytes : {<<>>}, zero : {0}, needed : {0},
               item : G, depth : Nat]

\* Sequences over more.
LEMMA SeqGrows ==
  ASSUME NEW S, NEW T, S \subseteq T
  PROVE  Seq(S) \subseteq Seq(T)
OBVIOUS

\* A chunk that asks for what it writes.
LEMMA ChunkIs ==
  ASSUME NEW bytes \in Seq(Nat), NEW zero \in {0, 1}, NEW needed \in Nat,
         Len(bytes) + zero <= needed
  PROVE  Chunk(bytes, zero, needed) \in Chunks
<1> DEFINE j == Chunk(bytes, zero, needed)
<1>1. j \in [op : {"chunk"}, bytes : Seq(Nat), zero : {0, 1}, needed : Nat,
             item : {<<>>}, depth : {0}]
  BY DEF Chunk
<1>2. j.bytes = bytes /\ j.zero = zero /\ j.needed = needed
  BY DEF Chunk
<1> HIDE DEF j
<1>3. j \in Chunks
  BY <1>1, <1>2 DEF Chunks, Honest
<1> QED BY <1>3 DEF j

\* A chunk with a zero behind it.
LEMMA EndedIs ==
  ASSUME NEW bytes \in Seq(Nat)
  PROVE  Ended(bytes) \in Chunks
<1>1. Len(bytes) + 1 \in Nat
  OBVIOUS
<1> QED BY <1>1, ChunkIs DEF Ended

\* A value to take apart.
LEMMA ValueJob ==
  ASSUME NEW G, NEW item \in G, NEW d \in Nat
  PROVE  Value(item, d) \in Jobs(G)
BY DEF Value, Jobs

\* n tabs.
LEMMA TabsAre ==
  ASSUME NEW n \in Nat
  PROVE  Tabs(n) \in Seq(Nat) /\ Len(Tabs(n)) = n
BY DEF Tabs, Tab

\* What is printed only formatted, or only between two.
LEMMA IfIs ==
  ASSUME NEW P, NEW S, NEW s \in Seq(S)
  PROVE  If(P, s) \in Seq(S)
BY DEF If

\* print_array
LEMMA ArrayIs ==
  ASSUME NEW G, Trees(G), NEW kids \in Seq(G), NEW d \in Nat, NEW f \in BOOLEAN
  PROVE  ArrayJobs(kids, d, f) \in Seq(Jobs(G))
<1> DEFINE comma == Ended(<<Comma>> \o If(f, <<Blank>>))
           one(i) == <<Value(kids[i], d + 1)>> \o If(i < Len(kids), <<comma>>)
           all == [i \in DOMAIN kids |-> one(i)]
<1>1. comma \in Jobs(G)
  <2>1. <<Comma>> \in Seq(Nat) /\ <<Blank>> \in Seq(Nat)
    BY DEF Comma, Blank
  <2>2. If(f, <<Blank>>) \in Seq(Nat)
    BY <2>1, IfIs
  <2>3. <<Comma>> \o If(f, <<Blank>>) \in Seq(Nat)
    BY <2>1, <2>2
  <2> QED BY <2>3, EndedIs DEF Jobs
<1> HIDE DEF comma
<1>2. ASSUME NEW i \in DOMAIN kids PROVE one(i) \in Seq(Jobs(G))
  <2>1. kids[i] \in G /\ d + 1 \in Nat
    OBVIOUS
  <2>2. Value(kids[i], d + 1) \in Jobs(G)
    BY <2>1, ValueJob
  <2>3. <<comma>> \in Seq(Jobs(G))
    BY <1>1
  <2>4. If(i < Len(kids), <<comma>>) \in Seq(Jobs(G))
    BY <2>3, IfIs
  <2> QED BY <2>2, <2>4
<1>3. all \in Seq(Seq(Jobs(G)))
  <2> HIDE DEF one
  <2>1. PICK n \in Nat : DOMAIN kids = 1..n
    OBVIOUS
  <2> QED BY <1>2, <2>1
<1>4. FlattenSeq(all) \in Seq(Jobs(G))
  <2> HIDE DEF all
  <2> QED BY <1>3, FlatIs
<1>5. <<Chunk(<<OpenList>>, 0, 1)>> \in Seq(Jobs(G))
  <2>1. /\ <<OpenList>> \in Seq(Nat)
        /\ Len(<<OpenList>>) + 0 <= 1
    BY DEF OpenList
  <2>2. Chunk(<<OpenList>>, 0, 1) \in Jobs(G)
    BY <2>1, ChunkIs DEF Jobs
  <2> QED BY <2>2
<1>6. <<Ended(<<CloseList>>)>> \in Seq(Jobs(G))
  <2>1. <<CloseList>> \in Seq(Nat)
    BY DEF CloseList
  <2>2. Ended(<<CloseList>>) \in Jobs(G)
    BY <2>1, EndedIs DEF Jobs
  <2> QED BY <2>2
<1>7. ArrayJobs(kids, d, f) = <<Chunk(<<OpenList>>, 0, 1)>> \o FlattenSeq(all)
                              \o <<Ended(<<CloseList>>)>>
  BY DEF ArrayJobs, comma
<1> HIDE DEF all
<1> QED BY <1>4, <1>5, <1>6, <1>7

\* print_object
LEMMA ObjectIs ==
  ASSUME NEW G, Trees(G), NEW kids \in Seq(G), NEW d \in Nat, NEW f \in BOOLEAN
  PROVE  ObjectJobs(kids, d, f) \in Seq(Jobs(G))
<1> DEFINE open == <<OpenMap>> \o If(f, <<Newline>>)
           colon == <<Colon>> \o If(f, <<Tab>>)
           indent == If(f, <<Chunk(Tabs(d + 1), 0, d + 1)>>)
           one(i) == indent \o
                     <<Ended(Escaped(kids[i].key)), Chunk(colon, 0, Len(colon)),
                       Value(kids[i], d + 1), MemberEnd(i = Len(kids), f)>>
           all == [i \in DOMAIN kids |-> one(i)]
           close == If(f, Tabs(d)) \o <<CloseMap>>
<1>1. <<Chunk(open, 0, Len(open) + 1)>> \in Seq(Jobs(G))
  <2>1. <<OpenMap>> \in Seq(Nat) /\ <<Newline>> \in Seq(Nat)
    BY DEF OpenMap, Newline
  <2>2. If(f, <<Newline>>) \in Seq(Nat)
    BY <2>1, IfIs
  <2>3. open \in Seq(Nat)
    BY <2>1, <2>2
  <2> HIDE DEF open
  <2>4. Len(open) + 1 \in Nat /\ Len(open) + 0 <= Len(open) + 1
    BY <2>3
  <2>5. Chunk(open, 0, Len(open) + 1) \in Jobs(G)
    BY <2>3, <2>4, ChunkIs DEF Jobs
  <2> QED BY <2>5
<1>2. Chunk(colon, 0, Len(colon)) \in Jobs(G)
  <2>1. <<Colon>> \in Seq(Nat) /\ <<Tab>> \in Seq(Nat)
    BY DEF Colon, Tab
  <2>2. If(f, <<Tab>>) \in Seq(Nat)
    BY <2>1, IfIs
  <2>3. colon \in Seq(Nat)
    BY <2>1, <2>2
  <2> HIDE DEF colon
  <2>4. Len(colon) \in Nat /\ Len(colon) + 0 <= Len(colon)
    BY <2>3
  <2> QED BY <2>3, <2>4, ChunkIs DEF Jobs
<1>3. indent \in Seq(Jobs(G))
  <2>1. d + 1 \in Nat
    OBVIOUS
  <2>2. Tabs(d + 1) \in Seq(Nat) /\ Len(Tabs(d + 1)) = d + 1
    BY <2>1, TabsAre
  <2>3. Chunk(Tabs(d + 1), 0, d + 1) \in Jobs(G)
    BY <2>1, <2>2, ChunkIs DEF Jobs
  <2>4. <<Chunk(Tabs(d + 1), 0, d + 1)>> \in Seq(Jobs(G))
    BY <2>3
  <2> QED BY <2>4, IfIs
<1>4. ASSUME NEW i \in DOMAIN kids PROVE one(i) \in Seq(Jobs(G))
  <2>1. kids[i] \in G /\ d + 1 \in Nat
    OBVIOUS
  <2>2. kids[i].key \in Seq(Nat)
    BY <2>1 DEF Trees
  <2>3. Ended(Escaped(kids[i].key)) \in Jobs(G)
    BY <2>2, EscapedIs, EndedIs DEF Jobs
  <2>4. Value(kids[i], d + 1) \in Jobs(G)
    BY <2>1, ValueJob
  <2>5. MemberEnd(i = Len(kids), f) \in Jobs(G)
    <3>1. <<Comma>> \in Seq(Nat) /\ <<Newline>> \in Seq(Nat)
      BY DEF Comma, Newline
    <3>2. /\ If(~(i = Len(kids)), <<Comma>>) \in Seq(Nat)
          /\ If(f, <<Newline>>) \in Seq(Nat)
      BY <3>1, IfIs
    <3>3. If(~(i = Len(kids)), <<Comma>>) \o If(f, <<Newline>>) \in Seq(Nat)
      BY <3>2
    <3> QED BY <3>3, EndedIs DEF MemberEnd, Jobs
  <2> HIDE DEF indent, colon
  <2>6. <<Ended(Escaped(kids[i].key)), Chunk(colon, 0, Len(colon)),
          Value(kids[i], d + 1), MemberEnd(i = Len(kids), f)>> \in Seq(Jobs(G))
    BY <1>2, <2>3, <2>4, <2>5
  <2> QED BY <1>3, <2>6
<1>5. FlattenSeq(all) \in Seq(Jobs(G))
  <2>1. PICK n \in Nat : DOMAIN kids = 1..n
    OBVIOUS
  <2> HIDE DEF one
  <2>2. all \in Seq(Seq(Jobs(G)))
    BY <1>4, <2>1
  <2> HIDE DEF all
  <2> QED BY <2>2, FlatIs
<1>6. <<Ended(close)>> \in Seq(Jobs(G))
  <2>1. Tabs(d) \in Seq(Nat) /\ <<CloseMap>> \in Seq(Nat)
    BY TabsAre DEF CloseMap
  <2>2. If(f, Tabs(d)) \in Seq(Nat)
    BY <2>1, IfIs
  <2>3. close \in Seq(Nat)
    BY <2>1, <2>2
  <2> HIDE DEF close
  <2>4. Ended(close) \in Jobs(G)
    BY <2>3, EndedIs DEF Jobs
  <2> QED BY <2>4
<1>7. ObjectJobs(kids, d, f) = <<Chunk(open, 0, Len(open) + 1)>>
                               \o FlattenSeq(all) \o <<Ended(close)>>
  BY DEF ObjectJobs
<1> HIDE DEF open, close, all
<1> QED BY <1>1, <1>5, <1>6, <1>7

\* print_value hands on what is honest, and only items that it has been given.
LEMMA JobsAre ==
  ASSUME NEW G, Trees(G), NEW item \in G, NEW d \in Nat, NEW f \in BOOLEAN
  PROVE  JobsOf(item, d, f) \in Seq(Jobs(G))
<1>1. /\ item.type \in ItemTypes /\ item.num \in Int
      /\ item.str \in Seq(Nat) /\ item.kids \in Seq(G)
  BY DEF Trees
<1>2. DOMAIN Constants = {"null", "true", "false"}
  BY DEF Constants
<1>3. CASE item.type \in DOMAIN Constants
  <2>1. Constants[item.type] \in Seq(Nat)
    <3>1. /\ Constants["null"] = <<110, 117, 108, 108>>
          /\ Constants["true"] = <<116, 114, 117, 101>>
          /\ Constants["false"] = <<102, 97, 108, 115, 101>>
      BY DEF Constants
    <3>2. /\ Constants["null"] \in Seq(Nat)
          /\ Constants["true"] \in Seq(Nat)
          /\ Constants["false"] \in Seq(Nat)
      BY <3>1
    <3>3. item.type \in {"null", "true", "false"}
      BY <1>2, <1>3
    <3> QED BY ONLY <3>2, <3>3
  <2>2. Ended(Constants[item.type]) \in Jobs(G)
    BY <2>1, EndedIs DEF Jobs
  <2>3. JobsOf(item, d, f) = <<Ended(Constants[item.type])>>
    BY <1>2, <1>3 DEF JobsOf
  <2> QED BY <2>2, <2>3
<1>4. CASE item.type = "number"
  <2>1. Saturated(item.num) \in Int
    BY <1>1, IntMaxAssumption DEF Saturated
  <2>2. Decimal(item.num, Saturated(item.num)) \in Seq(Nat)
    BY <1>1, <2>1, DecimalIs
  <2>3. Ended(Decimal(item.num, Saturated(item.num))) \in Jobs(G)
    BY <2>2, EndedIs DEF Jobs
  <2>4. JobsOf(item, d, f)
          = <<Ended(Decimal(item.num, Saturated(item.num)))>>
    BY <1>2, <1>4 DEF JobsOf
  <2> QED BY <2>3, <2>4
<1>5. CASE item.type = "string"
  <2>1. Ended(Escaped(item.str)) \in Jobs(G)
    BY <1>1, EscapedIs, EndedIs DEF Jobs
  <2>2. JobsOf(item, d, f) = <<Ended(Escaped(item.str))>>
    BY <1>2, <1>5 DEF JobsOf
  <2> QED BY <2>1, <2>2
<1>6. CASE item.type = "array"
  <2>1. JobsOf(item, d, f) = ArrayJobs(item.kids, d, f)
    BY <1>2, <1>6 DEF JobsOf
  <2> QED BY <1>1, <2>1, ArrayIs
<1>7. CASE item.type = "object"
  <2>1. JobsOf(item, d, f) = ObjectJobs(item.kids, d, f)
    BY <1>2, <1>7 DEF JobsOf
  <2> QED BY <1>1, <2>1, ObjectIs
<1> QED BY <1>1, <1>2, <1>3, <1>4, <1>5, <1>6, <1>7 DEF ItemTypes

-----------------------------------------------------------------------------
(* The print buffer, by itself.                                             *)

\* Growing keeps its word: what ensure returns has the room it was asked for and
\* one byte more, also where doubling would leave the range of int.
LEMMA GrownFits ==
  ASSUME NEW needed \in Nat, offset \in Nat, MayGrow(needed)
  PROVE  NewSize(needed) \in Nat /\ Needed(needed) <= NewSize(needed)
BY IntMaxAssumption DEF MayGrow, NewSize, Needed

\* A buffer that was fixed from the start is never reallocated.
LEMMA FixedStays ==
  ASSUME NEW needed \in Nat, noalloc, Grants(needed)
  PROVE  Fits(needed)
BY DEF Grants, Refuses, MayGrow

BufferTypes ==
  /\ length \in Nat /\ offset \in Nat /\ reach \in Nat
  /\ noalloc \in BOOLEAN /\ held \in BOOLEAN

BufferInv == BufferTypes /\ WritesFit

\* One chunk: the room that ensure grants holds the chunk and its zero, and the
\* offset that update_offset computes stays inside.
LEMMA PutStep ==
  ASSUME BufferTypes,
         NEW n \in Nat, NEW z \in {0, 1}, NEW needed \in Nat,
         Honest(n, z, needed), Put(n, z, needed)
  PROVE  BufferInv'
<1>1. length' \in Nat /\ Needed(needed) <= length'
  <2>1. CASE Fits(needed)
    BY <2>1 DEF Put, Fits, BufferTypes
  <2>2. CASE ~ Fits(needed)
    <3>1. MayGrow(needed)
      BY <2>2 DEF Put, Grants, Refuses
    <3> QED BY <2>2, <3>1, GrownFits DEF Put, BufferTypes
  <2> QED BY <2>1, <2>2
<1>2. offset' = offset + n /\ reach' = offset + n + z
  BY DEF Put
<1>3. noalloc' \in BOOLEAN /\ held' \in BOOLEAN
  BY DEF Put, BufferTypes
<1> QED
  BY <1>1, <1>2, <1>3
     DEF BufferInv, BufferTypes, WritesFit, Honest, Needed

\* The types, and no byte past the end, along every behaviour of the buffer.
THEOREM BufferInvariant == BufferSpec => []BufferInv
<1>1. BufferInit => BufferInv
  BY DEF BufferInit, BufferInv, BufferTypes, WritesFit
<1>2. BufferInv /\ [BufferNext]_bufferVars => BufferInv'
  <2> SUFFICES ASSUME BufferInv, [BufferNext]_bufferVars PROVE BufferInv'
    OBVIOUS
  <2>1. ASSUME NEW n \in Nat, NEW z \in {0, 1}, NEW needed \in Nat,
               Honest(n, z, needed), Put(n, z, needed)
        PROVE  BufferInv'
    BY <2>1, PutStep DEF BufferInv
  <2>2. ASSUME NEW needed \in Nat, Lose(needed) PROVE BufferInv'
    BY <2>2 DEF Lose, BufferInv, BufferTypes, WritesFit
  <2>3. CASE UNCHANGED bufferVars
    BY <2>3 DEF bufferVars, BufferInv, BufferTypes, WritesFit
  <2> QED BY <2>1, <2>2, <2>3 DEF BufferNext
<1> QED BY <1>1, <1>2, PTL DEF BufferSpec

\* Nothing is ever written past the buffer (ensure, cJSON.c:485-568), whether it
\* is the caller's or has grown up to INT_MAX.
THEOREM NothingIsOverrun == BufferSpec => []WritesFit
<1>1. BufferInv => WritesFit
  BY DEF BufferInv
<1> QED BY <1>1, BufferInvariant, PTL

\* A buffer the caller lends is never replaced or lost.
THEOREM LentBufferStays ==
  BufferSpec => [][noalloc => length' = length /\ held' = held]_bufferVars
<1>1. BufferInv /\ [BufferNext]_bufferVars
        => [noalloc => length' = length /\ held' = held]_bufferVars
  <2> SUFFICES ASSUME BufferInv, BufferNext, noalloc
               PROVE  length' = length /\ held' = held
    BY DEF bufferVars
  <2>1. ASSUME NEW n \in Nat, NEW z \in {0, 1}, NEW needed \in Nat,
               Put(n, z, needed)
        PROVE  length' = length /\ held' = held
    BY <2>1, FixedStays DEF Put
  <2>2. ASSUME NEW needed \in Nat, Lose(needed) PROVE FALSE
    BY <2>2, FixedStays DEF Lose
  <2> QED BY <2>1, <2>2 DEF BufferNext
<1> QED BY <1>1, BufferInvariant, PTL DEF BufferSpec

-----------------------------------------------------------------------------
(* The printer.                                                             *)

\* There is a buffer of the printer's own just while it prints, or when it has
\* printed; without one, a call in between has asked for room and got none.
Owned ==
  /\ printing \in {"idle", "busy", "done", "failed"}
  /\ printing = "idle" => offset = 0 /\ reach = 0
  /\ printing \in {"idle", "failed"} => buffers = 0
  /\ printing = "busy" => buffers = IF noalloc \/ ~held THEN 0 ELSE 1
  /\ printing = "done" => buffers = IF noalloc THEN 0 ELSE 1
  /\ (printing = "busy" /\ ~held) =>
       ~noalloc /\ jobs # <<>> /\ Head(jobs).op = "chunk"

\* What is still to print.
Honestly == \E G : Trees(G) /\ jobs \in Seq(Jobs(G))

PrintInv == BufferInv /\ Owned /\ Honestly

\* At first nothing is printed.
LEMMA PrintStarts == PrintInit => PrintInv
<1> SUFFICES ASSUME PrintInit PROVE PrintInv
  OBVIOUS
<1>1. BufferInv
  BY DEF PrintInit, BufferInv, BufferTypes, WritesFit
<1>2. Owned
  BY DEF PrintInit, Owned
<1>3. Trees({}) /\ jobs \in Seq(Jobs({}))
  <2>1. Trees({})
    BY DEF Trees
  <2>2. jobs = <<>>
    BY DEF PrintInit
  <2>3. jobs \in Seq(Jobs({}))
    BY <2>2
  <2> QED BY <2>1, <2>3
<1> QED BY <1>1, <1>2, <1>3 DEF PrintInv, Honestly

\* The first buffer.
LEMMA BeginIs ==
  ASSUME PrintInv, NEW G, Trees(G), NEW item \in G,
         NEW w, NEW n \in Nat, Begin(item, w, n)
  PROVE  PrintInv'
<1>1. /\ length \in Nat /\ offset = 0 /\ reach = 0 /\ buffers = 0
      /\ printing = "idle" /\ held \in BOOLEAN
  BY DEF PrintInv, BufferInv, BufferTypes, Owned, Begin
<1>2. offset' = 0 /\ reach' = 0 /\ noalloc' = (w = "preallocated")
  BY <1>1 DEF Begin
<1>3. CASE /\ printing' = "busy" /\ length' = n /\ held' = TRUE
           /\ jobs' = <<Value(item, 0)>>
           /\ buffers' = IF w = "preallocated" THEN 0 ELSE 1
  <2>1. BufferInv'
    BY <1>2, <1>3 DEF BufferInv, BufferTypes, WritesFit
  <2>2. Owned'
    BY <1>2, <1>3 DEF Owned
  <2>3. Value(item, 0) \in Jobs(G)
    BY ValueJob
  <2>4. jobs' \in Seq(Jobs(G))
    BY <1>3, <2>3
  <2> QED BY <2>1, <2>2, <2>4 DEF PrintInv, Honestly
<1>4. CASE /\ w # "preallocated" /\ printing' = "failed"
           /\ UNCHANGED <<length, held, jobs, buffers>>
  <2>1. BufferInv'
    BY <1>1, <1>2, <1>4 DEF BufferInv, BufferTypes, WritesFit
  <2>2. Owned'
    BY <1>1, <1>2, <1>4 DEF Owned
  <2>3. Honestly'
    BY <1>4 DEF PrintInv, Honestly
  <2> QED BY <2>1, <2>2, <2>3 DEF PrintInv
<1> QED BY <1>3, <1>4 DEF Begin

\* A value becomes jobs.
LEMMA TakeApartIs ==
  ASSUME PrintInv, NEW f \in BOOLEAN, TakeApart(f)
  PROVE  PrintInv'
<1>1. /\ printing = "busy" /\ jobs # <<>> /\ Head(jobs).op = "value"
      /\ jobs' = JobsOf(Head(jobs).item, Head(jobs).depth, f) \o Tail(jobs)
      /\ UNCHANGED <<length, offset, noalloc, held, reach, way, size, out,
                     printing, buffers>>
  BY DEF TakeApart
<1>2. BufferInv'
  BY <1>1 DEF PrintInv, BufferInv, BufferTypes, WritesFit
<1>3. held
  BY <1>1 DEF PrintInv, BufferInv, BufferTypes, Owned
<1>4. Owned'
  BY <1>1, <1>3 DEF PrintInv, Owned
<1>5. PICK G : Trees(G) /\ jobs \in Seq(Jobs(G))
  BY DEF PrintInv, Honestly
<1>6. Head(jobs) \in Jobs(G) /\ Tail(jobs) \in Seq(Jobs(G))
  BY <1>1, <1>5
<1>7. Head(jobs).item \in G /\ Head(jobs).depth \in Nat
  BY <1>1, <1>6 DEF Jobs, Chunks
<1>8. JobsOf(Head(jobs).item, Head(jobs).depth, f) \in Seq(Jobs(G))
  BY <1>5, <1>7, JobsAre
<1>9. jobs' \in Seq(Jobs(G))
  BY <1>1, <1>6, <1>8
<1> QED BY <1>2, <1>4, <1>5, <1>9 DEF PrintInv, Honestly

\* The next chunk asks for what it writes.
LEMMA NextChunk ==
  ASSUME PrintInv, jobs # <<>>, Head(jobs).op = "chunk"
  PROVE  /\ Len(Head(jobs).bytes) \in Nat /\ Head(jobs).zero \in {0, 1}
         /\ Head(jobs).needed \in Nat
         /\ Honest(Len(Head(jobs).bytes), Head(jobs).zero, Head(jobs).needed)
<1>1. PICK G : Trees(G) /\ jobs \in Seq(Jobs(G))
  BY DEF PrintInv, Honestly
<1>2. Head(jobs) \in Jobs(G)
  BY <1>1
<1>3. Head(jobs) \in Chunks
  BY <1>2 DEF Jobs
<1> QED BY <1>3 DEF Chunks

\* What is left to print is a part of what was.
LEMMA RestHonestly ==
  ASSUME Honestly, jobs # <<>>, jobs' = Tail(jobs)
  PROVE  Honestly'
<1>1. PICK G : Trees(G) /\ jobs \in Seq(Jobs(G))
  BY DEF Honestly
<1>2. jobs' \in Seq(Jobs(G))
  BY <1>1
<1> QED BY <1>1, <1>2 DEF Honestly

\* A chunk is written where ensure has made room.
LEMMA WriteChunkIs ==
  ASSUME PrintInv, WriteChunk
  PROVE  PrintInv'
<1> DEFINE n == Len(Head(jobs).bytes)
           z == Head(jobs).zero
           needed == Head(jobs).needed
<1>1. /\ printing = "busy" /\ jobs # <<>> /\ Head(jobs).op = "chunk"
      /\ Put(n, z, needed) /\ jobs' = Tail(jobs)
      /\ UNCHANGED <<way, size, printing, buffers>>
  BY DEF WriteChunk
<1>2. n \in Nat /\ z \in {0, 1} /\ needed \in Nat /\ Honest(n, z, needed)
  BY <1>1, NextChunk
<1> HIDE DEF n, z, needed
<1>3. BufferInv'
  BY <1>1, <1>2, PutStep DEF PrintInv, BufferInv
<1>4. held /\ UNCHANGED <<noalloc, held>>
  BY <1>1 DEF Put, Grants, Refuses
<1>5. Owned'
  BY <1>1, <1>4 DEF PrintInv, Owned
<1>6. Honestly'
  BY <1>1, RestHonestly DEF PrintInv
<1> QED BY <1>3, <1>5, <1>6 DEF PrintInv

\* Without room, the buffer is freed once.
LEMMA NoRoomIs ==
  ASSUME PrintInv, NoRoom
  PROVE  PrintInv'
<1>1. /\ printing = "busy" /\ printing' = "failed" /\ jobs' = <<>>
      /\ buffers' = FreeBuffer /\ held' = FALSE
      /\ UNCHANGED <<length, offset, noalloc, reach>>
  BY DEF NoRoom
<1>2. BufferInv'
  BY <1>1 DEF PrintInv, BufferInv, BufferTypes, WritesFit
<1>3. buffers' = 0
  BY <1>1 DEF PrintInv, Owned, FreeBuffer
<1>4. Owned'
  BY <1>1, <1>3 DEF Owned
<1>5. Trees({}) /\ jobs' \in Seq(Jobs({}))
  BY <1>1 DEF Trees
<1> QED BY <1>2, <1>4, <1>5 DEF PrintInv, Honestly

\* Where the buffer cannot grow, ensure has freed it.
LEMMA LoseBufferIs ==
  ASSUME PrintInv, LoseBuffer
  PROVE  PrintInv'
<1> DEFINE needed == Head(jobs).needed
<1>1. /\ printing = "busy" /\ jobs # <<>> /\ Head(jobs).op = "chunk"
      /\ Lose(needed) /\ buffers' = buffers - 1
      /\ UNCHANGED <<way, size, jobs, out, printing>>
  BY DEF LoseBuffer
<1>2. needed \in Nat
  BY <1>1, NextChunk
<1> HIDE DEF needed
<1>3. /\ held' = FALSE /\ length' = 0 /\ UNCHANGED <<offset, noalloc, reach>>
      /\ Grants(needed) /\ ~Fits(needed)
  BY <1>1 DEF Lose
<1>4. held /\ ~noalloc
  <2>1. held
    BY <1>3 DEF Grants, Refuses
  <2>2. noalloc \in BOOLEAN
    BY DEF PrintInv, BufferInv, BufferTypes
  <2> QED BY <1>2, <1>3, <2>1, <2>2, FixedStays
<1>5. BufferInv'
  BY <1>3 DEF PrintInv, BufferInv, BufferTypes, WritesFit
<1>6. buffers' = 0
  BY <1>1, <1>4 DEF PrintInv, Owned
<1>7. Owned'
  BY <1>1, <1>3, <1>4, <1>6 DEF Owned
<1>8. Honestly'
  BY <1>1 DEF PrintInv, Honestly
<1> QED BY <1>5, <1>7, <1>8 DEF PrintInv

\* The end, and the buffer that cannot be shrunk.
LEMMA EndPrintIs ==
  ASSUME PrintInv, EndPrint
  PROVE  PrintInv'
<1>1. /\ printing = "busy" /\ jobs = <<>>
      /\ UNCHANGED <<length, offset, noalloc, held, reach, jobs>>
  BY DEF EndPrint
<1>2. held /\ buffers = IF noalloc THEN 0 ELSE 1
  BY <1>1 DEF PrintInv, Owned, BufferInv, BufferTypes
<1>3. BufferInv'
  BY <1>1 DEF PrintInv, BufferInv, BufferTypes, WritesFit
<1>4. Owned'
  <2>1. CASE printing' = "done" /\ UNCHANGED buffers
    BY <1>1, <1>2, <2>1 DEF Owned
  <2>2. CASE printing' = "failed" /\ buffers' = FreeBuffer
    <3>1. buffers' = 0
      BY <1>2, <2>2 DEF FreeBuffer
    <3> QED BY <1>1, <2>2, <3>1 DEF Owned
  <2> QED BY <2>1, <2>2 DEF EndPrint
<1>5. Honestly'
  BY <1>1 DEF PrintInv, Honestly
<1> QED BY <1>3, <1>4, <1>5 DEF PrintInv

\* Every step of the printer.
LEMMA PrintStep ==
  ASSUME PrintInv, NEW f \in BOOLEAN, PrintNext(f)
  PROVE  PrintInv'
BY TakeApartIs, WriteChunkIs, NoRoomIs, LoseBufferIs, EndPrintIs DEF PrintNext

\* Steps of the parser leave the printer alone.
LEMMA PrintStutter ==
  ASSUME PrintInv, UNCHANGED printVars
  PROVE  PrintInv'
BY DEF PrintInv, BufferInv, BufferTypes, WritesFit, Owned, Honestly, printVars

-----------------------------------------------------------------------------
(* The parser.                                                              *)

Modes == {"start", "value", "item", "key", "parsed", "ok", "bad end",
          "no root", "fail", "failed"}

\* An array or object is open between its bracket and its end, or its failure.
Places ==
  /\ text \in Seq(Nat)
  /\ mode \in Modes
  /\ off \in Nat /\ off <= Len(text)
  /\ depth \in Nat /\ depth <= NestingLimit
  /\ mode \in {"item", "key"} => off < Len(text) /\ stack # <<>>
  /\ mode \in {"start", "no root", "ok", "bad end", "failed"} => stack = <<>>
  /\ mode \notin {"fail", "failed"} => depth = Len(stack)
  /\ (mode = "failed" /\ Len(text) > 0) => error \in 0..(Len(text) - 1)

ItemShape(G) ==
  [type : ItemTypes, num : Int, str : Seq(Nat), kids : Seq(G), key : Seq(Nat)]

Frames(G) ==
  [kind : {"array", "object"}, close : Nat, kids : Seq(G), key : Seq(Nat),
   owns : Nat]

Grown(G) ==
  /\ Trees(G)
  /\ stack \in Seq(Frames(G))
  /\ mode \in {"parsed", "ok", "bad end"} => value \in G
  /\ below \in Nat

\* s[i] is what the outermost i lists own.
Sums(s, st) ==
  /\ s \in [Nat -> Nat]
  /\ s[0] = 0
  /\ \A i \in 1..Len(st) : s[i] = s[i - 1] + st[i].owns

\* The blocks to free when n of them belong to open lists.
Owed(n) ==
  IF mode \in {"start", "no root", "failed"} THEN 0
  ELSE IF mode \in {"parsed", "ok", "bad end"} THEN 1 + n + below
  ELSE 1 + n

\* Every block is the root item, or belongs to an open list or to the item
\* parsed last.
Ledger == \E s : Sums(s, stack) /\ blocks = Owed(s[Len(stack)])

ParseInv == Places /\ (\E G : Grown(G)) /\ Ledger

-----------------------------------------------------------------------------
\* A new item is added to a set of items.
LEMMA Planted ==
  ASSUME NEW G, Trees(G), NEW v \in ItemShape(G)
  PROVE  \E H : Trees(H) /\ G \subseteq H /\ v \in H
<1> DEFINE H == G \cup {v}
<1>1. Seq(G) \subseteq Seq(H)
  BY SeqGrows
<1>2. G \subseteq ItemShape(G)
  BY DEF Trees, ItemShape
<1>3. ItemShape(G) \subseteq ItemShape(H)
  <2> HIDE DEF H
  <2> QED BY <1>1 DEF ItemShape
<1>4. Trees(H)
  <2>1. H \subseteq ItemShape(H)
    BY <1>2, <1>3
  <2> HIDE DEF H
  <2> QED BY <2>1 DEF Trees, ItemShape
<1> QED BY <1>4

\* Open lists of items of a larger set.
LEMMA FramesGrow ==
  ASSUME NEW G, NEW H, G \subseteq H
  PROVE  Seq(Frames(G)) \subseteq Seq(Frames(H))
<1>1. Seq(G) \subseteq Seq(H)
  BY SeqGrows
<1>2. Frames(G) \subseteq Frames(H)
  BY <1>1 DEF Frames
<1> QED BY <1>2, SeqGrows

\* The innermost list is replaced.
LEMMA TopChanges ==
  ASSUME NEW F, NEW st \in Seq(F), st # <<>>, NEW f \in F,
         NEW r, r = [st EXCEPT ![Len(st)] = f]
  PROVE  /\ r \in Seq(F) /\ r # <<>> /\ Len(r) = Len(st)
         /\ r[Len(st)] = f
         /\ \A i \in 1..(Len(st) - 1) : r[i] = st[i]
<1>1. Len(st) \in 1..Len(st) /\ Len(st) \in Nat
  OBVIOUS
<1>2. /\ r \in Seq(F) /\ Len(r) = Len(st)
      /\ \A j \in 1..Len(st) : r[j] = IF j = Len(st) THEN f ELSE st[j]
  BY <1>1, ExceptSeq
<1>3. r # <<>> /\ r[Len(st)] = f
  BY <1>1, <1>2
<1>4. ASSUME NEW i \in 1..(Len(st) - 1) PROVE r[i] = st[i]
  <2>1. i \in 1..Len(st) /\ i # Len(st)
    BY <1>1
  <2> QED BY <1>2, <2>1
<1> QED BY <1>2, <1>3, <1>4

\* The innermost list owns k blocks more.
LEMMA SumsMore ==
  ASSUME NEW st, NEW r, NEW n \in Nat, n > 0, Len(st) = n, Len(r) = n,
         \A i \in 1..(n - 1) : r[i] = st[i],
         NEW k \in Nat, r[n].owns = st[n].owns + k, st[n].owns \in Nat,
         NEW s, Sums(s, st)
  PROVE  \E q : Sums(q, r) /\ q[n] = s[n] + k
<1> DEFINE q == [i \in Nat |-> IF i = n THEN s[n] + k ELSE s[i]]
<1>1. \A i \in Nat : s[i] \in Nat
  BY DEF Sums
<1>2. /\ q \in [Nat -> Nat] /\ q[n] = s[n] + k
      /\ \A i \in Nat : i # n => q[i] = s[i]
  <2>1. s[n] + k \in Nat
    BY <1>1
  <2> QED BY <1>1, <2>1
<1> HIDE DEF q
<1>3. q[0] = 0
  BY <1>2 DEF Sums
<1>4. ASSUME NEW i \in 1..n PROVE q[i] = q[i - 1] + r[i].owns
  <2>5. i - 1 \in Nat /\ i \in Nat /\ i - 1 # n
    OBVIOUS
  <2>1. q[i - 1] = s[i - 1] /\ s[i - 1] \in Nat /\ s[i] \in Nat
    BY <1>1, <1>2, <2>5
  <2>2. s[i] = s[i - 1] + st[i].owns
    BY DEF Sums
  <2>3. CASE i = n
    <3>1. PICK a \in Nat : a = st[n].owns
      OBVIOUS
    <3>2. PICK b \in Nat : b = s[n - 1] /\ q[n - 1] = b
      BY <2>1, <2>3
    <3>3. r[n].owns = a + k /\ s[n] = b + a /\ q[n] = s[n] + k
      BY <1>2, <2>2, <2>3, <3>1, <3>2
    <3>4. q[n] = b + r[n].owns
      BY <3>3
    <3> QED BY <2>3, <3>2, <3>4
  <2>4. CASE i # n
    <3>1. i \in 1..(n - 1)
      BY <2>4
    <3>2. q[i] = s[i] /\ r[i] = st[i]
      BY <1>2, <2>4, <2>5, <3>1
    <3> QED BY <2>1, <2>2, <3>2
  <2> QED BY <2>3, <2>4
<1>5. Sums(q, r)
  BY <1>2, <1>3, <1>4 DEF Sums
<1> QED BY <1>2, <1>5

\* A list that owns nothing is opened.
LEMMA SumsPush ==
  ASSUME NEW F, NEW st \in Seq(F), NEW f, f.owns = 0, NEW s, Sums(s, st)
  PROVE  \E q : Sums(q, Append(st, f)) /\ q[Len(st) + 1] = s[Len(st)]
<1>1. PICK n \in Nat : n = Len(st)
  OBVIOUS
<1> DEFINE q == [i \in Nat |-> IF i = n + 1 THEN s[n] ELSE s[i]]
           r == Append(st, f)
<1>2. \A i \in Nat : s[i] \in Nat
  BY DEF Sums
<1>3. /\ q \in [Nat -> Nat] /\ q[n + 1] = s[n]
      /\ \A i \in Nat : i # n + 1 => q[i] = s[i]
  BY <1>2
<1>4. Len(r) = n + 1 /\ r[n + 1] = f /\ \A i \in 1..n : r[i] = st[i]
  BY <1>1
<1> HIDE DEF q, r
<1>5. q[0] = 0
  BY <1>3 DEF Sums
<1>6. ASSUME NEW i \in 1..(n + 1) PROVE q[i] = q[i - 1] + r[i].owns
  <2>4. i - 1 \in Nat /\ i \in Nat /\ i - 1 # n + 1
    OBVIOUS
  <2>1. q[i - 1] = s[i - 1] /\ s[i - 1] \in Nat
    BY <1>2, <1>3, <2>4
  <2>2. CASE i = n + 1
    <3>1. i - 1 = n
      BY <2>2
    <3>2. q[i] = s[n] /\ r[i].owns = 0
      BY <1>3, <1>4, <2>2
    <3> QED BY <2>1, <3>1, <3>2
  <2>3. CASE i # n + 1
    <3>1. i \in 1..n
      BY <2>3
    <3>2. s[i] = s[i - 1] + st[i].owns
      BY <1>1, <3>1 DEF Sums
    <3>3. q[i] = s[i] /\ r[i] = st[i]
      BY <1>3, <1>4, <2>3, <2>4, <3>1
    <3> QED BY <2>1, <3>2, <3>3
  <2> QED BY <2>2, <2>3
<1>7. Sums(q, r)
  BY <1>3, <1>4, <1>5, <1>6 DEF Sums
<1> QED BY <1>1, <1>3, <1>7 DEF r

\* The innermost list is closed.
LEMMA SumsPop ==
  ASSUME NEW F, NEW st \in Seq(F), st # <<>>, NEW s, Sums(s, st)
  PROVE  /\ Sums(s, Front(st))
         /\ Front(st) \in Seq(F) /\ Len(Front(st)) = Len(st) - 1
         /\ s[Len(st)] = s[Len(st) - 1] + Last(st).owns
         /\ Last(st) \in F
<1>1. PICK n \in Nat : n = Len(st) /\ n > 0
  OBVIOUS
<1>2. Front(st) = SubSeq(st, 1, n - 1)
  BY <1>1 DEF Front
<1>3. /\ SubSeq(st, 1, n - 1) \in Seq(F) /\ Len(SubSeq(st, 1, n - 1)) = n - 1
      /\ \A i \in 1..(n - 1) : SubSeq(st, 1, n - 1)[i] = st[i]
  BY <1>1
<1>4. Sums(s, Front(st))
  <2>1. s \in [Nat -> Nat] /\ s[0] = 0
    BY DEF Sums
  <2>2. ASSUME NEW i \in 1..(n - 1)
        PROVE  s[i] = s[i - 1] + Front(st)[i].owns
    <3>1. i \in 1..Len(st)
      BY <1>1
    <3>2. s[i] = s[i - 1] + st[i].owns
      BY <3>1 DEF Sums
    <3> QED BY <1>2, <1>3, <3>2
  <2> QED BY <1>2, <1>3, <2>1, <2>2 DEF Sums
<1>5. s[n] = s[n - 1] + st[n].owns
  BY <1>1 DEF Sums
<1> QED BY <1>1, <1>2, <1>3, <1>4, <1>5 DEF Last

\* The parser has taken nothing yet.
LEMMA ParseStarts == Init => ParseInv
<1> SUFFICES ASSUME Init PROVE ParseInv
  OBVIOUS
<1>1. /\ text \in Texts /\ mode = "start" /\ off = 0 /\ depth = 0
      /\ stack = <<>> /\ below = 0 /\ blocks = 0
  BY DEF Init, ParseInit
<1>2. text \in Seq(Nat)
  <2>1. 0..255 \subseteq Nat
    OBVIOUS
  <2>2. Seq(0..255) \subseteq Seq(Nat)
    BY <2>1, SeqGrows
  <2> QED BY <1>1, <2>2, TextsAssumption
<1>3. Places
  BY <1>1, <1>2, LimitAssumption DEF Places, Modes
<1>4. Grown({})
  <2>1. Trees({})
    BY DEF Trees
  <2>2. stack \in Seq(Frames({}))
    BY <1>1
  <2> QED BY <1>1, <2>1, <2>2 DEF Grown
<1>5. Ledger
  <2> DEFINE s == [i \in Nat |-> 0]
  <2>1. s \in [Nat -> Nat] /\ s[0] = 0
    OBVIOUS
  <2>2. Len(stack) = 0
    BY <1>1
  <2> HIDE DEF s
  <2>3. Sums(s, stack)
    BY <2>1, <2>2 DEF Sums
  <2> QED BY <1>1, <2>3 DEF Ledger, Owed
<1> QED BY <1>3, <1>4, <1>5 DEF ParseInv

\* A value has been parsed, and what it holds has been allocated.
LEMMA ValueParsed ==
  ASSUME ParseInv, mode = "value", mode' = "parsed",
         NEW G, Grown(G), value' \in ItemShape(G),
         off' \in Nat, off' <= Len(text), UNCHANGED <<text, depth, stack>>,
         below' \in Nat, blocks' = blocks + below'
  PROVE  ParseInv'
<1>1. Places'
  BY DEF ParseInv, Places, Modes
<1>2. PICK H : Trees(H) /\ G \subseteq H /\ value' \in H
  BY Planted DEF Grown
<1>3. stack \in Seq(Frames(H))
  BY <1>2, FramesGrow DEF Grown
<1>4. Grown(H)'
  <2>1. Trees(H)' = Trees(H)
    BY DEF Trees
  <2> QED BY <1>2, <1>3 DEF Grown
<1>5. Ledger'
  <2>1. PICK s : Sums(s, stack) /\ blocks = Owed(s[Len(stack)])
    BY DEF ParseInv, Ledger
  <2>2. s[Len(stack)] \in Nat
    <3>1. s \in [Nat -> Nat]
      BY <2>1 DEF Sums
    <3>2. Len(stack) \in Nat
      BY DEF Grown
    <3> QED BY <3>1, <3>2
  <2>3. blocks' = 1 + s[Len(stack')] + below'
    BY <2>1, <2>2 DEF Owed
  <2>4. Sums(s, stack')
    BY <2>1
  <2> QED BY <2>3, <2>4 DEF Ledger, Owed
<1> QED BY <1>1, <1>4, <1>5 DEF ParseInv

\* A call fails before it has taken anything.
LEMMA Fails ==
  ASSUME ParseInv, mode \in {"value", "item", "key"}, mode' = "fail",
         off' \in Nat, off' <= Len(text), depth' \in Nat,
         depth' <= NestingLimit, UNCHANGED <<text, stack, below, blocks>>
  PROVE  ParseInv'
<1>1. Places'
  BY DEF ParseInv, Places, Modes
<1>2. PICK G : Grown(G)
  BY DEF ParseInv
<1>3. Grown(G)'
  BY <1>2 DEF Grown, Trees
<1>4. PICK s : Sums(s, stack) /\ blocks = Owed(s[Len(stack)])
  BY DEF ParseInv, Ledger
<1>5. Sums(s, stack') /\ blocks' = 1 + s[Len(stack')]
  BY <1>4 DEF Owed
<1>6. Ledger'
  BY <1>5 DEF Ledger, Owed
<1> QED BY <1>1, <1>3, <1>6 DEF ParseInv

\* The innermost list owns k blocks more: they are new, or those of the item
\* parsed last.
LEMMA FrameMore ==
  ASSUME ParseInv, stack # <<>>, NEW H, Trees(H),
         stack \in Seq(Frames(H)), NEW f \in Frames(H), NEW k \in Nat,
         f.owns = Last(stack).owns + k,
         stack' = [stack EXCEPT ![Len(stack)] = f],
         \/ mode \in {"item", "key"} /\ blocks' = blocks + k
         \/ mode = "parsed" /\ k = below /\ blocks' = blocks,
         mode' \in {"value", "item", "key", "fail"},
         off' \in Nat, off' <= Len(text),
         mode' \in {"item", "key"} => off' < Len(text),
         UNCHANGED <<text, depth, below>>
  PROVE  ParseInv'
<1>1. PICK n \in Nat : n = Len(stack) /\ n > 0
  OBVIOUS
<1>2. /\ stack' \in Seq(Frames(H)) /\ stack' # <<>> /\ Len(stack') = n
      /\ stack'[n] = f /\ \A i \in 1..(n - 1) : stack'[i] = stack[i]
  BY <1>1, TopChanges
<1>3. Places'
  <2>1. mode' \in Modes /\ mode' \notin {"start", "no root", "ok", "bad end",
                                        "failed"}
    BY DEF Modes
  <2>2. mode \notin {"fail", "failed"} /\ depth = Len(stack)
    BY DEF ParseInv, Places
  <2>3. depth' = Len(stack')
    BY <1>1, <1>2, <2>2
  <2> QED BY <1>2, <2>1, <2>3 DEF ParseInv, Places
<1>4. Grown(H)'
  <2>1. below \in Nat
    BY DEF ParseInv, Grown
  <2> QED BY <1>2, <2>1 DEF Grown, Trees
<1>5. PICK s : Sums(s, stack) /\ blocks = Owed(s[n])
  BY <1>1 DEF ParseInv, Ledger
<1>6. stack[n].owns \in Nat /\ f.owns = stack[n].owns + k
  <2>1. stack[n] \in Frames(H) /\ Last(stack) = stack[n]
    BY <1>1 DEF Last
  <2> QED BY <2>1 DEF Frames
<1>7. PICK q : Sums(q, stack') /\ q[n] = s[n] + k
  <2>1. PICK r : r = stack'
    OBVIOUS
  <2>2. PICK st : st = stack
    OBVIOUS
  <2>3. /\ n \in Nat /\ n > 0 /\ k \in Nat /\ Len(st) = n /\ Len(r) = n
        /\ \A i \in 1..(n - 1) : r[i] = st[i]
    BY <1>1, <1>2, <2>1, <2>2
  <2>4. r[n].owns = st[n].owns + k /\ st[n].owns \in Nat /\ Sums(s, st)
    BY <1>2, <1>5, <1>6, <2>1, <2>2
  <2>5. \E q : Sums(q, r) /\ q[n] = s[n] + k
    BY ONLY <2>3, <2>4, SumsMore
  <2> QED BY <2>1, <2>5
<1>8. s[n] \in Nat
  <2>1. s \in [Nat -> Nat]
    BY <1>5 DEF Sums
  <2> QED BY <2>1
<1>9. blocks' = 1 + q[n]
  <2>1. CASE mode \in {"item", "key"} /\ blocks' = blocks + k
    <3>1. blocks = 1 + s[n]
      BY <1>5, <2>1 DEF Owed
    <3> QED BY <1>7, <1>8, <2>1, <3>1
  <2>2. CASE mode = "parsed" /\ k = below /\ blocks' = blocks
    <3>1. blocks = 1 + s[n] + below
      BY <1>5, <2>2 DEF Owed
    <3> QED BY <1>7, <1>8, <2>2, <3>1
  <2> QED BY <2>1, <2>2
<1>10. Ledger'
  BY <1>2, <1>7, <1>9 DEF Ledger, Owed
<1> QED BY <1>3, <1>4, <1>10 DEF ParseInv

\* Blanks are skipped inside the text.
LEMMA BlanksHere ==
  ASSUME ParseInv, NEW o \in Nat, o <= Len(text)
  PROVE  /\ SkipBlanks(text, o) \in Nat
         /\ o <= SkipBlanks(text, o) /\ SkipBlanks(text, o) <= Len(text)
         /\ o < Len(text) => SkipBlanks(text, o) < Len(text)
<1>1. text \in Seq(Nat)
  BY DEF ParseInv, Places
<1>2. o \in 0..Len(text)
  BY <1>1
<1> QED BY <1>1, <1>2, BlanksEnd

\* The root item and the blanks before the text.
LEMMA StartIs ==
  ASSUME ParseInv, Start
  PROVE  ParseInv'
<1>1. /\ mode = "start" /\ stack = <<>> /\ depth = 0
      /\ off \in Nat /\ off <= Len(text) /\ text \in Seq(Nat)
      /\ UNCHANGED <<text, depth, stack, value, below, error>>
  BY DEF Start, Fixed, ParseInv, Places
<1>2. PICK G : Grown(G)
  BY DEF ParseInv
<1>3. PICK s : Sums(s, stack) /\ blocks = Owed(s[Len(stack)])
  BY DEF ParseInv, Ledger
<1>4. Len(stack) = 0 /\ s[0] = 0 /\ blocks = 0
  BY <1>1, <1>3 DEF Sums, Owed
<1>5. CASE mode' = "value" /\ blocks' = 1 /\ Len(text) > 0
           /\ off' = SkipBlanks(text, SkipBom(text))
  <2>1. SkipBom(text) \in Nat /\ SkipBom(text) <= Len(text)
    BY <1>1, <1>5 DEF SkipBom, Readable
  <2>2. off' \in Nat /\ off' <= Len(text)
    BY <1>5, <2>1, BlanksHere
  <2>3. Places'
    BY <1>1, <1>4, <1>5, <2>2, LimitAssumption DEF ParseInv, Places, Modes
  <2>4. Grown(G)'
    BY <1>1, <1>2, <1>5 DEF Grown, Trees
  <2>5. Ledger'
    BY <1>1, <1>3, <1>4, <1>5 DEF Ledger, Owed
  <2> QED BY <2>3, <2>4, <2>5 DEF ParseInv
<1>6. CASE mode' = "no root" /\ UNCHANGED <<off, blocks>>
  <2>1. Places'
    BY <1>1, <1>4, <1>6, LimitAssumption DEF ParseInv, Places, Modes
  <2>2. Grown(G)'
    BY <1>1, <1>2, <1>6 DEF Grown, Trees
  <2>3. Ledger'
    BY <1>1, <1>3, <1>4, <1>6 DEF Ledger, Owed
  <2> QED BY <2>1, <2>2, <2>3 DEF ParseInv
<1> QED BY <1>5, <1>6 DEF Start

\* The depth is what it was, and so the lists.
LEMMA ValueDepth ==
  ASSUME ParseInv, mode = "value"
  PROVE  /\ depth = Len(stack) /\ depth \in Nat /\ depth <= NestingLimit
         /\ off \in Nat /\ off <= Len(text) /\ text \in Seq(Nat)
         /\ \E G : Grown(G)
BY DEF ParseInv, Places

\* The count of blocks is a natural number.
LEMMA BlocksAre ==
  ASSUME ParseInv
  PROVE  blocks \in Nat
<1>1. PICK G : Grown(G)
  BY DEF ParseInv
<1>2. PICK s : Sums(s, stack) /\ blocks = Owed(s[Len(stack)])
  BY DEF ParseInv, Ledger
<1>3. s \in [Nat -> Nat]
  BY <1>2 DEF Sums
<1>7. stack \in Seq(Frames(G)) /\ below \in Nat
  BY <1>1 DEF Grown
<1>4. Len(stack) \in Nat /\ below \in Nat
  BY <1>7
<1>5. PICK n \in Nat : n = s[Len(stack)]
  BY <1>3, <1>4
<1>6. blocks = Owed(n)
  BY <1>2, <1>5
<1>8. blocks = 0 \/ blocks = 1 + n + below \/ blocks = 1 + n
  BY <1>6 DEF Owed
<1> QED BY <1>4, <1>8

\* null, false and true.
LEMMA LiteralParsed ==
  ASSUME ParseInv, ParseLiteral
  PROVE  ParseInv'
<1>1. /\ mode = "value" /\ mode' = "parsed" /\ below' = 0
      /\ UNCHANGED <<text, depth, stack, blocks>>
  BY DEF ParseLiteral, Fixed
<1>2. PICK k \in DOMAIN Literals :
        /\ StartsWith(text, off, Literals[k][2])
        /\ value' = Item(Literals[k][1], 0, <<>>, <<>>)
        /\ off' = off + Literals[k][3]
  BY Zenon DEF ParseLiteral
<1>3. /\ Literals[k][1] \in ItemTypes /\ Literals[k][3] \in Nat
      /\ Len(Literals[k][2]) = Literals[k][3]
  <2>1. k \in 1..3
    <3>1. DOMAIN Literals = 1..3
      BY DEF Literals
    <3> QED BY <3>1
  <2>2. CASE k = 1
    BY <2>2 DEF Literals, ItemTypes
  <2>3. CASE k = 2
    BY <2>3 DEF Literals, ItemTypes
  <2>4. CASE k = 3
    BY <2>4 DEF Literals, ItemTypes
  <2> QED BY <2>1, <2>2, <2>3, <2>4
<1>4. PICK G : Grown(G)
  BY DEF ParseInv
<1>5. value' \in ItemShape(G)
  BY <1>2, <1>3 DEF Item, ItemShape
<1>6. off' \in Nat /\ off' <= Len(text)
  <2>1. off + Len(Literals[k][2]) <= Len(text)
    BY Zenon, <1>2 DEF StartsWith
  <2>2. off \in Nat
    BY DEF ParseInv, Places
  <2>3. off' = off + Literals[k][3]
    BY Zenon, <1>2
  <2> HIDE DEF Literals
  <2> QED BY <2>1, <2>2, <2>3, <1>3
<1>7. blocks' = blocks + below' /\ below' \in Nat
  BY <1>1, BlocksAre
<1> QED BY <1>1, <1>4, <1>5, <1>6, <1>7, ValueParsed

\* A string is parsed where there is a byte to read.
LEMMA StringHere ==
  ASSUME ParseInv, off < Len(text)
  PROVE  StringGot(text, off, StringAt(text, off))
<1>1. text \in Seq(Nat) /\ off \in Nat
  BY DEF ParseInv, Places
<1> QED BY <1>1, StringIs

\* parse_string for a value.
LEMMA StringParsed ==
  ASSUME ParseInv, ParseString
  PROVE  ParseInv'
<1>1. /\ mode = "value" /\ off < Len(text)
      /\ UNCHANGED <<text, depth, stack>>
  BY ValueDepth DEF ParseString, Fixed, At, Readable
<1>2. PICK got : got = StringAt(text, off)
  OBVIOUS
<1>3. StringGot(text, off, got)
  BY <1>1, <1>2, StringHere
<1>4. /\ got.off \in Nat /\ got.off <= Len(text) /\ got.str \in Seq(Nat)
      /\ off + 1 \in Nat /\ off + 1 <= Len(text)
  BY <1>1, <1>3, ValueDepth DEF StringGot
<1>5. CASE /\ value' = Item("string", 0, got.str, <<>>) /\ off' = got.off
           /\ mode' = "parsed" /\ below' = 1 /\ blocks' = blocks + 1
  <2>1. PICK G : Grown(G)
    BY DEF ParseInv
  <2>2. value' \in ItemShape(G)
    BY <1>4, <1>5 DEF Item, ItemShape, ItemTypes
  <2>3. below' \in Nat /\ blocks' = blocks + below'
    BY <1>5
  <2> QED BY <1>1, <1>4, <1>5, <2>1, <2>2, <2>3, ValueParsed
<1>6. CASE /\ Fail(got.off) \/ Fail(off + 1)
           /\ UNCHANGED <<below, blocks>>
  <2>1. mode' = "fail" /\ off' \in Nat /\ off' <= Len(text)
    BY <1>4, <1>6 DEF Fail
  <2>2. depth' \in Nat /\ depth' <= NestingLimit
    BY <1>1, ValueDepth
  <2> QED BY <1>1, <1>6, <2>1, <2>2, Fails
<1>7. \/ /\ value' = Item("string", 0, got.str, <<>>) /\ off' = got.off
         /\ mode' = "parsed" /\ below' = 1 /\ blocks' = blocks + 1
      \/ /\ Fail(got.off) \/ Fail(off + 1)
         /\ UNCHANGED <<below, blocks>>
  BY <1>2 DEF ParseString, OutOfMemory
<1> QED BY <1>5, <1>6, <1>7

\* parse_number.
LEMMA NumberParsed ==
  ASSUME ParseInv, ParseNumber
  PROVE  ParseInv'
<1>1. /\ mode = "value" /\ off < Len(text)
      /\ UNCHANGED <<text, depth, stack, blocks>>
  BY ValueDepth DEF ParseNumber, Fixed, Readable
<1>2. PICK got : got = NumberAt(text, off)
  OBVIOUS
<1>3. got.off \in Nat /\ got.off <= Len(text) /\ got.num \in Int
  BY <1>1, <1>2, NumberIs, ValueDepth
<1>4. \/ /\ value' = Item("number", got.num, <<>>, <<>>) /\ off' = got.off
         /\ mode' = "parsed" /\ below' = 0
      \/ Fail(off) /\ UNCHANGED below
  BY <1>2 DEF ParseNumber, OutOfMemory
<1>5. CASE /\ value' = Item("number", got.num, <<>>, <<>>) /\ off' = got.off
           /\ mode' = "parsed" /\ below' = 0
  <2>1. PICK G : Grown(G)
    BY DEF ParseInv
  <2>2. value' \in ItemShape(G)
    BY <1>3, <1>5 DEF Item, ItemShape, ItemTypes
  <2>3. below' \in Nat /\ blocks' = blocks + below'
    BY <1>1, <1>5, BlocksAre
  <2> QED BY <1>1, <1>3, <1>5, <2>1, <2>2, <2>3, ValueParsed
<1>6. CASE Fail(off) /\ UNCHANGED below
  <2>1. mode' = "fail" /\ off' \in Nat /\ off' <= Len(text)
    BY <1>1, <1>6, ValueDepth DEF Fail
  <2>2. depth' \in Nat /\ depth' <= NestingLimit
    BY <1>1, ValueDepth
  <2> QED BY <1>1, <1>6, <2>1, <2>2, Fails
<1> QED BY <1>4, <1>5, <1>6

\* parse_value when nothing fits.
LEMMA NothingParsed ==
  ASSUME ParseInv, ParseNothing
  PROVE  ParseInv'
<1>1. /\ mode = "value" /\ mode' = "fail" /\ off' = off
      /\ UNCHANGED <<text, depth, stack, below, blocks>>
  BY DEF ParseNothing, Fixed, Fail
<1>2. /\ depth' \in Nat /\ depth' <= NestingLimit
      /\ off' \in Nat /\ off' <= Len(text)
  BY <1>1, ValueDepth
<1> QED BY <1>1, <1>2, Fails

\* parse_array and parse_object, up to their first item.
LEMMA OpenIs ==
  ASSUME ParseInv, NEW kind \in {"array", "object"}, NEW open,
         NEW close \in Nat, Open(kind, open, close)
  PROVE  ParseInv'
<1>1. /\ mode = "value" /\ off < Len(text)
      /\ UNCHANGED <<text, blocks>>
  BY ValueDepth DEF Open, Fixed, At, Readable
<1>2. PICK next : next = SkipBlanks(text, off + 1)
  OBVIOUS
<1>3. next \in Nat /\ off < next /\ next <= Len(text)
  <2>1. off \in Nat /\ off + 1 \in Nat /\ off + 1 <= Len(text)
    BY <1>1, ValueDepth
  <2>2. next \in Nat /\ off + 1 <= next /\ next <= Len(text)
    BY <1>2, <2>1, BlanksHere
  <2> QED BY <2>1, <2>2
<1>4. CASE Fail(off) /\ UNCHANGED <<depth, stack, below>>
  <2>1. mode' = "fail" /\ off' \in Nat /\ off' <= Len(text)
    BY <1>1, <1>4, ValueDepth DEF Fail
  <2>2. depth' \in Nat /\ depth' <= NestingLimit
    BY <1>1, <1>4, ValueDepth
  <2> QED BY <1>1, <1>4, <2>1, <2>2, Fails
<1>5. CASE /\ At(next, close) /\ value' = Item(kind, 0, <<>>, <<>>)
           /\ below' = 0 /\ off' = next + 1 /\ mode' = "parsed"
           /\ UNCHANGED <<depth, stack>>
  <2>1. PICK G : Grown(G)
    BY DEF ParseInv
  <2>2. value' \in ItemShape(G)
    BY <1>5 DEF Item, ItemShape, ItemTypes
  <2>3. below' \in Nat /\ blocks' = blocks + below'
    BY <1>1, <1>5, BlocksAre
  <2>4. off' \in Nat /\ off' <= Len(text)
    BY <1>1, <1>3, <1>5, ValueDepth DEF At, Readable
  <2> QED BY <1>1, <1>5, <2>1, <2>2, <2>3, <2>4, ValueParsed
<1>6. CASE /\ ~TooDeep /\ depth' = depth + 1 /\ Fail(next - 1)
           /\ UNCHANGED <<stack, below>>
  <2>1. mode' = "fail" /\ off' \in Nat /\ off' <= Len(text)
    BY <1>1, <1>3, <1>6, ValueDepth DEF Fail
  <2>2. depth' \in Nat /\ depth' <= NestingLimit
    BY <1>1, <1>6, ValueDepth, LimitAssumption DEF TooDeep
  <2> QED BY <1>1, <1>6, <2>1, <2>2, Fails
<1>7. CASE /\ ~TooDeep /\ depth' = depth + 1 /\ Readable(text, next, 0)
           /\ off' = next - 1 /\ mode' = "item"
           /\ stack' = Append(stack, [kind |-> kind, close |-> close,
                                      kids |-> <<>>, key |-> <<>>, owns |-> 0])
           /\ UNCHANGED <<value, below>>
  <2> DEFINE f == [kind |-> kind, close |-> close, kids |-> <<>>,
                   key |-> <<>>, owns |-> 0]
  <2>1. PICK G : Grown(G)
    BY DEF ParseInv
  <2>2. stack \in Seq(Frames(G)) /\ below \in Nat /\ Trees(G)
    BY <2>1 DEF Grown
  <2>3. f \in Frames(G) /\ f.owns = 0
    BY DEF Frames
  <2>4. stack' = Append(stack, f)
    BY <1>7
  <2> HIDE DEF f
  <2>5. /\ stack' \in Seq(Frames(G)) /\ Len(stack') = Len(stack) + 1
        /\ stack' # <<>>
    BY <2>2, <2>3, <2>4
  <2>6. Places'
    <3>1. off' \in Nat /\ off' < Len(text)
      BY <1>1, <1>3, <1>7, ValueDepth DEF Readable
    <3>2. depth' \in Nat /\ depth' <= NestingLimit /\ depth' = Len(stack')
      BY <1>1, <1>7, <2>5, ValueDepth, LimitAssumption DEF TooDeep
    <3>3. mode' = "item" /\ text' = text /\ text \in Seq(Nat)
      BY <1>1, <1>7, ValueDepth
    <3> QED BY <2>5, <3>1, <3>2, <3>3 DEF Places, Modes
  <2>7. Grown(G)'
    BY <1>7, <2>2, <2>5 DEF Grown, Trees
  <2>8. PICK s : Sums(s, stack) /\ blocks = Owed(s[Len(stack)])
    BY DEF ParseInv, Ledger
  <2>9. PICK q : /\ Sums(q, Append(stack, f))
                 /\ q[Len(stack) + 1] = s[Len(stack)]
    BY <2>2, <2>3, <2>8, SumsPush
  <2>10. Ledger'
    BY <1>1, <1>7, <2>4, <2>5, <2>8, <2>9 DEF Ledger, Owed
  <2> QED BY <2>6, <2>7, <2>10 DEF ParseInv
<1> QED BY <1>2, <1>4, <1>5, <1>6, <1>7 DEF Open

-----------------------------------------------------------------------------
\* There is an innermost list.
LEMMA TopIs ==
  ASSUME ParseInv, stack # <<>>, NEW G, Grown(G)
  PROVE  /\ stack \in Seq(Frames(G)) /\ Last(stack) \in Frames(G)
         /\ Last(stack) = stack[Len(stack)]
         /\ Trees(G) /\ below \in Nat
<1>1. stack \in Seq(Frames(G)) /\ Trees(G) /\ below \in Nat
  BY DEF Grown
<1>2. Len(stack) \in 1..Len(stack)
  BY <1>1
<1>3. stack[Len(stack)] \in Frames(G)
  BY <1>1, <1>2
<1> QED BY <1>1, <1>3 DEF Last

\* One block more for the innermost list.
LEMMA TopWith ==
  ASSUME ParseInv, stack # <<>>, NEW G, Grown(G), NEW k \in Nat
  PROVE  \E f \in Frames(G) : /\ f.owns = Last(stack).owns + k
                              /\ InFrame(k) = [stack EXCEPT ![Len(stack)] = f]
<1> DEFINE g == Last(stack)
           f == [g EXCEPT !.owns = g.owns + k]
<1>1. /\ stack \in Seq(Frames(G)) /\ g \in Frames(G)
      /\ g = stack[Len(stack)]
  BY TopIs
<1> HIDE DEF g
<1>4. g.owns \in Nat
  BY <1>1 DEF Frames
<1>5. PICK a \in Nat : a = g.owns + k
  BY <1>4
<1>2. f \in Frames(G) /\ f.owns = g.owns + k
  BY <1>1, <1>5 DEF Frames
<1>3. InFrame(k) = [stack EXCEPT ![Len(stack)] = f]
  BY <1>1 DEF InFrame
<1> QED BY <1>2, <1>3 DEF g

\* A new item for the list.
LEMMA NextItemIs ==
  ASSUME ParseInv, NextItem
  PROVE  ParseInv'
<1>1. /\ mode = "item" /\ stack # <<>> /\ off \in Nat /\ off < Len(text)
      /\ depth \in Nat /\ depth <= NestingLimit /\ text \in Seq(Nat)
      /\ UNCHANGED <<text, depth, value, below>>
  BY DEF NextItem, Fixed, ParseInv, Places
<1>2. PICK G : Grown(G)
  BY DEF ParseInv
<1>3. CASE mode' = "fail" /\ off' = off /\ UNCHANGED <<stack, blocks>>
  BY <1>1, <1>3, Fails
<1>4. CASE /\ blocks' = blocks + 1 /\ stack' = InFrame(1)
           /\ \/ mode' = "value" /\ off' = SkipBlanks(text, off + 1)
              \/ mode' = "fail" /\ off' = off
              \/ /\ Readable(text, off, 1)
                 /\ mode' = "key" /\ off' = SkipBlanks(text, off + 1)
  <2>1. PICK f \in Frames(G) :
          /\ f.owns = Last(stack).owns + 1
          /\ stack' = [stack EXCEPT ![Len(stack)] = f]
    BY <1>1, <1>2, <1>4, TopWith
  <2>2. /\ off + 1 \in Nat /\ off + 1 <= Len(text)
        /\ Readable(text, off, 1) => off + 1 < Len(text)
    BY <1>1 DEF Readable
  <2>3. PICK next : next = SkipBlanks(text, off + 1)
    OBVIOUS
  <2>4. /\ next \in Nat /\ next <= Len(text)
        /\ off + 1 < Len(text) => next < Len(text)
    BY <2>2, <2>3, BlanksHere
  <2>5. /\ mode' \in {"value", "key", "fail"}
        /\ off' \in Nat /\ off' <= Len(text)
        /\ mode' = "key" => off' < Len(text)
    BY <1>1, <1>4, <2>2, <2>3, <2>4
  <2>6. Trees(G) /\ stack \in Seq(Frames(G)) /\ 1 \in Nat
    BY <1>1, <1>2, TopIs
  <2> QED BY <1>1, <1>4, <2>1, <2>5, <2>6, FrameMore
<1>5. \/ mode' = "fail" /\ off' = off /\ UNCHANGED <<stack, blocks>>
      \/ /\ blocks' = blocks + 1 /\ stack' = InFrame(1)
         /\ \/ mode' = "value" /\ off' = SkipBlanks(text, off + 1)
            \/ mode' = "fail" /\ off' = off
            \/ /\ Readable(text, off, 1)
               /\ mode' = "key" /\ off' = SkipBlanks(text, off + 1)
  BY Zenon DEF NextItem, OutOfMemory, Fail
<1> QED BY <1>3, <1>4, <1>5

\* A member's name and its colon.
LEMMA KeyParsed ==
  ASSUME ParseInv, ParseKey
  PROVE  ParseInv'
<1>1. /\ mode = "key" /\ stack # <<>> /\ off \in Nat /\ off < Len(text)
      /\ depth \in Nat /\ depth <= NestingLimit /\ text \in Seq(Nat)
      /\ UNCHANGED <<text, depth, value, below>>
  BY DEF ParseKey, Fixed, ParseInv, Places
<1>2. PICK G : Grown(G)
  BY DEF ParseInv
<1>3. PICK got : got = StringAt(text, off)
  OBVIOUS
<1>4. PICK colon : colon = SkipBlanks(text, got.off)
  OBVIOUS
<1>5. StringGot(text, off, got)
  BY <1>1, <1>3, StringHere
<1>6. got.off \in Nat /\ got.off <= Len(text) /\ got.str \in Seq(Nat)
  BY <1>5 DEF StringGot
<1>7. colon \in Nat /\ colon <= Len(text)
  BY <1>4, <1>6, BlanksHere
<1>8. CASE /\ mode' = "fail" /\ off' \in {got.off, off + 1}
           /\ UNCHANGED <<stack, blocks>>
  <2>1. off' \in Nat /\ off' <= Len(text)
    BY <1>1, <1>6, <1>8
  <2> QED BY <1>1, <1>8, <2>1, Fails
<1>9. CASE /\ blocks' = blocks + 1
           /\ stack' = [InFrame(1) EXCEPT ![Len(stack)].key = got.str]
           /\ \/ /\ At(colon, Colon) /\ mode' = "value"
                 /\ off' = SkipBlanks(text, colon + 1)
              \/ mode' = "fail" /\ off' = colon
  <2>1. PICK f \in Frames(G) :
          /\ f.owns = Last(stack).owns + 1
          /\ InFrame(1) = [stack EXCEPT ![Len(stack)] = f]
    BY <1>1, <1>2, TopWith
  <2>2. /\ Trees(G) /\ stack \in Seq(Frames(G)) /\ 1 \in Nat
        /\ Len(stack) \in 1..Len(stack)
    BY <1>1, <1>2, TopIs
  <2> DEFINE g == [f EXCEPT !.key = got.str]
  <2>3. g \in Frames(G) /\ g.owns = f.owns
    BY <1>6 DEF Frames
  <2>4. stack' = [stack EXCEPT ![Len(stack)] = g]
    BY <1>9, <2>1, <2>2
  <2> HIDE DEF g
  <2>5. off' \in Nat /\ off' <= Len(text)
    <3>1. CASE /\ At(colon, Colon) /\ off' = SkipBlanks(text, colon + 1)
      <4>1. colon + 1 \in Nat /\ colon + 1 <= Len(text)
        BY <1>1, <1>7, <3>1 DEF At, Readable
      <4> QED BY <3>1, <4>1, BlanksHere
    <3>2. CASE off' = colon
      BY <1>7, <3>2
    <3> QED BY <1>9, <3>1, <3>2
  <2>6. mode' \in {"value", "fail"}
    BY <1>9
  <2> QED BY <1>1, <1>9, <2>1, <2>2, <2>3, <2>4, <2>5, <2>6, FrameMore
<1>10. \/ /\ mode' = "fail" /\ off' \in {got.off, off + 1}
          /\ UNCHANGED <<stack, blocks>>
       \/ /\ blocks' = blocks + 1
          /\ stack' = [InFrame(1) EXCEPT ![Len(stack)].key = got.str]
          /\ \/ /\ At(colon, Colon) /\ mode' = "value"
                /\ off' = SkipBlanks(text, colon + 1)
             \/ mode' = "fail" /\ off' = colon
  BY <1>3, <1>4 DEF ParseKey, OutOfMemory, Fail
<1> QED BY <1>8, <1>9, <1>10

\* The item of the innermost list has its value.
LEMMA ParsedIs ==
  ASSUME ParseInv, Parsed
  PROVE  ParseInv'
<1>1. /\ mode = "parsed" /\ stack # <<>> /\ off \in Nat /\ off <= Len(text)
      /\ depth \in Nat /\ depth <= NestingLimit /\ text \in Seq(Nat)
      /\ depth = Len(stack)
      /\ UNCHANGED <<text, blocks>>
  BY DEF Parsed, Fixed, ParseInv, Places
<1>2. PICK G : Grown(G)
  BY DEF ParseInv
<1>3. PICK frame : frame = Last(stack)
  OBVIOUS
<1>4. PICK next : next = SkipBlanks(text, off)
  OBVIOUS
<1>5. next \in Nat /\ next <= Len(text)
  BY <1>1, <1>4, BlanksHere
<1>6. /\ stack \in Seq(Frames(G)) /\ frame \in Frames(G)
      /\ frame = stack[Len(stack)]
      /\ Trees(G) /\ below \in Nat /\ value \in G
  BY <1>1, <1>2, <1>3, TopIs DEF Grown
<1> DEFINE v == [value EXCEPT !.key = frame.key]
           kids == Append(frame.kids, v)
           owns == frame.owns + below
<1>7. v \in ItemShape(G)
  <2>1. value \in ItemShape(G)
    BY <1>6 DEF Trees, ItemShape
  <2>2. frame.key \in Seq(Nat)
    BY <1>6 DEF Frames
  <2> QED BY <2>1, <2>2 DEF ItemShape
<1> HIDE DEF v
<1>8. PICK H : Trees(H) /\ G \subseteq H /\ v \in H
  BY <1>6, <1>7, Planted
<1>9. stack \in Seq(Frames(H)) /\ frame \in Frames(H)
  <2>1. stack \in Seq(Frames(H))
    BY <1>6, <1>8, FramesGrow
  <2>2. Len(stack) \in 1..Len(stack)
    BY <1>1, <1>6
  <2> QED BY <1>6, <2>1, <2>2
<1>10. kids \in Seq(H) /\ owns \in Nat /\ frame.owns \in Nat
       /\ frame.kind \in {"array", "object"}
  BY <1>6, <1>8, <1>9 DEF Frames
<1>11. frame.owns + below = owns
  OBVIOUS
<1> HIDE DEF kids, owns
<1>12. CASE /\ At(next, Comma) /\ mode' = "item" /\ off' = next
            /\ stack' = [stack EXCEPT ![Len(stack)].kids = kids,
                                      ![Len(stack)].owns = owns]
            /\ UNCHANGED <<depth, value, below>>
  <2> DEFINE f == [frame EXCEPT !.kids = kids, !.owns = owns]
  <2>1. f \in Frames(H) /\ f.owns = Last(stack).owns + below
    <3>1. f \in Frames(H) /\ f.owns = owns
      BY <1>9, <1>10 DEF Frames
    <3> QED BY <1>3, <1>11, <3>1
  <2>2. stack' = [stack EXCEPT ![Len(stack)] = f]
    BY <1>1, <1>6, <1>12
  <2> HIDE DEF f
  <2>3. off' \in Nat /\ off' < Len(text) /\ off' <= Len(text)
    BY <1>5, <1>12 DEF At, Readable
  <2>4. /\ mode' \in {"value", "item", "key", "fail"}
        /\ mode = "parsed" /\ blocks' = blocks
        /\ UNCHANGED <<text, depth, below>>
    BY <1>1, <1>12
  <2> QED BY ONLY ParseInv, <1>1, <1>6, <1>8, <1>9, <2>1, <2>2, <2>3, <2>4,
                  FrameMore
<1>13. CASE /\ At(next, frame.close) /\ mode' = "parsed" /\ off' = next + 1
            /\ depth' = depth - 1
            /\ value' = Item(frame.kind, 0, <<>>, kids)
            /\ below' = owns /\ stack' = Front(stack)
  <2>1. value' \in ItemShape(H)
    BY <1>10, <1>13 DEF Item, ItemShape, ItemTypes
  <2>2. PICK I : Trees(I) /\ H \subseteq I /\ value' \in I
    BY <1>8, <2>1, Planted
  <2>3. stack \in Seq(Frames(I))
    BY <1>9, <2>2, FramesGrow
  <2>4. PICK s : Sums(s, stack) /\ blocks = Owed(s[Len(stack)])
    BY DEF ParseInv, Ledger
  <2>5. /\ Sums(s, stack') /\ stack' \in Seq(Frames(I))
        /\ Len(stack') = Len(stack) - 1
        /\ s[Len(stack)] = s[Len(stack) - 1] + frame.owns
    BY <1>1, <1>3, <1>13, <2>3, <2>4, SumsPop
  <2>6. Places'
    <3>1. Len(stack) \in Nat /\ Len(stack) > 0
      BY <1>1, <1>6
    <3>2. depth' \in Nat /\ depth' <= NestingLimit /\ depth' = Len(stack')
      BY <1>1, <1>13, <2>5, <3>1, LimitAssumption
    <3>3. off' \in Nat /\ off' <= Len(text)
      BY <1>1, <1>5, <1>13 DEF At, Readable
    <3> QED BY <1>1, <1>13, <3>2, <3>3 DEF Places, Modes
  <2>7. Grown(I)'
    BY <1>10, <1>13, <2>2, <2>5 DEF Grown, Trees
  <2>8. blocks' = 1 + s[Len(stack')] + below'
    <3>1. Len(stack) \in Nat /\ Len(stack) > 0
      BY <1>1, <1>6
    <3>2. s \in [Nat -> Nat]
      BY <2>4 DEF Sums
    <3>3. PICK n \in Nat : n = s[Len(stack) - 1] /\ s[Len(stack')] = n
      BY <2>5, <3>1, <3>2
    <3>4. blocks = 1 + s[Len(stack)] + below
      BY <1>1, <2>4 DEF Owed
    <3>5. blocks = 1 + (n + frame.owns) + below
      BY <2>5, <3>3, <3>4
    <3>6. PICK k \in Nat : k = frame.owns
      BY <1>10
    <3>7. blocks' = blocks /\ below' = k + below /\ blocks = 1 + (n + k) + below
      BY <1>1, <1>11, <1>13, <3>5, <3>6
    <3>8. blocks' = 1 + n + below'
      BY <1>6, <3>7
    <3> QED BY <3>3, <3>8
  <2>9. Ledger'
    BY <1>13, <2>5, <2>8 DEF Ledger, Owed
  <2> QED BY <2>6, <2>7, <2>9 DEF ParseInv
<1>14. CASE /\ Fail(next)
            /\ stack' = [stack EXCEPT ![Len(stack)].owns = owns]
            /\ UNCHANGED <<depth, value, below>>
  <2> DEFINE f == [frame EXCEPT !.owns = owns]
  <2>1. f \in Frames(H) /\ f.owns = Last(stack).owns + below
    <3>1. f \in Frames(H) /\ f.owns = owns
      BY <1>9, <1>10 DEF Frames
    <3> QED BY <1>3, <1>11, <3>1
  <2>2. stack' = [stack EXCEPT ![Len(stack)] = f]
    BY <1>1, <1>6, <1>14
  <2> HIDE DEF f
  <2>3. mode' = "fail" /\ off' \in Nat /\ off' <= Len(text)
    BY <1>5, <1>14 DEF Fail
  <2> QED BY <1>1, <1>6, <1>8, <1>9, <1>14, <2>1, <2>2, <2>3, FrameMore
<1> QED BY <1>3, <1>4, <1>12, <1>13, <1>14 DEF Parsed, v, kids, owns

\* The end of the text.
LEMMA FinishIs ==
  ASSUME ParseInv, Finish
  PROVE  ParseInv'
<1>1. /\ mode = "parsed" /\ stack = <<>> /\ off \in Nat /\ off <= Len(text)
      /\ mode' \in {"ok", "bad end"}
      /\ UNCHANGED <<text, depth, stack, value, below, blocks>>
  BY DEF Finish, Fixed, ParseInv, Places
<1>2. off' \in Nat /\ off' <= Len(text)
  <2>1. off' = off \/ off' = SkipBlanks(text, off)
    BY DEF Finish
  <2> QED BY <1>1, <2>1, BlanksHere
<1>3. Places'
  BY <1>1, <1>2 DEF ParseInv, Places, Modes
<1>4. PICK G : Grown(G)
  BY DEF ParseInv
<1>5. Grown(G)'
  BY <1>1, <1>4 DEF Grown, Trees
<1>6. Ledger'
  <2>1. PICK s : Sums(s, stack) /\ blocks = Owed(s[Len(stack)])
    BY DEF ParseInv, Ledger
  <2>2. blocks' = 1 + s[Len(stack')] + below' /\ Sums(s, stack')
    BY <1>1, <2>1 DEF Owed
  <2> QED BY <1>1, <2>2 DEF Ledger, Owed
<1> QED BY <1>3, <1>5, <1>6 DEF ParseInv

\* A list is deleted, and its caller fails.
LEMMA UnwindIs ==
  ASSUME ParseInv, Unwind
  PROVE  ParseInv'
<1>1. /\ mode = "fail" /\ stack # <<>> /\ blocks' = blocks - Last(stack).owns
      /\ stack' = Front(stack)
      /\ UNCHANGED <<text, mode, off, depth, value, below>>
  BY DEF Unwind, Fixed, FreedList
<1>2. Places'
  BY <1>1 DEF ParseInv, Places
<1>3. PICK G : Grown(G)
  BY DEF ParseInv
<1>4. stack \in Seq(Frames(G)) /\ Last(stack) \in Frames(G)
  BY <1>1, <1>3, TopIs
<1>5. PICK s : Sums(s, stack) /\ blocks = Owed(s[Len(stack)])
  BY DEF ParseInv, Ledger
<1>6. /\ Sums(s, stack') /\ stack' \in Seq(Frames(G))
      /\ Len(stack') = Len(stack) - 1
      /\ s[Len(stack)] = s[Len(stack) - 1] + Last(stack).owns
  BY <1>1, <1>4, <1>5, SumsPop
<1>7. Grown(G)'
  BY <1>1, <1>3, <1>6 DEF Grown, Trees
<1>8. blocks' = 1 + s[Len(stack')]
  <2>1. Len(stack) \in Nat /\ Len(stack) > 0
    BY <1>1, <1>4
  <2>2. s \in [Nat -> Nat]
    BY <1>5 DEF Sums
  <2>3. PICK n \in Nat : n = s[Len(stack) - 1] /\ s[Len(stack')] = n
    BY <1>6, <2>1, <2>2
  <2>4. PICK k \in Nat : k = Last(stack).owns
    BY <1>4 DEF Frames
  <2>5. blocks = 1 + s[Len(stack)]
    BY <1>1, <1>5 DEF Owed
  <2>6. blocks = 1 + (n + k) /\ blocks' = blocks - k
    BY <1>1, <1>6, <2>3, <2>4, <2>5
  <2> QED BY <2>3, <2>6
<1>9. Ledger'
  BY <1>1, <1>6, <1>8 DEF Ledger, Owed
<1> QED BY <1>2, <1>7, <1>9 DEF ParseInv

\* The root is deleted.
LEMMA GiveUpIs ==
  ASSUME ParseInv, GiveUp
  PROVE  ParseInv'
<1>1. /\ mode \in {"no root", "fail", "bad end"} /\ mode' = "failed"
      /\ error' = IF off < Len(text) THEN off
                  ELSE IF Len(text) > 0 THEN Len(text) - 1 ELSE 0
      /\ UNCHANGED <<text, off, depth, stack, value, below>>
  BY DEF GiveUp, Fixed
<1>2. stack = <<>>
  BY DEF GiveUp, ParseInv, Places
<1>3. Places'
  <2>1. off \in Nat /\ off <= Len(text) /\ text \in Seq(Nat)
    BY DEF ParseInv, Places
  <2>2. Len(text) > 0 => error' \in 0..(Len(text) - 1)
    <3>1. Len(text) \in Nat
      BY <2>1
    <3>2. CASE off < Len(text)
      <4>1. error' = off
        BY <1>1, <3>2
      <4> QED BY <2>1, <3>1, <3>2, <4>1
    <3>3. CASE ~(off < Len(text)) /\ Len(text) > 0
      <4>1. error' = Len(text) - 1
        BY <1>1, <3>3
      <4> QED BY <3>1, <3>3, <4>1
    <3> QED BY <3>2, <3>3
  <2> QED BY <1>1, <1>2, <2>1, <2>2 DEF ParseInv, Places, Modes
<1>4. PICK G : Grown(G)
  BY DEF ParseInv
<1>5. Grown(G)'
  BY <1>1, <1>4 DEF Grown, Trees
<1>6. PICK s : Sums(s, stack) /\ blocks = Owed(s[Len(stack)])
  BY DEF ParseInv, Ledger
<1>7. Len(stack) = 0 /\ s[0] = 0
  BY <1>2, <1>6 DEF Sums
<1>8. below \in Nat
  BY <1>4 DEF Grown
<1>9. blocks' = 0
  <2>1. CASE mode = "no root" /\ UNCHANGED blocks
    BY <1>6, <1>7, <2>1 DEF Owed
  <2>2. CASE mode = "fail" /\ blocks' = blocks - 1
    BY <1>6, <1>7, <2>2 DEF Owed
  <2>3. CASE mode = "bad end" /\ blocks' = blocks - 1 - below
    <3>1. blocks = 1 + 0 + below
      BY <1>6, <1>7, <2>3 DEF Owed
    <3>2. PICK b \in Nat : b = below
      BY <1>8
    <3>3. blocks = 1 + 0 + b /\ blocks' = blocks - 1 - b
      BY <2>3, <3>1, <3>2
    <3> QED BY <3>3
  <2> QED BY <2>1, <2>2, <2>3 DEF GiveUp
<1>10. Ledger'
  BY <1>1, <1>6, <1>9 DEF Ledger, Owed
<1> QED BY <1>3, <1>5, <1>10 DEF ParseInv

\* Steps of the printer leave the parser alone.
LEMMA ParseStutter ==
  ASSUME ParseInv, UNCHANGED parseVars
  PROVE  ParseInv'
<1>1. UNCHANGED <<text, toEnd, mode, off, depth, stack, value, below, blocks,
                  noMemory, error>>
  BY DEF parseVars
<1>2. Places'
  BY <1>1 DEF ParseInv, Places
<1>3. PICK G : Grown(G)
  BY DEF ParseInv
<1>4. Grown(G)'
  BY <1>1, <1>3 DEF Grown, Trees
<1>5. Ledger'
  BY <1>1 DEF ParseInv, Ledger, Owed
<1> QED BY <1>2, <1>4, <1>5 DEF ParseInv

\* Every step of the parser.
LEMMA ParseStep ==
  ASSUME ParseInv, ParseNext
  PROVE  ParseInv'
<1>1. CASE ParseArray
  <2>1. CloseList \in Nat
    BY DEF CloseList
  <2> QED BY <1>1, <2>1, OpenIs DEF ParseArray
<1>2. CASE ParseObject
  <2>1. CloseMap \in Nat
    BY DEF CloseMap
  <2> QED BY <1>2, <2>1, OpenIs DEF ParseObject
<1> QED
  BY <1>1, <1>2, StartIs, LiteralParsed, StringParsed, NumberParsed,
     NothingParsed, NextItemIs, KeyParsed, ParsedIs, FinishIs, UnwindIs,
     GiveUpIs
     DEF ParseNext

\* The inductive invariant: the parser's, the printer's, and the way of printing.
TextInv == ParseInv /\ PrintInv /\ format \in BOOLEAN

\* The parser and the printer together.
THEOREM TextInvariant == Spec => []TextInv
<1>1. Init => TextInv
  BY ParseStarts, PrintStarts DEF Init, TextInv
<1>2. TextInv /\ [Next]_vars => TextInv'
  <2> SUFFICES ASSUME TextInv, [Next]_vars PROVE TextInv'
    OBVIOUS
  <2>1. CASE Parse
    <3>1. ParseNext /\ UNCHANGED <<printVars, format>>
      BY <2>1 DEF Parse
    <3> QED BY <3>1, ParseStep, PrintStutter DEF TextInv
  <2>2. CASE BeginPrint
    <3>1. mode = "ok" /\ UNCHANGED parseVars /\ format' = format
      BY <2>2 DEF BeginPrint
    <3>2. PICK w, n : Begin(value, w, n) /\ n \in Nat
      <4>1. CASE Begin(value, "print", DefaultSize)
        BY <4>1, DefaultSizeAssumption
      <4>2. CASE \E n \in Sizes, w \in {"buffered", "preallocated"} :
                   Begin(value, w, n)
        BY <4>2, SizesAssumption
      <4> QED BY <2>2, <4>1, <4>2 DEF BeginPrint
    <3>3. PICK G : Grown(G)
      BY DEF TextInv, ParseInv
    <3>4. Trees(G) /\ value \in G
      BY <3>1, <3>3 DEF Grown
    <3>5. PrintInv'
      BY <3>2, <3>4, BeginIs DEF TextInv
    <3> QED BY <3>1, <3>5, ParseStutter DEF TextInv
  <2>3. CASE Print1
    <3>1. PrintNext(format) /\ UNCHANGED parseVars /\ format' = format
      BY <2>3 DEF Print1
    <3> QED BY <3>1, PrintStep, ParseStutter DEF TextInv
  <2>4. CASE UNCHANGED vars
    <3>1. UNCHANGED parseVars /\ UNCHANGED printVars /\ format' = format
      BY <2>4 DEF vars
    <3> QED BY <3>1, ParseStutter, PrintStutter DEF TextInv
  <2> QED BY <2>1, <2>2, <2>3, <2>4 DEF Next, Done
<1> QED BY <1>1, <1>2, PTL DEF Spec

\* The parser and the strings it copies stay inside their buffers, for every
\* text and every nesting limit.
THEOREM NothingIsOverread == Spec => []StaysInside
<1>1. TextInv => StaysInside
  <2> SUFFICES ASSUME TextInv PROVE StaysInside
    OBVIOUS
  <2>1. /\ off <= Len(text) /\ depth <= NestingLimit
        /\ mode \in {"item", "key"} => off < Len(text)
        /\ mode = "failed" /\ Len(text) > 0 => error \in 0..(Len(text) - 1)
    BY DEF TextInv, ParseInv, Places
  <2>2. ASSUME At(off, Quote), StringAt(text, off).ok
        PROVE  Len(StringAt(text, off).str) + 1 <= StringAt(text, off).room
    <3>1. ParseInv /\ off < Len(text)
      <4>1. ParseInv /\ off \in Nat
        BY DEF TextInv, ParseInv, Places
      <4>2. off + 0 < Len(text)
        BY <2>2 DEF At, Readable
      <4> QED BY <4>1, <4>2
    <3>2. StringGot(text, off, StringAt(text, off))
      BY <3>1, StringHere
    <3> QED BY <2>2, <3>2 DEF StringGot
  <2> QED BY <2>1, <2>2 DEF StaysInside
<1> QED BY <1>1, TextInvariant, PTL

\* Whatever fails, nothing is left behind.
THEOREM NothingIsLeaked == Spec => []FailureFreesAll
<1>1. TextInv => FailureFreesAll
  <2> SUFFICES ASSUME TextInv PROVE FailureFreesAll
    OBVIOUS
  <2>1. PICK s : Sums(s, stack) /\ blocks = Owed(s[Len(stack)])
    BY DEF TextInv, ParseInv, Ledger
  <2>2. mode = "failed" => blocks = 0
    BY <2>1 DEF Owed
  <2>3. ASSUME mode = "ok" PROVE blocks = 1 + below
    <3>1. Len(stack) = 0
      BY <2>3 DEF TextInv, ParseInv, Places
    <3>2. blocks = 1 + 0 + below /\ below \in Nat
      BY <2>1, <2>3, <3>1 DEF Owed, Sums, TextInv, ParseInv, Grown
    <3> QED BY <3>2
  <2>4. /\ printing = "failed" => buffers = 0
        /\ printing = "done" => buffers = IF noalloc THEN 0 ELSE 1
    BY DEF TextInv, PrintInv, Owned
  <2> QED BY <2>2, <2>3, <2>4 DEF FailureFreesAll
<1> QED BY <1>1, TextInvariant, PTL

\* No call of the printer writes past the buffer, whatever it prints.
THEOREM PrinterFits == Spec => []WritesFit
<1>1. TextInv => WritesFit
  BY DEF TextInv, PrintInv, BufferInv
<1> QED BY <1>1, TextInvariant, PTL
=============================================================================
