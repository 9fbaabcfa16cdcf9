----------------------------- MODULE CodecProofs -----------------------------
(***************************************************************************)
(* Codec satisfies its properties for every tag, every call that the CLI   *)
(* can parse, and every error response that a reader can send. The sums    *)
(* over bytes are bounded by induction over sets of numbers, from the      *)
(* well-foundedness of their order. The invariant tells, of each request   *)
(* on the wire, the call it is of, and of each answer, what it is decoded  *)
(* to and what the reader and the tags are then.                           *)
(***************************************************************************)
EXTENDS Codec, SequenceTheorems, WellFoundedInduction, FiniteSetTheorems, TLAPS

-----------------------------------------------------------------------------
(* Induction, sums and checksums *)

(* Every set of natural numbers that is not empty has a least one. *)
LEMMA WellOrdered ==
  ASSUME NEW T, T \subseteq Nat, T # {}
  PROVE  \E x \in T : \A y \in T : x <= y
<1> DEFINE R == {ss \in Nat \X Nat : ss[1] < ss[2]}
<1>1. IsWellFoundedOn(R, Nat)
  BY NatLessThanWellFounded, Zenon DEF OpToRel
<1>2. \E x \in T : \A y \in T : <<y, x>> \notin R
  <2> HIDE DEF R
  <2> QED BY <1>1, WFMin
<1>3. ASSUME NEW x \in T, NEW y \in T, y < x PROVE <<y, x>> \in R
  <2>1. <<y, x>> \in Nat \X Nat /\ <<y, x>>[1] = y /\ <<y, x>>[2] = x
    OBVIOUS
  <2> QED BY <2>1, <1>3
<1>4. \A x, y \in T : y < x => <<y, x>> \in R
  BY <1>3
<1>5. \A x, y \in T : x <= y \/ y < x
  OBVIOUS
<1> HIDE DEF R
<1> QED BY <1>2, <1>4, <1>5

(* Induction, for a set of numbers: the library's theorem about a          *)
(* predicate is beyond the provers.                                        *)
LEMMA Induction ==
  ASSUME NEW S, 0 \in S, \A n \in Nat : n \in S => n + 1 \in S
  PROVE  \A n \in Nat : n \in S
<1> SUFFICES ASSUME Nat \ S # {} PROVE FALSE
  OBVIOUS
<1>1. PICK x \in Nat \ S : \A y \in Nat \ S : x <= y
  BY WellOrdered
<1>2. x # 0 /\ x - 1 \in Nat /\ x - 1 \in S
  BY <1>1
<1> QED
  BY <1>1, <1>2

(* The same up to a bound. *)
LEMMA BoundedInduction ==
  ASSUME NEW n \in Nat, NEW S, 0 \in S, \A i \in 1..n : i - 1 \in S => i \in S
  PROVE  \A i \in 0..n : i \in S
<1> DEFINE T == S \cup {i \in Nat : i > n}
<1>1. \A i \in Nat : i \in T => i + 1 \in T
  OBVIOUS
<1>2. 0 \in T
  OBVIOUS
<1> HIDE DEF T
<1>3. \A i \in Nat : i \in T
  BY <1>1, <1>2, Induction
<1> QED
  BY <1>3 DEF T

(* The greatest of a set of numbers up to n. *)
LEMMA MaxOfPart ==
  ASSUME NEW n \in Nat, NEW T \in SUBSET (1..n), T # {}
  PROVE  Max(T) \in T /\ \A y \in T : Max(T) >= y
<1> DEFINE D == {d \in Nat : n - d \in T}
<1>0. PICK x \in T : TRUE
  OBVIOUS
<1>1. D \subseteq Nat /\ D # {}
  <2>1. n - x \in Nat /\ n - (n - x) = x
    OBVIOUS
  <2> QED BY <2>1
<1>2. PICK d \in D : \A y \in D : d <= y
  <2> HIDE DEF D
  <2> QED BY <1>1, WellOrdered
<1>3. n - d \in T
  OBVIOUS
<1>4. ASSUME NEW z \in T PROVE n - d >= z
  <2>1. n - z \in Nat /\ n - (n - z) = z
    OBVIOUS
  <2>2. n - z \in D
    BY <2>1
  <2>3. d <= n - z
    BY <1>2, <2>2
  <2> QED BY <2>1, <2>3
<1> QED
  BY <1>3, <1>4 DEF Max

(* Without m, a set of numbers up to m is one up to m - 1. *)
LEMMA PartBelow ==
  ASSUME NEW m \in Nat, NEW T \in SUBSET (1..m), \A y \in T : y # m
  PROVE  T \in SUBSET (1..(m - 1))
<1>1. ASSUME NEW y \in T PROVE y \in 1..(m - 1)
  <2>1. y \in 1..m /\ y # m
    OBVIOUS
  <2> QED BY <2>1
<1> QED BY <1>1

(* The sums of the beginnings of a sequence. *)
SumsOf(p, s, n) ==
  /\ p \in [0..n -> Int]
  /\ p[0] = 0
  /\ \A i \in 1..n : p[i] = p[i - 1] + s[i]

(* The sums of the first numbers of a sequence, for each of them. *)
LEMMA SumsExist ==
  ASSUME NEW n \in Nat, NEW s \in [1..n -> Int]
  PROVE  \E p : SumsOf(p, s, n)
<1> DEFINE S == {m \in 0..n : \E p : SumsOf(p, s, m)}
<1>1. 0 \in S
  <2>1. SumsOf([i \in 0..0 |-> 0], s, 0)
    BY DEF SumsOf
  <2> QED BY <2>1
<1>2. ASSUME NEW m \in 1..n, m - 1 \in S PROVE m \in S
  <2>1. PICK p : SumsOf(p, s, m - 1)
    BY <1>2
  <2> DEFINE q == [i \in 0..m |-> IF i = m THEN p[m - 1] + s[m] ELSE p[i]]
  <2>2. q \in [0..m -> Int]
    BY <2>1 DEF SumsOf
  <2>3. q[0] = 0
    BY <2>1 DEF SumsOf
  <2>4. ASSUME NEW i \in 1..m PROVE q[i] = q[i - 1] + s[i]
    BY <2>1 DEF SumsOf
  <2> QED
    <3> HIDE DEF q
    <3>1. SumsOf(q, s, m)
      BY <2>2, <2>3, <2>4 DEF SumsOf
    <3> QED BY <3>1
<1> HIDE DEF S
<1>3. \A m \in 0..n : m \in S
  BY <1>1, <1>2, BoundedInduction
<1> QED
  BY <1>3 DEF S

(* What FoldLeft computes, as its definition unfolds. *)
Unfolds(g, s, n) ==
  /\ g \in [SUBSET (1..n) -> Int]
  /\ \A T \in SUBSET (1..n) :
       g[T] = IF T = {} THEN 0 ELSE g[T \ {Max(T)}] + s[Max(T)]

(* The function by which a fold over a set of places is defined. *)
LEMMA UnfoldsExist ==
  ASSUME NEW n \in Nat, NEW s \in [1..n -> Int]
  PROVE  \E g : Unfolds(g, s, n)
<1> DEFINE S == {m \in 0..n : \E g : Unfolds(g, s, m)}
<1>1. 0 \in S
  <2>1. Unfolds([T \in SUBSET (1..0) |-> 0], s, 0)
    BY DEF Unfolds
  <2> QED BY <2>1
<1>2. ASSUME NEW m \in 1..n, m - 1 \in S PROVE m \in S
  <2>1. PICK p : Unfolds(p, s, m - 1)
    BY <1>2
  <2> DEFINE q == [T \in SUBSET (1..m) |-> IF m \in T THEN p[T \ {m}] + s[m] ELSE p[T]]
  <2>2. q \in [SUBSET (1..m) -> Int]
    <3>1. ASSUME NEW T \in SUBSET (1..m), m \in T PROVE T \ {m} \in SUBSET (1..(m - 1))
      <4>1. m \in Nat /\ T \ {m} \in SUBSET (1..m) /\ \A y \in T \ {m} : y # m
        OBVIOUS
      <4> QED BY <4>1, PartBelow
    <3>2. ASSUME NEW T \in SUBSET (1..m), m \notin T PROVE T \in SUBSET (1..(m - 1))
      <4>1. m \in Nat /\ \A y \in T : y # m
        BY <3>2
      <4> QED BY <4>1, PartBelow
    <3> QED BY <2>1, <3>1, <3>2 DEF Unfolds
  <2>3. ASSUME NEW T \in SUBSET (1..m)
        PROVE  q[T] = IF T = {} THEN 0 ELSE q[T \ {Max(T)}] + s[Max(T)]
    <3>1. CASE m \in T
      <4>1. Max(T) = m
        <5>1. T # {} /\ m \in Nat
          BY <3>1
        <5>2. Max(T) \in T /\ \A y \in T : Max(T) >= y
          BY <5>1, MaxOfPart
        <5>3. Max(T) \in 1..m /\ Max(T) >= m
          BY <5>2, <3>1
        <5> QED BY <5>3
      <4>2. q[T \ {m}] = p[T \ {m}] /\ q[T] = p[T \ {m}] + s[m]
        BY <3>1
      <4> QED BY <3>1, <4>1, <4>2
    <3>2. CASE m \notin T /\ T # {}
      <4>1. T \in SUBSET (1..(m - 1))
        <5>1. m \in Nat /\ \A y \in T : y # m
          BY <3>2
        <5> QED BY <5>1, PartBelow
      <4>2. T \ {Max(T)} \in SUBSET (1..m) /\ m \notin T \ {Max(T)}
        BY <3>2
      <4>3. q[T] = p[T] /\ q[T \ {Max(T)}] = p[T \ {Max(T)}]
        BY <3>2, <4>2
      <4> HIDE DEF q
      <4> QED BY <3>2, <4>1, <4>3, <2>1 DEF Unfolds
    <3>3. CASE T = {}
      <4>1. q[T] = p[T] /\ T \in SUBSET (1..(m - 1))
        BY <3>3
      <4> HIDE DEF q
      <4> QED BY <3>3, <4>1, <2>1 DEF Unfolds
    <3> QED BY <3>1, <3>2, <3>3
  <2> QED
    <3> HIDE DEF q
    <3>1. Unfolds(q, s, m)
      BY <2>2, <2>3 DEF Unfolds
    <3> QED BY <3>1
<1> HIDE DEF S
<1>3. \A m \in 0..n : m \in S
  BY <1>1, <1>2, BoundedInduction
<1> QED
  BY <1>3 DEF S

(* Total is that function, applied to all places. *)
LEMMA TotalUnfolds ==
  ASSUME NEW n \in Nat, NEW s \in [1..n -> Int]
  PROVE  \E g : Unfolds(g, s, n) /\ Total(s) = g[1..n]
<1> DEFINE F(g) == [T \in SUBSET (1..n) |-> IF T = {} THEN 0 ELSE g[T \ {Max(T)}] + s[Max(T)]]
           h    == CHOOSE g : g = F(g)
<1>1. Total(s) = h[1..n]
  BY Zenon DEF Total, FoldLeft, MapThenFoldSet
<1>2. PICK p : Unfolds(p, s, n)
  BY UnfoldsExist
<1>3. p = F(p)
  BY <1>2 DEF Unfolds
<1>4. h = F(h)
  <2> HIDE DEF F
  <2> QED BY <1>3
<1>5. Unfolds(h, s, n)
  <2> DEFINE Good == {m \in 0..n : \A T \in SUBSET (1..m) : h[T] \in Int}
  <2>0. \A T \in SUBSET (1..n) : h[T] = IF T = {} THEN 0 ELSE h[T \ {Max(T)}] + s[Max(T)]
    <3> HIDE DEF h
    <3> QED BY <1>4
  <2> HIDE DEF h
  <2>1. 0 \in Good
    <3>1. ASSUME NEW T \in SUBSET (1..0) PROVE h[T] \in Int
      <4>1. T = {} /\ {} \in SUBSET (1..n)
        OBVIOUS
      <4>2. h[{}] = 0
        BY <4>1, <2>0
      <4> QED BY <4>1, <4>2
    <3> QED BY <3>1
  <2>2. ASSUME NEW m \in 1..n, m - 1 \in Good PROVE m \in Good
    <3>1. ASSUME NEW T \in SUBSET (1..m), T # {} PROVE h[T] \in Int
      <4>1. m \in Nat /\ T \in SUBSET (1..n)
        OBVIOUS
      <4>2. Max(T) \in T /\ \A y \in T : Max(T) >= y
        BY <4>1, <3>1, MaxOfPart
      <4>3. T \ {Max(T)} \in SUBSET (1..m) /\ \A y \in T \ {Max(T)} : y # m
        <5>1. ASSUME NEW y \in T, y # Max(T) PROVE y # m
          <6>1. y \in 1..m /\ Max(T) \in 1..m /\ Max(T) >= y
            BY <4>2
          <6> QED BY <6>1, <5>1
        <5> QED BY <5>1
      <4>4. h[T \ {Max(T)}] \in Int
        <5>1. T \ {Max(T)} \in SUBSET (1..(m - 1))
          BY <4>1, <4>3, PartBelow
        <5> QED BY <5>1, <2>2
      <4>5. s[Max(T)] \in Int
        BY <4>1, <4>2
      <4>6. h[T] = h[T \ {Max(T)}] + s[Max(T)]
        BY <3>1, <4>1, <2>0
      <4> QED BY <4>4, <4>5, <4>6
    <3>2. h[{}] \in Int
      <4>1. {} \in SUBSET (1..n)
        OBVIOUS
      <4> QED BY <4>1, <2>0
    <3>3. \A T \in SUBSET (1..m) : h[T] \in Int
      BY <3>1, <3>2
    <3> QED BY <3>3
  <2> HIDE DEF Good
  <2>3. \A m \in 0..n : m \in Good
    BY <2>1, <2>2, BoundedInduction
  <2>4. \A T \in SUBSET (1..n) : h[T] \in Int
    <3>1. n \in Good
      BY <2>3
    <3> QED BY <3>1, Zenon DEF Good
  <2>5. h \in [SUBSET (1..n) -> Int]
    BY <1>4, <2>4
  <2> QED BY <2>0, <2>5 DEF Unfolds
<1> QED BY <1>1, <1>5

(* FoldLeft, used with +, is the sum of a sequence. *)
LEMMA TotalIsSum ==
  ASSUME NEW n \in Nat, NEW s \in [1..n -> Int], NEW p, SumsOf(p, s, n)
  PROVE  Total(s) = p[n]
<1>1. PICK g : Unfolds(g, s, n) /\ Total(s) = g[1..n]
  BY TotalUnfolds
<1> DEFINE S == {m \in 0..n : g[1..m] = p[m]}
<1>2. 0 \in S
  <2>1. 1..0 = {} /\ {} \in SUBSET (1..n)
    OBVIOUS
  <2>2. g[{}] = 0 /\ p[0] = 0
    BY <2>1, <1>1 DEF Unfolds, SumsOf
  <2> QED BY <2>1, <2>2
<1>3. ASSUME NEW m \in 1..n, m - 1 \in S PROVE m \in S
  <2>1. 1..m \in SUBSET (1..n) /\ 1..m \in SUBSET (1..m) /\ 1..m # {} /\ m \in Nat
    OBVIOUS
  <2>2. Max(1..m) \in 1..m /\ \A y \in 1..m : Max(1..m) >= y
    BY <2>1, MaxOfPart
  <2>3. Max(1..m) = m
    BY <2>2
  <2>4. (1..m) \ {m} = 1..(m - 1)
    OBVIOUS
  <2>5. g[1..m] = g[1..(m - 1)] + s[m]
    BY <1>1, <2>1, <2>3, <2>4 DEF Unfolds
  <2>6. p[m] = p[m - 1] + s[m]
    BY DEF SumsOf
  <2> QED BY <2>5, <2>6, <1>3
<1> HIDE DEF S
<1>4. \A m \in 0..n : m \in S
  BY <1>2, <1>3, BoundedInduction
<1> QED BY <1>1, <1>4 DEF S

(* The total of a part is the difference of two sums of first numbers. *)
LEMMA TotalOfPart ==
  ASSUME NEW bytes \in Seq(Int), NEW p, SumsOf(p, bytes, Len(bytes)),
         NEW a \in 0..Len(bytes), NEW b \in a..Len(bytes)
  PROVE  Total(SubSeq(bytes, a + 1, b)) = p[b] - p[a]
<1> DEFINE s == SubSeq(bytes, a + 1, b)
           q == [j \in 0..(b - a) |-> p[a + j] - p[a]]
<1>1. Len(bytes) \in Nat /\ a \in Nat /\ b \in Nat /\ b - a \in Nat
  OBVIOUS
<1>2. s \in [1..(b - a) -> Int] /\ \A j \in 1..(b - a) : s[j] = bytes[a + j]
  <2>1. \A i \in (a + 1)..b : bytes[i] \in Int
    OBVIOUS
  <2>2. a + 1 \in Int /\ b \in Int
    BY <1>1
  <2>3. /\ s \in Seq(Int) /\ Len(s) = IF a + 1 <= b THEN b - (a + 1) + 1 ELSE 0
        /\ \A j \in 1..(b - (a + 1) + 1) : s[j] = bytes[a + 1 + j - 1]
    <3> HIDE DEF q
    <3> QED BY <2>1, <2>2, SubSeqProperties
  <2>4. Len(s) = b - a /\ b - (a + 1) + 1 = b - a
    BY <1>1, <2>3
  <2>5. \A j \in 1..(b - a) : a + 1 + j - 1 = a + j
    BY <1>1
  <2>6. s \in [1..Len(s) -> Int]
    <3> HIDE DEF s
    <3> QED BY <2>3, LenProperties
  <2> HIDE DEF s
  <2> QED BY <2>3, <2>4, <2>5, <2>6
<1>3. /\ p \in [0..Len(bytes) -> Int]
      /\ \A j \in 1..Len(bytes) : p[j] = p[j - 1] + bytes[j]
  BY DEF SumsOf
<1>4. \A j \in 0..(b - a) : a + j \in 0..Len(bytes) /\ q[j] = p[a + j] - p[a]
  BY <1>1
<1> HIDE DEF s, q
<1>5. q \in [0..(b - a) -> Int]
  <2>1. ASSUME NEW j \in 0..(b - a) PROVE p[a + j] - p[a] \in Int
    <3>1. p[a + j] \in Int /\ p[a] \in Int
      BY <1>1, <1>3, <1>4
    <3> QED BY <3>1
  <2> QED BY <2>1 DEF q
<1>6. q[0] = 0
  <2>1. 0 \in 0..(b - a) /\ a + 0 = a
    BY <1>1
  <2>2. p[a] \in Int
    BY <1>3
  <2> QED BY <2>1, <2>2, <1>4
<1>7. ASSUME NEW j \in 1..(b - a) PROVE q[j] = q[j - 1] + s[j]
  <2>1. /\ a + j \in 1..Len(bytes) /\ a + (j - 1) = (a + j) - 1 /\ a + (j - 1) \in 0..Len(bytes)
        /\ j \in 0..(b - a) /\ j - 1 \in 0..(b - a)
    BY <1>1
  <2>2. p[a + j] = p[(a + j) - 1] + bytes[a + j] /\ s[j] = bytes[a + j]
    BY <2>1, <1>2, <1>3
  <2>3. a + j \in 0..Len(bytes)
    BY <2>1, <1>1
  <2>4. p[a] \in Int /\ p[a + j] \in Int /\ p[a + (j - 1)] \in Int
    BY <2>1, <2>3, <1>3
  <2>5. s[j] \in Int
    BY <1>2
  <2>6. q[j] = p[a + j] - p[a] /\ q[j - 1] = p[a + (j - 1)] - p[a]
    BY <2>1, <1>4
  <2>7. p[a + j] = p[a + (j - 1)] + s[j]
    BY <2>1, <2>2
  <2> QED BY <2>4, <2>5, <2>6, <2>7
<1>8. SumsOf(q, s, b - a)
  BY <1>5, <1>6, <1>7 DEF SumsOf
<1>9. Total(s) = q[b - a]
  BY <1>1, <1>2, <1>8, TotalIsSum
<1>10. q[b - a] = p[b] - p[a]
  <2>1. b - a \in 0..(b - a) /\ a + (b - a) = b
    BY <1>1
  <2> QED BY <2>1, <1>4
<1> QED BY <1>9, <1>10 DEF s

(* The sum in parts is the sum. *)
LEMMA SumIs ==
  ASSUME NEW bytes \in Seq(Int), NEW p, SumsOf(p, bytes, Len(bytes))
  PROVE  Sum(bytes) = p[Len(bytes)]
<1> DEFINE n == Len(bytes)
           k == (n + 15) \div 16
           End(i) == IF 16 * i < n THEN 16 * i ELSE n
           w == [i \in 1..k |-> Total(SubSeq(bytes, 16 * i - 15, End(i)))]
           r == [i \in 0..k |-> p[End(i)]]
<1>1. n \in Nat /\ k \in Nat /\ 16 * k >= n /\ 16 * k <= n + 15
  BY SMTT(30)
<1>2. Sum(bytes) = Total(w)
  BY Zenon DEF Sum
<1>3. p \in [0..n -> Int] /\ p[0] = 0
  BY DEF SumsOf
<1>4. ASSUME NEW i \in 1..k
      PROVE  /\ 16 * i - 16 \in 0..n /\ End(i) \in (16 * i - 16)..n
             /\ End(i - 1) = 16 * i - 16 /\ (16 * i - 16) + 1 = 16 * i - 15
  BY <1>1
<1>5. \A i \in 0..k : r[i] = p[End(i)] /\ End(i) \in 0..n
  BY <1>1
<1>6. ASSUME NEW i \in 1..k PROVE r[i] = r[i - 1] + w[i] /\ w[i] \in Int
  <2>1. w[i] = Total(SubSeq(bytes, 16 * i - 15, End(i)))
    <3> HIDE DEF End
    <3> QED OBVIOUS
  <2>2. Total(SubSeq(bytes, (16 * i - 16) + 1, End(i))) = p[End(i)] - p[16 * i - 16]
    <3> HIDE DEF End
    <3> QED BY <1>4, TotalOfPart
  <2>3. i \in 0..k /\ i - 1 \in 0..k
    BY <1>1
  <2>4. r[i] = p[End(i)] /\ r[i - 1] = p[16 * i - 16]
    BY <2>3, <1>4, <1>5
  <2>5. p[End(i)] \in Int /\ p[16 * i - 16] \in Int
    BY <1>3, <1>4, <1>5, <2>3
  <2>6. (16 * i - 16) + 1 = 16 * i - 15
    BY <1>4
  <2> HIDE DEF End, r, w
  <2>7. w[i] = p[End(i)] - p[16 * i - 16]
    BY <2>1, <2>2, <2>6
  <2> QED BY <2>4, <2>5, <2>7
<1>7. r \in [0..k -> Int] /\ w \in [1..k -> Int]
  <2>1. \A i \in 0..k : p[End(i)] \in Int
    BY <1>3, <1>5
  <2>2. \A i \in 1..k : w[i] \in Int
    BY <1>6
  <2>3. w = [i \in 1..k |-> w[i]]
    <3> HIDE DEF End, k
    <3> QED OBVIOUS
  <2> HIDE DEF End, w
  <2> QED BY <2>1, <2>2, <2>3
<1>8. r[0] = 0
  BY <1>1, <1>3, <1>5
<1>9. Total(w) = r[k]
  <2> HIDE DEF r, w, k
  <2>1. SumsOf(r, w, k)
    BY <1>6, <1>7, <1>8 DEF SumsOf
  <2> QED BY <2>1, <1>1, <1>7, TotalIsSum
<1>10. r[k] = p[n]
  <2>1. End(k) = n /\ k \in 0..k
    BY <1>1
  <2> QED BY <2>1, <1>5
<1> QED BY <1>2, <1>9, <1>10

(* A byte, without the interval. *)
LEMMA ByteIs ==
  ASSUME NEW b
  PROVE  b \in Byte <=> b \in Int /\ 0 <= b /\ b <= 255
BY SMTT(60) DEF Byte

(* The sum of bytes is bounded, and a leading zero adds nothing. *)
LEMMA SumOfBytes ==
  ASSUME NEW bytes \in Seq(Byte)
  PROVE  /\ Sum(bytes) \in Nat /\ Sum(bytes) <= 255 * Len(bytes)
         /\ Sum(<<0>> \o bytes) = Sum(bytes)
<1> DEFINE n == Len(bytes)
           z == <<0>> \o bytes
<1>1. /\ n \in Nat /\ \A i \in 1..n : bytes[i] \in Int /\ bytes[i] >= 0 /\ bytes[i] <= 255
      /\ bytes = [i \in 1..n |-> bytes[i]]
  <2>1. n \in Nat /\ bytes \in [1..n -> Byte]
    BY LenProperties
  <2>2. \A i \in 1..n : bytes[i] \in Byte
    BY <2>1
  <2>3. ASSUME NEW i \in 1..n PROVE bytes[i] \in Int /\ bytes[i] >= 0 /\ bytes[i] <= 255
    BY <2>2, ByteIs
  <2>4. bytes = [i \in 1..n |-> bytes[i]]
    BY <2>1
  <2> HIDE DEF n
  <2> QED BY <2>1, <2>3, <2>4
<1>2. bytes \in Seq(Int) /\ bytes \in [1..n -> Int]
  <2>1. Byte \subseteq Int
    BY ByteIs
  <2> QED BY <1>1, <2>1, SeqMonotonic
<1>3. PICK p : SumsOf(p, bytes, n)
  BY <1>1, <1>2, SumsExist
<1>4. Sum(bytes) = p[n]
  BY <1>2, <1>3, SumIs
<1>5. /\ p \in [0..n -> Int] /\ p[0] = 0 /\ \A i \in 1..n : p[i] = p[i - 1] + bytes[i]
  BY <1>3 DEF SumsOf
<1>6. z \in Seq(Int) /\ Len(z) = n + 1 /\ z[1] = 0 /\ \A i \in 2..(n + 1) : z[i] = bytes[i - 1]
  BY <1>2
<1> DEFINE S == {m \in 0..n : p[m] >= 0 /\ p[m] <= 255 * m}
           q == [i \in 0..(n + 1) |-> IF i = 0 THEN 0 ELSE p[i - 1]]
<1> HIDE DEF n, z
<1>7. 0 \in S
  BY <1>1, <1>5
<1>8. ASSUME NEW m \in 1..n, m - 1 \in S PROVE m \in S
  <2>1. /\ p[m] = p[m - 1] + bytes[m] /\ bytes[m] \in Int /\ bytes[m] >= 0 /\ bytes[m] <= 255
        /\ p[m - 1] >= 0 /\ p[m - 1] <= 255 * (m - 1)
        /\ m \in 0..n /\ m - 1 \in 0..n /\ p[m - 1] \in Int
    BY <1>1, <1>5, <1>8
  <2> QED BY <2>1
<1>9. p[n] >= 0 /\ p[n] <= 255 * n /\ p[n] \in Int
  <2> HIDE DEF S
  <2>1. \A m \in 0..n : m \in S
    BY <1>1, <1>7, <1>8, BoundedInduction
  <2>2. n \in 0..n
    BY <1>1
  <2> QED BY <1>5, <2>1, <2>2 DEF S
<1>10. q \in [0..(n + 1) -> Int] /\ q[0] = 0 /\ q[n + 1] = p[n]
  BY <1>1, <1>5
<1>11. ASSUME NEW i \in 1..(n + 1) PROVE q[i] = q[i - 1] + z[i]
  <2>1. CASE i = 1
    BY <2>1, <1>1, <1>5, <1>6
  <2>2. CASE i # 1
    <3>1. i - 1 \in 1..n /\ q[i] = p[i - 1] /\ q[i - 1] = p[i - 1 - 1]
      BY <2>2, <1>1
    <3>2. p[i - 1] = p[i - 1 - 1] + bytes[i - 1]
      BY <3>1, <1>5
    <3>3. z[i] = bytes[i - 1]
      <4>1. i \in 2..(n + 1)
        BY <2>2, <1>1
      <4> QED BY <4>1, <1>6
    <3> QED BY <3>1, <3>2, <3>3
  <2> QED BY <2>1, <2>2
<1>12. Sum(z) = q[n + 1]
  <2> HIDE DEF q
  <2>1. SumsOf(q, z, Len(z))
    BY <1>6, <1>10, <1>11 DEF SumsOf
  <2> QED BY <1>6, <2>1, SumIs
<1> QED BY <1>1, <1>4, <1>9, <1>10, <1>12 DEF n, z

-----------------------------------------------------------------------------
(* Frames *)

(* f is s and then t. *)
JoinOf(f, s, t) ==
  /\ f \in Seq(Byte) /\ Len(f) = Len(s) + Len(t)
  /\ \A i \in 1..Len(s) : f[i] = s[i]
  /\ \A i \in 1..Len(t) : f[Len(s) + i] = t[i]

(* What a concatenation has where. *)
LEMMA Joined ==
  ASSUME NEW s, NEW t, s \in Seq(Byte), t \in Seq(Byte)
  PROVE  JoinOf(s \o t, s, t)
<1> DEFINE f == s \o t
<1>1. /\ f \in Seq(Byte) /\ Len(f) = Len(s) + Len(t)
      /\ \A i \in 1..(Len(s) + Len(t)) : f[i] = IF i <= Len(s) THEN s[i] ELSE t[i - Len(s)]
  BY ConcatProperties
<1>2. Len(s) \in Nat /\ Len(t) \in Nat
  OBVIOUS
<1>3. ASSUME NEW i \in 1..Len(s) PROVE f[i] = s[i]
  <2>1. i \in 1..(Len(s) + Len(t)) /\ i <= Len(s)
    BY <1>2
  <2> HIDE DEF f
  <2> QED BY <1>1, <2>1, Zenon
<1>4. ASSUME NEW i \in 1..Len(t) PROVE f[Len(s) + i] = t[i]
  <2>1. /\ Len(s) + i \in 1..(Len(s) + Len(t)) /\ ~(Len(s) + i <= Len(s))
        /\ (Len(s) + i) - Len(s) = i
    BY <1>2
  <2> HIDE DEF f
  <2> QED BY <1>1, <2>1, Zenon
<1> QED BY <1>1, <1>3, <1>4, Zenon DEF JoinOf

(* A number of 16 bits, and what is left of a number in them. *)
LEMMA ShortIs ==
  ASSUME NEW n
  PROVE  n \in Short <=> n \in Int /\ 0 <= n /\ n <= 65535
<1>1. Top = 65535
  BY SMT DEF Top
<1>2. Top \in Int
  BY SMT DEF Top
<1>3. n \in Short <=> n \in Int /\ 0 <= n /\ n <= Top
  BY <1>2, SMT DEF Short
<1> QED BY <1>1, <1>3, SMT

(* A cut to 16 bits is one of 16 bits. *)
LEMMA CutToShort ==
  ASSUME NEW n \in Int
  PROVE  U16(n) \in Short
<1>1. n % 65536 \in Int /\ 0 <= n % 65536 /\ n % 65536 <= 65535
  OBVIOUS
<1> QED BY <1>1, ShortIs DEF U16

(* Sequences that are written out. *)
LEMMA OneOf ==
  ASSUME NEW a \in Byte
  PROVE  <<a>> \in Seq(Byte) /\ Len(<<a>>) = 1 /\ <<a>>[1] = a /\ Len(<<a>>) \in Short
<1>1. Len(<<a>>) = 1 /\ 1 \in Short
  BY ShortIs
<1>2. <<a>> \in Seq(Byte) /\ <<a>>[1] = a
  OBVIOUS
<1> QED BY <1>1, <1>2

(* Two bytes, written out. *)
LEMMA TwoOf ==
  ASSUME NEW a \in Byte, NEW b \in Byte
  PROVE  <<a>> \o <<b>> = <<a, b>>
<1> DEFINE s == <<a>> \o <<b>>
           t == <<a>>
           u == <<b>>
<1>1. /\ t \in Seq(Byte) /\ Len(t) = 1 /\ u \in Seq(Byte) /\ Len(u) = 1
      /\ t[1] = a /\ u[1] = b
  OBVIOUS
<1>2. JoinOf(s, t, u)
  BY <1>1, Joined
<1> HIDE DEF s, t, u
<1>3. s \in Seq(Byte) /\ Len(s) = 2 /\ s[1] = a /\ s[2] = b
  <2>1. 1 \in 1..1 /\ 1 + 1 = 2
    OBVIOUS
  <2>2. s[1] = t[1] /\ s[1 + 1] = u[1]
    BY <1>1, <1>2, <2>1 DEF JoinOf
  <2> QED BY <1>1, <1>2, <2>1, <2>2 DEF JoinOf
<1>4. s = <<s[1], s[2]>>
  BY <1>3
<1> QED BY <1>3, <1>4 DEF s

(* Four bytes, written out. *)
LEMMA FourOf ==
  ASSUME NEW a \in Byte, NEW b \in Byte, NEW c \in Byte, NEW d \in Byte
  PROVE  <<a>> \o <<b, c, d>> = <<a, b, c, d>>
<1> DEFINE s == <<a>> \o <<b, c, d>>
           u == <<b, c, d>>
<1>1. /\ <<a>> \in Seq(Byte) /\ Len(<<a>>) = 1 /\ u \in Seq(Byte) /\ Len(u) = 3
      /\ <<a>>[1] = a /\ u[1] = b /\ u[2] = c /\ u[3] = d
  OBVIOUS
<1>2. JoinOf(s, <<a>>, u)
  BY <1>1, Joined
<1> HIDE DEF s, u
<1>3. s \in Seq(Byte) /\ Len(s) = 4 /\ s[1] = a /\ s[2] = b /\ s[3] = c /\ s[4] = d
  <2>1. /\ 1 \in 1..1 /\ 1 \in 1..3 /\ 2 \in 1..3 /\ 3 \in 1..3
        /\ 1 + 1 = 2 /\ 1 + 2 = 3 /\ 1 + 3 = 4
    OBVIOUS
  <2>2. s[1] = <<a>>[1] /\ s[1 + 1] = u[1] /\ s[1 + 2] = u[2] /\ s[1 + 3] = u[3]
    BY <1>1, <1>2, <2>1 DEF JoinOf
  <2> QED BY <1>1, <1>2, <2>1, <2>2 DEF JoinOf
<1>4. s = <<s[1], s[2], s[3], s[4]>>
  BY <1>3
<1> QED BY <1>3, <1>4 DEF s, u

(* f is body between a header and a checksum. *)
FrameOf(f, body, sum) ==
  /\ f \in Seq(Byte) /\ Len(f) = Len(body) + 3
  /\ f[1] = 170 /\ f[Len(f) - 1] = sum /\ f[Len(f)] = 221
  /\ \A i \in 1..Len(body) : f[i + 1] = body[i]
  /\ SubSeq(f, 2, Len(f) - 2) = body

(* What a frame has where, for any body and sum. *)
LEMMA Framed ==
  ASSUME NEW body, NEW sum, body \in Seq(Byte), sum \in Byte
  PROVE  FrameOf(<<170>> \o body \o <<sum, 221>>, body, sum)
<1> DEFINE h == <<170>>
           b == h \o body
           e == <<sum, 221>>
           f == b \o e
           n == Len(body)
<1>1. /\ h \in Seq(Byte) /\ Len(h) = 1 /\ h[1] = 170
      /\ e \in Seq(Byte) /\ Len(e) = 2 /\ e[1] = sum /\ e[2] = 221
  BY ByteIs
<1> HIDE DEF h, e
<1>2. n \in Nat
  OBVIOUS
<1>3. JoinOf(b, h, body)
  BY <1>1, Joined
<1> HIDE DEF b
<1>a. b \in Seq(Byte)
  BY <1>3 DEF JoinOf
<1>4. JoinOf(f, b, e)
  BY <1>1, <1>a, Joined
<1> HIDE DEF f, n
<1>5. b \in Seq(Byte) /\ Len(b) = 1 + n /\ b[1] = 170 /\ \A i \in 1..n : b[1 + i] = body[i]
  <2>1. 1 \in 1..1
    OBVIOUS
  <2> QED BY <1>1, <1>3, <2>1 DEF JoinOf, n
<1>6. /\ f \in Seq(Byte) /\ Len(f) = n + 3
      /\ \A i \in 1..(1 + n) : f[i] = b[i]
      /\ f[n + 2] = sum /\ f[n + 3] = 221
  <2>1. f \in Seq(Byte) /\ Len(f) = (1 + n) + 2 /\ \A i \in 1..(1 + n) : f[i] = b[i]
    BY <1>1, <1>4, <1>5 DEF JoinOf
  <2>2. 1 \in 1..2 /\ 2 \in 1..2 /\ (1 + n) + 1 = n + 2 /\ (1 + n) + 2 = n + 3
    BY <1>2
  <2>3. f[(1 + n) + 1] = sum /\ f[(1 + n) + 2] = 221
    BY <1>1, <1>4, <1>5, <2>2 DEF JoinOf
  <2> QED BY <2>1, <2>2, <2>3
<1>7. ASSUME NEW i \in 1..n PROVE f[i + 1] = body[i]
  <2>1. i + 1 \in 1..(1 + n) /\ i + 1 = 1 + i
    BY <1>2
  <2> QED BY <2>1, <1>5, <1>6
<1>8. SubSeq(f, 2, n + 1) = body
  <2>1. \A i \in 2..(n + 1) : f[i] \in Byte
    <3>1. \A i \in 2..(n + 1) : i \in 1..Len(f)
      BY <1>2, <1>6
    <3> QED BY <3>1, <1>6, ElementOfSeq
  <2>2. /\ SubSeq(f, 2, n + 1) \in Seq(Byte)
        /\ Len(SubSeq(f, 2, n + 1)) = IF 2 <= n + 1 THEN (n + 1) - 2 + 1 ELSE 0
        /\ \A i \in 1..((n + 1) - 2 + 1) : SubSeq(f, 2, n + 1)[i] = f[2 + i - 1]
    BY <1>2, <2>1, SubSeqProperties
  <2>3. Len(SubSeq(f, 2, n + 1)) = n /\ (n + 1) - 2 + 1 = n
    BY <1>2, <2>2
  <2>4. \A i \in 1..n : SubSeq(f, 2, n + 1)[i] = body[i]
    <3>1. \A i \in 1..n : 2 + i - 1 = i + 1
      BY <1>2
    <3> QED BY <3>1, <2>2, <2>3, <1>7
  <2> QED BY <2>2, <2>3, <2>4, SeqEqual DEF n
<1>9. f[1] = 170
  <2>1. 1 \in 1..(1 + n)
    BY <1>2
  <2> QED BY <2>1, <1>5, <1>6
<1>10. Len(f) - 2 = n + 1 /\ Len(f) - 1 = n + 2
  BY <1>2, <1>6
<1>11. FrameOf(f, body, sum)
  BY <1>6, <1>7, <1>8, <1>9, <1>10 DEF FrameOf, n
<1> QED BY <1>11 DEF f, b, h, e

(* Four bytes in front of some data. *)
LEMMA Headed ==
  ASSUME NEW a \in Byte, NEW b \in Byte, NEW c \in Byte, NEW d \in Byte,
         NEW data, data \in Seq(Byte)
  PROVE  LET s == <<a, b, c, d>> \o data IN
         /\ s \in Seq(Byte) /\ Len(s) = Len(data) + 4
         /\ s[1] = a /\ s[2] = b /\ s[3] = c /\ s[4] = d
         /\ \A i \in 1..Len(data) : s[i + 4] = data[i]
<1> DEFINE h == <<a, b, c, d>>
           s == h \o data
<1>1. h \in Seq(Byte) /\ Len(h) = 4 /\ h[1] = a /\ h[2] = b /\ h[3] = c /\ h[4] = d
  OBVIOUS
<1> HIDE DEF h
<1>2. JoinOf(s, h, data)
  BY <1>1, Joined
<1> HIDE DEF s
<1>3. Len(data) \in Nat
  OBVIOUS
<1>4. 1 \in 1..4 /\ 2 \in 1..4 /\ 3 \in 1..4 /\ 4 \in 1..4
  OBVIOUS
<1>5. \A i \in 1..Len(data) : 4 + i = i + 4
  BY <1>3
<1>6. /\ s \in Seq(Byte) /\ Len(s) = Len(data) + 4
      /\ s[1] = a /\ s[2] = b /\ s[3] = c /\ s[4] = d
      /\ \A i \in 1..Len(data) : s[i + 4] = data[i]
  BY <1>1, <1>2, <1>3, <1>4, <1>5 DEF JoinOf
<1> QED BY <1>6 DEF s, h

(* The low byte of a sum is the same with and without the cut to u16. *)
LEMMA LowByte ==
  ASSUME NEW n \in Nat
  PROVE  U16(n) % 256 = n % 256 /\ n % 256 \in Byte
<1>1. n % 256 \in 0..255
  OBVIOUS
<1>2. (n % 65536) % 256 = n % 256
  BY SMTT(60)
<1> QED BY <1>1, <1>2, ByteIs DEF U16

(* The two bytes of a u16, and the u16 of them. *)
LEMMA SplitWord ==
  ASSUME NEW n \in Short
  PROVE  /\ n \div 256 \in Byte /\ n % 256 \in Byte
         /\ 256 * (n \div 256) + (n % 256) = n /\ U16(n) = n
<1>0. n \in Int /\ n >= 0 /\ n <= 65535
  BY ShortIs
<1>1. n % 256 \in 0..255
  BY <1>0
<1>2. 256 * (n \div 256) + (n % 256) = n
  BY <1>0, SMTT(60)
<1>3. n % 65536 = n
  BY <1>0, SMTT(60)
<1>4. n \div 256 \in 0..255
  BY <1>0, SMTT(60)
<1> QED BY <1>1, <1>2, <1>3, <1>4, ByteIs DEF U16

(* The checksum of a body is that of Frame, of Packet and of the reader.   *)
LEMMA Checksums ==
  ASSUME NEW body \in Seq(Byte)
  PROVE  /\ Checksum(body) \in Byte
         /\ Checksum(body) = Sum(body) % 256
         /\ Checksum(body) = Sum(<<0>> \o body) % 256
         /\ Overflows(body) => Len(body) > 257
<1>1. /\ Sum(body) \in Nat /\ Sum(body) <= 255 * Len(body)
      /\ Sum(<<0>> \o body) = Sum(body)
  BY SumOfBytes
<1>2. U16(Sum(body)) % 256 = Sum(body) % 256 /\ Sum(body) % 256 \in Byte
  BY <1>1, LowByte
<1>3. Sum(body) >= 65536 => Len(body) > 257
  BY <1>1
<1> QED BY <1>1, <1>2, <1>3 DEF Checksum, Overflows

-----------------------------------------------------------------------------
(* The packets of a read *)

(* The beginnings of what is picked. *)
PicksOf(f, s, T, m) ==
  /\ f = [i \in 0..m |-> f[i]]
  /\ f[0] = <<>>
  /\ \A i \in 1..m : f[i] = IF i \in T THEN Append(f[i - 1], s[i]) ELSE f[i - 1]

(* The function by which Pick is defined. *)
LEMMA PicksExist ==
  ASSUME NEW s, NEW T, Len(s) \in Nat
  PROVE  \E f : PicksOf(f, s, T, Len(s)) /\ Pick(s, T) = f[Len(s)]
<1> DEFINE n == Len(s)
           S == {m \in 0..n : \E f : PicksOf(f, s, T, m)}
           F(f) == [i \in 0..n |->
                      IF i = 0 THEN <<>> ELSE IF i \in T THEN Append(f[i - 1], s[i]) ELSE f[i - 1]]
           h == CHOOSE f : f = F(f)
<1>1. 0 \in S
  <2> DEFINE e == [i \in 0..0 |-> <<>>]
  <2>1. e[0] = <<>> /\ e = [i \in 0..0 |-> e[i]] /\ 1..0 = {}
    OBVIOUS
  <2> HIDE DEF e
  <2>2. PicksOf(e, s, T, 0)
    BY <2>1 DEF PicksOf
  <2> QED BY <2>2
<1>2. ASSUME NEW m \in 1..n, m - 1 \in S PROVE m \in S
  <2>1. PICK p : PicksOf(p, s, T, m - 1)
    BY <1>2
  <2> DEFINE q == [i \in 0..m |-> IF i = m THEN IF m \in T THEN Append(p[m - 1], s[m]) ELSE p[m - 1]
                                  ELSE p[i]]
  <2>2. q[0] = <<>> /\ q = [i \in 0..m |-> q[i]]
    BY <2>1 DEF PicksOf
  <2>3. \A i \in 0..(m - 1) : q[i] = p[i]
    OBVIOUS
  <2>4. q[m] = IF m \in T THEN Append(p[m - 1], s[m]) ELSE p[m - 1]
    OBVIOUS
  <2> HIDE DEF q
  <2>5. ASSUME NEW i \in 1..m
        PROVE  q[i] = IF i \in T THEN Append(q[i - 1], s[i]) ELSE q[i - 1]
    <3>1. CASE i = m
      BY <3>1, <2>3, <2>4
    <3>2. CASE i # m
      <4>1. i \in 1..(m - 1) /\ i \in 0..(m - 1) /\ i - 1 \in 0..(m - 1)
        BY <3>2
      <4> QED BY <4>1, <2>1, <2>3 DEF PicksOf
    <3> QED BY <3>1, <3>2
  <2>6. PicksOf(q, s, T, m)
    BY <2>2, <2>5 DEF PicksOf
  <2> QED BY <2>6
<1>3. \A m \in 0..n : m \in S
  <2> HIDE DEF S
  <2> QED BY <1>1, <1>2, BoundedInduction
<1>4. PICK p : PicksOf(p, s, T, n)
  <2>1. n \in S
    <3> HIDE DEF S
    <3> QED BY <1>3
  <2> QED BY <2>1
<1>5. p = F(p)
  <2>1. p = [i \in 0..n |-> p[i]]
    BY <1>4 DEF PicksOf
  <2>2. ASSUME NEW i \in 0..n
        PROVE  p[i] = IF i = 0 THEN <<>>
                      ELSE IF i \in T THEN Append(p[i - 1], s[i]) ELSE p[i - 1]
    <3>1. i = 0 \/ i \in 1..n
      OBVIOUS
    <3> QED BY <3>1, <1>4 DEF PicksOf
  <2> QED BY <2>1, <2>2
<1>6. h = F(h)
  <2> HIDE DEF F
  <2> QED BY <1>5
<1>7. Pick(s, T) = h[n]
  BY Zenon DEF Pick
<1>8. PicksOf(h, s, T, n)
  <2> HIDE DEF h
  <2>1. \A i \in 0..n : h[i] = IF i = 0 THEN <<>>
                               ELSE IF i \in T THEN Append(h[i - 1], s[i]) ELSE h[i - 1]
    BY <1>6
  <2>2. h[0] = <<>>
    BY <2>1
  <2>3. ASSUME NEW i \in 1..n
        PROVE  h[i] = IF i \in T THEN Append(h[i - 1], s[i]) ELSE h[i - 1]
    <3>1. i \in 0..n /\ i # 0
      OBVIOUS
    <3> QED BY <3>1, <2>1
  <2>4. h = [i \in 0..n |-> h[i]]
    BY <1>6
  <2> QED BY <2>2, <2>3, <2>4 DEF PicksOf
<1> QED BY <1>7, <1>8

(* Who picks all gets all. *)
LEMMA PickAll ==
  ASSUME NEW V, NEW s, s \in Seq(V)
  PROVE  Pick(s, 1..Len(s)) = s
<1>1. Len(s) \in Nat /\ \A i \in 1..Len(s) : s[i] \in V
  OBVIOUS
<1>2. PICK f : PicksOf(f, s, 1..Len(s), Len(s)) /\ Pick(s, 1..Len(s)) = f[Len(s)]
  BY <1>1, PicksExist
<1> DEFINE n == Len(s)
           S == {m \in 0..n : f[m] \in Seq(V) /\ Len(f[m]) = m /\ \A i \in 1..m : f[m][i] = s[i]}
<1>3. 0 \in S
  <2>1. f[0] = <<>>
    BY <1>2 DEF PicksOf
  <2>2. f[0] \in Seq(V) /\ Len(f[0]) = 0 /\ 0 \in 0..n /\ 1..0 = {}
    BY <2>1, <1>1
  <2> QED BY <2>2
<1>4. ASSUME NEW m \in 1..n, m - 1 \in S PROVE m \in S
  <2>1. f[m] = Append(f[m - 1], s[m]) /\ s[m] \in V
    BY <1>1, <1>2 DEF PicksOf
  <2>2. f[m - 1] \in Seq(V) /\ Len(f[m - 1]) = m - 1 /\ \A i \in 1..(m - 1) : f[m - 1][i] = s[i]
    BY <1>4
  <2>3. /\ f[m] \in Seq(V) /\ Len(f[m]) = (m - 1) + 1
        /\ \A i \in 1..(m - 1) : f[m][i] = f[m - 1][i]
        /\ f[m][(m - 1) + 1] = s[m]
    BY <2>1, <2>2, AppendProperties
  <2>4. (m - 1) + 1 = m /\ \A i \in 1..m : i \in 1..(m - 1) \/ i = m
    OBVIOUS
  <2>5. \A i \in 1..m : f[m][i] = s[i]
    BY <2>2, <2>3, <2>4
  <2> QED BY <2>3, <2>4, <2>5
<1>5. \A m \in 0..n : m \in S
  <2> HIDE DEF S
  <2> QED BY <1>1, <1>3, <1>4, BoundedInduction
<1>6. f[n] \in Seq(V) /\ Len(f[n]) = n /\ \A i \in 1..n : f[n][i] = s[i]
  <2>1. n \in S
    <3> HIDE DEF S
    <3> QED BY <1>1, <1>5
  <2> QED BY <2>1
<1>7. f[n] = s
  <2> HIDE DEF n
  <2> QED BY <1>6, SeqEqual DEF n
<1> QED BY <1>2, <1>7

-----------------------------------------------------------------------------
(* Requests and replies, taken apart *)

(* f is a frame with this code and these parameters. *)
RequestOf(f, code, params) ==
  /\ f \in Seq(Byte) /\ Len(f) = 7 + Len(params)
  /\ f[3] = code
  /\ SubSeq(f, 6, Len(f) - 2) = params
  /\ WellFormed(f, 0) <=> Len(params) \in Short

(* p is a response of the reader with this code and data. *)
ReplyOf(p, code, data) ==
  /\ p \in Seq(Byte) /\ Len(p) = 7 + Len(data) /\ data \in Seq(Byte)
  /\ CommandCode(p) = code /\ Data(p) = data
  /\ IsValid(p)
  /\ Overflows(CheckedPart(p)) => Len(p) > 257

(* The part of a frame behind its head of five bytes. *)
LEMMA Behind ==
  ASSUME NEW f, NEW data, f \in Seq(Byte), data \in Seq(Byte), Len(f) = 7 + Len(data),
         \A i \in 1..Len(data) : f[i + 5] = data[i]
  PROVE  SubSeq(f, 6, 5 + Len(data)) = data
<1> DEFINE n == Len(data)
<1>1. n \in Nat /\ \A i \in 6..(5 + n) : i \in 1..Len(f)
  OBVIOUS
<1>2. \A i \in 6..(5 + n) : f[i] \in Byte
  BY <1>1, ElementOfSeq
<1> HIDE DEF n
<1>3. /\ SubSeq(f, 6, 5 + n) \in Seq(Byte)
      /\ Len(SubSeq(f, 6, 5 + n)) = IF 6 <= 5 + n THEN (5 + n) - 6 + 1 ELSE 0
      /\ \A i \in 1..((5 + n) - 6 + 1) : SubSeq(f, 6, 5 + n)[i] = f[6 + i - 1]
  BY <1>1, <1>2, SubSeqProperties
<1>4. /\ (IF 6 <= 5 + n THEN (5 + n) - 6 + 1 ELSE 0) = n /\ (5 + n) - 6 + 1 = n
      /\ \A i \in 1..n : 6 + i - 1 = i + 5
  BY <1>1
<1>5. \A i \in 1..n : SubSeq(f, 6, 5 + n)[i] = data[i]
  BY <1>3, <1>4 DEF n
<1>6. Len(SubSeq(f, 6, 5 + n)) = n
  BY <1>3, <1>4
<1> QED BY <1>3, <1>5, <1>6, SeqEqual DEF n

(* Frame(c), for parameters of any length. *)
LEMMA FrameParts ==
  ASSUME NEW c, c.name \in DOMAIN Code, c.params \in Seq(Byte)
  PROVE  /\ RequestOf(Frame(c), Code[c.name], c.params)
         /\ Overflows(Summed(c)) => Len(Frame(c)) > 257
<1> DEFINE params == c.params
           n == Len(params)
           code == Code[c.name]
           high == U16(n) \div 256
           low == U16(n) % 256
           body == <<0, code, high, low>> \o params
           tail == Summed(c)
           f == Frame(c)
<1>1. n \in Nat /\ code \in Byte
  <2>1. code \in Int /\ 0 <= code /\ code <= 255
    BY SMT DEF Code
  <2> QED BY <2>1, ByteIs
<1>2. U16(n) \in Short /\ U16(n) \in Int /\ U16(n) <= 65535
  BY <1>1, CutToShort, ShortIs
<1>3. high \in Byte /\ low \in Byte /\ 256 * high + low = U16(n)
  BY <1>2, SplitWord
<1>4. 0 \in Byte
  BY ByteIs
<1> HIDE DEF params, code, high, low
<1>5. /\ body \in Seq(Byte) /\ Len(body) = n + 4
      /\ body[1] = 0 /\ body[2] = code /\ body[3] = high /\ body[4] = low
      /\ \A i \in 1..n : body[i + 4] = params[i]
  BY <1>1, <1>3, <1>4, Headed DEF params
<1>6. tail = <<code, high, low>> \o params
  BY DEF Summed, TwoBytes, code, high, low, params, n
<1>7. params \in Seq(Byte)
  BY DEF params
<1>8. tail \in Seq(Byte) /\ Len(tail) = n + 3 /\ body = <<0>> \o tail
  <2>1. <<code, high, low>> \in Seq(Byte) /\ Len(<<code, high, low>>) = 3
    BY <1>1, <1>3
  <2>2. <<0>> \in Seq(Byte) /\ <<0>> \o <<code, high, low>> = <<0, code, high, low>>
    <3>1. <<0>> \in Seq(Byte)
      BY <1>4
    <3>2. <<0>> \o <<code, high, low>> = <<0, code, high, low>>
      BY <1>1, <1>3, <1>4, FourOf
    <3> QED BY <3>1, <3>2
  <2>3. <<0>> \o (<<code, high, low>> \o params) = (<<0>> \o <<code, high, low>>) \o params
    BY <1>7, <2>1, <2>2, ConcatAssociative
  <2>4. JoinOf(tail, <<code, high, low>>, params)
    BY <1>6, <1>7, <2>1, Joined
  <2>5. body = <<0>> \o tail
    BY <2>2, <2>3, <1>6
  <2> HIDE DEF tail, body, n
  <2>6. tail \in Seq(Byte) /\ Len(tail) = 3 + Len(params)
    BY <2>1, <2>4 DEF JoinOf
  <2>7. 3 + n = n + 3
    BY <1>1
  <2> QED BY <2>5, <2>6, <2>7 DEF n
<1>9. /\ Checksum(tail) \in Byte /\ Checksum(tail) = Sum(body) % 256
      /\ Overflows(tail) => Len(tail) > 257
  BY <1>8, Checksums, ZenonT(60)
<1>10. f = <<170>> \o body \o <<Checksum(tail), 221>>
  <2>1. f = <<170, 0>> \o tail \o <<Checksum(tail), 221>>
    BY DEF Frame
  <2>2. <<170, 0>> \o tail = <<170>> \o body
    <3>1. <<170>> \in Seq(Byte) /\ <<0>> \in Seq(Byte) /\ <<170>> \o <<0>> = <<170, 0>>
      <4>1. 170 \in Byte /\ 0 \in Byte
        BY ByteIs
      <4>2. <<170>> \in Seq(Byte) /\ <<0>> \in Seq(Byte)
        BY <4>1
      <4>3. <<170>> \o <<0>> = <<170, 0>>
        BY <4>1, TwoOf
      <4> QED BY <4>2, <4>3
    <3> HIDE DEF tail, body
    <3>2. (<<170>> \o <<0>>) \o tail = <<170>> \o (<<0>> \o tail)
      BY <1>8, <3>1, ConcatAssociative
    <3> QED BY <3>1, <3>2, <1>8
  <2> QED BY <2>1, <2>2
<1>11. FrameOf(f, body, Checksum(tail))
  <2> HIDE DEF tail, body, f
  <2> QED BY <1>5, <1>9, <1>10, Framed
<1> HIDE DEF f, body, tail
<1>12. /\ f \in Seq(Byte) /\ Len(f) = n + 7 /\ f[1] = 170 /\ f[2] = 0 /\ f[3] = code
       /\ f[4] = high /\ f[5] = low /\ f[Len(f) - 1] = Checksum(tail) /\ f[Len(f)] = 221
       /\ SubSeq(f, 2, Len(f) - 2) = body
  <2>1. /\ f \in Seq(Byte) /\ Len(f) = Len(body) + 3 /\ f[1] = 170
        /\ f[Len(f) - 1] = Checksum(tail) /\ f[Len(f)] = 221
        /\ \A i \in 1..Len(body) : f[i + 1] = body[i]
        /\ SubSeq(f, 2, Len(f) - 2) = body
    BY <1>11 DEF FrameOf
  <2>2. 1 \in 1..Len(body) /\ 2 \in 1..Len(body) /\ 3 \in 1..Len(body) /\ 4 \in 1..Len(body)
    BY <1>1, <1>5
  <2>3. f[1 + 1] = body[1] /\ f[2 + 1] = body[2] /\ f[3 + 1] = body[3] /\ f[4 + 1] = body[4]
    BY <2>1, <2>2
  <2> QED BY <1>1, <1>5, <2>1, <2>3
<1>13. \A i \in 1..n : f[i + 5] = params[i]
  <2>1. ASSUME NEW i \in 1..n PROVE f[i + 5] = params[i]
    <3>1. i + 4 \in 1..Len(body) /\ (i + 4) + 1 = i + 5
      BY <1>1, <1>5
    <3> QED BY <3>1, <1>5, <1>11 DEF FrameOf
  <2> QED BY <2>1
<1>14. SubSeq(f, 6, 5 + n) = params
  <2>1. Len(f) = 7 + Len(params)
    BY <1>1, <1>12
  <2> QED BY <1>7, <1>12, <1>13, <2>1, Behind DEF n
<1>15. 5 + n = Len(f) - 2 /\ n + 7 = 7 + n
  BY <1>1, <1>12
<1>16. WellFormed(f, 0) <=> n \in Short
  <2>1. WellFormed(f, 0) <=> (n + 7 = 7 + 256 * high + low)
    <3>1. Len(f) = n + 7 /\ Len(f) >= 7
      BY <1>1, <1>12
    <3>2. /\ f[1] = 170 /\ f[2] = 0 /\ f[Len(f)] = 221 /\ f[4] = high /\ f[5] = low
          /\ f[Len(f) - 1] = Sum(SubSeq(f, 2, Len(f) - 2)) % 256
      BY <1>9, <1>12
    <3> QED BY <3>1, <3>2 DEF WellFormed
  <2>2. high \in Int /\ low \in Int
    BY <1>3, ByteIs
  <2>3. (n + 7 = 7 + 256 * high + low) <=> (n = U16(n))
    BY <1>1, <1>2, <1>3, <2>2
  <2>4. n \in Short => U16(n) = n
    BY <1>1, SplitWord
  <2> QED BY <1>1, <1>2, <2>1, <2>3, <2>4
<1>17. RequestOf(f, code, params)
  BY <1>12, <1>14, <1>15, <1>16 DEF RequestOf, n
<1>18. Overflows(tail) => Len(f) > 257
  BY <1>1, <1>8, <1>9, <1>12
<1> QED BY <1>17, <1>18 DEF f, code, params, tail

(* Reply(type, code, data), for data that a frame has room for. *)
LEMMA ReplyParts ==
  ASSUME NEW type \in Byte, NEW code \in Byte,
         NEW data, data \in Seq(Byte), Len(data) \in Short
  PROVE  ReplyOf(Reply(type, code, data), code, data)
<1> DEFINE n == Len(data)
           high == n \div 256
           low == n % 256
           body == <<type, code, high, low>> \o data
           p == Reply(type, code, data)
<1>1. n \in Short /\ n \in Nat
  BY ShortIs
<1>2. high \in Byte /\ low \in Byte /\ 256 * high + low = n
  BY <1>1, SplitWord
<1> HIDE DEF high, low
<1>3. /\ body \in Seq(Byte) /\ Len(body) = n + 4
      /\ body[1] = type /\ body[2] = code /\ body[3] = high /\ body[4] = low
      /\ \A i \in 1..n : body[i + 4] = data[i]
  BY <1>2, Headed
<1>4. p = <<170>> \o body \o <<Sum(body) % 256, 221>>
  BY DEF Reply, high, low
<1> HIDE DEF p, body
<1>5. /\ Checksum(body) \in Byte /\ Checksum(body) = Sum(body) % 256
      /\ Overflows(body) => Len(body) > 257
  BY <1>3, Checksums
<1>6. FrameOf(p, body, Checksum(body))
  BY <1>3, <1>4, <1>5, Framed
<1>7. /\ p \in Seq(Byte) /\ Len(p) = n + 7 /\ p[3] = code
      /\ p[4] = high /\ p[5] = low /\ p[Len(p) - 1] = Checksum(body)
      /\ SubSeq(p, 2, Len(p) - 2) = body
  <2>1. /\ p \in Seq(Byte) /\ Len(p) = Len(body) + 3
        /\ p[Len(p) - 1] = Checksum(body)
        /\ \A i \in 1..Len(body) : p[i + 1] = body[i]
        /\ SubSeq(p, 2, Len(p) - 2) = body
    BY <1>6 DEF FrameOf
  <2>2. 2 \in 1..Len(body) /\ 3 \in 1..Len(body) /\ 4 \in 1..Len(body)
    BY <1>1, <1>3
  <2>3. p[2 + 1] = body[2] /\ p[3 + 1] = body[3] /\ p[4 + 1] = body[4]
    BY <2>1, <2>2
  <2> QED BY <1>1, <1>3, <2>1, <2>3
<1>8. \A i \in 1..n : p[i + 5] = data[i]
  <2>1. ASSUME NEW i \in 1..n PROVE p[i + 5] = data[i]
    <3>1. i + 4 \in 1..Len(body) /\ (i + 4) + 1 = i + 5
      BY <1>1, <1>3
    <3> QED BY <3>1, <1>3, <1>6 DEF FrameOf
  <2> QED BY <2>1
<1>9. DataLen(p) = n
  BY <1>2, <1>7 DEF DataLen
<1>10. Len(p) = 7 + n /\ 7 + DataLen(p) = Len(p)
  BY <1>1, <1>7, <1>9
<1>11. Data(p) = data
  BY <1>7, <1>8, <1>9, <1>10, Behind DEF Data
<1>12. CheckedPart(p) = body /\ CommandCode(p) = code
  BY <1>7 DEF CheckedPart, CommandCode
<1>13. IsValid(p)
  BY <1>7, <1>10, <1>12 DEF IsValid
<1>14. Overflows(CheckedPart(p)) => Len(p) > 257
  BY <1>1, <1>3, <1>5, <1>7, <1>12
<1>15. ReplyOf(p, code, data)
  BY <1>7, <1>10, <1>11, <1>12, <1>13, <1>14 DEF ReplyOf
<1> QED BY <1>15 DEF p

-----------------------------------------------------------------------------
(* The invariant *)

(* The request that is the i-th of operation o. *)
IsRequest(o, i, code, params) ==
  \/ o.name = "get_working_area" /\ i = 1 /\ code = 8 /\ params = <<>>
  \/ o.name = "get_working_channel" /\ i = 1 /\ code = 170 /\ params = <<>>
  \/ o.name = "get_working_channel" /\ i = 2 /\ code = 8 /\ params = <<>>
  \/ o.name = "set_working_area" /\ i = 1 /\ code = 7 /\ params = <<AreaCode[o.area]>>
  \/ o.name = "get_transmit_power" /\ i = 1 /\ code = 183 /\ params = <<>>
  \/ o.name = "set_transmission_power" /\ i = 1 /\ code = 182
     /\ params = TwoBytes(PowerUnits(o.power))
  \/ o.name = "single_polling_instruction" /\ i = 1 /\ code = 34 /\ params = <<>>
  \/ o.name = "enable_multiple_polling_instructions" /\ i = 1 /\ code = 39
     /\ params = <<34>> \o TwoBytes(o.times)
  \/ o.name = "stop_multiple_polling_instructions" /\ i = 1 /\ code = 40 /\ params = <<>>
  \/ o.name = "select_tag" /\ i = 1 /\ code = 12 /\ params = SelectParams(ParseHex(o.text))
  \/ o.name = "select_tag" /\ i = 2 /\ code = 18 /\ params = <<2>>
  \/ o.name = "clear_select" /\ i = 1 /\ code = 12 /\ params = <<0, 0, 0, 0, 0, 0, 0, 0>>
  \/ o.name = "clear_select" /\ i = 2 /\ code = 18 /\ params = <<1>>
  \/ o.name = "read_mem" /\ i = 1 /\ code = 57 /\ params = MemoryAt(o) \o TwoBytes(o.length)
  \/ o.name = "write_mem" /\ i = 1 /\ code = 73
     /\ params = MemoryAt(o) \o TwoBytes(U16(Len(ParseHex(o.text)) \div 2)) \o ParseHex(o.text)
  \/ o.name = "kill_tag" /\ i = 1 /\ code = 101 /\ params = o.password
  \/ o.name = "lock_tag" /\ i = 1 /\ code = 130 /\ params = o.password \o o.data

TwoSteps == {"get_working_channel", "select_tag", "clear_select"}

InPairs(m) == \A w \in DOMAIN m : m[w] \in Byte \X Byte

(* The reader and its tags. *)
Device ==
  /\ site \in Sites /\ build \in {"debug", "release"}
  /\ area \in 1..6 /\ channel = 2 /\ power \in Short /\ rounds \in Short /\ mode \in 0..2
  /\ field \subseteq DOMAIN Tags /\ IsFiniteSet(field)
  /\ InPairs(memory)

(* The call that is going on. *)
Call ==
  /\ pc \in {"idle", "send", "sent", "answered"}
  /\ wire \in Seq(Seq(Byte))
  /\ pc = "idle" => step = 1
  /\ pc # "idle" =>
       /\ IsCall(op) /\ step \in 1..Len(Requests(op)) /\ result.status = "none"
       /\ pc \in {"send", "sent"} =>
            refused = <<>> \/ (op.name = "get_working_channel" /\ step = 2)
       /\ op.name = "get_working_channel" /\ step = 2 /\ refused = <<>> => ReplyOf(kept, 170, <<channel>>)

Sent == pc = "sent" => wire = <<Frame(Requests(op)[step])>>

(* The reader refuses, and it is remembered. *)
Refusal ==
  /\ Len(wire) = 1 /\ refused # <<>>
  /\ ReplyOf(wire[1], 255, refused[1]) /\ Len(refused[1]) <= 66

(* A tag answers. *)
BehindHead(p, code, data) ==
  \E head \in Seq(Byte) : Len(head) < 256 /\ ReplyOf(p, code, <<Len(head)>> \o head \o data)

TagTold(code, data) == acted.tag \in DOMAIN Tags /\ BehindHead(wire[1], code, data)

Written ==
  AllDigits(op.text) =>
    /\ \A w \in Place : memory[w] = <<Typed(w, 1), Typed(w, 2)>>
    /\ \A w \in DOMAIN memory \ Place : w \in DOMAIN acted.memory /\ memory[w] = acted.memory[w]

NoticeData(t) == <<Tags[t].rssi>> \o PcOf(t) \o EpcOf(t) \o CrcOf(t)

InventoryTold ==
  IF field = {} THEN Len(wire) = 1 /\ ReplyOf(wire[1], 255, <<21>>)
  ELSE /\ Len(wire) = Cardinality(field)
       /\ \E tags \in [1..Len(wire) -> field] :
            /\ \A i, j \in 1..Len(wire) : tags[i] = tags[j] => i = j
            /\ \A t \in field : \E i \in 1..Len(wire) : tags[i] = t
            /\ \A i \in 1..Len(wire) : ReplyOf(wire[i], 34, NoticeData(tags[i]))

(* The answer that is on the wire. *)
Answer ==
  /\ op.name \notin {"single_polling_instruction", "enable_multiple_polling_instructions"} => Len(wire) = 1
  /\ op.name = "get_working_area" => ReplyOf(wire[1], 8, <<area>>)
  /\ op.name = "get_working_channel" =>
       IF step = 1 THEN ReplyOf(wire[1], 170, <<channel>>) ELSE ReplyOf(wire[1], 8, <<area>>)
  /\ op.name = "set_working_area" => ReplyOf(wire[1], 7, <<0>>) /\ area = AreaCode[op.area]
  /\ op.name = "get_transmit_power" => ReplyOf(wire[1], 183, <<power \div 256, power % 256>>)
  /\ op.name = "set_transmission_power" =>
       ReplyOf(wire[1], 182, <<0>>) /\ power = PowerUnits(op.power)
  /\ op.name = "single_polling_instruction" => InventoryTold
  /\ op.name = "enable_multiple_polling_instructions" => wire = <<>> /\ rounds = op.times
  /\ op.name = "stop_multiple_polling_instructions" => ReplyOf(wire[1], 40, <<0>>) /\ rounds = 0
  /\ op.name \in SelectOps => ReplyOf(wire[1], IF step = 1 THEN 12 ELSE 18, <<0>>)
  /\ op.name = "read_mem" =>
       TagTold(57, Words(acted.tag, op.bank, op.addr, op.length)) /\ memory = acted.memory
  /\ op.name = "write_mem" => TagTold(73, <<0>>) /\ Written
  /\ op.name = "kill_tag" => TagTold(101, <<0>>)
  /\ op.name = "lock_tag" => TagTold(130, <<0>>)

Answered ==
  pc = "answered" =>
    \/ Refusal
    \/ Answer /\ (refused = <<>> \/ (op.name = "get_working_channel" /\ step = 2))

(* What an inventory returned can be selected. *)
Shown ==
  pc = "idle" /\ op.name = "single_polling_instruction" /\ result.status = "Ok" =>
    \A i \in 1..Len(result.val) : result.val[i].epc \in Seq(0..15) /\ Len(result.val[i].epc) = 24

Inv ==
  /\ Device /\ Call /\ Sent /\ Answered /\ Shown
  /\ result.status = "Panic" => pc = "idle"
  /\ PanicsExplained /\ ErrorTold /\ SettingsArrive /\ MemoryAsAsked /\ InventoryFaithful

-----------------------------------------------------------------------------
(* The requests of an operation *)

(* Power is sent in a u16, and is the power asked for or 0.01 dBm less. *)
LEMMA PowerInWord ==
  ASSUME NEW n \in Int
  PROVE  PowerUnits(n) \in Short /\ Clamp(n) - PowerUnits(n) \in {0, 1}
<1>1. CASE n <= 0
  BY <1>1, ShortIs, SMT DEF PowerUnits, Clamp
<1>2. CASE n > 65535
  BY <1>2, ShortIs, SMT DEF PowerUnits, Clamp
<1>3. CASE n > 0 /\ n <= 65535
  <2>1. PowerUnits(n) = IF FallsShort(n) THEN n - 1 ELSE n
    BY <1>3 DEF PowerUnits
  <2>2. Clamp(n) = n
    BY <1>3 DEF Clamp
  <2> QED BY <1>3, <2>1, <2>2, ShortIs, SMT
<1> QED BY <1>1, <1>2, <1>3

(* The bytes of a word. *)
LEMMA WordBytes ==
  ASSUME NEW n \in Short
  PROVE  /\ TwoBytes(n) \in Seq(Byte) /\ Len(TwoBytes(n)) = 2
         /\ 256 * TwoBytes(n)[1] + TwoBytes(n)[2] = n
<1>1. n \div 256 \in Byte /\ n % 256 \in Byte /\ 256 * (n \div 256) + (n % 256) = n
  BY SplitWord
<1> QED BY <1>1 DEF TwoBytes

(* What the text stands for are bytes, two digits each. *)
LEMMA Parsed ==
  ASSUME NEW text, text \in Seq(0..Rest), Len(text) % 2 = 0
  PROVE  /\ ParseHex(text) \in Seq(Byte) /\ 2 * Len(ParseHex(text)) = Len(text)
         /\ \A i \in 1..Len(ParseHex(text)) :
              ParseHex(text)[i] = PairValue(text[2 * i - 1], text[2 * i])
<1> DEFINE n == Len(text) \div 2
           h == ParseHex(text)
<1>1. n \in Nat /\ 2 * n = Len(text) /\ Len(text) \in Nat
  OBVIOUS
<1>2. h = [i \in 1..n |-> PairValue(text[2 * i - 1], text[2 * i])]
  BY DEF ParseHex
<1>3. ASSUME NEW i \in 1..n PROVE PairValue(text[2 * i - 1], text[2 * i]) \in Byte
  <2>1. 2 * i - 1 \in 1..Len(text) /\ 2 * i \in 1..Len(text)
    BY <1>1
  <2>2. text[2 * i - 1] \in 0..Rest /\ text[2 * i] \in 0..Rest
    BY <2>1, ElementOfSeq
  <2>3. ASSUME NEW a \in 0..Rest, NEW b \in 0..Rest PROVE PairValue(a, b) \in Byte
    BY ByteIs DEF PairValue, Rest
  <2> QED BY <2>2, <2>3
<1> HIDE DEF n, h
<1>4. h \in [1..n -> Byte]
  BY <1>2, <1>3
<1>5. h \in Seq(Byte) /\ Len(h) = n
  BY <1>1, <1>4
<1>6. \A i \in 1..n : h[i] = PairValue(text[2 * i - 1], text[2 * i])
  BY <1>2
<1> QED BY <1>1, <1>5, <1>6 DEF h

(* Four bytes are these four. *)
LEMMA FourBytes ==
  ASSUME NEW s, s \in Seq(Byte), Len(s) = 4
  PROVE  /\ s = <<s[1], s[2], s[3], s[4]>>
         /\ s[1] \in Byte /\ s[2] \in Byte /\ s[3] \in Byte /\ s[4] \in Byte
<1>1. s[1] \in Byte /\ s[2] \in Byte /\ s[3] \in Byte /\ s[4] \in Byte
  <2>1. 1 \in 1..Len(s) /\ 2 \in 1..Len(s) /\ 3 \in 1..Len(s) /\ 4 \in 1..Len(s)
    OBVIOUS
  <2> QED BY <2>1, ElementOfSeq
<1> QED BY <1>1

(* The parameters that reads and writes begin with. *)
Addressed(params, o, count, data) ==
  /\ params \in Seq(Byte) /\ Len(params) = 9 + Len(data)
  /\ SubSeq(params, 1, 4) = o.password
  /\ params[5] = o.bank
  /\ 256 * params[6] + params[7] = o.addr
  /\ 256 * params[8] + params[9] = count
  /\ \A i \in 1..Len(data) : params[9 + i] = data[i]

(* The parameters of a read or write are at their places. *)
LEMMA AddressedIs ==
  ASSUME NEW o, NEW count \in Short, NEW data, data \in Seq(Byte),
         o.password \in Seq(Byte), Len(o.password) = 4, o.bank \in Byte, o.addr \in Short
  PROVE  Addressed(MemoryAt(o) \o TwoBytes(count) \o data, o, count, data)
<1> DEFINE p == o.password
           h == <<p[1], p[2], p[3], p[4], o.bank, o.addr \div 256, o.addr % 256,
                  count \div 256, count % 256>>
           s == h \o data
<1>1. /\ o.addr \div 256 \in Byte /\ o.addr % 256 \in Byte
      /\ 256 * (o.addr \div 256) + (o.addr % 256) = o.addr
      /\ count \div 256 \in Byte /\ count % 256 \in Byte
      /\ 256 * (count \div 256) + (count % 256) = count
  BY SplitWord
<1>2. /\ p = <<p[1], p[2], p[3], p[4]>>
      /\ p[1] \in Byte /\ p[2] \in Byte /\ p[3] \in Byte /\ p[4] \in Byte
  BY FourBytes
<1> HIDE DEF p
<1>3. h \in Seq(Byte) /\ Len(h) = 9
  BY <1>1, <1>2
<1>4. MemoryAt(o) \o TwoBytes(count) = h
  <2>1. MemoryAt(o) = p \o <<o.bank>> \o <<o.addr \div 256, o.addr % 256>>
    BY DEF MemoryAt, TwoBytes, p
  <2>2. TwoBytes(count) = <<count \div 256, count % 256>>
    BY DEF TwoBytes
  <2> DEFINE k == <<o.bank>>
             v == <<o.addr \div 256, o.addr % 256>>
             w == <<count \div 256, count % 256>>
             a == p \o k
             b == a \o v
             c == b \o w
  <2>3. /\ p \in Seq(Byte) /\ Len(p) = 4
        /\ k \in Seq(Byte) /\ Len(k) = 1 /\ k[1] = o.bank
        /\ v \in Seq(Byte) /\ Len(v) = 2 /\ v[1] = o.addr \div 256 /\ v[2] = o.addr % 256
        /\ w \in Seq(Byte) /\ Len(w) = 2 /\ w[1] = count \div 256 /\ w[2] = count % 256
    BY <1>1 DEF p
  <2>4. MemoryAt(o) \o TwoBytes(count) = c
    BY <2>1, <2>2
  <2> HIDE DEF k, v, w, h
  <2>5. JoinOf(a, p, k)
    BY <2>3, Joined
  <2> HIDE DEF a
  <2>6. /\ a \in Seq(Byte) /\ Len(a) = 5 /\ \A i \in 1..4 : a[i] = p[i]
        /\ a[5] = k[1]
    <3>1. 1 \in 1..1 /\ 4 + 1 = 5
      OBVIOUS
    <3> QED BY <2>3, <2>5, <3>1 DEF JoinOf
  <2>7. JoinOf(b, a, v)
    BY <2>3, <2>6, Joined
  <2> HIDE DEF b
  <2>8. /\ b \in Seq(Byte) /\ Len(b) = 7 /\ \A i \in 1..5 : b[i] = a[i]
        /\ b[6] = v[1] /\ b[7] = v[2]
    <3>1. 1 \in 1..2 /\ 2 \in 1..2 /\ 5 + 1 = 6 /\ 5 + 2 = 7
      OBVIOUS
    <3> QED BY <2>3, <2>6, <2>7, <3>1 DEF JoinOf
  <2>9. JoinOf(c, b, w)
    BY <2>3, <2>8, Joined
  <2> HIDE DEF c
  <2>10. /\ c \in Seq(Byte) /\ Len(c) = 9 /\ \A i \in 1..7 : c[i] = b[i]
         /\ c[8] = w[1] /\ c[9] = w[2]
    <3>1. 1 \in 1..2 /\ 2 \in 1..2 /\ 7 + 1 = 8 /\ 7 + 2 = 9
      OBVIOUS
    <3> QED BY <2>3, <2>8, <2>9, <3>1 DEF JoinOf
  <2>11. /\ c[1] = p[1] /\ c[2] = p[2] /\ c[3] = p[3] /\ c[4] = p[4] /\ c[5] = k[1]
         /\ c[6] = v[1] /\ c[7] = v[2]
    BY <2>6, <2>8, <2>10
  <2>12. c = <<c[1], c[2], c[3], c[4], c[5], c[6], c[7], c[8], c[9]>>
    BY <2>10
  <2> QED BY <2>3, <2>4, <2>10, <2>11, <2>12, ZenonT(60) DEF h
<1>5. /\ h[1] = p[1] /\ h[2] = p[2] /\ h[3] = p[3] /\ h[4] = p[4] /\ h[5] = o.bank
      /\ h[6] = o.addr \div 256 /\ h[7] = o.addr % 256
      /\ h[8] = count \div 256 /\ h[9] = count % 256
  OBVIOUS
<1> HIDE DEF h
<1>6. JoinOf(s, h, data)
  BY <1>3, Joined
<1> HIDE DEF s
<1>7. /\ s \in Seq(Byte) /\ Len(s) = 9 + Len(data) /\ \A i \in 1..9 : s[i] = h[i]
      /\ \A i \in 1..Len(data) : s[9 + i] = data[i]
  BY <1>3, <1>6 DEF JoinOf
<1>8. SubSeq(s, 1, 4) = p
  <2>1. \A i \in 1..4 : s[i] \in Byte /\ s[i] = p[i]
    BY <1>2, <1>5, <1>7
  <2>2. SubSeq(s, 1, 4) \in Seq(Byte) /\ Len(SubSeq(s, 1, 4)) = 4
        /\ \A i \in 1..4 : SubSeq(s, 1, 4)[i] = s[1 + i - 1]
    BY <2>1, SubSeqProperties
  <2>3. p \in Seq(Byte) /\ Len(p) = 4 /\ \A i \in 1..4 : 1 + i - 1 = i
    BY DEF p
  <2> QED BY <2>1, <2>2, <2>3, SeqEqual
<1>9. Addressed(s, o, count, data)
  <2>1. 5 \in 1..9 /\ 6 \in 1..9 /\ 7 \in 1..9 /\ 8 \in 1..9 /\ 9 \in 1..9
    OBVIOUS
  <2>2. s[5] = o.bank /\ s[6] = h[6] /\ s[7] = h[7] /\ s[8] = h[8] /\ s[9] = h[9]
    BY <1>5, <1>7, <2>1
  <2>3. 256 * s[6] + s[7] = o.addr /\ 256 * s[8] + s[9] = count
    BY <1>1, <1>5, <2>2
  <2> QED BY <1>7, <1>8, <2>2, <2>3 DEF Addressed, p
<1> QED BY <1>4, <1>9 DEF s

(* The requests of an operation, as CASE of its name tells them. *)
LEMMA RequestTable ==
  ASSUME NEW o, IsCall(o), NEW i \in 1..Len(Requests(o))
  PROVE  /\ Requests(o)[i].name \in DOMAIN Code
         /\ IsRequest(o, i, Code[Requests(o)[i].name], Requests(o)[i].params)
         /\ Len(Requests(o)) = IF o.name \in TwoSteps THEN 2 ELSE 1
<1> DEFINE R == Requests(o)
<1>0. o.name \in Operations
  BY DEF IsCall
<1>1. CASE o.name = "get_working_area"
  <2>1. R = <<Cmd("GetWorkingArea", <<>>)>>
    BY <1>1 DEF Requests, SendSelect
  <2> HIDE DEF R
  <2>3. Len(R) = 1
    BY <2>1
  <2>4. /\ R[1].name \in DOMAIN Code /\ Code[R[1].name] = 8
        /\ R[1].params = <<>>
    BY <2>1 DEF Cmd, Code
  <2>6. i = 1 /\ o.name \notin TwoSteps
    BY <1>1, <2>3 DEF R, TwoSteps
  <2>7. IsRequest(o, i, Code[R[i].name], R[i].params)
    BY <1>1, <2>4, <2>6 DEF IsRequest
  <2> QED BY <2>3, <2>4, <2>6, <2>7 DEF R
<1>2. CASE o.name = "get_working_channel"
  <2>1. R = <<Cmd("GetWorkingChannel", <<>>), Cmd("GetWorkingArea", <<>>)>>
    BY <1>2 DEF Requests, SendSelect
  <2> HIDE DEF R
  <2>3. Len(R) = 2
    BY <2>1
  <2>4. /\ R[1].name \in DOMAIN Code /\ Code[R[1].name] = 170
        /\ R[1].params = <<>>
    BY <2>1 DEF Cmd, Code
  <2>5. /\ R[2].name \in DOMAIN Code /\ Code[R[2].name] = 8
        /\ R[2].params = <<>>
    BY <2>1 DEF Cmd, Code
  <2>6. i \in {1, 2} /\ o.name \in TwoSteps
    BY <1>2, <2>3 DEF R, TwoSteps
  <2>7. IsRequest(o, i, Code[R[i].name], R[i].params)
    BY <1>2, <2>4, <2>5, <2>6 DEF IsRequest
  <2> QED BY <2>3, <2>4, <2>5, <2>6, <2>7 DEF R
<1>3. CASE o.name = "set_working_area"
  <2>1. R = <<Cmd("SetWorkingArea", <<AreaCode[o.area]>>)>>
    BY <1>3 DEF Requests, SendSelect
  <2> HIDE DEF R
  <2>3. Len(R) = 1
    BY <2>1
  <2>4. /\ R[1].name \in DOMAIN Code /\ Code[R[1].name] = 7
        /\ R[1].params = <<AreaCode[o.area]>>
    BY <2>1 DEF Cmd, Code
  <2>6. i = 1 /\ o.name \notin TwoSteps
    BY <1>3, <2>3 DEF R, TwoSteps
  <2>7. IsRequest(o, i, Code[R[i].name], R[i].params)
    BY <1>3, <2>4, <2>6 DEF IsRequest
  <2> QED BY <2>3, <2>4, <2>6, <2>7 DEF R
<1>4. CASE o.name = "get_transmit_power"
  <2>1. R = <<Cmd("AcquireTransmitPower", <<>>)>>
    BY <1>4 DEF Requests, SendSelect
  <2> HIDE DEF R
  <2>3. Len(R) = 1
    BY <2>1
  <2>4. /\ R[1].name \in DOMAIN Code /\ Code[R[1].name] = 183
        /\ R[1].params = <<>>
    BY <2>1 DEF Cmd, Code
  <2>6. i = 1 /\ o.name \notin TwoSteps
    BY <1>4, <2>3 DEF R, TwoSteps
  <2>7. IsRequest(o, i, Code[R[i].name], R[i].params)
    BY <1>4, <2>4, <2>6 DEF IsRequest
  <2> QED BY <2>3, <2>4, <2>6, <2>7 DEF R
<1>5. CASE o.name = "set_transmission_power"
  <2>1. R = <<Cmd("SetTransmissionPower", TwoBytes(PowerUnits(o.power)))>>
    BY <1>5 DEF Requests, SendSelect
  <2> HIDE DEF R
  <2>3. Len(R) = 1
    BY <2>1
  <2>4. /\ R[1].name \in DOMAIN Code /\ Code[R[1].name] = 182
        /\ R[1].params = TwoBytes(PowerUnits(o.power))
    BY <2>1 DEF Cmd, Code
  <2>6. i = 1 /\ o.name \notin TwoSteps
    BY <1>5, <2>3 DEF R, TwoSteps
  <2>7. IsRequest(o, i, Code[R[i].name], R[i].params)
    BY <1>5, <2>4, <2>6 DEF IsRequest
  <2> QED BY <2>3, <2>4, <2>6, <2>7 DEF R
<1>6. CASE o.name = "single_polling_instruction"
  <2>1. R = <<Cmd("SinglePollingInstruction", <<>>)>>
    BY <1>6 DEF Requests, SendSelect
  <2> HIDE DEF R
  <2>3. Len(R) = 1
    BY <2>1
  <2>4. /\ R[1].name \in DOMAIN Code /\ Code[R[1].name] = 34
        /\ R[1].params = <<>>
    BY <2>1 DEF Cmd, Code
  <2>6. i = 1 /\ o.name \notin TwoSteps
    BY <1>6, <2>3 DEF R, TwoSteps
  <2>7. IsRequest(o, i, Code[R[i].name], R[i].params)
    BY <1>6, <2>4, <2>6 DEF IsRequest
  <2> QED BY <2>3, <2>4, <2>6, <2>7 DEF R
<1>7. CASE o.name = "enable_multiple_polling_instructions"
  <2>1. R = <<Cmd("MultiplePollingInstruction", <<34>> \o TwoBytes(o.times))>>
    BY <1>7 DEF Requests, SendSelect
  <2> HIDE DEF R
  <2>3. Len(R) = 1
    BY <2>1
  <2>4. /\ R[1].name \in DOMAIN Code /\ Code[R[1].name] = 39
        /\ R[1].params = <<34>> \o TwoBytes(o.times)
    BY <2>1 DEF Cmd, Code
  <2>6. i = 1 /\ o.name \notin TwoSteps
    BY <1>7, <2>3 DEF R, TwoSteps
  <2>7. IsRequest(o, i, Code[R[i].name], R[i].params)
    BY <1>7, <2>4, <2>6 DEF IsRequest
  <2> QED BY <2>3, <2>4, <2>6, <2>7 DEF R
<1>8. CASE o.name = "stop_multiple_polling_instructions"
  <2>1. R = <<Cmd("StopMultiplePollingInstruction", <<>>)>>
    BY <1>8 DEF Requests, SendSelect
  <2> HIDE DEF R
  <2>3. Len(R) = 1
    BY <2>1
  <2>4. /\ R[1].name \in DOMAIN Code /\ Code[R[1].name] = 40
        /\ R[1].params = <<>>
    BY <2>1 DEF Cmd, Code
  <2>6. i = 1 /\ o.name \notin TwoSteps
    BY <1>8, <2>3 DEF R, TwoSteps
  <2>7. IsRequest(o, i, Code[R[i].name], R[i].params)
    BY <1>8, <2>4, <2>6 DEF IsRequest
  <2> QED BY <2>3, <2>4, <2>6, <2>7 DEF R
<1>9. CASE o.name = "select_tag"
  <2>1. R = <<Cmd("SetSelect", SelectParams(ParseHex(o.text))), Cmd("SetSendSelect", <<2>>)>>
    BY <1>9 DEF Requests, SendSelect
  <2> HIDE DEF R
  <2>3. Len(R) = 2
    BY <2>1
  <2>4. /\ R[1].name \in DOMAIN Code /\ Code[R[1].name] = 12
        /\ R[1].params = SelectParams(ParseHex(o.text))
    BY <2>1 DEF Cmd, Code
  <2>5. /\ R[2].name \in DOMAIN Code /\ Code[R[2].name] = 18
        /\ R[2].params = <<2>>
    BY <2>1 DEF Cmd, Code
  <2>6. i \in {1, 2} /\ o.name \in TwoSteps
    BY <1>9, <2>3 DEF R, TwoSteps
  <2>7. IsRequest(o, i, Code[R[i].name], R[i].params)
    BY <1>9, <2>4, <2>5, <2>6 DEF IsRequest
  <2> QED BY <2>3, <2>4, <2>5, <2>6, <2>7 DEF R
<1>10. CASE o.name = "clear_select"
  <2>1. R = <<Cmd("SetSelect", [j \in 1..8 |-> 0]), Cmd("SetSendSelect", <<1>>)>>
    BY <1>10 DEF Requests
  <2>2. [j \in 1..8 |-> 0] = <<0, 0, 0, 0, 0, 0, 0, 0>>
    OBVIOUS
  <2> HIDE DEF R
  <2>3. Len(R) = 2
    BY <2>1, <2>2
  <2>4. /\ R[1].name \in DOMAIN Code /\ Code[R[1].name] = 12
        /\ R[1].params = <<0, 0, 0, 0, 0, 0, 0, 0>>
    BY <2>1, <2>2 DEF Cmd, Code
  <2>5. /\ R[2].name \in DOMAIN Code /\ Code[R[2].name] = 18
        /\ R[2].params = <<1>>
    BY <2>1, <2>2 DEF Cmd, Code
  <2>6. i \in {1, 2} /\ o.name \in TwoSteps
    BY <1>10, <2>3 DEF R, TwoSteps
  <2>7. IsRequest(o, i, Code[R[i].name], R[i].params)
    BY <1>10, <2>4, <2>5, <2>6 DEF IsRequest
  <2> QED BY <2>3, <2>4, <2>5, <2>6, <2>7 DEF R
<1>11. CASE o.name = "read_mem"
  <2>1. R = <<Cmd("ReadLabel", MemoryAt(o) \o TwoBytes(o.length))>>
    BY <1>11 DEF Requests, SendSelect
  <2> HIDE DEF R
  <2>3. Len(R) = 1
    BY <2>1
  <2>4. /\ R[1].name \in DOMAIN Code /\ Code[R[1].name] = 57
        /\ R[1].params = MemoryAt(o) \o TwoBytes(o.length)
    BY <2>1 DEF Cmd, Code
  <2>6. i = 1 /\ o.name \notin TwoSteps
    BY <1>11, <2>3 DEF R, TwoSteps
  <2>7. IsRequest(o, i, Code[R[i].name], R[i].params)
    BY <1>11, <2>4, <2>6 DEF IsRequest
  <2> QED BY <2>3, <2>4, <2>6, <2>7 DEF R
<1>12. CASE o.name = "write_mem"
  <2>1. R = <<Cmd("WriteLabel", MemoryAt(o) \o TwoBytes(U16(Len(ParseHex(o.text)) \div 2)) \o ParseHex(o.text))>>
    BY <1>12 DEF Requests, SendSelect
  <2> HIDE DEF R
  <2>3. Len(R) = 1
    BY <2>1
  <2>4. /\ R[1].name \in DOMAIN Code /\ Code[R[1].name] = 73
        /\ R[1].params = MemoryAt(o) \o TwoBytes(U16(Len(ParseHex(o.text)) \div 2)) \o ParseHex(o.text)
    BY <2>1 DEF Cmd, Code
  <2>6. i = 1 /\ o.name \notin TwoSteps
    BY <1>12, <2>3 DEF R, TwoSteps
  <2>7. IsRequest(o, i, Code[R[i].name], R[i].params)
    BY <1>12, <2>4, <2>6 DEF IsRequest
  <2> QED BY <2>3, <2>4, <2>6, <2>7 DEF R
<1>13. CASE o.name = "kill_tag"
  <2>1. R = <<Cmd("KillTag", o.password)>>
    BY <1>13 DEF Requests, SendSelect
  <2> HIDE DEF R
  <2>3. Len(R) = 1
    BY <2>1
  <2>4. /\ R[1].name \in DOMAIN Code /\ Code[R[1].name] = 101
        /\ R[1].params = o.password
    BY <2>1 DEF Cmd, Code
  <2>6. i = 1 /\ o.name \notin TwoSteps
    BY <1>13, <2>3 DEF R, TwoSteps
  <2>7. IsRequest(o, i, Code[R[i].name], R[i].params)
    BY <1>13, <2>4, <2>6 DEF IsRequest
  <2> QED BY <2>3, <2>4, <2>6, <2>7 DEF R
<1>14. CASE o.name = "lock_tag"
  <2>1. R = <<Cmd("LockTag", o.password \o o.data)>>
    BY <1>14 DEF Requests, SendSelect
  <2> HIDE DEF R
  <2>3. Len(R) = 1
    BY <2>1
  <2>4. /\ R[1].name \in DOMAIN Code /\ Code[R[1].name] = 130
        /\ R[1].params = o.password \o o.data
    BY <2>1 DEF Cmd, Code
  <2>6. i = 1 /\ o.name \notin TwoSteps
    BY <1>14, <2>3 DEF R, TwoSteps
  <2>7. IsRequest(o, i, Code[R[i].name], R[i].params)
    BY <1>14, <2>4, <2>6 DEF IsRequest
  <2> QED BY <2>3, <2>4, <2>6, <2>7 DEF R
<1> QED BY <1>0, <1>1, <1>2, <1>3, <1>4, <1>5, <1>6, <1>7, <1>8, <1>9, <1>10, <1>11, <1>12, <1>13, <1>14 DEF Operations

(* The parameters of reads and writes. *)
LEMMA MemoryParams ==
  ASSUME NEW o, IsCall(o), NEW i, NEW code, NEW params, IsRequest(o, i, code, params)
  PROVE  /\ o.name = "read_mem" => Addressed(params, o, o.length, <<>>)
         /\ o.name = "write_mem" =>
              Addressed(params, o, U16(Len(ParseHex(o.text)) \div 2), ParseHex(o.text))
<1>1. ASSUME o.name = "read_mem" PROVE Addressed(params, o, o.length, <<>>)
  <2> DEFINE at == MemoryAt(o) \o TwoBytes(o.length)
  <2>1. /\ o.password \in Seq(Byte) /\ Len(o.password) = 4 /\ o.bank \in Byte
        /\ o.addr \in Short /\ o.length \in Short /\ params = at
    <3>1. /\ o.password \in Seq(Byte) /\ Len(o.password) = 4 /\ o.bank \in Byte
          /\ o.addr \in Short /\ o.length \in Short
      BY <1>1 DEF IsCall
    <3>2. params = at
      BY <1>1 DEF IsRequest
    <3> QED BY <3>1, <3>2
  <2>2. Addressed(at \o <<>>, o, o.length, <<>>)
    <3>1. <<>> \in Seq(Byte)
      OBVIOUS
    <3>2. Addressed(MemoryAt(o) \o TwoBytes(o.length) \o <<>>, o, o.length, <<>>)
      BY <2>1, <3>1, AddressedIs
    <3> QED BY <3>2
  <2>3. at \in Seq(Byte)
    <3>1. TwoBytes(o.addr) \in Seq(Byte) /\ <<o.bank>> \in Seq(Byte) /\ TwoBytes(o.length) \in Seq(Byte)
      BY <2>1, WordBytes
    <3>2. o.password \o <<o.bank>> \in Seq(Byte)
      BY <2>1, <3>1, ConcatProperties
    <3>3. MemoryAt(o) \in Seq(Byte)
      BY <3>1, <3>2, ConcatProperties DEF MemoryAt
    <3> QED BY <3>1, <3>3, ConcatProperties
  <2>4. at \o <<>> = at
    <3> HIDE DEF at
    <3> QED BY <2>3, ConcatEmptySeq
  <2> HIDE DEF at
  <2> QED BY <2>1, <2>2, <2>4
<1>2. ASSUME o.name = "write_mem"
      PROVE  Addressed(params, o, U16(Len(ParseHex(o.text)) \div 2), ParseHex(o.text))
  <2> DEFINE data == ParseHex(o.text)
             count == U16(Len(data) \div 2)
  <2>1. /\ o.password \in Seq(Byte) /\ Len(o.password) = 4 /\ o.bank \in Byte
        /\ o.addr \in Short /\ o.text \in Seq(0..Rest) /\ Len(o.text) % 2 = 0
        /\ params = MemoryAt(o) \o TwoBytes(count) \o data
    BY <1>2 DEF IsCall, IsRequest, TextOps
  <2>2. data \in Seq(Byte)
    BY <2>1, Parsed
  <2>3. count \in Short
    <3>1. Len(data) \in Nat
      BY <2>2, LenProperties
    <3>2. Len(data) \div 2 \in Int
      BY <3>1
    <3> QED BY <3>2, CutToShort
  <2> HIDE DEF data, count
  <2>4. Addressed(params, o, count, data)
    BY <2>1, <2>2, <2>3, AddressedIs
  <2> QED BY <2>4 DEF data, count
<1> QED BY <1>1, <1>2

(* They are bytes. *)
LEMMA ParamsAreBytes ==
  ASSUME NEW o, IsCall(o), NEW i, NEW code, NEW params, IsRequest(o, i, code, params)
  PROVE  params \in Seq(Byte)
<1>0. o.name \in Operations
  BY DEF IsCall
<1>1. CASE params = <<>>
  BY <1>1
<1>2. CASE o.name = "set_working_area"
  <2>1. o.area \in DOMAIN AreaCode /\ params = <<AreaCode[o.area]>>
    BY <1>2 DEF IsCall, IsRequest
  <2>2. AreaCode[o.area] \in {1, 2, 3, 4, 6}
    BY <2>1 DEF AreaCode
  <2>3. AreaCode[o.area] \in Byte
    BY <2>2, ByteIs
  <2> QED BY <2>1, <2>3
<1>3. CASE o.name = "set_transmission_power"
  <2>1. o.power \in Int /\ params = TwoBytes(PowerUnits(o.power))
    BY <1>3 DEF IsCall, IsRequest
  <2> QED BY <2>1, PowerInWord, WordBytes
<1>4. CASE o.name = "enable_multiple_polling_instructions"
  <2>1. o.times \in Short /\ params = <<34>> \o TwoBytes(o.times)
    BY <1>4 DEF IsCall, IsRequest
  <2>2. TwoBytes(o.times) \in Seq(Byte) /\ <<34>> \in Seq(Byte)
    BY <2>1, WordBytes, ByteIs, SMTT(30)
  <2> QED BY <2>1, <2>2, ConcatProperties
<1>5. CASE o.name = "select_tag"
  <2>1. /\ o.text \in Seq(0..Rest) /\ Len(o.text) % 2 = 0
        /\ params = SelectParams(ParseHex(o.text)) \/ params = <<2>>
    BY <1>5 DEF IsCall, IsRequest, TextOps
  <2>2. ParseHex(o.text) \in Seq(Byte)
    BY <2>1, Parsed
  <2>3. <<1>> \o <<0, 0, 0, 32>> \o <<96, 0>> \in Seq(Byte) /\ <<2>> \in Seq(Byte)
    BY ByteIs
  <2>4. SelectParams(ParseHex(o.text)) \in Seq(Byte)
    BY <2>2, <2>3, ConcatProperties DEF SelectParams
  <2> QED BY <2>1, <2>3, <2>4
<1>6. CASE o.name = "clear_select"
  <2>1. params = <<0, 0, 0, 0, 0, 0, 0, 0>> \/ params = <<1>>
    BY <1>6 DEF IsRequest
  <2>2. 0 \in Byte /\ 1 \in Byte
    BY ByteIs
  <2>3. <<0, 0, 0, 0, 0, 0, 0, 0>> \in Seq(Byte) 
    BY <2>2
  <2>4. <<1>> \in Seq(Byte) 
    BY <2>2
  <2> QED BY <2>1, <2>3, <2>4
<1>7. CASE o.name \in {"read_mem", "write_mem"}
  BY <1>7, MemoryParams DEF Addressed
<1>9. CASE o.name = "kill_tag"
  BY <1>9 DEF IsCall, IsRequest
<1>10. CASE o.name = "lock_tag"
  <2>1. o.password \in Seq(Byte) /\ o.data \in Seq(Byte) /\ params = o.password \o o.data
    BY <1>10 DEF IsCall, IsRequest
  <2> QED BY <2>1, ConcatProperties
<1> QED
  BY <1>1, <1>2, <1>3, <1>4, <1>5, <1>6, <1>7, <1>9, <1>10 DEF IsRequest

(* The frame of a request. *)
LEMMA FrameOfRequest ==
  ASSUME NEW o, IsCall(o), NEW i \in 1..Len(Requests(o))
  PROVE  /\ Frame(Requests(o)[i]) \in Seq(Byte)
         /\ \E code, params : IsRequest(o, i, code, params) /\ RequestOf(Frame(Requests(o)[i]), code, params)
         /\ Overflows(Summed(Requests(o)[i])) => Len(Frame(Requests(o)[i])) > 257
<1> DEFINE c == Requests(o)[i]
<1>1. c.name \in DOMAIN Code /\ IsRequest(o, i, Code[c.name], c.params)
  BY RequestTable
<1>2. c.params \in Seq(Byte)
  BY <1>1, ParamsAreBytes
<1> HIDE DEF c
<1>3. RequestOf(Frame(c), Code[c.name], c.params) /\ (Overflows(Summed(c)) => Len(Frame(c)) > 257)
  BY <1>1, <1>2, FrameParts
<1>4. Frame(c) \in Seq(Byte)
  BY <1>3 DEF RequestOf
<1> QED BY <1>1, <1>3, <1>4 DEF c

-----------------------------------------------------------------------------
(* The memory of tags *)

(* What a tag is, from the assumption on the constants. *)
LEMMA TagsTyped ==
  ASSUME NEW t \in DOMAIN Tags
  PROVE  /\ Tags[t].rssi \in Byte /\ Tags[t].epc \in Seq(Byte)
         /\ Len(Tags[t].epc) % 2 = 0 /\ Len(Tags[t].epc) <= 62
  BY CodecAssumption, Zenon

(* A pair of bytes is a sequence of them. *)
LEMMA PairOfBytes ==
  ASSUME NEW p, p \in Byte \X Byte
  PROVE  p = <<p[1], p[2]>> /\ p[1] \in Byte /\ p[2] \in Byte /\ p \in Seq(Byte) /\ Len(p) = 2
<1>1. p = <<p[1], p[2]>> /\ p[1] \in Byte /\ p[2] \in Byte
  OBVIOUS
<1>2. <<p[1], p[2]>> \in Seq(Byte) /\ Len(<<p[1], p[2]>>) = 2
  BY <1>1
<1>3. p \in Seq(Byte) /\ Len(p) = 2
  BY <1>1, <1>2, Zenon
<1> QED BY <1>1, <1>3

(* A word of a tag is two bytes, written or not. *)
LEMMA WordTyped ==
  ASSUME InPairs(memory), NEW t \in DOMAIN Tags, NEW bank, NEW addr \in Nat
  PROVE  Word(t, bank, addr) \in Byte \X Byte
<1> DEFINE epc == Tags[t].epc
           key == <<t, bank, addr>>
<1>1. epc \in Seq(Byte) /\ Len(epc) <= 62 /\ Len(epc) \in Nat
  <2>1. epc \in Seq(Byte) /\ Len(epc) <= 62
    BY TagsTyped
  <2> QED BY <2>1, LenProperties
<1>2. CASE key \in DOMAIN memory
  <2>1. memory[key] \in Byte \X Byte
    BY <1>2, Zenon DEF InPairs
  <2>2. Word(t, bank, addr) = memory[key]
    BY <1>2 DEF Word
  <2> QED BY <2>1, <2>2
<1>3. CASE key \notin DOMAIN memory /\ <<bank, addr>> = <<1, 1>>
  <2>1. Word(t, bank, addr) = <<4 * Len(epc), 0>>
    <3>1. <<t, bank, addr>> \notin DOMAIN memory /\ <<bank, addr>> = <<1, 1>>
             /\ ~(2 * (addr - 1) \in 2..Len(epc))
      BY <1>3
    <3> QED BY <3>1, <1>3 DEF Word
  <2>2. 4 * Len(epc) \in Byte /\ 0 \in Byte
    <3>1. ASSUME NEW n \in Nat, n <= 62 PROVE 4 * n \in Byte /\ 0 \in Byte
      BY <3>1, ByteIs
    <3> QED BY <1>1, <3>1
  <2> QED BY <2>1, <2>2
<1>4. CASE key \notin DOMAIN memory /\ bank = 1 /\ 2 * (addr - 1) \in 2..Len(epc)
  <2>1. 2 * addr - 3 \in 1..Len(epc) /\ 2 * addr - 2 \in 1..Len(epc) /\ addr # 1
    BY <1>1, <1>4
  <2>2. epc[2 * addr - 3] \in Byte /\ epc[2 * addr - 2] \in Byte
    BY <1>1, <2>1, ElementOfSeq
  <2>3. Word(t, bank, addr) = <<epc[2 * addr - 3], epc[2 * addr - 2]>>
    BY <1>4, <2>1 DEF Word
  <2> QED BY <2>2, <2>3
<1>5. CASE /\ key \notin DOMAIN memory /\ <<bank, addr>> # <<1, 1>>
           /\ ~(bank = 1 /\ 2 * (addr - 1) \in 2..Len(epc))
  <2>1. Word(t, bank, addr) = <<255, 255>>
    BY <1>5 DEF Word
  <2> QED BY <2>1, ByteIs
<1> QED BY <1>2, <1>3, <1>4, <1>5

(* So any number of words is twice as many bytes. *)
LEMMA WordsTyped ==
  ASSUME InPairs(memory), NEW t \in DOMAIN Tags, NEW bank, NEW addr \in Nat, NEW count \in Nat
  PROVE  /\ Words(t, bank, addr, count) \in Seq(Byte)
         /\ Len(Words(t, bank, addr, count)) = 2 * count
<1> DEFINE W(i) == Word(t, bank, addr + ((i - 1) \div 2))[2 - (i % 2)]
           w == [i \in 1..(2 * count) |-> W(i)]
<1>1. ASSUME NEW i \in 1..(2 * count) PROVE W(i) \in Byte
  <2>1. addr + ((i - 1) \div 2) \in Nat /\ 2 - (i % 2) \in {1, 2}
    OBVIOUS
  <2>2. Word(t, bank, addr + ((i - 1) \div 2)) \in Byte \X Byte
    BY <2>1, WordTyped
  <2> QED BY <2>1, <2>2
<1>2. Words(t, bank, addr, count) = w
  BY DEF Words
<1> HIDE DEF W
<1>3. w \in [1..(2 * count) -> Byte] /\ 2 * count \in Nat
  BY <1>1
<1>4. w \in Seq(Byte) /\ Len(w) = 2 * count
  BY <1>3
<1> HIDE DEF w
<1> QED BY <1>2, <1>4

(* The parts of what a tag tells of itself. *)
LEMMA TagParts ==
  ASSUME InPairs(memory), NEW t \in DOMAIN Tags
  PROVE  /\ PcOf(t) \in Seq(Byte) /\ Len(PcOf(t)) = 2
         /\ EpcOf(t) \in Seq(Byte) /\ Len(EpcOf(t)) <= 62
         /\ CrcOf(t) \in Seq(Byte) /\ Len(CrcOf(t)) = 2
         /\ Tags[t].rssi \in Byte
<1>1. Word(t, 1, 1) \in Byte \X Byte
  BY WordTyped
<1>2. PcOf(t) \in Byte \X Byte
  BY <1>1 DEF PcOf
<1> DEFINE count == PcOf(t)[1] \div 8
<1>3. PcOf(t) \in Seq(Byte) /\ Len(PcOf(t)) = 2 /\ PcOf(t)[1] \in Byte
  BY <1>2, PairOfBytes
<1>4. count \in 0..31
  <2>1. ASSUME NEW b \in Byte PROVE b \div 8 \in 0..31
    BY ByteIs
  <2> QED BY <1>3, <2>1
<1>5. EpcOf(t) = Words(t, 1, 2, count)
  BY DEF EpcOf
<1> HIDE DEF count
<1>6. EpcOf(t) \in Seq(Byte) /\ Len(EpcOf(t)) = 2 * count
  BY <1>4, <1>5, WordsTyped
<1>7. Sum(EpcOf(t)) \in Nat
  BY <1>6, SumOfBytes
<1>8. Sum(EpcOf(t)) % 256 \in Byte /\ 170 \in Byte
  BY <1>7, LowByte, ByteIs
<1>9. CrcOf(t) \in Seq(Byte) /\ Len(CrcOf(t)) = 2
  BY <1>8 DEF CrcOf
<1>10. Len(EpcOf(t)) <= 62
  BY <1>4, <1>6
<1> QED BY <1>3, <1>6, <1>9, <1>10, TagsTyped

(* The data of a notice. *)
LEMMA NoticeTyped ==
  ASSUME InPairs(memory), NEW t \in DOMAIN Tags
  PROVE  /\ NoticeData(t) \in Seq(Byte) /\ Len(NoticeData(t)) = 5 + Len(EpcOf(t))
         /\ NoticeData(t)[1] = Tags[t].rssi
         /\ SubSeq(NoticeData(t), 2, 3) = PcOf(t)
         /\ Len(EpcOf(t)) = 12 => /\ SubSeq(NoticeData(t), 4, 15) = EpcOf(t)
                                  /\ SubSeq(NoticeData(t), 16, 17) = CrcOf(t)
<1> DEFINE r == <<Tags[t].rssi>>
           p == PcOf(t)
           e == EpcOf(t)
           c == CrcOf(t)
<1>1. /\ p \in Seq(Byte) /\ Len(p) = 2 /\ e \in Seq(Byte) /\ c \in Seq(Byte) /\ Len(c) = 2
      /\ r \in Seq(Byte) /\ Len(r) = 1 /\ r[1] = Tags[t].rssi
  BY TagParts
<1>2. NoticeData(t) = r \o p \o e \o c
  BY DEF NoticeData
<1> HIDE DEF r, p, e, c
<1> DEFINE s == r \o p
           u == s \o e
           d == u \o c
<1>3. JoinOf(s, r, p)
  BY <1>1, Joined
<1>4. s \in Seq(Byte) /\ Len(s) = 3
  BY <1>1, <1>3 DEF JoinOf
<1> HIDE DEF s
<1>5. JoinOf(u, s, e)
  BY <1>1, <1>4, Joined
<1>6. u \in Seq(Byte) /\ Len(u) = 3 + Len(e) /\ Len(e) \in Nat
  BY <1>1, <1>4, <1>5 DEF JoinOf
<1> HIDE DEF u
<1>7. JoinOf(d, u, c)
  BY <1>1, <1>6, Joined
<1> HIDE DEF d
<1>8. d \in Seq(Byte) /\ Len(d) = 5 + Len(e)
  <2>1. d \in Seq(Byte) /\ Len(d) = (3 + Len(e)) + 2
    BY <1>1, <1>6, <1>7 DEF JoinOf
  <2> QED BY <2>1, <1>6
<1>9. \A i \in 1..3 : d[i] = s[i]
  <2>1. \A i \in 1..3 : i \in 1..Len(u) /\ i \in 1..Len(s)
    BY <1>4, <1>6
  <2> QED BY <2>1, <1>5, <1>7 DEF JoinOf
<1>10. s[1] = r[1] /\ s[2] = p[1] /\ s[3] = p[2]
  <2>1. 1 \in 1..1 /\ 1 \in 1..2 /\ 2 \in 1..2 /\ 1 + 1 = 2 /\ 1 + 2 = 3
    OBVIOUS
  <2>2. s[1] = r[1] /\ s[1 + 1] = p[1] /\ s[1 + 2] = p[2]
    BY <1>1, <1>3, <2>1 DEF JoinOf
  <2> QED BY <2>1, <2>2
<1>11. \A i \in 1..Len(e) : d[3 + i] = e[i]
  <2>1. ASSUME NEW i \in 1..Len(e) PROVE d[3 + i] = e[i]
    <3>1. 3 + i \in 1..Len(u)
      BY <1>6
    <3>2. d[3 + i] = u[3 + i] /\ u[3 + i] = e[i]
      BY <3>1, <1>4, <1>5, <1>7 DEF JoinOf
    <3> QED BY <3>2
  <2> QED BY <2>1
<1>12. \A i \in 1..2 : d[(3 + Len(e)) + i] = c[i]
  BY <1>1, <1>6, <1>7 DEF JoinOf
<1>13. SubSeq(d, 2, 3) = p
  <2>1. d[2] = p[1] /\ d[3] = p[2]
    BY <1>9, <1>10
  <2>2. p[1] \in Byte /\ p[2] \in Byte /\ \A i \in 2..3 : i = 2 \/ i = 3
    <3>1. 1 \in 1..Len(p) /\ 2 \in 1..Len(p)
      BY <1>1
    <3>2. p[1] \in Byte /\ p[2] \in Byte
      BY <1>1, <3>1, ElementOfSeq
    <3> QED BY <3>2
  <2>3. \A i \in 2..3 : d[i] \in Byte
    BY <2>1, <2>2
  <2>4. /\ SubSeq(d, 2, 3) \in Seq(Byte) /\ Len(SubSeq(d, 2, 3)) = 2
        /\ \A i \in 1..2 : SubSeq(d, 2, 3)[i] = d[2 + i - 1]
    BY <2>3, SubSeqProperties
  <2>5. \A i \in 1..2 : SubSeq(d, 2, 3)[i] = p[i]
    <3>1. \A i \in 1..2 : (i = 1 /\ 2 + i - 1 = 2) \/ (i = 2 /\ 2 + i - 1 = 3)
      OBVIOUS
    <3> QED BY <2>1, <2>4, <3>1
  <2> QED BY <1>1, <2>4, <2>5, SeqEqual
<1>14. ASSUME Len(e) = 12 PROVE SubSeq(d, 4, 15) = e
  <2>1. \A i \in 4..15 : i \in 1..Len(d)
    BY <1>8, <1>14
  <2>2. \A i \in 4..15 : d[i] \in Byte
    BY <1>8, <2>1, ElementOfSeq
  <2>3. /\ SubSeq(d, 4, 15) \in Seq(Byte) /\ Len(SubSeq(d, 4, 15)) = 12
        /\ \A i \in 1..12 : SubSeq(d, 4, 15)[i] = d[4 + i - 1]
    BY <2>2, SubSeqProperties
  <2>4. \A i \in 1..12 : 4 + i - 1 = 3 + i
    OBVIOUS
  <2>5. \A i \in 1..12 : SubSeq(d, 4, 15)[i] = e[i]
    BY <1>11, <1>14, <2>3, <2>4
  <2> QED BY <1>1, <1>14, <2>3, <2>5, SeqEqual, SMTT(30)
<1>15. ASSUME Len(e) = 12 PROVE SubSeq(d, 16, 17) = c
  <2>1. \A i \in 16..17 : i \in 1..Len(d)
    BY <1>8, <1>15
  <2>2. \A i \in 16..17 : d[i] \in Byte
    BY <1>8, <2>1, ElementOfSeq
  <2>3. /\ SubSeq(d, 16, 17) \in Seq(Byte) /\ Len(SubSeq(d, 16, 17)) = 2
        /\ \A i \in 1..2 : SubSeq(d, 16, 17)[i] = d[16 + i - 1]
    BY <2>2, SubSeqProperties
  <2>4. \A i \in 1..2 : 16 + i - 1 = (3 + Len(e)) + i
    BY <1>15
  <2>5. \A i \in 1..2 : SubSeq(d, 16, 17)[i] = c[i]
    BY <1>12, <2>3, <2>4
  <2> QED BY <1>1, <2>3, <2>5, SeqEqual
<1>16. d[1] = r[1]
  BY <1>9, <1>10
<1> QED
  BY <1>1, <1>2, <1>8, <1>13, <1>14, <1>15, <1>16 DEF d, u, s, r, p, e, c

(* While its memory stays, so does what a tag tells. *)
LEMMA SameWords ==
  ASSUME memory' = memory
  PROVE  /\ \A t, bank, addr, count : Words(t, bank, addr, count)' = Words(t, bank, addr, count)
         /\ \A t : NoticeData(t)' = NoticeData(t) /\ PcOf(t)' = PcOf(t) /\ EpcOf(t)' = EpcOf(t)
                   /\ CrcOf(t)' = CrcOf(t)
<1>1. \A t, bank, addr : Word(t, bank, addr)' = Word(t, bank, addr)
  BY DEF Word
<1>2. \A t, bank, addr, count : Words(t, bank, addr, count)' = Words(t, bank, addr, count)
  BY DEF Words, Word
<1>3. \A t : PcOf(t)' = PcOf(t)
  BY <1>1 DEF PcOf
<1>4. \A t : EpcOf(t)' = EpcOf(t)
  BY <1>2, <1>3 DEF EpcOf
<1>5. \A t : CrcOf(t)' = CrcOf(t)
  BY <1>4 DEF CrcOf
<1>6. \A t : NoticeData(t)' = NoticeData(t)
  BY <1>3, <1>4, <1>5 DEF NoticeData
<1> QED BY <1>2, <1>3, <1>4, <1>5, <1>6

-----------------------------------------------------------------------------
(* The steps of the reader *)

(* The request that is on the wire. *)
LEMMA Asked ==
  ASSUME Call, Sent, pc = "sent"
  PROVE  /\ IsCall(op) /\ IsRequest(op, step, wire[1][3], Params)
         /\ Params \in Seq(Byte) /\ wire[1][3] \in Byte
         /\ wire[1] \in Seq(Byte) /\ Len(wire) = 1 /\ Len(wire[1]) = 7 + Len(Params)
         /\ WellFormed(wire[1], 0) <=> Len(Params) \in Short
<1>1. /\ IsCall(op) /\ step \in 1..Len(Requests(op))
      /\ wire = <<Frame(Requests(op)[step])>>
  BY DEF Call, Sent
<1>2. wire[1] = Frame(Requests(op)[step]) /\ Len(wire) = 1
  BY <1>1
<1>3. PICK code, params : IsRequest(op, step, code, params) /\ RequestOf(wire[1], code, params)
  BY <1>1, <1>2, FrameOfRequest
<1>4. /\ wire[1] \in Seq(Byte) /\ Len(wire[1]) = 7 + Len(params)
      /\ wire[1][3] = code /\ Params = params
      /\ WellFormed(wire[1], 0) <=> Len(params) \in Short
  BY <1>3, SMT DEF RequestOf, Params
<1>5. params \in Seq(Byte)
  BY <1>1, <1>3, ParamsAreBytes
<1>6. code \in Byte
  <2>1. Len(params) \in Nat
    BY <1>5
  <2>2. 3 \in 1..Len(wire[1])
    BY <1>4, <2>1
  <2> QED BY <1>4, <2>2, ElementOfSeq
<1> QED BY <1>1, <1>2, <1>3, <1>4, <1>5, <1>6

(* The frames of one reply. *)
LEMMA OneReply ==
  ASSUME NEW frames, NEW code \in Byte, NEW data, data \in Seq(Byte), Len(data) \in Short,
         frames = <<Reply(1, code, data)>>
  PROVE  Len(frames) = 1 /\ frames \in Seq(Seq(Byte)) /\ ReplyOf(frames[1], code, data)
<1>1. 1 \in Byte
  BY ByteIs
<1>2. ReplyOf(Reply(1, code, data), code, data)
  BY <1>1, ReplyParts
<1>3. Reply(1, code, data) \in Seq(Byte)
  BY <1>2 DEF ReplyOf
<1> QED BY <1>2, <1>3

(* An answer of the reader keeps the invariant if it is one. *)
LEMMA AnswerKeeps ==
  ASSUME Inv, pc = "sent", pc' = "answered",
         UNCHANGED <<build, site, op, step, kept, result, selected>>,
         refused' = refused \/ refused' # <<>>,
         Device', wire' \in Seq(Seq(Byte)),
         Refusal' \/ (Answer' /\ refused' = refused)
  PROVE  Inv'
<1>1. Device /\ Call /\ Sent
  BY DEF Inv
<1>2. channel' = channel
  BY <1>1 DEF Device
<1>3. /\ IsCall(op) /\ step \in 1..Len(Requests(op)) /\ result.status = "none"
      /\ refused = <<>> \/ (op.name = "get_working_channel" /\ step = 2)
      /\ op.name = "get_working_channel" /\ step = 2 /\ refused = <<>> => ReplyOf(kept, 170, <<channel>>)
  BY <1>1 DEF Call
<1>4. Call'
  <2>1. op' = op /\ step' = step /\ kept' = kept /\ result' = result
    OBVIOUS
  <2>2. pc' \in {"idle", "send", "sent", "answered"} /\ pc' # "idle" /\ pc' \notin {"send", "sent"}
    OBVIOUS
  <2>3. IsCall(op') /\ step' \in 1..Len(Requests(op')) /\ result'.status = "none"
    BY <1>3, <2>1
  <2>4. op'.name = "get_working_channel" /\ step' = 2 /\ refused' = <<>>
          => ReplyOf(kept', 170, <<channel'>>)
    BY <1>2, <1>3, <2>1
  <2> QED BY <2>2, <2>3, <2>4 DEF Call
<1>5. Answered'
  BY <1>3 DEF Answered
<1>6. /\ Sent' /\ Shown' /\ ErrorTold' /\ SettingsArrive' /\ MemoryAsAsked' /\ InventoryFaithful'
      /\ PanicsExplained' /\ (result.status = "Panic" => pc = "idle")'
  BY <1>3 DEF Sent, Shown, ErrorTold, SettingsArrive, MemoryAsAsked, InventoryFaithful, Inventoried,
              PanicsExplained
<1> QED BY <1>4, <1>5, <1>6 DEF Inv

(* The reader refuses. *)
LEMMA RefusesKeeps ==
  ASSUME Inv, pc = "sent", NEW data, data \in Seq(Byte), Len(data) <= 66, Refuses(data)
  PROVE  Inv'
<1>1. /\ wire' = <<Reply(1, 255, data)>> /\ refused' = <<data>> /\ pc' = "answered"
      /\ UNCHANGED <<build, site, op, step, kept, result, selected>> /\ UNCHANGED deviceVars
  BY DEF Refuses, Answers
<1>2. 255 \in Byte /\ Len(data) \in Short
  BY ByteIs, ShortIs, LenProperties
<1>3. Len(wire') = 1 /\ wire' \in Seq(Seq(Byte)) /\ ReplyOf(wire'[1], 255, data)
  BY <1>1, <1>2, OneReply
<1>4. refused' # <<>> /\ refused'[1] = data
  BY <1>1
<1>5. Refusal'
  BY <1>3, <1>4 DEF Refusal
<1>6. Device'
  BY <1>1 DEF Inv, Device, deviceVars
<1> QED BY <1>1, <1>3, <1>4, <1>5, <1>6, AnswerKeeps

(* The reader refuses, for whatever reason. *)
LEMMA RefuseKeeps ==
  ASSUME Inv, Refuse
  PROVE  Inv'
<1>1. PICK data \in site.errors : Refuses(data)
  BY DEF Refuse
<1>2. site \in Sites /\ pc = "sent"
  BY DEF Inv, Device, Refuse
<1>3. data \in Seq(Byte) /\ Len(data) <= 66
  BY <1>2, CodecAssumption, Zenon
<1> QED BY <1>1, <1>2, <1>3, RefusesKeeps

(* The reader refuses because no tag can be operated on. *)
LEMMA TagFailsKeeps ==
  ASSUME Inv, TagFails
  PROVE  Inv'
<1>1. pc = "sent" /\ \E b \in {9, 16, 18, 19, 22} : Refuses(<<b>>)
  <2>1. pc = "sent"
    BY DEF TagFails
  <2>2. CASE Candidates = {}
    <3> DEFINE b == CASE wire[1][3] = 57 -> 9 [] wire[1][3] = 73 -> 16
                      [] wire[1][3] = 101 -> 18 [] OTHER -> 19
    <3>1. Refuses(<<b>>)
      BY <2>2 DEF TagFails
    <3>2. b \in {9, 16, 18, 19, 22}
      OBVIOUS
    <3> HIDE DEF b
    <3> QED BY <2>1, <3>1, <3>2
  <2>3. CASE Candidates # {}
    BY <2>1, <2>3 DEF TagFails
  <2> QED BY <2>2, <2>3
<1>2. PICK b \in {9, 16, 18, 19, 22} : Refuses(<<b>>)
  BY <1>1
<1>3. <<b>> \in Seq(Byte) /\ Len(<<b>>) <= 66
  <2>1. b \in Byte
    BY ByteIs
  <2> QED BY <2>1, OneOf
<1> QED BY <1>1, <1>2, <1>3, RefusesKeeps

(* An answer with some data to a request that changes no settings. *)
LEMMA TellAreaKeeps ==
  ASSUME Inv, TellArea
  PROVE  Inv'
<1>1. /\ pc = "sent" /\ wire[1][3] = 8 /\ wire' = <<Reply(1, 8, <<area>>)>> /\ pc' = "answered"
      /\ UNCHANGED <<build, site, op, step, kept, result, selected>>
      /\ UNCHANGED deviceVars /\ refused' = refused
  BY DEF TellArea, Requested, Answers
<1>2. Device /\ Device'
  BY <1>1 DEF Inv, Device, deviceVars
<1>3. IsRequest(op, step, 8, Params)
  BY <1>1, Asked DEF Inv
<1>4. <<area>> \in Seq(Byte) /\ Len(<<area>>) \in Short /\ 8 \in Byte
  <2>1. area \in Byte /\ 8 \in Byte
    BY <1>2, ByteIs DEF Device
  <2> QED BY <2>1, OneOf
<1>5. Len(wire') = 1 /\ wire' \in Seq(Seq(Byte)) /\ ReplyOf(wire'[1], 8, <<area>>)
  BY <1>1, <1>4, OneReply
<1>6. area' = area /\ op' = op /\ step' = step
  BY <1>1 DEF deviceVars
<1>7. op.name = "get_working_area" \/ (op.name = "get_working_channel" /\ step = 2)
  BY <1>3 DEF IsRequest
<1>8. Answer'
  BY <1>5, <1>6, <1>7 DEF Answer, SelectOps
<1> QED BY <1>1, <1>2, <1>5, <1>8, AnswerKeeps

(* The reader tells its channel. *)
LEMMA TellChannelKeeps ==
  ASSUME Inv, TellChannel
  PROVE  Inv'
<1> DEFINE data == <<channel>>
<1>1. /\ pc = "sent" /\ wire[1][3] = 170 /\ wire' = <<Reply(1, 170, data)>> /\ pc' = "answered"
      /\ UNCHANGED <<build, site, op, step, kept, result, selected>>
      /\ UNCHANGED deviceVars /\ refused' = refused
  BY DEF TellChannel, Requested, Answers
<1>2. Device /\ Device'
  BY <1>1 DEF Inv, Device, deviceVars
<1>3. IsRequest(op, step, 170, Params)
  BY <1>1, Asked DEF Inv
<1>4. data \in Seq(Byte) /\ Len(data) \in Short /\ 170 \in Byte
  <2>1. channel \in Byte /\ 170 \in Byte
    BY <1>2, ByteIs DEF Device
  <2>2. data \in Seq(Byte)
    BY <2>1, OneOf
  <2>3. Len(data) \in Short
    BY <2>1, OneOf
  <2> HIDE DEF data
  <2> QED BY <2>1, <2>2, <2>3
<1>5. Len(wire') = 1 /\ wire' \in Seq(Seq(Byte)) /\ ReplyOf(wire'[1], 170, data)
  <2> HIDE DEF data
  <2> QED BY <1>1, <1>4, OneReply
<1>6. channel' = channel /\ op' = op /\ step' = step
  BY <1>1 DEF deviceVars
<1>7. op.name = "get_working_channel" /\ step = 1
  BY <1>3 DEF IsRequest
<1>8. Answer'
  BY <1>5, <1>6, <1>7 DEF Answer, SelectOps
<1> QED BY <1>1, <1>2, <1>5, <1>8, AnswerKeeps

(* The reader tells its power. *)
LEMMA TellPowerKeeps ==
  ASSUME Inv, TellPower
  PROVE  Inv'
<1> DEFINE data == <<power \div 256, power % 256>>
<1>1. /\ pc = "sent" /\ wire[1][3] = 183 /\ wire' = <<Reply(1, 183, data)>> /\ pc' = "answered"
      /\ UNCHANGED <<build, site, op, step, kept, result, selected>>
      /\ UNCHANGED deviceVars /\ refused' = refused
  BY DEF TellPower, Requested, Answers
<1>2. Device /\ Device'
  BY <1>1 DEF Inv, Device, deviceVars
<1>3. IsRequest(op, step, 183, Params)
  BY <1>1, Asked DEF Inv
<1>4. data \in Seq(Byte) /\ Len(data) \in Short /\ 183 \in Byte
  <2>1. power \div 256 \in Byte /\ power % 256 \in Byte
    BY <1>2, SplitWord DEF Device
  <2>2. data \in Seq(Byte) /\ Len(data) = 2
    BY <2>1
  <2>3. Len(data) \in Short /\ 183 \in Byte
    BY <2>2, ByteIs, ShortIs
  <2> QED BY <2>2, <2>3
<1>5. Len(wire') = 1 /\ wire' \in Seq(Seq(Byte)) /\ ReplyOf(wire'[1], 183, data)
  <2> HIDE DEF data
  <2> QED BY <1>1, <1>4, OneReply
<1>6. power' = power /\ op' = op /\ step' = step
  BY <1>1 DEF deviceVars
<1>7. op.name = "get_transmit_power"
  BY <1>3 DEF IsRequest
<1>8. Answer'
  BY <1>5, <1>6, <1>7 DEF Answer, SelectOps
<1> QED BY <1>1, <1>2, <1>5, <1>8, AnswerKeeps

(* An acknowledgement. *)
LEMMA AcknowledgesTo ==
  ASSUME Inv, pc = "sent", Acknowledges
  PROVE  /\ pc' = "answered" /\ UNCHANGED <<build, site, op, step, kept, result, selected>>
         /\ refused' = refused
         /\ Len(wire') = 1 /\ wire' \in Seq(Seq(Byte)) /\ ReplyOf(wire'[1], wire[1][3], <<0>>)
<1>1. /\ wire' = <<Reply(1, wire[1][3], <<0>>)>> /\ pc' = "answered" /\ refused' = refused
      /\ UNCHANGED <<build, site, op, step, kept, result, selected>>
  BY DEF Acknowledges, Answers
<1>2. wire[1][3] \in Byte
  BY Asked DEF Inv
<1>3. <<0>> \in Seq(Byte) /\ Len(<<0>>) \in Short
  <2>1. 0 \in Byte
    BY ByteIs
  <2> QED BY <2>1, OneOf
<1>4. Len(wire') = 1 /\ wire' \in Seq(Seq(Byte)) /\ ReplyOf(wire'[1], wire[1][3], <<0>>)
  BY <1>1, <1>2, <1>3, OneReply
<1> QED BY <1>1, <1>4

(* The reader takes an area. *)
LEMMA TakeAreaKeeps ==
  ASSUME Inv, TakeArea
  PROVE  Inv'
<1>1. /\ pc = "sent" /\ wire[1][3] = 7 /\ Acknowledges /\ area' = Params[1]
      /\ Params[1] \in {1, 2, 3, 4, 6}
      /\ UNCHANGED <<channel, power, rounds, mask, mode, field, memory>>
  BY DEF TakeArea, Requested
<1>2. /\ pc' = "answered" /\ UNCHANGED <<build, site, op, step, kept, result, selected>>
      /\ refused' = refused
      /\ Len(wire') = 1 /\ wire' \in Seq(Seq(Byte)) /\ ReplyOf(wire'[1], 7, <<0>>)
  BY <1>1, AcknowledgesTo
<1>3. Device'
  BY <1>1, <1>2 DEF Inv, Device
<1>4. IsRequest(op, step, 7, Params)
  BY <1>1, Asked DEF Inv
<1>5. op.name = "set_working_area" /\ area' = AreaCode[op.area]
  BY <1>1, <1>4 DEF IsRequest
<1>6. Answer'
  BY <1>2, <1>5 DEF Answer, SelectOps
<1> QED BY <1>1, <1>2, <1>3, <1>6, AnswerKeeps

(* The reader takes a power. *)
LEMMA TakePowerKeeps ==
  ASSUME Inv, TakePower
  PROVE  Inv'
<1>1. /\ pc = "sent" /\ wire[1][3] = 182 /\ Acknowledges /\ power' = 256 * Params[1] + Params[2]
      /\ UNCHANGED <<area, channel, rounds, mask, mode, field, memory>>
  BY DEF TakePower, Requested
<1>2. /\ pc' = "answered" /\ UNCHANGED <<build, site, op, step, kept, result, selected>>
      /\ refused' = refused
      /\ Len(wire') = 1 /\ wire' \in Seq(Seq(Byte)) /\ ReplyOf(wire'[1], 182, <<0>>)
  BY <1>1, AcknowledgesTo
<1>3. IsRequest(op, step, 182, Params) /\ IsCall(op)
  BY <1>1, Asked DEF Inv
<1>4. op.name = "set_transmission_power" /\ Params = TwoBytes(PowerUnits(op.power))
  BY <1>3 DEF IsRequest
<1>5. PowerUnits(op.power) \in Short
  BY <1>3, <1>4, PowerInWord DEF IsCall
<1>6. power' = PowerUnits(op.power)
  BY <1>1, <1>4, <1>5, WordBytes
<1>7. Device'
  BY <1>1, <1>2, <1>5, <1>6 DEF Inv, Device
<1>8. Answer'
  BY <1>2, <1>4, <1>6 DEF Answer, SelectOps
<1> QED BY <1>1, <1>2, <1>7, <1>8, AnswerKeeps

(* The reader takes a number of rounds. *)
LEMMA TakeRoundsKeeps ==
  ASSUME Inv, TakeRounds
  PROVE  Inv'
<1>1. /\ pc = "sent" /\ wire[1][3] = 39 /\ rounds' = 256 * Params[2] + Params[3]
      /\ wire' = <<>> /\ pc' = "answered" /\ refused' = refused
      /\ UNCHANGED <<build, site, op, step, kept, result, selected>>
      /\ UNCHANGED <<area, channel, power, mask, mode, field, memory>>
  BY DEF TakeRounds, Requested, Answers
<1>2. IsRequest(op, step, 39, Params) /\ IsCall(op)
  BY <1>1, Asked DEF Inv
<1>3. op.name = "enable_multiple_polling_instructions" /\ Params = <<34>> \o TwoBytes(op.times)
  BY <1>2 DEF IsRequest
<1>4. op.times \in Short
  BY <1>2, <1>3 DEF IsCall
<1>5. rounds' = op.times
  <2>1. 256 * (op.times \div 256) + (op.times % 256) = op.times
    BY <1>4, SplitWord
  <2>2. Params[2] = op.times \div 256 /\ Params[3] = op.times % 256
    BY <1>3 DEF TwoBytes
  <2> QED BY <1>1, <2>1, <2>2
<1>6. Device'
  BY <1>1, <1>4, <1>5 DEF Inv, Device
<1>7. Answer'
  BY <1>1, <1>3, <1>5 DEF Answer, SelectOps
<1>8. wire' \in Seq(Seq(Byte))
  BY <1>1
<1> QED BY <1>1, <1>6, <1>7, <1>8, AnswerKeeps

(* The reader stops its rounds. *)
LEMMA StopRoundsKeeps ==
  ASSUME Inv, StopRounds
  PROVE  Inv'
<1>1. /\ pc = "sent" /\ wire[1][3] = 40 /\ Acknowledges /\ rounds' = 0
      /\ UNCHANGED <<area, channel, power, mask, mode, field, memory>>
  BY DEF StopRounds, Requested
<1>2. /\ pc' = "answered" /\ UNCHANGED <<build, site, op, step, kept, result, selected>>
      /\ refused' = refused
      /\ Len(wire') = 1 /\ wire' \in Seq(Seq(Byte)) /\ ReplyOf(wire'[1], 40, <<0>>)
  BY <1>1, AcknowledgesTo
<1>3. Device'
  BY <1>1, <1>2, ShortIs DEF Inv, Device
<1>4. IsRequest(op, step, 40, Params)
  BY <1>1, Asked DEF Inv
<1>5. op.name = "stop_multiple_polling_instructions"
  BY <1>4 DEF IsRequest
<1>6. Answer'
  BY <1>1, <1>2, <1>5 DEF Answer, SelectOps
<1> QED BY <1>1, <1>2, <1>3, <1>6, AnswerKeeps

(* The reader takes a mask. *)
LEMMA TakeMaskKeeps ==
  ASSUME Inv, TakeMask
  PROVE  Inv'
<1>1. /\ pc = "sent" /\ wire[1][3] = 12 /\ Acknowledges
      /\ UNCHANGED <<area, channel, power, rounds, mode, field, memory>>
  BY DEF TakeMask
<1>2. /\ pc' = "answered" /\ UNCHANGED <<build, site, op, step, kept, result, selected>>
      /\ refused' = refused
      /\ Len(wire') = 1 /\ wire' \in Seq(Seq(Byte)) /\ ReplyOf(wire'[1], 12, <<0>>)
  BY <1>1, AcknowledgesTo
<1>3. Device'
  BY <1>1, <1>2 DEF Inv, Device
<1>4. IsRequest(op, step, 12, Params)
  BY <1>1, Asked DEF Inv
<1>5. op.name \in SelectOps /\ step = 1
  BY <1>4 DEF IsRequest, SelectOps
<1>6. Answer'
  BY <1>2, <1>5 DEF Answer, SelectOps
<1> QED BY <1>1, <1>2, <1>3, <1>6, AnswerKeeps

(* The reader takes a mode. *)
LEMMA TakeModeKeeps ==
  ASSUME Inv, TakeMode
  PROVE  Inv'
<1>1. /\ pc = "sent" /\ wire[1][3] = 18 /\ Acknowledges /\ mode' = Params[1] /\ Params[1] \in 0..2
      /\ UNCHANGED <<area, channel, power, rounds, mask, field, memory>>
  BY DEF TakeMode, Requested
<1>2. /\ pc' = "answered" /\ UNCHANGED <<build, site, op, step, kept, result, selected>>
      /\ refused' = refused
      /\ Len(wire') = 1 /\ wire' \in Seq(Seq(Byte)) /\ ReplyOf(wire'[1], 18, <<0>>)
  BY <1>1, AcknowledgesTo
<1>3. Device'
  BY <1>1, <1>2 DEF Inv, Device
<1>4. IsRequest(op, step, 18, Params)
  BY <1>1, Asked DEF Inv
<1>5. op.name \in SelectOps /\ step # 1
  BY <1>4 DEF IsRequest, SelectOps
<1>6. Answer'
  BY <1>2, <1>5 DEF Answer, SelectOps
<1> QED BY <1>1, <1>2, <1>3, <1>6, AnswerKeeps

-----------------------------------------------------------------------------
(* The steps of the tags *)

(* A candidate is a tag in the field. *)
LEMMA AmongTags ==
  ASSUME Inv, NEW t \in Candidates
  PROVE  t \in field /\ t \in DOMAIN Tags /\ InPairs(memory)
BY DEF Inv, Device, Candidates

(* The answer of a tag, behind its protocol control and EPC. *)
LEMMA TagTells ==
  ASSUME Inv, pc = "sent", NEW t \in Candidates, NEW data, data \in Seq(Byte), TagAnswer(t, data)
  PROVE  /\ pc' = "answered" /\ UNCHANGED <<build, site, op, step, kept, result, selected>>
         /\ refused' = refused
         /\ Len(wire') = 1 /\ wire' \in Seq(Seq(Byte))
         /\ acted'.tag = t /\ acted'.memory = memory /\ acted'.epc = EpcOf(t)
         /\ t \in DOMAIN Tags
         /\ BehindHead(wire'[1], wire[1][3], data)
<1>1. /\ pc' = "answered" /\ UNCHANGED <<build, site, op, step, kept, result, selected>>
      /\ refused' = refused
      /\ acted' = [tag |-> t, epc |-> EpcOf(t), memory |-> memory]
      /\ 3 + Len(EpcOf(t)) + Len(data) \in Short
      /\ wire' = <<Reply(1, wire[1][3], <<2 + Len(EpcOf(t))>> \o PcOf(t) \o EpcOf(t) \o data)>>
  BY DEF TagAnswer, Answers
<1>2. t \in DOMAIN Tags /\ InPairs(memory)
  BY AmongTags
<1> DEFINE p == PcOf(t)
           e == EpcOf(t)
           n == 2 + Len(e)
           h == p \o e
           d == <<n>> \o h \o data
<1>3. /\ p \in Seq(Byte) /\ Len(p) = 2 /\ e \in Seq(Byte) /\ Len(e) <= 62
  BY <1>2, TagParts
<1> HIDE DEF p, e
<1>4. h \in Seq(Byte) /\ Len(h) = n /\ Len(e) \in Nat /\ n \in Byte
  <2>1. JoinOf(h, p, e) /\ Len(e) \in Nat
    BY <1>3, Joined
  <2>2. n \in Byte
    <3>1. n \in Int /\ 0 <= n /\ n <= 255
      BY <1>3, <2>1
    <3> QED BY <3>1, ByteIs
  <2> QED BY <1>3, <2>1, <2>2 DEF JoinOf
<1>5. <<n>> \in Seq(Byte) /\ Len(<<n>>) = 1
  BY <1>4
<1>6. <<n>> \o p \o e = <<n>> \o h
  BY <1>3, <1>5, ConcatAssociative
<1>7. wire' = <<Reply(1, wire[1][3], d)>>
  BY <1>1, <1>6 DEF p, e
<1> HIDE DEF h, n
<1>8. d \in Seq(Byte) /\ Len(d) \in Short
  <2> DEFINE nh == <<n>> \o h
  <2>1. JoinOf(nh, <<n>>, h)
    BY <1>4, <1>5, Joined
  <2>2. nh \in Seq(Byte) /\ Len(nh) = 1 + n
    BY <1>4, <1>5, <2>1 DEF JoinOf
  <2> HIDE DEF nh
  <2>3. JoinOf(nh \o data, nh, data)
    BY <2>2, Joined
  <2>4. nh \o data \in Seq(Byte) /\ Len(nh \o data) = (1 + n) + Len(data)
    BY <2>2, <2>3 DEF JoinOf
  <2>5. (1 + n) + Len(data) \in Short
    <3>1. Len(data) \in Nat
      OBVIOUS
    <3> QED BY <1>1, <1>4, <3>1 DEF n, e
  <2> QED BY <2>4, <2>5 DEF nh
<1>9. wire[1][3] \in Byte
  BY Asked DEF Inv
<1> HIDE DEF d
<1>10. Len(wire') = 1 /\ wire' \in Seq(Seq(Byte)) /\ ReplyOf(wire'[1], wire[1][3], d)
  BY <1>7, <1>8, <1>9, OneReply
<1>11. Len(h) < 256 /\ d = <<Len(h)>> \o h \o data
  <2>1. n < 256
    BY <1>4, ByteIs
  <2> QED BY <1>4, <2>1 DEF d
<1>12. BehindHead(wire'[1], wire[1][3], data)
  BY <1>4, <1>10, <1>11 DEF BehindHead
<1> QED BY <1>1, <1>2, <1>10, <1>12

(* A tag that answers and changes nothing but, when it is killed, the field. *)
LEMMA LockTagKeeps ==
  ASSUME Inv, LockTag
  PROVE  Inv'
<1>1. pc = "sent" /\ wire[1][3] = 130 /\ UNCHANGED deviceVars
  BY DEF LockTag, Requested
<1>2. PICK t \in Candidates : TagAnswer(t, <<0>>)
  BY DEF LockTag
<1>3. <<0>> \in Seq(Byte)
  BY ByteIs
<1>4. /\ pc' = "answered" /\ UNCHANGED <<build, site, op, step, kept, result, selected>>
      /\ refused' = refused /\ Len(wire') = 1 /\ wire' \in Seq(Seq(Byte))
      /\ acted'.tag = t /\ t \in DOMAIN Tags
      /\ BehindHead(wire'[1], 130, <<0>>)
  BY <1>1, <1>2, <1>3, TagTells, ZenonT(60)
<1>5. TagTold(130, <<0>>)'
  BY <1>4 DEF TagTold
<1>6. IsRequest(op, step, 130, Params)
  BY <1>1, Asked DEF Inv
<1>7. op.name = "lock_tag"
  BY <1>6 DEF IsRequest
<1>8. Answer'
  BY <1>4, <1>5, <1>7 DEF Answer, SelectOps
<1>9. Device'
  BY <1>1, <1>4 DEF Inv, Device, deviceVars
<1> QED BY <1>1, <1>4, <1>8, <1>9, AnswerKeeps

(* A tag is killed. *)
LEMMA KillTagKeeps ==
  ASSUME Inv, KillTag
  PROVE  Inv'
<1>1. pc = "sent" /\ wire[1][3] = 101 /\ UNCHANGED <<area, channel, power, rounds, mask, mode, memory>>
  BY DEF KillTag, Requested
<1>2. PICK t \in Candidates : TagAnswer(t, <<0>>) /\ field' = field \ {t}
  BY DEF KillTag
<1>3. <<0>> \in Seq(Byte)
  BY ByteIs
<1>4. /\ pc' = "answered" /\ UNCHANGED <<build, site, op, step, kept, result, selected>>
      /\ refused' = refused /\ Len(wire') = 1 /\ wire' \in Seq(Seq(Byte))
      /\ acted'.tag = t /\ t \in DOMAIN Tags
      /\ BehindHead(wire'[1], 101, <<0>>)
  BY <1>1, <1>2, <1>3, TagTells, ZenonT(60)
<1>5. TagTold(101, <<0>>)'
  BY <1>4 DEF TagTold
<1>6. IsRequest(op, step, 101, Params)
  BY <1>1, Asked DEF Inv
<1>7. op.name = "kill_tag"
  BY <1>6 DEF IsRequest
<1>8. Answer'
  BY <1>4, <1>5, <1>7 DEF Answer, SelectOps
<1>9. field' \subseteq DOMAIN Tags /\ IsFiniteSet(field')
  <2>1. field \subseteq DOMAIN Tags /\ IsFiniteSet(field)
    BY DEF Inv, Device
  <2> QED BY <1>2, <2>1, FS_RemoveElement
<1>10. Device'
  BY <1>1, <1>4, <1>9 DEF Inv, Device
<1> QED BY <1>1, <1>4, <1>8, <1>10, AnswerKeeps

(* A tag is read. *)
LEMMA ReadLabelKeeps ==
  ASSUME Inv, ReadLabel
  PROVE  Inv'
<1>1. pc = "sent" /\ wire[1][3] = 57 /\ UNCHANGED deviceVars
  BY DEF ReadLabel, Requested
<1>2. PICK t \in Candidates : TagAnswer(t, Words(t, Params[5], Address, Count))
  BY DEF ReadLabel
<1>3. IsRequest(op, step, 57, Params) /\ IsCall(op)
  BY <1>1, Asked DEF Inv
<1>4. op.name = "read_mem"
  BY <1>3 DEF IsRequest
<1>5. op.bank \in Byte /\ op.addr \in Short /\ op.length \in Short
  BY <1>3, <1>4 DEF IsCall, TextOps
<1>6. Params[5] = op.bank /\ Address = op.addr /\ Count = op.length
  BY <1>3, <1>4, MemoryParams DEF Addressed, Address, Count
<1> DEFINE words == Words(t, op.bank, op.addr, op.length)
<1>7. words \in Seq(Byte)
  <2>1. t \in DOMAIN Tags /\ InPairs(memory)
    BY AmongTags
  <2>2. op.addr \in Nat /\ op.length \in Nat
    BY <1>5, ShortIs
  <2> QED BY <2>1, <2>2, WordsTyped
<1>8. TagAnswer(t, words)
  BY <1>2, <1>6
<1> HIDE DEF words
<1>9. /\ pc' = "answered" /\ UNCHANGED <<build, site, op, step, kept, result, selected>>
      /\ refused' = refused /\ Len(wire') = 1 /\ wire' \in Seq(Seq(Byte))
      /\ acted'.tag = t /\ acted'.memory = memory /\ t \in DOMAIN Tags
      /\ BehindHead(wire'[1], 57, words)
  BY <1>1, <1>7, <1>8, TagTells
<1>10. memory' = memory /\ op' = op
  BY <1>1, <1>9 DEF deviceVars
<1>11. Words(acted.tag, op.bank, op.addr, op.length)' = words
  BY <1>9, <1>10 DEF words, Words, Word
<1>12. TagTold(57, Words(acted.tag, op.bank, op.addr, op.length))'
  BY <1>9, <1>11 DEF TagTold
<1>13. Answer'
  BY <1>4, <1>9, <1>10, <1>12 DEF Answer, SelectOps
<1>14. Device'
  BY <1>1, <1>9 DEF Inv, Device, deviceVars
<1> QED BY <1>1, <1>9, <1>13, <1>14, AnswerKeeps

(* The words that a request writes, and where. *)
Laid(w) == LET at == 10 + 2 * (w[3] - Address) IN <<Params[at], Params[at + 1]>>

PlaceOf(t) == {<<t, Params[5], Address + i>> : i \in 0..(Count - 1)}

(* A pair of digits is the byte it stands for. *)
LEMMA DigitPair ==
  ASSUME NEW text, text \in Seq(0..Rest), AllDigits(text), NEW i \in 1..Len(text), NEW j \in 1..Len(text)
  PROVE  PairValue(text[i], text[j]) = 16 * text[i] + text[j]
<1>1. text[i] < 16 /\ text[j] < 16
  BY DEF AllDigits
<1> QED BY <1>1 DEF PairValue

(* What a write_mem asks to be written are the words of its text. *)
LEMMA WordsLaid ==
  ASSUME Call, Sent, pc = "sent", wire[1][3] = 73, Len(Params) = 9 + 2 * Count
  PROVE  /\ op.name = "write_mem" /\ Params[5] = op.bank /\ Address = op.addr
         /\ op.addr \in Int /\ Count \in Nat
         /\ Len(op.text) \div 4 = Count
         /\ \A t : \A w \in PlaceOf(t) :
              /\ Laid(w) \in Byte \X Byte
              /\ AllDigits(op.text) => Laid(w) = <<Typed(w, 1), Typed(w, 2)>>
<1> DEFINE data == ParseHex(op.text)
           count == U16(Len(data) \div 2)
<1>1. IsRequest(op, step, 73, Params) /\ IsCall(op)
  BY Asked
<1>2. op.name = "write_mem"
  BY <1>1 DEF IsRequest
<1>3. op.text \in Seq(0..Rest) /\ Len(op.text) % 2 = 0 /\ op.addr \in Short
  BY <1>1, <1>2 DEF IsCall, TextOps
<1>4. data \in Seq(Byte) /\ 2 * Len(data) = Len(op.text) /\ Len(data) \in Nat
      /\ \A i \in 1..Len(data) : data[i] = PairValue(op.text[2 * i - 1], op.text[2 * i])
  <2>1. /\ data \in Seq(Byte) /\ 2 * Len(data) = Len(op.text)
        /\ \A i \in 1..Len(data) : data[i] = PairValue(op.text[2 * i - 1], op.text[2 * i])
    BY <1>3, Parsed
  <2>2. Len(data) \in Nat
    BY <2>1, LenProperties
  <2> QED BY <2>1, <2>2
<1>5. Addressed(Params, op, count, data)
  BY <1>1, <1>2, MemoryParams
<1>6. count \in Nat
  BY <1>4 DEF U16
<1> HIDE DEF data, count
<1>7. /\ Params \in Seq(Byte) /\ Len(Params) = 9 + Len(data)
      /\ Params[5] = op.bank /\ Address = op.addr /\ Count = count
      /\ \A i \in 1..Len(data) : Params[9 + i] = data[i]
  BY <1>5 DEF Addressed, Address, Count
<1>8. Len(data) = 2 * count /\ Len(op.text) = 4 * count
  <2>1. 9 + Len(data) = 9 + 2 * count
    BY <1>7
  <2>2. ASSUME NEW m \in Nat, NEW c \in Nat, 9 + m = 9 + 2 * c PROVE m = 2 * c /\ 2 * m = 4 * c
    BY <2>2
  <2>3. Len(data) \in Nat /\ 2 * Len(data) = Len(op.text)
    BY <1>4
  <2> QED BY <1>6, <2>1, <2>2, <2>3
<1>9. ASSUME NEW t, NEW w \in PlaceOf(t)
      PROVE  /\ Laid(w) \in Byte \X Byte
             /\ AllDigits(op.text) => Laid(w) = <<Typed(w, 1), Typed(w, 2)>>
  <2>1. PICK i \in 0..(Count - 1) : w = <<t, Params[5], Address + i>>
    BY DEF PlaceOf
  <2>2. w[3] = op.addr + i /\ op.addr \in Int /\ i \in Int /\ 0 <= i /\ i < count
    BY <1>3, <1>6, <1>7, <2>1, ShortIs
  <2>3. w[3] - op.addr = i
    BY <2>2
  <2>4. Laid(w) = <<Params[9 + (2 * i + 1)], Params[9 + (2 * i + 2)]>>
    <3>1. 10 + 2 * i = 9 + (2 * i + 1) /\ (10 + 2 * i) + 1 = 9 + (2 * i + 2)
      BY <2>2
    <3>2. Laid(w) = <<Params[10 + 2 * i], Params[(10 + 2 * i) + 1]>>
      BY <1>7, <2>3 DEF Laid
    <3> QED BY <3>1, <3>2
  <2>5. 2 * i + 1 \in 1..Len(data) /\ 2 * i + 2 \in 1..Len(data)
    BY <1>6, <1>8, <2>2
  <2>6. Laid(w) = <<data[2 * i + 1], data[2 * i + 2]>>
    BY <1>7, <2>4, <2>5
  <2>7. data[2 * i + 1] \in Byte /\ data[2 * i + 2] \in Byte
    BY <1>4, <2>5, ElementOfSeq
  <2>8. ASSUME AllDigits(op.text) PROVE Laid(w) = <<Typed(w, 1), Typed(w, 2)>>
    <3>1. /\ 2 * (2 * i + 1) - 1 = 4 * i + 1 /\ 2 * (2 * i + 1) = 4 * i + 2
          /\ 2 * (2 * i + 2) - 1 = 4 * i + 3 /\ 2 * (2 * i + 2) = 4 * i + 4
      BY <2>2
    <3>2. /\ 4 * i + 1 \in 1..Len(op.text) /\ 4 * i + 2 \in 1..Len(op.text)
          /\ 4 * i + 3 \in 1..Len(op.text) /\ 4 * i + 4 \in 1..Len(op.text)
      BY <1>6, <1>8, <2>2
    <3>3. /\ data[2 * i + 1] = PairValue(op.text[4 * i + 1], op.text[4 * i + 2])
          /\ data[2 * i + 2] = PairValue(op.text[4 * i + 3], op.text[4 * i + 4])
      BY <1>4, <2>5, <3>1
    <3>4. /\ PairValue(op.text[4 * i + 1], op.text[4 * i + 2]) = 16 * op.text[4 * i + 1] + op.text[4 * i + 2]
          /\ PairValue(op.text[4 * i + 3], op.text[4 * i + 4]) = 16 * op.text[4 * i + 3] + op.text[4 * i + 4]
      BY <1>3, <2>8, <3>2, DigitPair
    <3>5. /\ 4 * i + 2 * 1 - 1 = 4 * i + 1 /\ (4 * i + 1) + 1 = 4 * i + 2
          /\ 4 * i + 2 * 2 - 1 = 4 * i + 3 /\ (4 * i + 3) + 1 = 4 * i + 4
      BY <2>2
    <3>6. /\ Typed(w, 1) = 16 * op.text[4 * i + 1] + op.text[4 * i + 2]
          /\ Typed(w, 2) = 16 * op.text[4 * i + 3] + op.text[4 * i + 4]
      BY <2>3, <3>5 DEF Typed
    <3> QED BY <2>6, <3>3, <3>4, <3>6
  <2> QED BY <2>6, <2>7, <2>8
<1>10. Len(op.text) \div 4 = Count
  BY <1>6, <1>7, <1>8
<1>11. op.addr \in Int
  BY <1>3, ShortIs
<1> QED BY <1>2, <1>6, <1>7, <1>9, <1>10, <1>11

(* The words of a write are written, and no others. *)
LEMMA WriteLabelKeeps ==
  ASSUME Inv, WriteLabel
  PROVE  Inv'
<1>1. /\ pc = "sent" /\ wire[1][3] = 73 /\ Len(Params) = 9 + 2 * Count
      /\ UNCHANGED <<area, channel, power, rounds, mask, mode, field>>
  BY DEF WriteLabel
<1>2. PICK t \in Candidates :
        /\ TagAnswer(t, <<0>>)
        /\ memory' = [w \in DOMAIN memory \cup PlaceOf(t) |->
                        IF w \in PlaceOf(t) THEN Laid(w) ELSE memory[w]]
  BY DEF WriteLabel, PlaceOf, Laid
<1>3. <<0>> \in Seq(Byte)
  BY ByteIs
<1>4. /\ pc' = "answered" /\ UNCHANGED <<build, site, op, step, kept, result, selected>>
      /\ refused' = refused /\ Len(wire') = 1 /\ wire' \in Seq(Seq(Byte))
      /\ acted'.tag = t /\ acted'.memory = memory /\ t \in DOMAIN Tags
      /\ BehindHead(wire'[1], 73, <<0>>)
  BY <1>1, <1>2, <1>3, TagTells, ZenonT(60)
<1>5. TagTold(73, <<0>>)'
  BY <1>4 DEF TagTold
<1>6. /\ op.name = "write_mem" /\ Params[5] = op.bank /\ Address = op.addr
      /\ op.addr \in Int /\ Count \in Nat
      /\ Len(op.text) \div 4 = Count
      /\ \A w \in PlaceOf(t) :
           /\ Laid(w) \in Byte \X Byte
           /\ AllDigits(op.text) => Laid(w) = <<Typed(w, 1), Typed(w, 2)>>
  BY <1>1, WordsLaid DEF Inv
<1> DEFINE place == PlaceOf(t)
<1>7. Place' = place
  BY <1>4, <1>6 DEF Place, PlaceOf
<1>8. DOMAIN memory' = DOMAIN memory \cup place
  BY <1>2
<1>9. /\ \A w \in place : memory'[w] = Laid(w)
      /\ \A w \in DOMAIN memory' \ place : w \in DOMAIN memory /\ memory'[w] = memory[w]
  BY <1>2, <1>8
<1> HIDE DEF place
<1>10. InPairs(memory')
  <2>1. InPairs(memory)
    BY DEF Inv, Device
  <2>2. ASSUME NEW w \in DOMAIN memory' PROVE memory'[w] \in Byte \X Byte
    <3>1. CASE w \in place
      BY <3>1, <1>6, <1>9 DEF place
    <3>2. CASE w \notin place
      BY <3>2, <2>1, <1>9 DEF InPairs
    <3> QED BY <3>1, <3>2
  <2> QED BY <2>2 DEF InPairs
<1>11. Written'
  <2>1. ASSUME AllDigits(op.text)
        PROVE  /\ \A w \in Place' : memory'[w] = <<Typed(w, 1)', Typed(w, 2)'>>
               /\ \A w \in DOMAIN memory' \ Place' :
                    w \in DOMAIN (acted.memory)' /\ memory'[w] = (acted.memory)'[w]
    <3>1. \A w : Typed(w, 1)' = Typed(w, 1) /\ Typed(w, 2)' = Typed(w, 2)
      BY <1>4 DEF Typed
    <3>2. \A w \in place : memory'[w] = <<Typed(w, 1), Typed(w, 2)>>
      BY <1>6, <1>9, <2>1 DEF place
    <3> QED BY <1>4, <1>7, <1>9, <3>1, <3>2
  <2>2. AllDigits(op.text)' <=> AllDigits(op.text)
    BY <1>4
  <2> QED BY <2>1, <2>2 DEF Written
<1>12. Answer'
  BY <1>4, <1>5, <1>6, <1>11 DEF Answer, SelectOps
<1>13. Device'
  BY <1>1, <1>4, <1>10 DEF Inv, Device
<1> QED BY <1>1, <1>4, <1>12, <1>13, AnswerKeeps

(* The sequence of a set's elements has each of them once. *)
LEMMA Enumerates ==
  ASSUME NEW S, IsFiniteSet(S)
  PROVE  /\ SetToSeq(S) \in [1..Cardinality(S) -> S] /\ SetToSeq(S) \in Seq(S)
         /\ Len(SetToSeq(S)) = Cardinality(S) /\ Cardinality(S) \in Nat
         /\ \A i, j \in 1..Cardinality(S) : SetToSeq(S)[i] = SetToSeq(S)[j] => i = j
         /\ \A t \in S : \E i \in 1..Cardinality(S) : SetToSeq(S)[i] = t
         /\ SetToSeq(S) = <<>> <=> S = {}
<1> DEFINE n == Cardinality(S)
           s == SetToSeq(S)
<1>1. n \in Nat /\ ExistsBijection(1..n, S)
  BY FS_CardinalityType
<1>2. \E f \in [1..n -> S] : IsInjective(f)
  BY <1>1 DEF ExistsBijection, Bijection, Injection
<1>3. s = CHOOSE f \in [1..n -> S] : IsInjective(f)
  BY DEF SetToSeq
<1> HIDE DEF n, s
<1>4. s \in [1..n -> S] /\ IsInjective(s)
  BY <1>2, <1>3
<1>5. s \in Seq(S) /\ Len(s) = n
  BY <1>1, <1>4
<1>6. \A i, j \in 1..n : s[i] = s[j] => i = j
  BY <1>4 DEF IsInjective
<1>7. \A t \in S : \E i \in 1..n : s[i] = t
  <2>1. IsFiniteSet(1..n) /\ Cardinality(1..n) = n
    BY <1>1, FS_Interval
  <2>2. s \in Injection(1..n, S)
    BY <1>4 DEF Injection
  <2>3. s \in Surjection(1..n, S)
    BY <2>1, <2>2, FS_Injection DEF n
  <2> QED BY <2>3 DEF Surjection
<1>8. s = <<>> <=> S = {}
  <2>1. ASSUME s = <<>> PROVE S = {}
    <3>1. n = 0
      BY <1>5, <2>1
    <3> QED BY <1>7, <3>1
  <2>2. ASSUME S = {} PROVE s = <<>>
    <3>1. n = 0
      BY <2>2, FS_EmptySet DEF n
    <3> QED BY <1>5, <3>1
  <2> QED BY <2>1, <2>2
<1> QED BY <1>1, <1>4, <1>5, <1>6, <1>7, <1>8 DEF n, s

(* A notice is a response. *)
LEMMA NoticeTold ==
  ASSUME InPairs(memory), NEW t \in DOMAIN Tags
  PROVE  ReplyOf(Notice(t), 34, NoticeData(t)) /\ Notice(t) \in Seq(Byte)
<1> DEFINE d == NoticeData(t)
<1>1. d \in Seq(Byte) /\ Len(d) = 5 + Len(EpcOf(t))
  BY NoticeTyped
<1>2. EpcOf(t) \in Seq(Byte) /\ Len(EpcOf(t)) <= 62
  BY TagParts
<1>3. Notice(t) = Reply(2, 34, d)
  BY DEF Notice, NoticeData
<1> HIDE DEF d
<1>4. Len(d) \in Short /\ 2 \in Byte /\ 34 \in Byte
  <2>1. Len(EpcOf(t)) \in Nat
    BY <1>2, LenProperties
  <2> QED BY <1>1, <1>2, <2>1, ShortIs, ByteIs, SMTT(30)
<1>5. ReplyOf(Notice(t), 34, d)
  BY <1>1, <1>3, <1>4, ReplyParts
<1> QED BY <1>5 DEF ReplyOf, d

(* An inventory is told, a notice for each tag. *)
LEMMA PollOnceKeeps ==
  ASSUME Inv, PollOnce
  PROVE  Inv'
<1>s. PICK s, n : s = SetToSeq(field) /\ n = Cardinality(field)
  OBVIOUS
<1>1. /\ pc = "sent" /\ wire[1][3] = 34 /\ pc' = "answered"
      /\ wire' = (IF s = <<>> THEN <<Reply(1, 255, <<21>>)>> ELSE [i \in 1..Len(s) |-> Notice(s[i])])
      /\ UNCHANGED <<build, site, op, step, kept, result, selected>>
      /\ UNCHANGED deviceVars /\ refused' = refused
  BY <1>s DEF PollOnce, Requested, Answers
<1>2. Device /\ Device'
  BY <1>1 DEF Inv, Device, deviceVars
<1>3. op.name = "single_polling_instruction"
  <2>1. IsRequest(op, step, 34, Params)
    BY <1>1, Asked DEF Inv
  <2> QED BY <2>1 DEF IsRequest
<1>4. /\ field \subseteq DOMAIN Tags /\ IsFiniteSet(field) /\ InPairs(memory)
      /\ field' = field /\ memory' = memory
  BY <1>1, <1>2 DEF Device, deviceVars
<1>5. /\ s \in [1..n -> field] /\ Len(s) = n /\ n \in Nat
      /\ \A i, j \in 1..n : s[i] = s[j] => i = j
      /\ \A t \in field : \E i \in 1..n : s[i] = t
      /\ s = <<>> <=> field = {}
  BY <1>4, <1>s, Enumerates
<1>6. wire' \in Seq(Seq(Byte)) /\ InventoryTold'
  <2>1. CASE field = {}
    <3>1. wire' = <<Reply(1, 255, <<21>>)>>
      BY <1>1, <1>5, <2>1
    <3>2. 255 \in Byte /\ 21 \in Byte
      BY ByteIs
    <3> DEFINE d == <<21>>
    <3>3. d \in Seq(Byte) /\ Len(d) \in Short
      BY <3>2, OneOf
    <3>4. wire' = <<Reply(1, 255, d)>>
      BY <3>1
    <3> HIDE DEF d
    <3>5. Len(wire') = 1 /\ wire' \in Seq(Seq(Byte)) /\ ReplyOf(wire'[1], 255, d)
      BY <3>2, <3>3, <3>4, OneReply
    <3> QED BY <1>4, <2>1, <3>5 DEF InventoryTold, d
  <2>2. CASE field # {}
    <3>1. wire' = [i \in 1..n |-> Notice(s[i])]
      BY <1>1, <1>5, <2>2
    <3>2. ASSUME NEW i \in 1..n
          PROVE  wire'[i] \in Seq(Byte) /\ ReplyOf(wire'[i], 34, NoticeData(s[i]))
      <4>1. s[i] \in DOMAIN Tags /\ wire'[i] = Notice(s[i])
        BY <1>4, <1>5, <3>1
      <4> QED BY <1>4, <4>1, NoticeTold
    <3>3. wire' \in [1..n -> Seq(Byte)]
      BY <3>1, <3>2
    <3>4. wire' \in Seq(Seq(Byte)) /\ Len(wire') = n
      BY <1>5, <3>3
    <3>5. \A t : NoticeData(t)' = NoticeData(t)
      BY <1>4, SameWords
    <3>6. \A i \in 1..n : ReplyOf(wire'[i], 34, NoticeData(s[i])')
      BY <3>2, <3>5
    <3>7. InventoryTold'
      BY <1>4, <1>5, <1>s, <2>2, <3>4, <3>6 DEF InventoryTold
    <3> QED BY <3>4, <3>7
  <2> QED BY <2>1, <2>2
<1>7. Answer'
  BY <1>1, <1>3, <1>6 DEF Answer, SelectOps
<1> QED BY <1>1, <1>2, <1>6, <1>7, AnswerKeeps

(* A step of the reader keeps the invariant. *)
LEMMA ReaderKeeps ==
  ASSUME Inv, Reader
  PROVE  Inv'
BY RefuseKeeps, TellAreaKeeps, TakeAreaKeeps, TellChannelKeeps, TellPowerKeeps, TakePowerKeeps,
   TakeRoundsKeeps, StopRoundsKeeps, PollOnceKeeps, TakeMaskKeeps, TakeModeKeeps, ReadLabelKeeps,
   WriteLabelKeeps, KillTagKeeps, LockTagKeeps, TagFailsKeeps DEF Reader

-----------------------------------------------------------------------------
(* The steps of the client *)

(* An operation has one request, or two. *)
LEMMA RequestCount ==
  ASSUME NEW o, o.name \in Operations
  PROVE  Len(Requests(o)) = IF o.name \in TwoSteps THEN 2 ELSE 1
<1>1. ASSUME o.name = "get_working_area" PROVE Len(Requests(o)) = 1
  BY <1>1 DEF Requests
<1>2. ASSUME o.name = "get_working_channel" PROVE Len(Requests(o)) = 2
  BY <1>2 DEF Requests
<1>3. ASSUME o.name = "set_working_area" PROVE Len(Requests(o)) = 1
  BY <1>3 DEF Requests
<1>4. ASSUME o.name = "get_transmit_power" PROVE Len(Requests(o)) = 1
  BY <1>4 DEF Requests
<1>5. ASSUME o.name = "set_transmission_power" PROVE Len(Requests(o)) = 1
  BY <1>5 DEF Requests
<1>6. ASSUME o.name = "single_polling_instruction" PROVE Len(Requests(o)) = 1
  BY <1>6 DEF Requests
<1>7. ASSUME o.name = "enable_multiple_polling_instructions" PROVE Len(Requests(o)) = 1
  BY <1>7 DEF Requests
<1>8. ASSUME o.name = "stop_multiple_polling_instructions" PROVE Len(Requests(o)) = 1
  BY <1>8 DEF Requests
<1>9. ASSUME o.name = "select_tag" PROVE Len(Requests(o)) = 2
  BY <1>9 DEF Requests
<1>10. ASSUME o.name = "clear_select" PROVE Len(Requests(o)) = 2
  BY <1>10 DEF Requests
<1>11. ASSUME o.name = "read_mem" PROVE Len(Requests(o)) = 1
  BY <1>11 DEF Requests
<1>12. ASSUME o.name = "write_mem" PROVE Len(Requests(o)) = 1
  BY <1>12 DEF Requests
<1>13. ASSUME o.name = "kill_tag" PROVE Len(Requests(o)) = 1
  BY <1>13 DEF Requests
<1>14. ASSUME o.name = "lock_tag" PROVE Len(Requests(o)) = 1
  BY <1>14 DEF Requests
<1>15. o.name \in TwoSteps <=> o.name = "get_working_channel" \/ o.name = "select_tag" \/ o.name = "clear_select"
  BY DEF TwoSteps
<1> QED BY <1>1, <1>2, <1>3, <1>4, <1>5, <1>6, <1>7, <1>8, <1>9, <1>10, <1>11, <1>12, <1>13, <1>14, <1>15 DEF Operations

(* Initially. *)
LEMMA InitInv ==
  ASSUME Init
  PROVE  Inv
<1>1. /\ site \in Sites /\ build \in site.builds /\ field \in SUBSET site.tags
      /\ area = 5 /\ channel = 2 /\ power = 2000 /\ rounds = 0 /\ mode = 1
      /\ memory = <<>> /\ pc = "idle" /\ step = 1 /\ wire = <<>> /\ refused = <<>>
      /\ op = [name |-> "none"] /\ result = Outcome("none", <<>>)
  BY DEF Init
<1>2. site.tags \subseteq DOMAIN Tags /\ IsFiniteSet(site.tags) /\ site.builds \subseteq {"debug", "release"}
  BY <1>1, CodecAssumption, Zenon
<1>3. IsFiniteSet(field)
  BY <1>1, <1>2, FS_Subset
<1>4. power \in Short /\ rounds \in Short
  BY <1>1, ShortIs
<1>5. DOMAIN memory = {}
  BY <1>1
<1>6. Device
  BY <1>1, <1>2, <1>3, <1>4, <1>5 DEF Device, InPairs
<1>7. op.name = "none" /\ result.status = "none"
  BY <1>1 DEF Outcome
<1>8. wire \in Seq(Seq(Byte))
  BY <1>1
<1>9. Call /\ Sent /\ Answered /\ Shown
  BY <1>1, <1>7, <1>8 DEF Call, Sent, Answered, Shown
<1>10. PanicsExplained /\ ErrorTold /\ SettingsArrive /\ MemoryAsAsked /\ InventoryFaithful
  BY <1>1, <1>7, Zenon DEF PanicsExplained, ErrorTold, SettingsArrive, MemoryAsAsked,
                          InventoryFaithful, Inventoried
<1> QED BY <1>6, <1>7, <1>9, <1>10 DEF Inv

(* What a client invokes is a call, the tag that an inventory showed too. *)
LEMMA Invoked ==
  ASSUME Inv, pc = "idle", NEW o \in site.calls \cup Found
  PROVE  IsCall(o)
<1>1. CASE o \in site.calls
  <2>1. site \in Sites
    BY DEF Inv, Device
  <2> QED BY <1>1, <2>1, CodecAssumption, Zenon
<1>2. CASE o \in Found
  <2>1. op.name = "single_polling_instruction" /\ result.status = "Ok"
    BY <1>2 DEF Found
  <2>2. PICK i \in 1..Len(result.val) : o = [name |-> "select_tag", text |-> result.val[i].epc]
    BY <1>2, <2>1 DEF Found
  <2>3. result.val[i].epc \in Seq(0..15) /\ Len(result.val[i].epc) = 24
    BY <2>1, <2>2 DEF Inv, Shown
  <2>4. o.name = "select_tag" /\ o.text \in Seq(0..15) /\ Len(o.text) = 24
    BY <2>2, <2>3
  <2>5. o.text \in Seq(0..Rest)
    <3>1. 0..15 \subseteq 0..Rest
      BY DEF Rest
    <3>2. Len(o.text) \in Nat /\ o.text \in [1..Len(o.text) -> 0..15]
      BY <2>4, LenProperties
    <3>3. o.text \in [1..Len(o.text) -> 0..Rest]
      BY <3>1, <3>2
    <3> QED BY <3>2, <3>3, SeqDef
  <2>6. Len(o.text) % 2 = 0
    BY <2>4
  <2> QED BY <2>4, <2>5, <2>6 DEF IsCall, Operations, TextOps
<1> QED BY <1>1, <1>2

(* A call begins, or panics or fails before it sends a byte. *)
LEMMA InvokeKeeps ==
  ASSUME Inv, Invoke
  PROVE  Inv'
<1>1. PICK o \in site.calls \cup Found :
        /\ pc = "idle" /\ op' = o
        /\ IF o.name \in TextOps /\ Cut(o.text)
           THEN pc' = pc /\ result' = Outcome("Panic", <<>>)
           ELSE IF o.name = "write_mem" /\ Len(ParseHex(o.text)) % 2 = 1
           THEN pc' = pc /\ result' = Outcome("FailedSetting", <<>>)
           ELSE pc' = "send" /\ result' = Outcome("none", <<>>)
        /\ wire' = <<>> /\ refused' = <<>>
        /\ UNCHANGED <<build, site, deviceVars, step>>
  BY DEF Invoke
<1>2. IsCall(o)
  BY <1>1, Invoked
<1>3. Device'
  BY <1>1 DEF Inv, Device, deviceVars
<1>4. step' = 1 /\ wire' \in Seq(Seq(Byte))
  BY <1>1 DEF Inv, Call
<1>5. /\ pc' \in {"idle", "send"}
      /\ result'.status \in {"none", "FailedSetting", "Panic"}
      /\ pc' = "send" => result'.status = "none"
      /\ result'.status = "Panic" => o.name \in TextOps /\ Cut(o.text)
  <2>1. CASE o.name \in TextOps /\ Cut(o.text)
    BY <1>1, <2>1 DEF Outcome
  <2>2. CASE ~(o.name \in TextOps /\ Cut(o.text))
    BY <1>1, <2>2 DEF Outcome
  <2> QED BY <2>1, <2>2
<1>6. 1 \in 1..Len(Requests(o))
  <2>1. Len(Requests(o)) \in {1, 2}
    BY <1>2, RequestCount DEF IsCall
  <2> QED BY <2>1, SMTT(30)
<1>7. Call'
  <2>1. pc' # "idle" => IsCall(op)' /\ step' \in 1..Len(Requests(op)')
    BY <1>1, <1>2, <1>4, <1>6
  <2> QED BY <1>1, <1>4, <1>5, <2>1 DEF Call
<1>8. Sent' /\ Answered' /\ Shown'
  BY <1>5, Zenon DEF Sent, Answered, Shown
<1>9. ErrorTold'
  BY <1>1, Zenon DEF ErrorTold
<1>10. SettingsArrive' /\ MemoryAsAsked' /\ InventoryFaithful'
  BY <1>5, Zenon DEF SettingsArrive, MemoryAsAsked, InventoryFaithful, Inventoried
<1>11. PanicsExplained'
  BY <1>1, <1>5, Zenon DEF PanicsExplained, Cut
<1>12. result'.status = "Panic" => pc' = "idle"
  BY <1>5
<1> QED BY <1>3, <1>7, <1>8, <1>9, <1>10, <1>11, <1>12 DEF Inv

(* A request is sent. *)
LEMMA SendKeeps ==
  ASSUME Inv, Send
  PROVE  Inv'
<1> DEFINE c == Requests(op)[step]
           f == Frame(c)
           long == build = "debug" /\ Overflows(Summed(c))
<1>1. /\ pc = "send" /\ wire' = <<f>>
      /\ UNCHANGED <<build, site, deviceVars, op, refused, acted>>
      /\ IF long THEN Returns(Outcome("Panic", <<>>))
         ELSE pc' = "sent" /\ UNCHANGED <<step, kept, result, selected>>
  BY DEF Send
<1>2. /\ Call /\ IsCall(op) /\ step \in 1..Len(Requests(op)) /\ result.status = "none"
      /\ refused = <<>> \/ (op.name = "get_working_channel" /\ step = 2)
  BY <1>1 DEF Inv, Call
<1>3. f \in Seq(Byte) /\ (long => Len(f) > 257)
  BY <1>2, FrameOfRequest
<1> HIDE DEF f, long
<1>4. wire' \in Seq(Seq(Byte))
  BY <1>1, <1>3
<1>5. Device'
  BY <1>1 DEF Inv, Device, deviceVars
<1>6. CASE long
  <2>1. /\ pc' = "idle" /\ step' = 1 /\ result'.status = "Panic"
        /\ build' = build /\ build = "debug"
    BY <1>1, <1>6 DEF Returns, Outcome, long
  <2>2. Call' /\ Sent' /\ Answered' /\ Shown'
    BY <1>4, <2>1 DEF Call, Sent, Answered, Shown
  <2>3. PanicsExplained'
    <3>1. 1 \in 1..Len(wire') /\ wire'[1] = f
      BY <1>1
    <3>2. Len(wire'[1]) > 257
      BY <1>3, <1>6, <3>1
    <3> QED BY <2>1, <3>1, <3>2, Zenon DEF PanicsExplained
  <2>4. ErrorTold'
    <3>1. ASSUME refused' # <<>>
          PROVE  op'.name \notin CheckedOps /\ op'.name # "stop_multiple_polling_instructions"
      <4>1. op'.name = "get_working_channel"
        BY <1>1, <1>2, <3>1
      <4> QED BY <4>1 DEF CheckedOps
    <3> QED BY <3>1, Zenon DEF ErrorTold
  <2>5. SettingsArrive' /\ MemoryAsAsked' /\ InventoryFaithful'
    BY <2>1, Zenon DEF SettingsArrive, MemoryAsAsked, InventoryFaithful, Inventoried
  <2> QED BY <1>5, <2>1, <2>2, <2>3, <2>4, <2>5 DEF Inv
<1>7. CASE ~long
  <2>1. pc' = "sent" /\ step' = step /\ kept' = kept /\ result' = result /\ op' = op /\ refused' = refused
    BY <1>1, <1>7
  <2>2. channel' = channel
    BY <1>1 DEF deviceVars
  <2>3. Call'
    <3>1. (op.name = "get_working_channel" /\ step = 2 /\ refused = <<>>) => ReplyOf(kept, 170, <<channel>>)
      BY <1>1, <1>2 DEF Call
    <3> QED BY <1>2, <1>4, <2>1, <2>2, <3>1 DEF Call
  <2>4. Sent'
    BY <1>1, <2>1 DEF Sent, f
  <2>5. Answered' /\ Shown'
    BY <2>1 DEF Answered, Shown
  <2>6. PanicsExplained'
    BY <1>2, <2>1, Zenon DEF PanicsExplained
  <2>7. ErrorTold' /\ SettingsArrive' /\ MemoryAsAsked' /\ InventoryFaithful'
    BY <2>1, Zenon DEF ErrorTold, SettingsArrive, MemoryAsAsked, InventoryFaithful, Inventoried
  <2> QED BY <1>2, <1>5, <2>1, <2>3, <2>4, <2>5, <2>6, <2>7 DEF Inv
<1> QED BY <1>6, <1>7

-----------------------------------------------------------------------------
(* What is right for a call to return *)

(* What is right for a call to return. *)
ErrorRight(res) ==
  refused # <<>> =>
    /\ op.name \in CheckedOps =>
         /\ res.status = "CommandError"
         /\ ShownByte(res.val[1]) = ToldAs(refused[1])
    /\ op.name = "stop_multiple_polling_instructions" => res.status = "ErrorStopMultiPolling"

SettingRight(res) ==
  res.status = "Ok" /\ refused = <<>> =>
    /\ op.name = "set_working_area" => Region[area] = op.area
    /\ op.name = "get_working_area" => res.val = <<Region[area]>>
    /\ op.name = "get_working_channel" => InBand(res.val[1], Region[area])
    /\ op.name = "set_transmission_power" => Clamp(op.power) - power \in {0, 1}
    /\ op.name = "get_transmit_power" => res.val = <<power>>
    /\ op.name = "enable_multiple_polling_instructions" => rounds = op.times
    /\ op.name = "stop_multiple_polling_instructions" => rounds = 0

MemoryRight(res) ==
  res.status = "Ok" =>
    /\ op.name = "read_mem" =>
         res.val = <<Words(acted.tag, op.bank, op.addr, op.length)>> /\ memory = acted.memory
    /\ op.name = "write_mem" => Written

ListsIn(val, tags) == Len(val) = Cardinality(tags) /\ ToSet(val) = {RecordOf(t) : t \in tags}

InventoryRight(res) ==
  op.name = "single_polling_instruction" /\ res.status = "Ok" =>
    /\ \A i \in 1..Len(res.val) : res.val[i].epc \in Seq(0..15) /\ Len(res.val[i].epc) = 24
    /\ refused = <<>> =>
         \/ ListsIn(res.val, {t \in field : Len(EpcOf(t)) = 12})
         \/ \E t \in DOMAIN Tags : field = {t} /\ Tags[t].rssi = 21 /\ ListsIn(res.val, {})

Right(res) == ErrorRight(res) /\ SettingRight(res) /\ MemoryRight(res) /\ InventoryRight(res)

(* What a client's step leaves alone. *)
Settled ==
  UNCHANGED <<build, site, area, channel, power, rounds, mask, mode, field, memory, op, refused, acted>>

(* A call that returns what is right keeps the invariant. *)
LEMMA ReturnsKeeps ==
  ASSUME Inv, NEW res, Returns(res), Settled, wire' \in Seq(Seq(Byte)), Right(res), res.status # "Panic"
  PROVE  Inv'
<1>1. pc' = "idle" /\ step' = 1 /\ result' = res
  BY DEF Returns
<1>2. /\ build' = build /\ site' = site /\ area' = area /\ channel' = channel /\ power' = power
      /\ rounds' = rounds /\ mode' = mode /\ field' = field /\ memory' = memory
      /\ op' = op /\ refused' = refused /\ acted' = acted
  BY DEF Settled
<1>3. Device'
  BY <1>2 DEF Inv, Device
<1>4. Call' /\ Sent' /\ Answered'
  BY <1>1 DEF Call, Sent, Answered
<1>5. Shown'
  BY <1>1, <1>2, Zenon DEF Shown, Right, InventoryRight
<1>6. PanicsExplained'
  BY <1>1, Zenon DEF PanicsExplained
<1>7. ErrorTold'
  BY <1>1, <1>2, Zenon DEF ErrorTold, Right, ErrorRight
<1>8. SettingsArrive'
  BY <1>1, <1>2, Zenon DEF SettingsArrive, Right, SettingRight
<1>9. MemoryAsAsked'
  <2>1. \A t, b, a, c : Words(t, b, a, c)' = Words(t, b, a, c)
    BY <1>2, SameWords
  <2>2. Place' = Place /\ \A w, i : Typed(w, i)' = Typed(w, i)
    BY <1>2, Zenon DEF Place, Typed
  <2>3. ASSUME res.status = "Ok", op.name = "read_mem"
        PROVE  (result.val = <<Words(acted.tag, op.bank, op.addr, op.length)>> /\ memory = acted.memory)'
    <3>1. res.val = <<Words(acted.tag, op.bank, op.addr, op.length)>> /\ memory = acted.memory
      BY <2>3 DEF Right, MemoryRight
    <3>2. Words(acted.tag, op.bank, op.addr, op.length)' = Words(acted.tag, op.bank, op.addr, op.length)
      BY <1>2 DEF Words, Word
    <3> QED BY <1>1, <1>2, <3>1, <3>2
  <2>4. ASSUME res.status = "Ok", op.name = "write_mem", AllDigits(op.text)
        PROVE  (/\ \A w \in Place : memory[w] = <<Typed(w, 1), Typed(w, 2)>>
                /\ \A w \in DOMAIN memory \ Place :
                     w \in DOMAIN acted.memory /\ memory[w] = acted.memory[w])'
    <3>1. /\ \A w \in Place : memory[w] = <<Typed(w, 1), Typed(w, 2)>>
          /\ \A w \in DOMAIN memory \ Place :
               w \in DOMAIN acted.memory /\ memory[w] = acted.memory[w]
      BY <2>4, Zenon DEF Right, MemoryRight, Written
    <3> QED BY <1>2, <2>2, <3>1, Zenon
  <2>5. AllDigits(op.text)' <=> AllDigits(op.text)
    BY <1>2, Zenon DEF AllDigits
  <2> QED BY <1>1, <1>2, <2>3, <2>4, <2>5, Zenon DEF MemoryAsAsked
<1>10. InventoryFaithful'
  <2>1. \A t : EpcOf(t)' = EpcOf(t) /\ RecordOf(t)' = RecordOf(t)
    BY <1>2, SameWords DEF RecordOf
  <2>2. \A tags : ListsIn(res.val, tags) => Len(result'.val) = Cardinality(tags)
                                            /\ ToSet(result'.val) = {RecordOf(t)' : t \in tags}
    BY <1>1, <2>1 DEF ListsIn
  <2>3. {t \in field : Len(EpcOf(t)) = 12}' = {t \in field : Len(EpcOf(t)) = 12}
    BY <1>2, <2>1
  <2>4. ASSUME Inventoried'
        PROVE  \/ ListsIn(res.val, {t \in field : Len(EpcOf(t)) = 12})
               \/ \E t \in DOMAIN Tags : field = {t} /\ Tags[t].rssi = 21 /\ ListsIn(res.val, {})
    BY <1>1, <1>2, <2>4, Zenon DEF Inventoried, Right, InventoryRight
  <2>5. ASSUME Inventoried', ListsIn(res.val, {t \in field : Len(EpcOf(t)) = 12})
        PROVE  Lists({t \in field : Len(EpcOf(t)) = 12})'
    BY <2>2, <2>3, <2>5, Zenon DEF Lists
  <2>6. ASSUME NEW t \in DOMAIN Tags, ListsIn(res.val, {})
        PROVE  Lists({})'
    BY <2>2, <2>6, Zenon DEF Lists
  <2> QED BY <1>2, <2>4, <2>5, <2>6, Zenon DEF InventoryFaithful
<1> QED BY <1>1, <1>3, <1>4, <1>5, <1>6, <1>7, <1>8, <1>9, <1>10 DEF Inv

(* A response on the wire is one that Packet::is_valid accepts. *)
Told(p) == IsValid(p) /\ Data(p) \in Seq(Byte) /\ (Overflows(CheckedPart(p)) => Len(p) > 257)

(* A reply is a response that Packet::is_valid accepts. *)
LEMMA ReplyTold ==
  ASSUME NEW p, NEW code, NEW data, ReplyOf(p, code, data)
  PROVE  Told(p)
BY DEF ReplyOf, Told

(* So are all that are on the wire. *)
LEMMA WireTold ==
  ASSUME Inv, pc = "answered"
  PROVE  /\ wire \in Seq(Seq(Byte)) /\ Len(wire) \in Nat
         /\ \A i \in 1..Len(wire) : Told(wire[i])
<1> DEFINE AllTold == \A i \in 1..Len(wire) : Told(wire[i])
<1>0. pc = "answered"
  OBVIOUS
<1>1. Call /\ Answered
  BY DEF Inv
<1>2. wire \in Seq(Seq(Byte)) /\ Len(wire) \in Nat
  BY <1>1, LenProperties DEF Call
<1> HIDE DEF AllTold
<1>3. ASSUME Len(wire) = 1, Told(wire[1]) PROVE AllTold
  <2>1. \A i \in 1..Len(wire) : i = 1
    BY <1>3
  <2> QED BY <1>3, <2>1 DEF AllTold
<1>4. ASSUME Refusal PROVE AllTold
  <2>1. Len(wire) = 1 /\ Told(wire[1])
    BY <1>4, ReplyTold DEF Refusal
  <2> QED BY <1>3, <2>1
<1>5. ASSUME Answer, op.name = "single_polling_instruction" PROVE AllTold
  <2>1. InventoryTold
    BY <1>5 DEF Answer
  <2>2. ASSUME field = {} PROVE AllTold
    <3>1. Len(wire) = 1 /\ Told(wire[1])
      BY <2>1, <2>2, ReplyTold DEF InventoryTold
    <3> QED BY <1>3, <3>1
  <2>3. ASSUME field # {} PROVE AllTold
    <3>1. \E tags : \A i \in 1..Len(wire) : ReplyOf(wire[i], 34, NoticeData(tags[i]))
      BY <2>1, <2>3, Zenon DEF InventoryTold
    <3> QED BY <3>1, ReplyTold DEF AllTold
  <2> QED BY <2>2, <2>3
<1>6. ASSUME Answer, op.name = "enable_multiple_polling_instructions" PROVE AllTold
  <2>1. wire = <<>>
    BY <1>6 DEF Answer
  <2> QED BY <2>1 DEF AllTold
<1>7. ASSUME Answer, op.name \in {"read_mem", "write_mem", "kill_tag", "lock_tag"} PROVE AllTold
  <2>1. ASSUME NEW code, NEW data, BehindHead(wire[1], code, data) PROVE Told(wire[1])
    BY <2>1, ReplyTold DEF BehindHead
  <2>2. ASSUME NEW code, NEW data, TagTold(code, data) PROVE Told(wire[1])
    BY <2>1, <2>2 DEF TagTold
  <2>3. op.name = "read_mem" \/ op.name = "write_mem" \/ op.name = "kill_tag" \/ op.name = "lock_tag"
    BY <1>7
  <2>4. Len(wire) = 1
    BY <1>7, <2>3 DEF Answer
  <2>5. Told(wire[1])
    BY <1>7, <2>2, <2>3 DEF Answer
  <2> QED BY <1>3, <2>4, <2>5
<1>8. ASSUME Answer,
             op.name \notin {"read_mem", "write_mem", "kill_tag", "lock_tag",
               "single_polling_instruction", "enable_multiple_polling_instructions"}
      PROVE  AllTold
  <2>1. \/ op.name = "get_working_area" \/ op.name = "get_working_channel"
        \/ op.name = "set_working_area" \/ op.name = "get_transmit_power"
        \/ op.name = "set_transmission_power" \/ op.name = "stop_multiple_polling_instructions"
        \/ op.name \in SelectOps
    BY <1>0, <1>1, <1>8 DEF Call, IsCall, Operations, SelectOps
  <2>2. Len(wire) = 1
    BY <1>8 DEF Answer
  <2>3. Told(wire[1])
    BY <1>8, <2>1, ReplyTold DEF Answer
  <2> QED BY <1>3, <2>2, <2>3
<1>9. Refusal \/ Answer
  BY <1>1, <1>0 DEF Answered
<1>10. AllTold
  BY <1>4, <1>5, <1>6, <1>7, <1>8, <1>9
<1> QED BY <1>2, <1>10 DEF AllTold

(* So the packets of a read are all that the reader sent. *)
LEMMA AllArePackets ==
  ASSUME Inv, pc = "answered"
  PROVE  Pick(wire, {i \in 1..Len(wire) : IsValid(wire[i])}) = wire
<1>1. wire \in Seq(Seq(Byte)) /\ \A i \in 1..Len(wire) : IsValid(wire[i])
  BY WireTold DEF Told
<1>2. {i \in 1..Len(wire) : IsValid(wire[i])} = 1..Len(wire)
  BY <1>1
<1> QED BY <1>1, <1>2, PickAll

-----------------------------------------------------------------------------
(* Hex text and error codes *)

(* The digits of a byte. *)
LEMMA Digits ==
  ASSUME NEW b \in Byte
  PROVE  /\ b \div 16 \in 0..15 /\ b % 16 \in 0..15
         /\ 16 * (b \div 16) + (b % 16) = b
<1>1. b \div 16 \in 0..15 /\ b % 16 \in 0..15
  <2>1. b \in Int /\ 0 <= b /\ b <= 255
    BY ByteIs
  <2> QED BY <2>1
<1>2. b \in Int
  BY ByteIs
<1>3. ASSUME NEW n \in Int PROVE 16 * (n \div 16) + (n % 16) = n
  BY SMTT(30)
<1> QED
  BY <1>1, <1>2, <1>3, Zenon

(* The value of two digits. *)
LEMMA PairOfDigits ==
  ASSUME NEW high \in 0..15, NEW low \in 0..15
  PROVE  PairValue(high, low) = 16 * high + low
  BY DEF PairValue

(* The text that an inventory shows for an EPC, and that select_tag and    *)
(* write_epc_reliable parse again, stands for that EPC: parse_hex_str      *)
(* inverts bytes_to_hex_upper for bytes of any number.                     *)
THEOREM HexRoundTrip ==
  ASSUME NEW bytes \in Seq(Byte)
  PROVE  ParseHex(HexUpper(bytes)) = bytes
<1> DEFINE text == HexUpper(bytes)
<1>1. Len(bytes) \in Nat /\ Len(text) = 2 * Len(bytes)
  BY DEF HexUpper
<1>2. ASSUME NEW i \in 1..Len(bytes)
      PROVE  /\ text[2 * i - 1] = bytes[i] \div 16
             /\ text[2 * i] = bytes[i] % 16
  <2>1. 2 * i - 1 \in 1..(2 * Len(bytes)) /\ 2 * i \in 1..(2 * Len(bytes))
    BY <1>1
  <2>2. ((2 * i - 1) + 1) \div 2 = i /\ (2 * i - 1) % 2 = 1
    BY <1>1
  <2>3. (2 * i + 1) \div 2 = i /\ (2 * i) % 2 = 0
    BY <1>1
  <2>4. text[2 * i - 1] = bytes[i] \div 16
    BY <2>1, <2>2 DEF HexUpper
  <2>5. text[2 * i] = bytes[i] % 16
    BY <2>1, <2>3 DEF HexUpper
  <2> QED
    BY <2>4, <2>5
<1>3. ASSUME NEW i \in 1..Len(bytes)
      PROVE  PairValue(text[2 * i - 1], text[2 * i]) = bytes[i]
  <2>1. bytes[i] \in Byte
    OBVIOUS
  <2>2. /\ bytes[i] \div 16 \in 0..15 /\ bytes[i] % 16 \in 0..15
        /\ 16 * (bytes[i] \div 16) + (bytes[i] % 16) = bytes[i]
    BY <2>1, Digits, Zenon
  <2>3. PairValue(bytes[i] \div 16, bytes[i] % 16)
          = 16 * (bytes[i] \div 16) + (bytes[i] % 16)
    BY <2>2, PairOfDigits, Zenon
  <2> QED
    BY <1>2, <2>2, <2>3, Zenon
<1>4. ParseHex(text) = [i \in 1..Len(bytes) |-> bytes[i]]
  <2>1. Len(text) \div 2 = Len(bytes)
    BY <1>1
  <2> QED
    BY <2>1, <1>3, Zenon DEF ParseHex
<1> QED
  BY <1>1, <1>4

(* What read_mem returns of a well-formed response are the words behind    *)
(* the protocol control and EPC of the tag, for an EPC of any length that  *)
(* the length byte can tell and any number of words.                       *)
THEOREM FramingStripped ==
  ASSUME NEW head \in Seq(Byte), NEW words \in Seq(Byte), Len(head) < 256
  PROVE  StripReadFraming(<<Len(head)>> \o head \o words) = Ok(<<words>>)
<1> DEFINE d == <<Len(head)>> \o head \o words
<1>1. /\ Len(d) = 1 + Len(head) + Len(words)
      /\ d # <<>>
      /\ d[1] = Len(head)
  OBVIOUS
<1>2. SubSeq(d, 2 + Len(head), Len(d)) = words
  OBVIOUS
<1>3. Len(d) >= 1 + d[1] /\ SubSeq(d, 2 + d[1], Len(d)) = words
  BY <1>1, <1>2
<1>4. StripReadFraming(d) = Ok(<<words>>)
  <2> HIDE DEF d
  <2> QED
    BY <1>1, <1>3, Zenon DEF StripReadFraming
<1> QED
  BY <1>4, Zenon

(* The bytes that the messages have are those that the codes are decoded   *)
(* from, name by name and family by family.                                *)
LEMMA SameByte ==
  ASSUME NEW name \in DOMAIN NamedErrors, name # "Success"
  PROVE  /\ name \in DOMAIN MessageByte \ DOMAIN MessageHalf /\ name # "Unknown"
         /\ MessageByte[name] = NamedErrors[name]
BY SMT DEF NamedErrors, MessageByte, MessageHalf

(* The halves that the messages of the families have. *)
LEMMA SameHalf ==
  ASSUME NEW family \in DOMAIN ErrorFamilies
  PROVE  /\ family \in DOMAIN MessageHalf \ DOMAIN MessageByte
         /\ family # "Success" /\ family # "Unknown"
         /\ MessageHalf[family] = 16 * ErrorFamilies[family]
BY SMT DEF ErrorFamilies, MessageHalf, MessageByte

(* The message of a CommandError shows the byte that the reader sent, for  *)
(* every byte, known or not, but zero: that is "Success", without a byte.  *)
THEOREM ShownIsSent ==
  ASSUME NEW b \in Byte
  PROVE  ShownByte(FromByte(b)) = IF b = 0 THEN NoByte ELSE b
<1> DEFINE Named   == \E name \in DOMAIN NamedErrors : NamedErrors[name] = b
           name    == CHOOSE n \in DOMAIN NamedErrors : NamedErrors[n] = b
           InFamily == \E n \in DOMAIN ErrorFamilies : ErrorFamilies[n] = Family(b)
           family  == CHOOSE n \in DOMAIN ErrorFamilies : ErrorFamilies[n] = Family(b)
<1>0. "Success" \in DOMAIN NamedErrors /\ NamedErrors["Success"] = 0
  BY SMT DEF NamedErrors
<1>1. CASE Named
  <2>1. name \in DOMAIN NamedErrors /\ NamedErrors[name] = b
    BY <1>1, Zenon
  <2>2. FromByte(b) = [kind |-> name, code |-> 0]
    BY <1>1, Zenon DEF FromByte
  <2>3. FromByte(b).kind = name
    BY <2>2
  <2> HIDE DEF name
  <2>4. CASE name = "Success"
    <3>0. "Success" \notin DOMAIN MessageByte /\ "Success" \notin DOMAIN MessageHalf
      BY DEF MessageByte, MessageHalf
    <3>1. ShownByte(FromByte(b)) = NoByte
      BY <2>3, <2>4, <3>0 DEF ShownByte
    <3>2. b = 0
      BY <1>0, <2>1, <2>4
    <3> QED BY <3>1, <3>2
  <2>5. CASE name # "Success"
    <3>1. /\ name \in DOMAIN MessageByte /\ name \notin DOMAIN MessageHalf /\ name # "Unknown"
          /\ MessageByte[name] = b
      BY <2>1, <2>5, SameByte
    <3>2. ShownByte(FromByte(b)) = MessageByte[name]
      BY <2>3, <2>5, <3>1 DEF ShownByte
    <3>3. b # 0
      BY <2>1, <2>5, SMT DEF NamedErrors
    <3> QED BY <3>1, <3>2, <3>3
  <2> QED BY <2>4, <2>5
<1>2. CASE ~Named /\ InFamily
  <2>1. family \in DOMAIN ErrorFamilies /\ ErrorFamilies[family] = Family(b)
    BY <1>2, Zenon
  <2>2. FromByte(b) = [kind |-> family, code |-> b % 16]
    BY <1>2, Zenon DEF FromByte
  <2>3. FromByte(b).kind = family /\ FromByte(b).code = b % 16
    BY <2>2
  <2> HIDE DEF family
  <2>4. /\ family \in DOMAIN MessageHalf /\ family \notin DOMAIN MessageByte
        /\ family # "Success" /\ family # "Unknown"
        /\ MessageHalf[family] = 16 * Family(b)
    BY <2>1, SameHalf
  <2>5. ShownByte(FromByte(b)) = MessageHalf[family] + (b % 16)
    BY <2>3, <2>4 DEF ShownByte
  <2>6. 16 * Family(b) + (b % 16) = b
    BY Digits DEF Family
  <2>7. b # 0
    BY <1>0, <1>2
  <2> QED BY <2>4, <2>5, <2>6, <2>7
<1>3. CASE ~Named /\ ~InFamily
  <2>1. FromByte(b) = [kind |-> "Unknown", code |-> b]
    BY <1>3, Zenon DEF FromByte
  <2>2. FromByte(b).kind = "Unknown" /\ FromByte(b).code = b
    BY <2>1
  <2>3. "Unknown" \notin DOMAIN MessageByte /\ "Unknown" \notin DOMAIN MessageHalf /\ "Unknown" # "Success"
    BY DEF MessageByte, MessageHalf
  <2>4. ShownByte(FromByte(b)) = b
    BY <2>2, <2>3 DEF ShownByte
  <2>5. b # 0
    BY <1>0, <1>3
  <2> QED BY <2>4, <2>5
<1> QED
  BY <1>1, <1>2, <1>3, Zenon

(* The text of bytes has two digits for each. *)
LEMMA HexDigits ==
  ASSUME NEW bytes \in Seq(Byte)
  PROVE  HexUpper(bytes) \in Seq(0..15) /\ Len(HexUpper(bytes)) = 2 * Len(bytes)
<1> DEFINE text == HexUpper(bytes)
           n == Len(bytes)
<1>1. n \in Nat
  OBVIOUS
<1>2. ASSUME NEW i \in 1..(2 * n) PROVE text[i] \in 0..15
  <2>1. (i + 1) \div 2 \in 1..n
    BY <1>1
  <2>2. bytes[(i + 1) \div 2] \in Byte
    BY <2>1
  <2>3. text[i] = IF i % 2 = 1 THEN bytes[(i + 1) \div 2] \div 16 ELSE bytes[(i + 1) \div 2] % 16
    BY DEF HexUpper
  <2> QED BY <2>2, <2>3, Digits
<1>3. text = [i \in 1..(2 * n) |-> text[i]]
  BY DEF HexUpper
<1> HIDE DEF text, n
<1>4. text \in [1..(2 * n) -> 0..15] /\ 2 * n \in Nat
  BY <1>1, <1>2, <1>3
<1>5. text \in Seq(0..15) /\ Len(text) = 2 * n
  BY <1>4, SMTT(30)
<1> QED BY <1>5 DEF text, n

-----------------------------------------------------------------------------
(* The decoding of responses *)

(* The operations whose packets are only checked for the error flag. *)
AckedOps == {"set_working_area", "select_tag", "clear_select", "write_mem", "kill_tag", "lock_tag"}

(* They are decoded by check_ack. *)
LEMMA DecodeAcked ==
  ASSUME op.name \in AckedOps
  PROVE  Decode(wire) = CheckAck(wire[1])
<1>1. /\ op.name # "get_working_area" /\ op.name # "get_working_channel"
      /\ op.name # "get_transmit_power" /\ op.name # "set_transmission_power"
      /\ op.name # "single_polling_instruction" /\ op.name # "stop_multiple_polling_instructions"
      /\ op.name # "read_mem"
  BY DEF AckedOps
<1> QED BY <1>1, Zenon DEF Decode

(* A refused operation that looks at the error flag tells the code. *)
LEMMA RefusalAcked ==
  ASSUME Refusal
  PROVE  /\ IsError(wire[1]) /\ CheckAck(wire[1]).status = "CommandError"
         /\ ShownByte(CheckAck(wire[1]).val[1]) = ToldAs(refused[1])
<1> DEFINE p == wire[1]
           d == refused[1]
           b == ErrorByte(p)
<1>1. CommandCode(p) = 255 /\ Data(p) = d /\ d \in Seq(Byte)
  BY DEF Refusal, ReplyOf
<1>2. b = IF d = <<>> THEN 255 ELSE d[1]
  BY <1>1, Zenon DEF ErrorByte
<1>3. b \in Byte
  <2>1. CASE d = <<>>
    BY <1>2, <2>1, ByteIs
  <2>2. CASE d # <<>>
    <3>1. d[1] \in Byte
      BY <1>1, <2>2
    <3> QED BY <1>2, <2>2, <3>1
  <2> QED BY <2>1, <2>2
<1>4. IsError(p)
  BY <1>1, Zenon DEF IsError
<1>5. CheckAck(p) = Outcome("CommandError", <<FromByte(b)>>)
  BY <1>4, Zenon DEF CheckAck
<1> HIDE DEF b
<1>6. ShownByte(FromByte(b)) = IF b = 0 THEN NoByte ELSE b
  BY <1>3, ShownIsSent
<1>8. (IF b = 0 THEN NoByte ELSE b) = ToldAs(d)
  BY <1>2 DEF ToldAs
<1>7. CheckAck(p).status = "CommandError" /\ CheckAck(p).val[1] = FromByte(b)
  BY <1>5 DEF Outcome
<1> QED BY <1>4, <1>6, <1>7, <1>8

(* A refused call returns what is right. *)
LEMMA RefusalRight ==
  ASSUME Refusal, op.name # "single_polling_instruction"
  PROVE  Right(Decode(wire))
<1> DEFINE res == Decode(wire)
<1>1. refused # <<>>
  BY DEF Refusal
<1>2. op.name \in CheckedOps => res = CheckAck(wire[1])
  <2>1. CASE op.name = "read_mem"
    <3>1. op.name # "get_working_area" /\ op.name # "get_working_channel"
          /\ op.name # "get_transmit_power" /\ op.name # "set_transmission_power"
          /\ op.name # "single_polling_instruction" /\ op.name # "stop_multiple_polling_instructions"
      BY <2>1
    <3>2. IsError(wire[1])
      BY RefusalAcked
    <3> QED BY <2>1, <3>1, <3>2, Zenon DEF Decode
  <2>2. CASE op.name \in AckedOps
    BY <2>2, DecodeAcked
  <2> QED BY <2>1, <2>2 DEF CheckedOps, AckedOps
<1>3. op.name = "stop_multiple_polling_instructions" => res.status = "ErrorStopMultiPolling"
  <2>1. ASSUME op.name = "stop_multiple_polling_instructions"
        PROVE  res = Outcome("ErrorStopMultiPolling", <<>>)
    <3>1. Len(wire) = 1 /\ CommandCode(wire[1]) = 255
      BY DEF Refusal, ReplyOf
    <3>2. FromTuple(255, wire[1][6]) = "InvalidCommand"
      BY DEF FromTuple
    <3>3. ASSUME NEW i \in 1..Len(wire)
          PROVE  FromTuple(CommandCode(wire[i]), wire[i][6]) # "StopMultiplePollingInstruction"
      <4>1. i = 1
        BY <3>1
      <4>2. FromTuple(CommandCode(wire[i]), wire[i][6]) = "InvalidCommand"
        BY <3>1, <3>2, <4>1
      <4> QED BY <4>2
    <3> QED BY <2>1, <3>3 DEF Decode
  <2> QED BY <2>1 DEF Outcome
<1> HIDE DEF res
<1>4. ErrorRight(res)
  BY <1>2, <1>3, RefusalAcked, Zenon DEF ErrorRight
<1>5. SettingRight(res)
  BY <1>1, Zenon DEF SettingRight
<1>6. MemoryRight(res)
  <2>1. ASSUME op.name = "read_mem" \/ op.name = "write_mem" PROVE res.status = "CommandError"
    <3>1. op.name \in CheckedOps
      BY <2>1 DEF CheckedOps
    <3> QED BY <1>2, <3>1, RefusalAcked
  <2> QED BY <2>1 DEF MemoryRight
<1>7. InventoryRight(res)
  BY Zenon DEF InventoryRight
<1> QED BY <1>4, <1>5, <1>6, <1>7 DEF Right, res

(* An answer that is no error is not taken for one. *)
LEMMA NotAnError ==
  ASSUME NEW code, NEW data, ReplyOf(wire[1], code, data), code # 255
  PROVE  ~IsError(wire[1]) /\ CheckAck(wire[1]) = Ok(Unit)
<1>1. ~IsError(wire[1])
  BY DEF ReplyOf, IsError
<1> QED BY <1>1, Zenon DEF CheckAck

(* What is right for an operation that reads no memory and takes no        *)
(* inventory, without an error: only its setting counts.                   *)
LEMMA OnlySetting ==
  ASSUME NEW res, SettingRight(res),
         op.name \notin {"read_mem", "write_mem", "single_polling_instruction"},
         refused = <<>> \/ op.name = "get_working_channel"
  PROVE  Right(res)
<1>1. ErrorRight(res)
  <2>1. CASE refused = <<>>
    BY <2>1, Zenon DEF ErrorRight
  <2>2. CASE op.name = "get_working_channel"
    <3>1. op.name \notin CheckedOps /\ op.name # "stop_multiple_polling_instructions"
      BY <2>2 DEF CheckedOps
    <3> QED BY <3>1, Zenon DEF ErrorRight
  <2> QED BY <2>1, <2>2
<1>2. op.name # "read_mem" /\ op.name # "write_mem" /\ op.name # "single_polling_instruction"
  OBVIOUS
<1>3. MemoryRight(res) /\ InventoryRight(res)
  BY <1>2, Zenon DEF MemoryRight, InventoryRight
<1> QED BY <1>1, <1>3 DEF Right

(* The codes of the areas, one way and the other. *)
LEMMA AreaOfCode ==
  ASSUME NEW a \in DOMAIN AreaCode
  PROVE  Region[AreaCode[a]] = a
BY DEF AreaCode, Region

(* The area that is told is the reader's. *)
LEMMA AreaTold ==
  ASSUME NEW p, NEW a \in 1..6, ReplyOf(p, 8, <<a>>)
  PROVE  /\ ParseToWorkingArea(p).status = "Ok" =>
              ParseToWorkingArea(p).val = <<Region[a]>> /\ Region[a] \in DOMAIN AreaCode
         /\ ParseToWorkingArea(p).status # "Panic"
<1>1. Data(p) = <<a>>
  BY DEF ReplyOf
<1>2. Data(p) # <<>> /\ Data(p)[1] = a
  BY <1>1
<1>3. ASSUME NEW n, n \in {1, 2, 3, 4, 6}, a = n
      PROVE  ParseToWorkingArea(p) = Ok(<<Region[n]>>) /\ Region[n] \in DOMAIN AreaCode
  <2>1. a # 5
    BY <1>3
  <2> QED BY <1>2, <1>3 DEF ParseToWorkingArea, Region, AreaCode
<1>4. CASE a \in {1, 2, 3, 4, 6}
  BY <1>3, <1>4 DEF Ok, Outcome
<1>5. CASE a = 5
  <2>1. ParseToWorkingArea(p) = Outcome("InvalidWorkingArea", <<>>)
    BY <1>2, <1>5 DEF ParseToWorkingArea
  <2> QED BY <2>1 DEF Outcome
<1> QED BY <1>4, <1>5

(* The third of a band's channels is in it. *)
LEMMA ThirdChannel ==
  ASSUME NEW a \in DOMAIN AreaCode, NEW p, NEW data, ReplyOf(p, 170, data), data = << 2 >>
  PROVE  InBand(ChannelFrequency(a, p), a)
<1>1. Data(p) # <<>> /\ Data(p)[1] = 2
  BY DEF ReplyOf
<1>2. ChannelFrequency(a, p) = 2 * Spacing[a] + Base[a]
  BY <1>1, Zenon DEF ChannelFrequency
<1>3. InBand(2 * Spacing[a] + Base[a], a)
  BY SMT DEF AreaCode, Spacing, Base, Band, InBand
<1> QED BY <1>2, <1>3

(* The data of power. *)
LEMMA PowerTold ==
  ASSUME NEW p, NEW n \in Short, NEW data, ReplyOf(p, 183, data), data = <<n \div 256, n % 256>>
  PROVE  TransmitPower(p) = Ok(<<n>>)
<1>1. Data(p) = data
  BY DEF ReplyOf
<1>2. Len(Data(p)) = 2 /\ Data(p)[1] = n \div 256 /\ Data(p)[2] = n % 256
  BY <1>1
<1>3. 256 * (n \div 256) + (n % 256) = n
  BY SplitWord
<1>4. TransmitPower(p) = Ok(<<256 * Data(p)[1] + Data(p)[2]>>)
  BY <1>2, SMT DEF TransmitPower
<1> QED BY <1>2, <1>3, <1>4

(* A tag's answer, stripped of its framing. *)
LEMMA WordsStripped ==
  ASSUME NEW words, words \in Seq(Byte), BehindHead(wire[1], 57, words)
  PROVE  ~IsError(wire[1]) /\ StripReadFraming(Data(wire[1])) = Ok(<<words>>)
<1>1. PICK head \in Seq(Byte) :
        Len(head) < 256 /\ ReplyOf(wire[1], 57, <<Len(head)>> \o head \o words)
  BY DEF BehindHead
<1>2. Data(wire[1]) = <<Len(head)>> \o head \o words /\ CommandCode(wire[1]) = 57
  BY <1>1, Zenon DEF ReplyOf
<1>3. StripReadFraming(<<Len(head)>> \o head \o words) = Ok(<<words>>)
  BY <1>1, FramingStripped
<1>4. ~IsError(wire[1])
  BY <1>2 DEF IsError
<1> QED BY <1>2, <1>3, <1>4

(* A tag's answer is not taken for an error. *)
LEMMA TagAcknowledges ==
  ASSUME NEW code, NEW data, code # 255, BehindHead(wire[1], code, data)
  PROVE  CheckAck(wire[1]) = Ok(Unit)
<1>1. PICK head \in Seq(Byte) : ReplyOf(wire[1], code, <<Len(head)>> \o head \o data)
  BY DEF BehindHead
<1> QED BY <1>1, NotAnError

(* What the answers to these operations are decoded to is right. *)
LEMMA SettingRead ==
  ASSUME Inv, pc = "answered", Answer,
         refused = <<>> \/ (op.name = "get_working_channel" /\ step = 2),
         op.name = "get_working_channel" => step = 2,
         op.name \in {"get_working_area", "get_working_channel", "get_transmit_power",
                      "set_transmission_power", "stop_multiple_polling_instructions"}
  PROVE  Right(Decode(wire)) /\ Decode(wire).status # "Panic"
<1> DEFINE res == Decode(wire)
<1>1. Device /\ Call
  BY DEF Inv
<1>2. area \in 1..6 /\ channel = 2 /\ power \in Short
  BY <1>1 DEF Device
<1>3. SettingRight(res) /\ res.status # "Panic"
  <2>1. ASSUME op.name = "get_working_area" PROVE SettingRight(res) /\ res.status # "Panic"
    <3>1. ReplyOf(wire[1], 8, <<area>>)
      BY <2>1 DEF Answer
    <3>2. res = ParseToWorkingArea(wire[1])
      BY <2>1, Zenon DEF Decode
    <3> HIDE DEF res
    <3>3. res.status # "Panic" /\ (res.status = "Ok" => res.val = <<Region[area]>>)
      BY <1>2, <3>1, <3>2, AreaTold
    <3> QED BY <2>1, <3>3, SMT DEF SettingRight
  <2>2. ASSUME op.name = "get_working_channel" PROVE SettingRight(res) /\ res.status # "Panic"
    <3> DEFINE a == ParseToWorkingArea(wire[1])
    <3>1. ReplyOf(wire[1], 8, <<area>>)
      <4>1. step = 2
        BY <2>2
      <4> QED BY <2>2, <4>1 DEF Answer
    <3>2. a.status # "Panic" /\ (a.status = "Ok" => a.val = <<Region[area]>> /\ Region[area] \in DOMAIN AreaCode)
      BY <1>2, <3>1, AreaTold
    <3>3. res = IF a.status = "Ok" THEN Ok(<<ChannelFrequency(a.val[1], kept)>>) ELSE a
      <4>1. op.name # "get_working_area"
        BY <2>2
      <4> QED BY <2>2, <4>1, Zenon DEF Decode
    <3> HIDE DEF res, a
    <3>4. res.status # "Panic"
      BY <3>2, <3>3 DEF Ok, Outcome
    <3>5. ASSUME res.status = "Ok", refused = <<>> PROVE InBand(res.val[1], Region[area])
      <4>1. a.status = "Ok"
        BY <3>3, <3>5
      <4>2. res.val[1] = ChannelFrequency(Region[area], kept)
        BY <3>2, <3>3, <4>1 DEF Ok, Outcome
      <4>3. ReplyOf(kept, 170, <<channel>>)
        <5>1. pc = "answered" /\ step = 2
          BY <2>2
        <5> QED BY <1>1, <2>2, <3>5, <5>1 DEF Call
      <4>4. <<channel>> = <<2>>
        BY <1>2
      <4>5. InBand(ChannelFrequency(Region[area], kept), Region[area])
        BY <3>2, <4>1, <4>3, <4>4, ThirdChannel
      <4> QED BY <4>2, <4>5
    <3> QED BY <2>2, <3>4, <3>5, SMT DEF SettingRight
  <2>3. ASSUME op.name = "get_transmit_power" PROVE SettingRight(res) /\ res.status # "Panic"
    <3>1. ReplyOf(wire[1], 183, <<power \div 256, power % 256>>)
      BY <2>3 DEF Answer
    <3>2. res = TransmitPower(wire[1])
      <4>1. op.name # "get_working_area" /\ op.name # "get_working_channel"
        BY <2>3
      <4> QED BY <2>3, <4>1, Zenon DEF Decode
    <3> HIDE DEF res
    <3>3. res = Ok(<<power>>)
      BY <1>2, <3>1, <3>2, PowerTold
    <3>4. res.status # "Panic" /\ res.val = <<power>>
      BY <3>3 DEF Ok, Outcome
    <3> QED BY <2>3, <3>4, SMT DEF SettingRight
  <2>4. ASSUME op.name = "set_transmission_power" PROVE SettingRight(res) /\ res.status # "Panic"
    <3>1. ReplyOf(wire[1], 182, <<0>>) /\ power = PowerUnits(op.power) /\ op.power \in Int
      BY <1>1, <2>4 DEF Answer, Call, IsCall
    <3>2. res = PowerSet(wire[1])
      <4>1. op.name # "get_working_area" /\ op.name # "get_working_channel" /\ op.name # "get_transmit_power"
        BY <2>4
      <4> QED BY <2>4, <4>1, Zenon DEF Decode
    <3> HIDE DEF res
    <3>3. res.status # "Panic"
      BY <3>2 DEF PowerSet, Ok, BadAnswer, Outcome
    <3>4. Clamp(op.power) - power \in {0, 1}
      BY <3>1, PowerInWord
    <3> QED BY <2>4, <3>3, <3>4, SMT DEF SettingRight
  <2>5. ASSUME op.name = "stop_multiple_polling_instructions" PROVE SettingRight(res) /\ res.status # "Panic"
    <3>1. rounds = 0
      BY <2>5 DEF Answer
    <3>2. res = Ok(Unit) \/ res = Outcome("ErrorStopMultiPolling", <<>>)
      <4>1. op.name # "get_working_area" /\ op.name # "get_working_channel"
            /\ op.name # "get_transmit_power" /\ op.name # "set_transmission_power"
            /\ op.name # "single_polling_instruction"
        BY <2>5
      <4> QED BY <2>5, <4>1, Zenon DEF Decode
    <3> HIDE DEF res
    <3>3. res.status # "Panic"
      BY <3>2 DEF Ok, Outcome
    <3> QED BY <2>5, <3>1, <3>3, SMT DEF SettingRight
  <2> HIDE DEF res
  <2> QED BY <2>1, <2>2, <2>3, <2>4, <2>5
<1>4. op.name \notin {"read_mem", "write_mem", "single_polling_instruction"}
  OBVIOUS
<1> HIDE DEF res
<1>5. Right(res)
  BY <1>3, <1>4, OnlySetting
<1> QED BY <1>3, <1>5 DEF res

(* The answers that are only acknowledgements. *)
LEMMA AckRead ==
  ASSUME Inv, pc = "answered", Answer, refused = <<>>, op.name \in AckedOps
  PROVE  Right(Decode(wire)) /\ Decode(wire).status # "Panic"
<1> DEFINE res == Decode(wire)
<1>1. Call
  BY DEF Inv
<1>2. CheckAck(wire[1]) = Ok(Unit)
  <2>1. CASE op.name \in {"write_mem", "kill_tag", "lock_tag"}
    <3>1. ASSUME NEW code, NEW data, code # 255, TagTold(code, data) PROVE CheckAck(wire[1]) = Ok(Unit)
      BY <3>1, TagAcknowledges DEF TagTold
    <3>2. TagTold(73, <<0>>) \/ TagTold(101, <<0>>) \/ TagTold(130, <<0>>)
      BY <2>1 DEF Answer
    <3> QED BY <3>1, <3>2
  <2>2. CASE op.name = "set_working_area"
    <3>1. ReplyOf(wire[1], 7, <<0>>)
      BY <2>2 DEF Answer
    <3> QED BY <3>1, NotAnError
  <2>3. CASE op.name \in SelectOps
    <3>1. ReplyOf(wire[1], IF step = 1 THEN 12 ELSE 18, <<0>>)
      BY <2>3 DEF Answer
    <3> QED BY <3>1, NotAnError
  <2> QED BY <2>1, <2>2, <2>3 DEF AckedOps, SelectOps
<1>3. res = Ok(Unit)
  BY <1>2, DecodeAcked
<1>4. refused = <<>> /\ op.name \in AckedOps
  OBVIOUS
<1> HIDE DEF res
<1>5. res.status # "Panic"
  BY <1>3 DEF Ok, Outcome
<1>6. ErrorRight(res)
  BY <1>4, Zenon DEF ErrorRight
<1>7. SettingRight(res)
  <2>1. ASSUME op.name = "set_working_area" PROVE Region[area] = op.area
    <3>1. area = AreaCode[op.area]
      BY <2>1 DEF Answer
    <3>2. op.area \in DOMAIN AreaCode
      <4>1. pc # "idle"
        OBVIOUS
      <4> QED BY <1>1, <2>1, <4>1 DEF Call, IsCall
    <3> QED BY <3>1, <3>2, AreaOfCode
  <2>2. op.name \notin {"get_working_area", "get_working_channel", "set_transmission_power",
          "get_transmit_power", "enable_multiple_polling_instructions", "stop_multiple_polling_instructions"}
    BY <1>4 DEF AckedOps
  <2> QED BY <2>1, <2>2, SMT DEF SettingRight
<1>8. MemoryRight(res)
  <2>1. op.name # "read_mem"
    BY <1>4 DEF AckedOps
  <2>2. op.name = "write_mem" => Written
    BY DEF Answer
  <2> QED BY <2>1, <2>2, Zenon DEF MemoryRight
<1>9. InventoryRight(res)
  <2>1. op.name # "single_polling_instruction"
    BY <1>4 DEF AckedOps
  <2> QED BY <2>1, Zenon DEF InventoryRight
<1> QED BY <1>5, <1>6, <1>7, <1>8, <1>9 DEF Right, res

(* The answer to a read. *)
LEMMA MemoryRead ==
  ASSUME Inv, pc = "answered", Answer, refused = <<>>, op.name = "read_mem"
  PROVE  Right(Decode(wire)) /\ Decode(wire).status # "Panic"
<1> DEFINE res == Decode(wire)
           words == Words(acted.tag, op.bank, op.addr, op.length)
<1>1. /\ acted.tag \in DOMAIN Tags /\ BehindHead(wire[1], 57, words) /\ memory = acted.memory
  BY DEF Answer, TagTold
<1>2. words \in Seq(Byte)
  <2>1. InPairs(memory)
    BY DEF Inv, Device
  <2>2. op.addr \in Nat /\ op.length \in Nat
    <3>1. IsCall(op) /\ op.name = "read_mem"
      BY DEF Inv, Call
    <3>2. op.addr \in Short /\ op.length \in Short
      BY <3>1 DEF IsCall
    <3> QED BY <3>2, ShortIs
  <2> QED BY <1>1, <2>1, <2>2, WordsTyped
<1> HIDE DEF words
<1>3. ~IsError(wire[1]) /\ StripReadFraming(Data(wire[1])) = Ok(<<words>>)
  BY <1>1, <1>2, WordsStripped
<1>4. res = Ok(<<words>>)
  <2>1. op.name = "read_mem" /\ op.name # "get_working_area" /\ op.name # "get_working_channel"
        /\ op.name # "get_transmit_power" /\ op.name # "set_transmission_power"
        /\ op.name # "single_polling_instruction" /\ op.name # "stop_multiple_polling_instructions"
    OBVIOUS
  <2> QED BY <1>3, <2>1, Zenon DEF Decode
<1>5. refused = <<>> /\ op.name = "read_mem"
  OBVIOUS
<1> HIDE DEF res
<1>6. res.status # "Panic" /\ res.val = <<words>>
  BY <1>4 DEF Ok, Outcome
<1>7. ErrorRight(res)
  BY <1>5, Zenon DEF ErrorRight
<1>8. SettingRight(res)
  BY <1>5, SMT DEF SettingRight
<1>9. MemoryRight(res)
  BY <1>1, <1>5, <1>6, SMT DEF MemoryRight, words
<1>10. InventoryRight(res)
  <2>1. op.name # "single_polling_instruction"
    BY <1>5
  <2> QED BY <2>1, Zenon DEF InventoryRight
<1> QED BY <1>6, <1>7, <1>8, <1>9, <1>10 DEF Right, res

-----------------------------------------------------------------------------
(* The tags of an inventory *)

(* r has the elements of s at the places that g tells: those in T, up to m, each once. *)
PickedBy(r, s, T, m, g) ==
  /\ g \in [1..Len(r) -> {k \in 1..m : k \in T}]
  /\ \A i, j \in 1..Len(r) : g[i] = g[j] => i = j
  /\ \A k \in 1..m : k \in T => \E i \in 1..Len(r) : g[i] = k
  /\ \A i \in 1..Len(r) : r[i] = s[g[i]]

Picked(r, s, T, m) == \E g : PickedBy(r, s, T, m, g)

(* One more place that is picked. *)
LEMMA PickOneMore ==
  ASSUME NEW V, NEW r, r \in Seq(V), NEW s, NEW T, NEW m \in Nat \ {0}, m \in T, s[m] \in V,
         Picked(r, s, T, m - 1)
  PROVE  Append(r, s[m]) \in Seq(V) /\ Picked(Append(r, s[m]), s, T, m)
<1> DEFINE n == Len(r)
           q == Append(r, s[m])
<1>1. PICK g : PickedBy(r, s, T, m - 1, g)
  BY DEF Picked
<1>2. n \in Nat
  OBVIOUS
<1>3. /\ q \in Seq(V) /\ Len(q) = n + 1
      /\ \A i \in 1..n : q[i] = r[i]
      /\ q[n + 1] = s[m]
  BY AppendProperties
<1> HIDE DEF n, q
<1>4. /\ g \in [1..n -> {k \in 1..(m - 1) : k \in T}]
      /\ \A i, j \in 1..n : g[i] = g[j] => i = j
      /\ \A k \in 1..(m - 1) : k \in T => \E i \in 1..n : g[i] = k
      /\ \A i \in 1..n : r[i] = s[g[i]]
  BY <1>1 DEF PickedBy, n
<1>5. PICK h : h = [i \in 1..(n + 1) |-> IF i = n + 1 THEN m ELSE g[i]]
  OBVIOUS
<1>6. n + 1 \in 1..(n + 1) /\ \A i \in 1..(n + 1) : i \in 1..n \/ i = n + 1
  BY <1>2
<1>7. h[n + 1] = m /\ \A i \in 1..n : h[i] = g[i] /\ i \in 1..(n + 1) /\ i # n + 1
  BY <1>2, <1>5
<1>8. \A i \in 1..n : h[i] \in 1..(m - 1) /\ h[i] \in T /\ h[i] # m
  BY <1>4, <1>7
<1>9. h \in [1..(n + 1) -> {k \in 1..m : k \in T}]
  <2>1. ASSUME NEW i \in 1..(n + 1) PROVE h[i] \in {k \in 1..m : k \in T}
    <3>1. CASE i \in 1..n
      BY <1>8, <3>1
    <3>2. CASE i = n + 1
      BY <1>7, <3>2
    <3> QED BY <1>6, <3>1, <3>2
  <2> QED BY <1>5, <2>1
<1>10. ASSUME NEW i \in 1..(n + 1), NEW j \in 1..(n + 1), h[i] = h[j] PROVE i = j
  <2>1. CASE i \in 1..n /\ j \in 1..n
    BY <1>4, <1>7, <1>10, <2>1
  <2>2. CASE i = n + 1 \/ j = n + 1
    BY <1>6, <1>7, <1>8, <1>10, <2>2
  <2> QED BY <1>6, <2>1, <2>2
<1>11. ASSUME NEW k \in 1..m, k \in T PROVE \E i \in 1..(n + 1) : h[i] = k
  <2>1. CASE k = m
    BY <1>6, <1>7, <2>1
  <2>2. CASE k # m
    <3>1. k \in 1..(m - 1)
      BY <2>2
    <3>2. PICK i \in 1..n : g[i] = k
      BY <1>4, <1>11, <3>1
    <3> QED BY <1>7, <3>2
  <2> QED BY <2>1, <2>2
<1>12. \A i \in 1..(n + 1) : q[i] = s[h[i]]
  <2>1. ASSUME NEW i \in 1..n PROVE q[i] = s[h[i]]
    BY <1>3, <1>4, <1>7
  <2>2. q[n + 1] = s[h[n + 1]]
    BY <1>3, <1>7
  <2> QED BY <1>6, <2>1, <2>2
<1>13. PickedBy(q, s, T, m, h)
  BY <1>3, <1>9, <1>10, <1>11, <1>12 DEF PickedBy
<1> QED BY <1>3, <1>13 DEF Picked, q

(* One more that is not. *)
LEMMA PickNoMore ==
  ASSUME NEW r, NEW s, NEW T, NEW m \in Nat \ {0}, m \notin T, Picked(r, s, T, m - 1)
  PROVE  Picked(r, s, T, m)
<1>1. PICK g : PickedBy(r, s, T, m - 1, g)
  BY DEF Picked
<1>2. \A k : k \in 1..m /\ k \in T <=> k \in 1..(m - 1) /\ k \in T
  OBVIOUS
<1>3. {k \in 1..m : k \in T} = {k \in 1..(m - 1) : k \in T}
  BY <1>2
<1>4. PickedBy(r, s, T, m, g)
  BY <1>1, <1>2, <1>3 DEF PickedBy
<1> QED BY <1>4 DEF Picked

(* What is picked are the elements at the places in T, each once. *)
LEMMA PickPlaces ==
  ASSUME NEW V, NEW s, s \in Seq(V), NEW T
  PROVE  Pick(s, T) \in Seq(V) /\ Picked(Pick(s, T), s, T, Len(s))
<1>1. Len(s) \in Nat /\ \A i \in 1..Len(s) : s[i] \in V
  OBVIOUS
<1>2. PICK f : PicksOf(f, s, T, Len(s)) /\ Pick(s, T) = f[Len(s)]
  BY <1>1, PicksExist
<1> DEFINE n == Len(s)
           S == {m \in 0..n : f[m] \in Seq(V) /\ Picked(f[m], s, T, m)}
<1>3. 0 \in S
  <2>1. f[0] = <<>>
    BY <1>2 DEF PicksOf
  <2>2. f[0] \in Seq(V) /\ Len(f[0]) = 0 /\ 0 \in 0..n /\ 1..0 = {}
    BY <2>1, <1>1
  <2>3. PICK g : g = [i \in {} |-> 0]
    OBVIOUS
  <2>4. PickedBy(f[0], s, T, 0, g)
    BY <2>2, <2>3 DEF PickedBy
  <2> QED BY <2>2, <2>4 DEF Picked
<1>4. ASSUME NEW m \in 1..n, m - 1 \in S PROVE m \in S
  <2>1. s[m] \in V /\ m \in Nat \ {0} /\ m \in 0..n
    BY <1>1
  <2>2. f[m - 1] \in Seq(V) /\ Picked(f[m - 1], s, T, m - 1)
    BY <1>4
  <2>3. CASE m \in T
    <3>1. f[m] = Append(f[m - 1], s[m])
      BY <1>2, <2>3 DEF PicksOf
    <3>2. PICK r : r = f[m - 1]
      OBVIOUS
    <3>3. Append(r, s[m]) \in Seq(V) /\ Picked(Append(r, s[m]), s, T, m)
      <4>1. r \in Seq(V) /\ Picked(r, s, T, m - 1)
        BY <2>2, <3>2
      <4> HIDE DEF S
      <4> QED BY <2>1, <2>3, <4>1, PickOneMore
    <3> QED BY <2>1, <3>1, <3>2, <3>3
  <2>4. CASE m \notin T
    <3>1. f[m] = f[m - 1]
      BY <1>2, <2>4 DEF PicksOf
    <3> QED BY <2>1, <2>2, <2>4, <3>1, PickNoMore
  <2> QED BY <2>3, <2>4
<1>5. \A m \in 0..n : m \in S
  <2> HIDE DEF S
  <2> QED BY <1>1, <1>3, <1>4, BoundedInduction
<1>6. n \in S
  <2> HIDE DEF S
  <2> QED BY <1>1, <1>5
<1> QED BY <1>2, <1>6

(* The record of raw data has the text of twelve bytes for an EPC. *)
LEMMA RawShown ==
  ASSUME NEW raw, raw \in Seq(Byte), Len(raw) = 17
  PROVE  FromRaw(raw).epc \in Seq(0..15) /\ Len(FromRaw(raw).epc) = 24
<1> DEFINE e == SubSeq(raw, 4, 15)
<1>1. e \in Seq(Byte) /\ Len(e) = 12
  <2>1. \A i \in 4..15 : i \in 1..Len(raw)
    OBVIOUS
  <2>2. \A i \in 4..15 : raw[i] \in Byte
    BY <2>1, ElementOfSeq
  <2>3. 4 \in Int /\ 15 \in Int /\ 15 - 4 + 1 = 12
    OBVIOUS
  <2> QED BY <2>2, <2>3, SubSeqProperties
<1> HIDE DEF e
<1>2. HexUpper(e) \in Seq(0..15) /\ Len(HexUpper(e)) = 24
  <2>1. HexUpper(e) \in Seq(0..15) /\ Len(HexUpper(e)) = 2 * Len(e)
    BY <1>1, HexDigits, Zenon
  <2>2. 2 * Len(e) = 24
    BY <1>1
  <2> QED BY <2>1, <2>2, Zenon
<1>3. FromRaw(raw).epc = HexUpper(e)
  BY DEF FromRaw, e
<1> QED BY <1>2, <1>3

(* The record of a notice is the record of its tag. *)
LEMMA NoticeShown ==
  ASSUME InPairs(memory), NEW t \in DOMAIN Tags, Len(EpcOf(t)) = 12
  PROVE  FromRaw(NoticeData(t)) = RecordOf(t)
<1>1. /\ NoticeData(t)[1] = Tags[t].rssi /\ SubSeq(NoticeData(t), 2, 3) = PcOf(t)
      /\ SubSeq(NoticeData(t), 4, 15) = EpcOf(t) /\ SubSeq(NoticeData(t), 16, 17) = CrcOf(t)
  BY NoticeTyped
<1> QED BY <1>1, Zenon DEF FromRaw, RecordOf

(* No records for no tags. *)
LEMMA NothingListed ==
  ListsIn(<<>>, {})
<1>1. Cardinality({}) = 0
  BY FS_EmptySet
<1>2. Len(<<>>) = 0
  OBVIOUS
<1>3. ToSet(<<>>) = {}
  BY DEF ToSet
<1> QED BY <1>1, <1>2, <1>3 DEF ListsIn

(* The records of the tags that f enumerates. *)
LEMMA AllListed ==
  ASSUME NEW k \in Nat, NEW S, NEW f \in [1..k -> S],
         \A i, j \in 1..k : f[i] = f[j] => i = j,
         \A t \in S : \E i \in 1..k : f[i] = t,
         NEW val, val = [i \in 1..k |-> RecordOf(f[i])]
  PROVE  ListsIn(val, S)
<1>1. Len(val) = k
  OBVIOUS
<1>2. Cardinality(S) = k
  <2>1. f \in Bijection(1..k, S)
    BY DEF Bijection, Injection, Surjection, IsInjective
  <2>2. ExistsBijection(1..k, S)
    BY <2>1 DEF ExistsBijection
  <2>3. IsFiniteSet(1..k) /\ Cardinality(1..k) = k
    BY FS_Interval
  <2> QED BY <2>2, <2>3, FS_Bijection
<1>3. ToSet(val) = {RecordOf(t) : t \in S}
  <2>1. ToSet(val) = {val[i] : i \in 1..k}
    BY <1>1 DEF ToSet
  <2>2. \A i \in 1..k : val[i] = RecordOf(f[i]) /\ f[i] \in S
    OBVIOUS
  <2>3. ASSUME NEW t \in S PROVE RecordOf(t) \in {val[i] : i \in 1..k}
    <3>1. PICK i \in 1..k : f[i] = t
      OBVIOUS
    <3> QED BY <2>2, <3>1
  <2> QED BY <2>1, <2>2, <2>3
<1> QED BY <1>1, <1>2, <1>3 DEF ListsIn

(* The notices of the tags in the field, decoded. *)
LEMMA NoticesRead ==
  ASSUME Device, field # {}, InventoryTold, wire \in Seq(Seq(Byte)),
         NEW T, T = {i \in 1..Len(wire) : Len(Data(wire[i])) = 17},
         NEW whole, whole \in Seq(Seq(Byte)), Picked(whole, wire, T, Len(wire))
  PROVE  ListsIn([i \in 1..Len(whole) |-> FromRaw(Data(whole[i]))], {t \in field : Len(EpcOf(t)) = 12})
<1>1. PICK tags \in [1..Len(wire) -> field] :
        /\ \A i, j \in 1..Len(wire) : tags[i] = tags[j] => i = j
        /\ \A t \in field : \E i \in 1..Len(wire) : tags[i] = t
        /\ \A i \in 1..Len(wire) : ReplyOf(wire[i], 34, NoticeData(tags[i]))
  BY DEF InventoryTold
<1>2. PICK g : PickedBy(whole, wire, T, Len(wire), g)
  BY DEF Picked
<1>3. PICK n, k : n = Len(wire) /\ k = Len(whole) /\ n \in Nat /\ k \in Nat
  BY LenProperties
<1>4. /\ g \in [1..k -> {i \in 1..n : i \in T}]
      /\ \A i, j \in 1..k : g[i] = g[j] => i = j
      /\ \A i \in 1..n : i \in T => \E j \in 1..k : g[j] = i
      /\ \A i \in 1..k : whole[i] = wire[g[i]]
  BY <1>2, <1>3 DEF PickedBy
<1>5. InPairs(memory) /\ field \subseteq DOMAIN Tags
  BY DEF Device
<1> DEFINE S == {t \in field : Len(EpcOf(t)) = 12}
<1>6. ASSUME NEW i \in 1..n
      PROVE  /\ tags[i] \in field /\ tags[i] \in DOMAIN Tags
             /\ Data(wire[i]) = NoticeData(tags[i])
             /\ i \in T <=> Len(EpcOf(tags[i])) = 12
  <2>1. tags[i] \in field /\ tags[i] \in DOMAIN Tags /\ Data(wire[i]) = NoticeData(tags[i])
    BY <1>1, <1>3, <1>5 DEF ReplyOf
  <2>2. Len(NoticeData(tags[i])) = 5 + Len(EpcOf(tags[i]))
    BY <1>5, <2>1, NoticeTyped
  <2>3. Len(EpcOf(tags[i])) \in Nat
    <3>1. EpcOf(tags[i]) \in Seq(Byte)
      BY <1>5, <2>1, TagParts
    <3> QED BY <3>1, LenProperties
  <2>4. i \in T <=> Len(Data(wire[i])) = 17
    <3>1. i \in 1..Len(wire)
      BY <1>3
    <3>2. T = {j \in 1..Len(wire) : Len(Data(wire[j])) = 17}
      OBVIOUS
    <3> QED BY <3>1, <3>2, Zenon
  <2>5. \A l \in Nat : 5 + l = 17 <=> l = 12
    OBVIOUS
  <2>6. Len(Data(wire[i])) = 5 + Len(EpcOf(tags[i]))
    BY <2>1, <2>2
  <2> QED BY <2>1, <2>3, <2>4, <2>5, <2>6, Zenon
<1>7. PICK f : f = [i \in 1..k |-> tags[g[i]]]
  OBVIOUS
<1>8. ASSUME NEW i \in 1..k
      PROVE  f[i] \in S /\ g[i] \in 1..n /\ f[i] = tags[g[i]] /\ FromRaw(Data(whole[i])) = RecordOf(f[i])
  <2>1. g[i] \in 1..n /\ g[i] \in T /\ f[i] = tags[g[i]] /\ whole[i] = wire[g[i]]
    BY <1>4, <1>7
  <2>2. tags[g[i]] \in field /\ tags[g[i]] \in DOMAIN Tags /\ Len(EpcOf(tags[g[i]])) = 12
        /\ Data(wire[g[i]]) = NoticeData(tags[g[i]])
    BY <1>6, <2>1
  <2>3. FromRaw(NoticeData(tags[g[i]])) = RecordOf(tags[g[i]])
    BY <1>5, <2>2, NoticeShown
  <2> QED BY <2>1, <2>2, <2>3
<1>9. ASSUME NEW i \in 1..k, NEW j \in 1..k, f[i] = f[j] PROVE i = j
  <2>1. g[i] = g[j]
    BY <1>1, <1>3, <1>8, <1>9, SMTT(30)
  <2> QED BY <1>4, <2>1
<1>10. ASSUME NEW t \in S PROVE \E i \in 1..k : f[i] = t
  <2>1. PICK i \in 1..n : tags[i] = t
    BY <1>1, <1>3
  <2>2. i \in T
    BY <1>6, <2>1
  <2>3. PICK j \in 1..k : g[j] = i
    BY <1>4, <2>2
  <2> QED BY <1>8, <2>1, <2>3
<1>11. f \in [1..k -> S]
  BY <1>7, <1>8
<1>12. [i \in 1..k |-> FromRaw(Data(whole[i]))] = [i \in 1..k |-> RecordOf(f[i])]
  BY <1>8, Zenon
<1> HIDE DEF S
<1>13. ListsIn([i \in 1..k |-> RecordOf(f[i])], S)
  BY <1>3, <1>9, <1>10, <1>11, AllListed, ZenonT(60)
<1> QED BY <1>3, <1>12, <1>13 DEF S

(* What an inventory keeps of the packets has text for EPCs that           *)
(* select_tag takes.                                                       *)
LEMMA WholeShown ==
  ASSUME Inv, pc = "answered",
         NEW T, T = {i \in 1..Len(wire) : Len(Data(wire[i])) = 17},
         NEW whole, Picked(whole, wire, T, Len(wire)), NEW k \in 1..Len(whole)
  PROVE  FromRaw(Data(whole[k])).epc \in Seq(0..15) /\ Len(FromRaw(Data(whole[k])).epc) = 24
<1>1. PICK g : PickedBy(whole, wire, T, Len(wire), g)
  BY DEF Picked
<1>2. g[k] \in 1..Len(wire) /\ g[k] \in T /\ whole[k] = wire[g[k]]
  BY <1>1 DEF PickedBy
<1>3. Data(whole[k]) \in Seq(Byte)
  BY <1>2, WireTold DEF Told
<1>4. Len(Data(whole[k])) = 17
  <2>1. T = {i \in 1..Len(wire) : Len(Data(wire[i])) = 17}
    OBVIOUS
  <2>2. Len(Data(wire[g[k]])) = 17
    BY <1>2, <2>1, Zenon
  <2> QED BY <1>2, <2>2
<1> QED BY <1>3, <1>4, RawShown

(* A lone packet that says that there is no tag is the reader's, or the    *)
(* notice of a lone tag.                                                   *)
LEMMA NoTagTold ==
  ASSUME Inv, pc = "answered", InventoryTold, SaysNoTag(wire)
  PROVE  \/ field = {}
         \/ \E t \in DOMAIN Tags : field = {t} /\ Tags[t].rssi = 21
<1>1. InPairs(memory) /\ field \subseteq DOMAIN Tags
  BY DEF Inv, Device
<1>2. Len(wire) = 1 /\ Data(wire[1])[1] = 21
  BY Zenon DEF SaysNoTag
<1>3. ASSUME field # {}
      PROVE  \E t \in DOMAIN Tags : field = {t} /\ Tags[t].rssi = 21
  <2>1. PICK tags \in [1..Len(wire) -> field] :
          /\ \A t \in field : \E i \in 1..Len(wire) : tags[i] = t
          /\ \A i \in 1..Len(wire) : ReplyOf(wire[i], 34, NoticeData(tags[i]))
    BY <1>3 DEF InventoryTold
  <2>2. 1 \in 1..Len(wire) /\ \A i \in 1..Len(wire) : i = 1
    BY <1>2
  <2>3. PICK t : t = tags[1]
    OBVIOUS
  <2>4. t \in field /\ t \in DOMAIN Tags /\ ReplyOf(wire[1], 34, NoticeData(t))
    BY <1>1, <2>1, <2>2, <2>3
  <2>5. field = {t}
    BY <2>1, <2>2, <2>3, <2>4
  <2>6. NoticeData(t)[1] = Tags[t].rssi /\ Data(wire[1]) = NoticeData(t)
    BY <1>1, <2>4, NoticeTyped DEF ReplyOf
  <2> QED BY <1>2, <2>4, <2>5, <2>6
<1> QED BY <1>3

(* What an inventory returns is right. *)
LEMMA InventoryRead ==
  ASSUME Inv, pc = "answered", op.name = "single_polling_instruction"
  PROVE  Right(Decode(wire)) /\ Decode(wire).status # "Panic"
<1> DEFINE T == {i \in 1..Len(wire) : Len(Data(wire[i])) = 17}
           val == ParseRfidPackets(wire)
           res == Decode(wire)
           listed == {t \in field : Len(EpcOf(t)) = 12}
<1>1. res = Ok(val)
  <2>1. op.name = "single_polling_instruction" /\ op.name # "get_working_area"
        /\ op.name # "get_working_channel" /\ op.name # "get_transmit_power"
        /\ op.name # "set_transmission_power"
    OBVIOUS
  <2> QED BY <2>1, Zenon DEF Decode
<1>2. PICK whole : whole = Pick(wire, T)
  OBVIOUS
<1>3. wire \in Seq(Seq(Byte)) /\ Len(wire) \in Nat
  BY WireTold
<1>4. whole \in Seq(Seq(Byte)) /\ Picked(whole, wire, T, Len(wire))
  <2> HIDE DEF T
  <2> QED BY <1>2, <1>3, PickPlaces
<1>5. val = IF SaysNoTag(wire) THEN <<>> ELSE [i \in 1..Len(whole) |-> FromRaw(Data(whole[i]))]
  BY <1>2, Zenon DEF ParseRfidPackets
<1>6. refused = <<>> => InventoryTold
  <2>1. Answered
    BY DEF Inv
  <2>2. ASSUME refused = <<>> PROVE Answer
    BY <2>1, <2>2 DEF Answered, Refusal
  <2> QED BY <2>2 DEF Answer
<1>7. Len(whole) \in Nat
  BY <1>4, LenProperties
<1>8. \A i \in 1..Len(val) : val[i].epc \in Seq(0..15) /\ Len(val[i].epc) = 24
  <2>1. CASE SaysNoTag(wire)
    <3>1. val = <<>>
      BY <1>5, <2>1
    <3> HIDE DEF val
    <3>2. 1..Len(val) = {}
      BY <3>1
    <3> QED BY <3>2
  <2>2. CASE ~SaysNoTag(wire)
    <3>1. val = [i \in 1..Len(whole) |-> FromRaw(Data(whole[i]))]
      BY <1>5, <2>2
    <3> HIDE DEF val, T
    <3>2. Len(val) = Len(whole) /\ \A i \in 1..Len(whole) : val[i] = FromRaw(Data(whole[i]))
      BY <1>7, <3>1
    <3>3. ASSUME NEW i \in 1..Len(whole)
          PROVE  FromRaw(Data(whole[i])).epc \in Seq(0..15) /\ Len(FromRaw(Data(whole[i])).epc) = 24
      BY <1>4, WholeShown DEF T
    <3> QED BY <3>2, <3>3
  <2> QED BY <2>1, <2>2
<1>9. ASSUME refused = <<>>
      PROVE  \/ ListsIn(val, listed)
             \/ \E t \in DOMAIN Tags : field = {t} /\ Tags[t].rssi = 21 /\ ListsIn(val, {})
  <2>1. CASE SaysNoTag(wire)
    <3>1. val = <<>>
      BY <1>5, <2>1
    <3> HIDE DEF val
    <3>2. ListsIn(val, {})
      BY <3>1, NothingListed
    <3>3. field = {} => listed = {}
      OBVIOUS
    <3> HIDE DEF listed
    <3>4. field = {} \/ \E t \in DOMAIN Tags : field = {t} /\ Tags[t].rssi = 21
      BY <1>6, <1>9, <2>1, NoTagTold
    <3> QED BY <3>2, <3>3, <3>4
  <2>2. CASE ~SaysNoTag(wire)
    <3>1. val = [i \in 1..Len(whole) |-> FromRaw(Data(whole[i]))]
      BY <1>5, <2>2
    <3>2. field # {}
      <4>1. ASSUME field = {} PROVE FALSE
        <5>1. Len(wire) = 1 /\ Data(wire[1]) = <<21>>
          BY <1>6, <1>9, <4>1 DEF InventoryTold, ReplyOf
        <5> QED BY <2>2, <5>1 DEF SaysNoTag
      <4> QED BY <4>1
    <3>3. Device
      BY DEF Inv
    <3>4. ListsIn([i \in 1..Len(whole) |-> FromRaw(Data(whole[i]))], listed)
      <4>1. InventoryTold
        BY <1>6, <1>9
      <4>2. T = {i \in 1..Len(wire) : Len(Data(wire[i])) = 17}
        OBVIOUS
      <4> HIDE DEF T
      <4> QED BY <1>3, <1>4, <3>2, <3>3, <4>1, <4>2, NoticesRead
    <3> HIDE DEF val, listed
    <3> QED BY <3>1, <3>4
  <2> QED BY <2>1, <2>2
<1> HIDE DEF val
<1>10. res.status = "Ok" /\ res.val = val
  BY <1>1 DEF Ok, Outcome
<1>11. op.name = "single_polling_instruction"
  OBVIOUS
<1> HIDE DEF res
<1>12. ErrorRight(res)
  BY <1>11 DEF ErrorRight, CheckedOps
<1>13. SettingRight(res)
  BY <1>11, SMT DEF SettingRight
<1>14. MemoryRight(res)
  BY <1>11, SMT DEF MemoryRight
<1>15. InventoryRight(res)
  <2>1. ASSUME refused = <<>>
        PROVE \/ ListsIn(res.val, {t \in field : Len(EpcOf(t)) = 12})
              \/ \E t \in DOMAIN Tags : field = {t} /\ Tags[t].rssi = 21 /\ ListsIn(res.val, {})
    BY <1>9, <1>10, <2>1
  <2> QED BY <1>8, <1>10, <2>1, Zenon DEF InventoryRight
<1> QED BY <1>10, <1>12, <1>13, <1>14, <1>15 DEF Right, res

-----------------------------------------------------------------------------
(* The last step of a call *)

(* Receive, once the packets are known.                                    *)
Receives(packets) ==
  IF build = "debug" /\ \E i \in 1..Len(wire) : Overflows(CheckedPart(wire[i]))
  THEN Returns(Outcome("Panic", <<>>)) /\ UNCHANGED wire
  ELSE IF op.name = "enable_multiple_polling_instructions" THEN Returns(Ok(Unit)) /\ wire' = <<>>
  ELSE IF packets = <<>> THEN Returns(Outcome("Timeout", <<>>)) /\ wire' = <<>>
  ELSE IF step < Len(Requests(op)) /\ GoesOn(packets)
  THEN /\ pc' = "send" /\ step' = step + 1 /\ kept' = packets[1] /\ wire' = <<>>
       /\ UNCHANGED <<result, selected>>
  ELSE Returns(Decode(packets)) /\ wire' = <<>>

(* Receive, of packets that are all there is on the wire. *)
LEMMA ReceiveOpened ==
  ASSUME Inv, Receive
  PROVE  pc = "answered" /\ Settled /\ Receives(wire)
<1>1. pc = "answered"
  BY DEF Receive
<1>2. Settled
  BY DEF Receive, Settled, deviceVars
<1>3. Pick(wire, {i \in 1..Len(wire) : IsValid(wire[i])}) = wire
  BY <1>1, AllArePackets
<1>4. Receives(Pick(wire, {i \in 1..Len(wire) : IsValid(wire[i])}))
  BY Zenon DEF Receive, Receives
<1> QED BY <1>1, <1>2, <1>3, <1>4

(* The frame of a refusal is not one that overflows. *)
LEMMA RefusalShort ==
  ASSUME Refusal
  PROVE  \A i \in 1..Len(wire) : ~Overflows(CheckedPart(wire[i]))
<1>1. Len(wire) = 1 /\ Len(wire[1]) <= 73 /\ (Overflows(CheckedPart(wire[1])) => Len(wire[1]) > 257)
  <2>1. /\ Len(wire) = 1 /\ Len(refused[1]) <= 66 /\ Len(wire[1]) = 7 + Len(refused[1])
        /\ refused[1] \in Seq(Byte)
        /\ Overflows(CheckedPart(wire[1])) => Len(wire[1]) > 257
    BY DEF Refusal, ReplyOf
  <2>2. Len(refused[1]) \in Nat
    BY <2>1, LenProperties
  <2>3. Len(wire[1]) <= 73
    BY <2>1, <2>2
  <2> QED BY <2>1, <2>3
<1>2. Len(wire[1]) \in Nat
  <2>1. wire[1] \in Seq(Byte)
    BY DEF Refusal, ReplyOf
  <2> QED BY <2>1, LenProperties
<1>3. ~Overflows(CheckedPart(wire[1]))
  BY <1>1, <1>2
<1> QED BY <1>1, <1>3

(* Either this call was refused, or it was answered. *)
LEMMA AnswerOrRefusal ==
  ASSUME Inv, pc = "answered"
  PROVE  \/ Refusal
         \/ Answer /\ (refused = <<>> \/ (op.name = "get_working_channel" /\ step = 2))
BY DEF Inv, Answered

(* A checksum that overflows. *)
LEMMA PanicKeeps ==
  ASSUME Inv, pc = "answered", Settled, Returns(Outcome("Panic", <<>>)), UNCHANGED wire,
         build = "debug", NEW i \in 1..Len(wire), Overflows(CheckedPart(wire[i]))
  PROVE  Inv'
<1>1. pc' = "idle" /\ step' = 1 /\ result'.status = "Panic" /\ wire' = wire
  BY DEF Returns, Outcome
<1>2. /\ build' = build /\ site' = site /\ area' = area /\ channel' = channel /\ power' = power
      /\ rounds' = rounds /\ mode' = mode /\ field' = field /\ memory' = memory
      /\ op' = op /\ refused' = refused
  BY DEF Settled
<1>3. Device'
  BY <1>2 DEF Inv, Device
<1>4. wire' \in Seq(Seq(Byte))
  BY <1>1, WireTold
<1>5. Call' /\ Sent' /\ Answered' /\ Shown'
  BY <1>1, <1>4 DEF Call, Sent, Answered, Shown
<1>6. PanicsExplained'
  <2>1. Len(wire[i]) > 257
    BY WireTold DEF Told
  <2>2. build' = "debug" /\ i \in 1..Len(wire') /\ Len(wire'[i]) > 257
    BY <1>1, <1>2, <2>1
  <2> QED BY <2>2, Zenon DEF PanicsExplained
<1>7. ErrorTold'
  <2>1. refused = <<>> \/ op.name = "get_working_channel"
    BY AnswerOrRefusal, RefusalShort
  <2>2. op.name = "get_working_channel" =>
          op.name \notin CheckedOps /\ op.name # "stop_multiple_polling_instructions"
    BY DEF CheckedOps
  <2> QED BY <1>2, <2>1, <2>2, Zenon DEF ErrorTold
<1>8. SettingsArrive' /\ MemoryAsAsked' /\ InventoryFaithful'
  BY <1>1, Zenon DEF SettingsArrive, MemoryAsAsked, InventoryFaithful, Inventoried
<1> QED BY <1>1, <1>3, <1>5, <1>6, <1>7, <1>8 DEF Inv

(* An inventory of the next rounds, which no response answers. *)
LEMMA EnabledKeeps ==
  ASSUME Inv, pc = "answered", Settled, Returns(Ok(Unit)), wire' = <<>>,
         op.name = "enable_multiple_polling_instructions"
  PROVE  Inv'
<1> DEFINE res == Ok(Unit)
<1>1. op.name \notin CheckedOps /\ op.name # "stop_multiple_polling_instructions"
      /\ op.name \notin {"set_working_area", "get_working_area", "get_working_channel",
           "set_transmission_power", "get_transmit_power", "read_mem", "write_mem",
           "single_polling_instruction"}
  BY DEF CheckedOps
<1>2. refused = <<>> => rounds = op.times
  <2>1. ASSUME refused = <<>> PROVE Answer
    BY <2>1, AnswerOrRefusal DEF Refusal
  <2> QED BY <2>1 DEF Answer
<1>3. res.status # "Panic"
  BY DEF Ok, Outcome
<1> HIDE DEF res
<1>4. ErrorRight(res) /\ MemoryRight(res) /\ InventoryRight(res)
  BY <1>1, SMT DEF ErrorRight, MemoryRight, InventoryRight
<1>5. SettingRight(res)
  BY <1>1, <1>2, SMT DEF SettingRight
<1>6. Right(res)
  BY <1>4, <1>5 DEF Right
<1>7. wire' \in Seq(Seq(Byte))
  OBVIOUS
<1>8. Returns(res)
  BY DEF res
<1> QED BY <1>3, <1>6, <1>7, <1>8, ReturnsKeeps

(* No answer. *)
LEMMA TimeoutKeeps ==
  ASSUME Inv, pc = "answered", Settled, wire = <<>>, Returns(Outcome("Timeout", <<>>)), wire' = <<>>
  PROVE  Inv'
<1> DEFINE res == Outcome("Timeout", <<>>)
<1>1. res.status = "Timeout"
  BY DEF Outcome
<1>2. Returns(res) /\ wire' \in Seq(Seq(Byte))
  OBVIOUS
<1> HIDE DEF res
<1>3. ErrorRight(res)
  <2>1. refused = <<>> \/ op.name = "get_working_channel"
    BY AnswerOrRefusal DEF Refusal
  <2>2. op.name = "get_working_channel" =>
          op.name \notin CheckedOps /\ op.name # "stop_multiple_polling_instructions"
    BY DEF CheckedOps
  <2> QED BY <2>1, <2>2, Zenon DEF ErrorRight
<1>4. SettingRight(res) /\ MemoryRight(res) /\ InventoryRight(res)
  BY <1>1, Zenon DEF SettingRight, MemoryRight, InventoryRight
<1>5. Right(res)
  BY <1>3, <1>4 DEF Right
<1> QED BY <1>1, <1>2, <1>5, ReturnsKeeps

(* On to the second exchange. *)
LEMMA GoesOnKeeps ==
  ASSUME Inv, pc = "answered", Settled, step < Len(Requests(op)), GoesOn(wire),
         pc' = "send", step' = step + 1, kept' = wire[1], wire' = <<>>, UNCHANGED result
  PROVE  Inv'
<1>1. Device /\ Call /\ result.status # "Panic" /\ IsCall(op) /\ result.status = "none"
      /\ step \in 1..Len(Requests(op))
  BY DEF Inv, Call
<1>2. step = 1 /\ op.name \in TwoSteps /\ Len(Requests(op)) = 2
  <2>1. Len(Requests(op)) = IF op.name \in TwoSteps THEN 2 ELSE 1
    BY <1>1, RequestCount DEF IsCall
  <2> QED BY <1>1, <2>1
<1>3. /\ build' = build /\ site' = site /\ area' = area /\ channel' = channel /\ power' = power
      /\ rounds' = rounds /\ mode' = mode /\ field' = field /\ memory' = memory
      /\ op' = op /\ refused' = refused
  BY DEF Settled
<1>4. step' = 2 /\ pc' = "send" /\ result' = result
  BY <1>2
<1>5. Device'
  BY <1>1, <1>3 DEF Device
<1>6. refused = <<>> \/ op.name = "get_working_channel"
  <2>1. ASSUME Refusal PROVE op.name = "get_working_channel"
    <3>1. CheckAck(wire[1]).status # "Ok"
      BY <2>1, RefusalAcked
    <3> QED BY <3>1, Zenon DEF GoesOn
  <2> QED BY <2>1, AnswerOrRefusal
<1>7. op.name = "get_working_channel" /\ refused = <<>> => ReplyOf(wire[1], 170, <<channel>>)
  <2>1. ASSUME refused = <<>> PROVE Answer
    BY <2>1, AnswerOrRefusal DEF Refusal
  <2> QED BY <1>2, <2>1 DEF Answer
<1>8. Call'
  <2>1. wire' \in Seq(Seq(Byte))
    OBVIOUS
  <2>2. step' \in 1..Len(Requests(op')) /\ IsCall(op')
    <3>1. Len(Requests(op')) = 2 /\ IsCall(op')
      BY <1>1, <1>2, <1>3, Zenon
    <3>2. step' \in 1..Len(Requests(op'))
      BY <1>4, <3>1
    <3> QED BY <3>1, <3>2
  <2>3. op'.name = "get_working_channel" /\ refused' = <<>> => ReplyOf(kept', 170, <<channel'>>)
    BY <1>3, <1>7
  <2>4. refused' = <<>> \/ (op'.name = "get_working_channel" /\ step' = 2)
    BY <1>3, <1>4, <1>6
  <2> QED BY <1>1, <1>4, <2>1, <2>2, <2>3, <2>4 DEF Call
<1>9. Sent' /\ Answered' /\ Shown'
  BY <1>4, Zenon DEF Sent, Answered, Shown
<1>10. PanicsExplained' /\ result'.status # "Panic"
  BY <1>1, <1>4, Zenon DEF PanicsExplained
<1>11. ErrorTold' /\ SettingsArrive' /\ MemoryAsAsked' /\ InventoryFaithful'
  BY <1>4, Zenon DEF ErrorTold, SettingsArrive, MemoryAsAsked, InventoryFaithful, Inventoried
<1> QED BY <1>5, <1>8, <1>9, <1>10, <1>11 DEF Inv

(* Nothing that a response is decoded to is a panic. *)
LEMMA NothingPanics ==
  ASSUME Inv, pc = "answered", wire # <<>>
  PROVE  Decode(wire).status # "Panic"
<1> DEFINE p == wire[1]
<1>1. Data(p) \in Seq(Byte)
  <2>1. 1 \in 1..Len(wire)
    BY WireTold
  <2> QED BY <2>1, WireTold DEF Told
<1>2. CheckAck(p).status # "Panic"
  BY DEF CheckAck, Ok, Outcome
<1>3. ParseToWorkingArea(p).status # "Panic"
  <2>1. ASSUME NEW v PROVE Ok(v).status # "Panic"
    BY DEF Ok, Outcome
  <2>2. \/ ParseToWorkingArea(p) = BadAnswer
        \/ ParseToWorkingArea(p) = Outcome("InvalidWorkingArea", <<>>)
        \/ ParseToWorkingArea(p) = Ok(<<"China900Mhz">>) \/ ParseToWorkingArea(p) = Ok(<<"US">>)
        \/ ParseToWorkingArea(p) = Ok(<<"EU">>) \/ ParseToWorkingArea(p) = Ok(<<"China800Mhz">>)
        \/ ParseToWorkingArea(p) = Ok(<<"Korea">>)
    BY DEF ParseToWorkingArea
  <2>3. BadAnswer.status # "Panic" /\ Outcome("InvalidWorkingArea", <<>>).status # "Panic"
    BY DEF BadAnswer, Outcome
  <2> QED BY <2>1, <2>2, <2>3, Zenon
<1>4. TransmitPower(p).status # "Panic"
  <2>1. Len(Data(p)) \in Nat
    BY <1>1, LenProperties
  <2> HIDE DEF p
  <2>2. \/ TransmitPower(p) = Ok(<<256 * Data(p)[1] + Data(p)[2]>>)
        \/ TransmitPower(p) = Ok(<<100 * Data(p)[1]>>)
        \/ TransmitPower(p) = BadAnswer
    BY <2>1 DEF TransmitPower
  <2> QED BY <2>2 DEF Ok, BadAnswer, Outcome
<1>5. PowerSet(p).status # "Panic"
  BY DEF PowerSet, Ok, BadAnswer, Outcome
<1>6. StripReadFraming(Data(p)).status # "Panic"
  BY DEF StripReadFraming, Ok, BadAnswer, Outcome
<1> HIDE DEF p
<1>7. Ok(Unit).status # "Panic" /\ Outcome("ErrorStopMultiPolling", <<>>).status # "Panic"
      /\ \A v : Ok(v).status # "Panic"
  BY DEF Ok, Outcome
<1>8. CASE op.name = "get_working_area"
  <2>1. Decode(wire) = ParseToWorkingArea(p)
    BY <1>8, Zenon DEF Decode, p
  <2> QED BY <1>3, <2>1
<1>9. CASE op.name = "get_working_channel"
  <2>1. \/ Decode(wire) = ParseToWorkingArea(p)
        \/ \E v : Decode(wire) = Ok(v)
    <3>1. op.name # "get_working_area"
      BY <1>9
    <3> QED BY <1>9, <3>1, Zenon DEF Decode, p
  <2> QED BY <1>3, <1>7, <2>1
<1>10. CASE op.name = "get_transmit_power"
  <2>1. op.name # "get_working_area" /\ op.name # "get_working_channel"
    BY <1>10
  <2>2. Decode(wire) = TransmitPower(p)
    BY <1>10, <2>1, Zenon DEF Decode, p
  <2> QED BY <1>4, <2>2
<1>11. CASE op.name = "set_transmission_power"
  <2>1. op.name # "get_working_area" /\ op.name # "get_working_channel" /\ op.name # "get_transmit_power"
    BY <1>11
  <2>2. Decode(wire) = PowerSet(p)
    BY <1>11, <2>1, Zenon DEF Decode, p
  <2> QED BY <1>5, <2>2
<1>12. CASE op.name = "stop_multiple_polling_instructions"
  <2>1. op.name # "get_working_area" /\ op.name # "get_working_channel"
        /\ op.name # "get_transmit_power" /\ op.name # "set_transmission_power"
        /\ op.name # "single_polling_instruction"
    BY <1>12
  <2>2. Decode(wire) = Ok(Unit) \/ Decode(wire) = Outcome("ErrorStopMultiPolling", <<>>)
    BY <1>12, <2>1, Zenon DEF Decode
  <2> QED BY <1>7, <2>2
<1>13. CASE op.name = "read_mem"
  <2>1. op.name # "get_working_area" /\ op.name # "get_working_channel"
        /\ op.name # "get_transmit_power" /\ op.name # "set_transmission_power"
        /\ op.name # "single_polling_instruction" /\ op.name # "stop_multiple_polling_instructions"
    BY <1>13
  <2>2. Decode(wire) = CheckAck(p) \/ Decode(wire) = StripReadFraming(Data(p))
    BY <1>13, <2>1, Zenon DEF Decode, p
  <2> QED BY <1>2, <1>6, <2>2
<1>14. CASE op.name = "single_polling_instruction"
  BY <1>14, InventoryRead
<1>15. CASE op.name \in AckedOps
  BY <1>2, <1>15, DecodeAcked DEF p
<1>16. CASE op.name = "enable_multiple_polling_instructions"
  <2>1. op.name # "get_working_area" /\ op.name # "get_working_channel"
        /\ op.name # "get_transmit_power" /\ op.name # "set_transmission_power"
        /\ op.name # "single_polling_instruction" /\ op.name # "stop_multiple_polling_instructions"
        /\ op.name # "read_mem"
    BY <1>16
  <2>2. Decode(wire) = CheckAck(p)
    BY <2>1, Zenon DEF Decode, p
  <2> QED BY <1>2, <2>2
<1>17. op.name \in Operations
  BY DEF Inv, Call, IsCall
<1> QED BY <1>8, <1>9, <1>10, <1>11, <1>12, <1>13, <1>14, <1>15, <1>16, <1>17 DEF Operations, AckedOps

(* What the last exchange of an operation is decoded to is right. *)
LEMMA DecodedRight ==
  ASSUME Inv, pc = "answered", ~(step < Len(Requests(op)) /\ GoesOn(wire)),
         op.name # "enable_multiple_polling_instructions"
  PROVE  Right(Decode(wire))
<1>1. IsCall(op) /\ op.name \in Operations /\ step \in 1..Len(Requests(op))
  BY DEF Inv, Call, IsCall
<1>2. CASE op.name = "single_polling_instruction"
  BY <1>2, InventoryRead
<1>3. CASE Refusal /\ op.name # "single_polling_instruction"
  BY <1>3, RefusalRight
<1>4. CASE Answer /\ (refused = <<>> \/ (op.name = "get_working_channel" /\ step = 2))
            /\ op.name # "single_polling_instruction"
  <2>1. op.name = "get_working_channel" => step = 2
    <3>1. ASSUME op.name = "get_working_channel" PROVE step = 2
      <4>1. Len(Requests(op)) = 2
        BY <1>1, <3>1, RequestCount DEF TwoSteps
      <4>2. GoesOn(wire)
        BY <3>1 DEF GoesOn
      <4> QED BY <1>1, <4>1, <4>2
    <3> QED BY <3>1
  <2>2. CASE op.name \in {"get_working_area", "get_working_channel", "get_transmit_power",
                          "set_transmission_power", "stop_multiple_polling_instructions"}
    BY <1>4, <2>1, <2>2, SettingRead
  <2>3. CASE op.name \in AckedOps
    <3>1. op.name # "get_working_channel"
      BY <2>3 DEF AckedOps
    <3> QED BY <1>4, <2>3, <3>1, AckRead
  <2>4. CASE op.name = "read_mem"
    BY <1>4, <2>4, MemoryRead
  <2> QED BY <1>1, <1>4, <2>2, <2>3, <2>4 DEF Operations, AckedOps
<1> QED BY <1>2, <1>3, <1>4, AnswerOrRefusal

(* Responses are received. *)
LEMMA ReceiveKeeps ==
  ASSUME Inv, Receive
  PROVE  Inv'
<1> DEFINE panics == build = "debug" /\ \E i \in 1..Len(wire) : Overflows(CheckedPart(wire[i]))
           more   == step < Len(Requests(op)) /\ GoesOn(wire)
           enable == op.name = "enable_multiple_polling_instructions"
<1>1. pc = "answered" /\ Settled /\ Receives(wire)
  BY ReceiveOpened
<1>2. IF panics THEN Returns(Outcome("Panic", <<>>)) /\ UNCHANGED wire
      ELSE IF enable THEN Returns(Ok(Unit)) /\ wire' = <<>>
      ELSE IF wire = <<>> THEN Returns(Outcome("Timeout", <<>>)) /\ wire' = <<>>
      ELSE IF more THEN /\ pc' = "send" /\ step' = step + 1 /\ kept' = wire[1] /\ wire' = <<>>
                        /\ UNCHANGED <<result, selected>>
      ELSE Returns(Decode(wire)) /\ wire' = <<>>
  BY <1>1, Zenon DEF Receives
<1>3. CASE panics
  <2>1. Returns(Outcome("Panic", <<>>)) /\ UNCHANGED wire
    BY <1>2, <1>3
  <2>2. build = "debug" /\ \E i \in 1..Len(wire) : Overflows(CheckedPart(wire[i]))
    BY <1>3
  <2> QED BY <1>1, <2>1, <2>2, PanicKeeps
<1>4. CASE ~panics /\ enable
  <2>1. Returns(Ok(Unit)) /\ wire' = <<>>
    BY <1>2, <1>4
  <2> QED BY <1>1, <1>4, <2>1, EnabledKeeps
<1>5. CASE ~panics /\ ~enable /\ wire = <<>>
  <2>1. Returns(Outcome("Timeout", <<>>)) /\ wire' = <<>>
    BY <1>2, <1>5
  <2> QED BY <1>1, <1>5, <2>1, TimeoutKeeps
<1>6. CASE ~panics /\ ~enable /\ wire # <<>> /\ more
  <2>1. /\ pc' = "send" /\ step' = step + 1 /\ kept' = wire[1] /\ wire' = <<>>
        /\ UNCHANGED <<result, selected>>
    BY <1>2, <1>6
  <2> QED BY <1>1, <1>6, <2>1, GoesOnKeeps
<1>7. CASE ~panics /\ ~enable /\ wire # <<>> /\ ~more
  <2>1. Returns(Decode(wire)) /\ wire' = <<>>
    BY <1>2, <1>7
  <2>2. wire' \in Seq(Seq(Byte))
    BY <2>1
  <2>3. Right(Decode(wire)) /\ Decode(wire).status # "Panic"
    BY <1>1, <1>7, DecodedRight, NothingPanics
  <2> QED BY <1>1, <2>1, <2>2, <2>3, ReturnsKeeps
<1> HIDE DEF panics, more, enable
<1> QED BY <1>3, <1>4, <1>5, <1>6, <1>7

-----------------------------------------------------------------------------
(* The theorems *)

(* A step in which nothing happens. *)
LEMMA StutterKeeps ==
  ASSUME Inv, UNCHANGED vars
  PROVE  Inv'
<1>1. /\ build' = build /\ site' = site /\ area' = area /\ channel' = channel /\ power' = power
      /\ rounds' = rounds /\ mask' = mask /\ mode' = mode /\ field' = field /\ memory' = memory
      /\ pc' = pc /\ op' = op /\ step' = step /\ wire' = wire /\ kept' = kept /\ result' = result
      /\ refused' = refused /\ acted' = acted /\ selected' = selected
  BY DEF vars, deviceVars, clientVars
<1>2. /\ \A t, bank, addr, count : Words(t, bank, addr, count)' = Words(t, bank, addr, count)
      /\ \A t : NoticeData(t)' = NoticeData(t) /\ PcOf(t)' = PcOf(t) /\ EpcOf(t)' = EpcOf(t)
                /\ CrcOf(t)' = CrcOf(t)
  BY <1>1, SameWords
<1>3. Device'
  BY <1>1 DEF Inv, Device
<1>4. Call' /\ Sent'
  BY <1>1 DEF Inv, Call, Sent
<1>5. Place' = Place /\ \A w, i : Typed(w, i)' = Typed(w, i)
  BY <1>1, Zenon DEF Place, Typed
<1>6. Written' <=> Written
  BY <1>1, <1>5, Zenon DEF Written
<1>7. InventoryTold => InventoryTold'
  <2>1. ASSUME InventoryTold, field = {} PROVE InventoryTold'
    BY <1>1, <2>1, Zenon DEF InventoryTold
  <2>2. ASSUME InventoryTold, field # {} PROVE InventoryTold'
    <3>1. Len(wire) = Cardinality(field)
      BY <2>2 DEF InventoryTold
    <3>2. PICK tags \in [1..Len(wire) -> field] :
            /\ \A i, j \in 1..Len(wire) : tags[i] = tags[j] => i = j
            /\ \A t \in field : \E i \in 1..Len(wire) : tags[i] = t
            /\ \A i \in 1..Len(wire) : ReplyOf(wire[i], 34, NoticeData(tags[i]))
      BY <2>2, Zenon DEF InventoryTold
    <3>3. \A i \in 1..Len(wire) : ReplyOf(wire[i], 34, NoticeData(tags[i])')
      BY <1>2, <3>2
    <3>4. field' = field /\ wire' = wire
      BY <1>1
    <3> QED BY <2>2, <3>1, <3>2, <3>3, <3>4, Zenon DEF InventoryTold
  <2> QED BY <2>1, <2>2
<1>8. Refusal' <=> Refusal
  BY <1>1, Zenon DEF Refusal
<1>9. Answer => Answer'
  <2>1. Words(acted.tag, op.bank, op.addr, op.length)' = Words(acted.tag, op.bank, op.addr, op.length)
    BY <1>1 DEF Words, Word
  <2>2. \A code, data : TagTold(code, data) => TagTold(code, data)'
    BY <1>1, Zenon DEF TagTold
  <2>3. ASSUME TagTold(57, Words(acted.tag, op.bank, op.addr, op.length))
        PROVE  TagTold(57, Words(acted.tag, op.bank, op.addr, op.length))'
    BY <1>1, <2>1, <2>3 DEF TagTold
  <2>4. ASSUME NEW code PROVE TagTold(code, <<0>>)' <=> TagTold(code, <<0>>)
    BY <1>1, Zenon DEF TagTold
  <2> SUFFICES ASSUME Answer PROVE Answer'
    OBVIOUS
  <2>5. (op.name = "read_mem" =>
           TagTold(57, Words(acted.tag, op.bank, op.addr, op.length)) /\ memory = acted.memory)'
    BY <1>1, <2>3 DEF Answer
  <2>6. /\ (op.name = "write_mem" => TagTold(73, <<0>>) /\ Written)'
        /\ (op.name = "kill_tag" => TagTold(101, <<0>>))'
        /\ (op.name = "lock_tag" => TagTold(130, <<0>>))'
    BY <1>1, <1>6, <2>4 DEF Answer
  <2>7. (op.name = "single_polling_instruction" => InventoryTold)'
    BY <1>1, <1>7 DEF Answer
  <2> QED BY <1>1, <2>5, <2>6, <2>7 DEF Answer
<1>10. Answered'
  <2>1. Answered
    BY DEF Inv
  <2> QED BY <1>1, <1>8, <1>9, <2>1, Zenon DEF Answered
<1>11. Shown' /\ PanicsExplained' /\ ErrorTold' /\ SettingsArrive'
  <2>1. Shown'
    BY <1>1, Zenon DEF Inv, Shown
  <2>2. PanicsExplained'
    BY <1>1, Zenon DEF Inv, PanicsExplained
  <2>3. ErrorTold'
    BY <1>1, Zenon DEF Inv, ErrorTold
  <2>4. SettingsArrive'
    BY <1>1, Zenon DEF Inv, SettingsArrive
  <2> QED BY <2>1, <2>2, <2>3, <2>4
<1>12. MemoryAsAsked'
  <2>1. MemoryAsAsked
    BY DEF Inv
  <2>2. Words(acted.tag, op.bank, op.addr, op.length)' = Words(acted.tag, op.bank, op.addr, op.length)
    BY <1>1 DEF Words, Word
  <2> QED BY <1>1, <1>5, <2>1, <2>2, Zenon DEF MemoryAsAsked
<1>13. InventoryFaithful'
  <2>1. \A t : RecordOf(t)' = RecordOf(t)
    BY <1>2, Zenon DEF RecordOf
  <2>2. \A tags : ListsIn(result.val, tags) => Len(result'.val) = Cardinality(tags)
                                              /\ ToSet(result'.val) = {RecordOf(t)' : t \in tags}
    BY <1>1, <2>1 DEF ListsIn
  <2>3. {t \in field : Len(EpcOf(t)) = 12}' = {t \in field : Len(EpcOf(t)) = 12}
    BY <1>1, <1>2
  <2>4. ASSUME Inventoried'
        PROVE  \/ ListsIn(result.val, {t \in field : Len(EpcOf(t)) = 12})
               \/ \E t \in DOMAIN Tags : field = {t} /\ Tags[t].rssi = 21 /\ ListsIn(result.val, {})
    BY <1>1, <2>4, Zenon DEF Inv, InventoryFaithful, Inventoried, Lists, ListsIn
  <2>5. ASSUME ListsIn(result.val, {t \in field : Len(EpcOf(t)) = 12})
        PROVE  Lists({t \in field : Len(EpcOf(t)) = 12})'
    BY <2>2, <2>3, <2>5, Zenon DEF Lists
  <2>6. ASSUME NEW t \in DOMAIN Tags, ListsIn(result.val, {})
        PROVE  Lists({})'
    BY <2>2, <2>6, Zenon DEF Lists
  <2> QED BY <1>1, <2>4, <2>5, <2>6, Zenon DEF InventoryFaithful
<1>14. result'.status = "Panic" => pc' = "idle"
  BY <1>1, Zenon DEF Inv
<1> QED BY <1>3, <1>4, <1>10, <1>11, <1>12, <1>13, <1>14 DEF Inv

(* The strengthening is an invariant: whatever the parameters of the calls *)
(* and the tags, every step keeps it.                                      *)
THEOREM Invariant == Spec => []Inv
<1>1. Init => Inv
  BY InitInv
<1>2. ASSUME Inv, [Next]_vars PROVE Inv'
  <2>1. CASE Invoke
    BY <1>2, <2>1, InvokeKeeps
  <2>2. CASE Send
    BY <1>2, <2>2, SendKeeps
  <2>3. CASE Receive
    BY <1>2, <2>3, ReceiveKeeps
  <2>4. CASE Reader
    BY <1>2, <2>4, ReaderKeeps
  <2>5. CASE UNCHANGED vars
    BY <1>2, <2>5, StutterKeeps
  <2> QED BY <1>2, <2>1, <2>2, <2>3, <2>4, <2>5 DEF Next, Client
<1> QED BY <1>1, <1>2, PTL DEF Spec

(* The bytes on the wire are bytes, and the reader's settings what it can  *)
(* hold.                                                                   *)
THEOREM BytesAreBytes == Spec => []TypeOK
<1>1. Inv => TypeOK
  <2> SUFFICES ASSUME Inv PROVE TypeOK
    OBVIOUS
  <2>1. Device /\ Call
    BY DEF Inv
  <2>2. channel \in Byte
    BY <2>1, ByteIs DEF Device
  <2>3. ASSUME NEW w \in DOMAIN memory PROVE memory[w][1] \in Byte /\ memory[w][2] \in Byte
    BY <2>1 DEF Device, InPairs
  <2>4. ASSUME NEW i \in 1..Len(wire), NEW j \in 1..Len(wire[i]) PROVE wire[i][j] \in Byte
    BY <2>1 DEF Call
  <2>5. step \in 1..2
    <3>1. CASE pc = "idle"
      BY <2>1, <3>1 DEF Call
    <3>2. CASE pc # "idle"
      <4>1. op.name \in Operations /\ step \in 1..Len(Requests(op))
        BY <2>1, <3>2 DEF Call, IsCall
      <4>2. Len(Requests(op)) \in {1, 2}
        BY <4>1, RequestCount, Zenon
      <4>3. \A n \in {1, 2} : 1..n \subseteq 1..2
        OBVIOUS
      <4> QED BY <4>1, <4>2, <4>3, Zenon
    <3> QED BY <3>1, <3>2
  <2> QED BY <2>1, <2>2, <2>3, <2>4, <2>5 DEF Device, Call, TypeOK
<1> QED BY <1>1, Invariant, PTL

(* A call panics on text that is cut within a character, before a byte is  *)
(* sent, or in a debug build on a frame of more than 257 bytes.            *)
THEOREM PanicsAreExplained == Spec => []PanicsExplained
<1>1. Inv => PanicsExplained
  BY DEF Inv
<1> QED BY <1>1, Invariant, PTL

(* A refused call fails, and shows the byte of the error response.         *)
THEOREM ErrorsAreTold == Spec => []ErrorTold
<1>1. Inv => ErrorTold
  BY DEF Inv
<1> QED BY <1>1, Invariant, PTL

(* Settings made are made, and settings read are the reader's.             *)
THEOREM SettingsDoArrive == Spec => []SettingsArrive
<1>1. Inv => SettingsArrive
  BY DEF Inv
<1> QED BY <1>1, Invariant, PTL

(* A read returns the words asked for, and a write changes them and no     *)
(* others.                                                                 *)
THEOREM MemoryIsAsAsked == Spec => []MemoryAsAsked
<1>1. Inv => MemoryAsAsked
  BY DEF Inv
<1> QED BY <1>1, Invariant, PTL

(* An inventory lists the tags in the field that have 96-bit EPCs.         *)
THEOREM InventoryIsFaithful == Spec => []InventoryFaithful
<1>1. Inv => InventoryFaithful
  BY DEF Inv
<1> QED BY <1>1, Invariant, PTL

=============================================================================
