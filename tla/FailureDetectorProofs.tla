------------------------ MODULE FailureDetectorProofs ------------------------
(***************************************************************************)
(* The failure detector for every period, delay, window and threshold that *)
(* satisfy DetectorAssumption.  Two things are needed: what the sums that  *)
(* phi_at computes over the window can be, which is an induction over the  *)
(* window, and where in a period the answers of a live peer can fall.      *)
(***************************************************************************)
EXTENDS FailureDetector, FiniteSets, FiniteSetTheorems, WellFoundedInduction,
        SequenceTheorems, TLAPS

-------------------------------------------------------------------------------
(***************************************************************************)
(* Folding a sum over a finite function                                    *)
(***************************************************************************)

\* Every set of natural numbers that is not empty has a least element: how the
\* proofs below do induction.
LEMMA Least ==
  ASSUME NEW T \in SUBSET Nat, T # {}
  PROVE  \E m \in T : \A k \in T : m <= k
<1> DEFINE R == OpToRel(<, Nat)
<1>1. IsWellFoundedOn(R, Nat)  BY NatLessThanWellFounded, Zenon
<1>2. \A x, y \in Nat : <<y, x>> \in R <=> y < x  BY DEF OpToRel
<1> HIDE DEF R
<1>3. PICK x \in T : \A y \in T : ~ (<<y, x>> \in R)  BY <1>1, WFMin
<1>4. \A y \in T : ~ (y < x)  BY <1>2, <1>3
<1>5. \A y \in T : x <= y
  <2> TAKE y \in T
  <2> QED BY <1>4
<1> QED BY <1>5

\* The order in which a fold visits a set.
Chosen(u) == CHOOSE x \in u : TRUE

\* it is the function that folding addition over the values of v defines.
IsFold(it, v) ==
  /\ it[{}] = 0
  /\ \A u \in SUBSET DOMAIN v :
       u # {} => it[u] = v[Chosen(u)] + it[u \ {Chosen(u)}]

\* Taking the chosen element away leaves a smaller set.
LEMMA Smaller ==
  ASSUME NEW D, IsFiniteSet(D), NEW u \in SUBSET D, u # {}
  PROVE  /\ Chosen(u) \in D /\ u \ {Chosen(u)} \in SUBSET D
         /\ Cardinality(u) \in Nat \ {0}
         /\ Cardinality(u \ {Chosen(u)}) = Cardinality(u) - 1
<1>1. Chosen(u) \in u  BY DEF Chosen
<1>2. IsFiniteSet(u)  BY FS_Subset
<1>3. Cardinality(u) \in Nat /\ Cardinality(u) # 0  BY <1>2, FS_CardinalityType, FS_EmptySet
<1>4. Cardinality(u \ {Chosen(u)}) = Cardinality(u) - 1  BY <1>1, <1>2, FS_RemoveElement
<1> QED BY <1>1, <1>3, <1>4

\* The recursion of a fold over a finite function has a solution: by induction
\* on k there is one for the sets of at most k elements.
LEMMA FoldExists ==
  ASSUME NEW D, IsFiniteSet(D), NEW v \in [D -> Int]
  PROVE  \E it \in [SUBSET D -> Int] : IsFold(it, v)
<1> DEFINE Small(k)   == {u \in SUBSET D : Cardinality(u) <= k}
           Upto(k, g) == /\ g \in [Small(k) -> Int]
                         /\ g[{}] = 0
                         /\ \A u \in Small(k) :
                              u # {} => g[u] = v[Chosen(u)] + g[u \ {Chosen(u)}]
           Bad        == {k \in Nat : ~ \E g : Upto(k, g)}
<1>1. Cardinality({}) = 0 /\ {} \in SUBSET D  BY FS_EmptySet
<1>2. \A u \in SUBSET D : Cardinality(u) \in Nat /\ (u # {} => Cardinality(u) # 0)
  <2> TAKE u \in SUBSET D
  <2>1. CASE u = {}  BY <1>1, <2>1
  <2>2. CASE u # {}  BY <2>2, Smaller
  <2> QED BY <2>1, <2>2
<1>3. 0 \notin Bad
  <2>1. Small(0) = {{}}  BY <1>1, <1>2
  <2>2. Upto(0, [u \in Small(0) |-> 0])  BY <2>1
  <2> QED BY <2>2
<1>4. \A k \in Nat : k \notin Bad => k + 1 \notin Bad
  <2> SUFFICES ASSUME NEW k \in Nat, NEW g, Upto(k, g) PROVE \E h : Upto(k + 1, h)
    OBVIOUS
  <2> DEFINE h == [u \in Small(k + 1) |->
                     IF Cardinality(u) <= k THEN g[u] ELSE v[Chosen(u)] + g[u \ {Chosen(u)}]]
  <2>1. \A u \in Small(k + 1) : u \in SUBSET D /\ Cardinality(u) \in Nat /\ Cardinality(u) <= k + 1
    BY <1>2
  <2>2. \A u \in Small(k + 1) : Cardinality(u) <= k => u \in Small(k)  OBVIOUS
  <2>3. ASSUME NEW u \in Small(k + 1), u # {}
        PROVE  Chosen(u) \in D /\ u \ {Chosen(u)} \in Small(k)
    <3>1. /\ u \ {Chosen(u)} \in SUBSET D /\ Chosen(u) \in D
          /\ Cardinality(u \ {Chosen(u)}) = Cardinality(u) - 1
      BY <2>3, Smaller
    <3> QED BY <2>1, <3>1
  <2>4. {} \in Small(k) /\ {} \in Small(k + 1)  BY <1>1
  <2>5. \A u \in Small(k) : u \in Small(k + 1) /\ h[u] = g[u]  BY <2>1, <1>2
  <2>6. h \in [Small(k + 1) -> Int]
    <3> SUFFICES ASSUME NEW u \in Small(k + 1) PROVE h[u] \in Int  OBVIOUS
    <3>1. CASE Cardinality(u) <= k  BY <2>5, <2>2, <3>1
    <3>2. CASE ~ (Cardinality(u) <= k)
      <4>1. Cardinality(u) # 0  BY <3>2
      <4>2. u # {}  BY <4>1, <1>1
      <4> QED BY <4>2, <2>3, <3>2
    <3> QED BY <3>1, <3>2
  <2>7. h[{}] = 0  BY <2>4, <2>5
  <2>8. ASSUME NEW u \in Small(k + 1), u # {} PROVE h[u] = v[Chosen(u)] + h[u \ {Chosen(u)}]
    <3>1. h[u \ {Chosen(u)}] = g[u \ {Chosen(u)}]  BY <2>3, <2>5, <2>8
    <3>2. CASE Cardinality(u) <= k  BY <2>2, <2>5, <3>1, <3>2, <2>8
    <3>3. CASE ~ (Cardinality(u) <= k)  BY <3>1, <3>3
    <3> QED BY <3>2, <3>3
  <2> HIDE DEF h, Small
  <2> QED BY <2>6, <2>7, <2>8
<1>5. Bad = {}
  <2> SUFFICES ASSUME Bad # {} PROVE FALSE  OBVIOUS
  <2>0. Bad \in SUBSET Nat  OBVIOUS
  <2> HIDE DEF Bad
  <2>1. PICK m \in Bad : \A k \in Bad : m <= k  BY <2>0, Least
  <2>2. m \in Nat /\ m # 0  BY <1>3, <2>0
  <2>3. m - 1 \in Nat /\ m - 1 \notin Bad /\ (m - 1) + 1 = m  BY <2>1, <2>2
  <2> QED BY <2>3, <1>4
<1>6. Cardinality(D) \in Nat  BY FS_CardinalityType
<1>7. PICK g : Upto(Cardinality(D), g)  BY <1>5, <1>6
<1>8. Small(Cardinality(D)) = SUBSET D  BY FS_Subset
<1>9. g \in [SUBSET D -> Int] /\ DOMAIN v = D  BY <1>7, <1>8
<1> QED BY <1>7, <1>8, <1>9 DEF IsFold

\* Sum and SumSquares are folds.
LEMMA SumIsFold ==
  ASSUME NEW n \in Nat, NEW s \in [1 .. n -> Int]
  PROVE  \E it : IsFold(it, s) /\ Sum(s) = it[1 .. n]
<1> DEFINE F(it) == [u \in SUBSET (DOMAIN s) |->
                       IF u = {} THEN 0
                       ELSE s[CHOOSE x \in u : TRUE] + it[u \ {CHOOSE x \in u : TRUE}]]
           sum   == CHOOSE it : it = F(it)
<1>1. Sum(s) = sum[DOMAIN s]  BY DEF Sum, FoldFunction, FoldFunctionOnSet, MapThenFoldSet
<1>2. DOMAIN s = 1 .. n /\ IsFiniteSet(1 .. n)  BY FS_Interval
<1>3. PICK it \in [SUBSET (1 .. n) -> Int] : IsFold(it, s)  BY <1>2, FoldExists
<1>4. \A u \in SUBSET (DOMAIN s) : it[u] = F(it)[u]  BY <1>2, <1>3 DEF IsFold, Chosen
<1>5. it = F(it)  BY <1>2, <1>3, <1>4
<1>6. sum = F(sum)
  <2> HIDE DEF F
  <2> QED BY <1>5
<1>7. IsFold(sum, s)
  <2>1. \A u \in SUBSET (DOMAIN s) : sum[u] = F(sum)[u]  BY <1>6
  <2> HIDE DEF sum
  <2> QED BY <2>1 DEF IsFold, Chosen
<1> QED BY <1>1, <1>2, <1>7

Squares(s) == [k \in DOMAIN s |-> s[k] * s[k]]

LEMMA SumSquaresIsFold ==
  ASSUME NEW n \in Nat, NEW s \in [1 .. n -> Int]
  PROVE  \E it : IsFold(it, Squares(s)) /\ SumSquares(s) = it[1 .. n]
<1> DEFINE F(it) == [u \in SUBSET (DOMAIN s) |->
                       IF u = {} THEN 0
                       ELSE s[CHOOSE x \in u : TRUE] * s[CHOOSE x \in u : TRUE]
                              + it[u \ {CHOOSE x \in u : TRUE}]]
           sum   == CHOOSE it : it = F(it)
<1>1. SumSquares(s) = sum[DOMAIN s]
  BY DEF SumSquares, FoldFunction, FoldFunctionOnSet, MapThenFoldSet
<1>2. DOMAIN s = 1 .. n /\ IsFiniteSet(1 .. n)  BY FS_Interval
<1>3. Squares(s) \in [1 .. n -> Int] /\ DOMAIN Squares(s) = 1 .. n  BY <1>2 DEF Squares
<1>4. PICK it \in [SUBSET (1 .. n) -> Int] : IsFold(it, Squares(s))  BY <1>2, <1>3, FoldExists
<1>5. \A u \in SUBSET (1 .. n) : u # {} =>
        Squares(s)[Chosen(u)] = s[CHOOSE x \in u : TRUE] * s[CHOOSE x \in u : TRUE]
  <2> TAKE u \in SUBSET (1 .. n)
  <2> HAVE u # {}
  <2>1. Chosen(u) \in 1 .. n  BY <1>2, Smaller
  <2> QED BY <1>2, <2>1 DEF Squares, Chosen
<1>6. \A u \in SUBSET (DOMAIN s) : it[u] = F(it)[u]  BY <1>2, <1>3, <1>4, <1>5 DEF IsFold, Chosen
<1>7. it = F(it)  BY <1>2, <1>4, <1>6
<1>8. sum = F(sum)
  <2> HIDE DEF F
  <2> QED BY <1>7
<1>9. IsFold(sum, Squares(s))
  <2>1. \A u \in SUBSET (DOMAIN s) : sum[u] = F(sum)[u]  BY <1>8
  <2> HIDE DEF sum
  <2>2. sum[{}] = 0  BY <2>1
  <2>3. \A u \in SUBSET (1 .. n) :
          u # {} => sum[u] = Squares(s)[Chosen(u)] + sum[u \ {Chosen(u)}]
    BY <1>2, <1>5, <2>1 DEF Chosen
  <2> QED BY <1>3, <2>2, <2>3 DEF IsFold
<1> QED BY <1>1, <1>2, <1>9

-------------------------------------------------------------------------------
(***************************************************************************)
(* The window of a live peer                                               *)
(***************************************************************************)

\* A number within m of p differs from it by a square of at most m * m.
LEMMA SquareOfJitter ==
  ASSUME NEW x \in Int, NEW p \in Int, NEW m \in Nat, p - m <= x, x <= p + m
  PROVE  x * x + p * p <= 2 * p * x + m * m
<1> DEFINE a == m - (x - p)
           b == m + (x - p)
<1>1. a \in Nat /\ b \in Nat  OBVIOUS
<1>2. a * b >= 0
  <2> HIDE DEF a, b
  <2> QED BY <1>1
<1>3. a * b = m * m - (x * x - 2 * p * x + p * p)  OBVIOUS
<1> HIDE DEF a, b
<1>4. x * x \in Int /\ p * p \in Int /\ p * x \in Int /\ m * m \in Int  OBVIOUS
<1> QED BY <1>2, <1>3, <1>4

\* The induction step of the next lemma, for one more value x.
LEMMA OneMore ==
  ASSUME NEW c \in Int, NEW a \in Int, NEW b \in Int,
         NEW x \in Int, NEW p \in Int, NEW m \in Nat, p - m <= x, x <= p + m,
         (c - 1) * (p - m) <= a, a <= (c - 1) * (p + m),
         b + (c - 1) * (p * p) <= 2 * p * a + (c - 1) * (m * m)
  PROVE  /\ c * (p - m) <= x + a /\ x + a <= c * (p + m)
         /\ (x * x + b) + c * (p * p) <= 2 * p * (x + a) + c * (m * m)
<1>1. x * x + p * p <= 2 * p * x + m * m  BY SquareOfJitter
<1>2. /\ (c - 1) * (p - m) = c * (p - m) - (p - m)
      /\ (c - 1) * (p + m) = c * (p + m) - (p + m)
  OBVIOUS
<1>3. /\ (c - 1) * (p * p) = c * (p * p) - p * p
      /\ (c - 1) * (m * m) = c * (m * m) - m * m
  OBVIOUS
<1>4. 2 * p * (x + a) = 2 * p * x + 2 * p * a  OBVIOUS
<1>5. c * (p - m) <= x + a /\ x + a <= c * (p + m)  BY <1>2
<1>6. (x * x + b) + c * (p * p) <= 2 * p * (x + a) + c * (m * m)  BY <1>1, <1>3, <1>4
<1> QED BY <1>5, <1>6

\* Both sums of n values that lie within m of p, by induction on the sets that
\* the folds visit.
LEMMA SumsOfJitter ==
  ASSUME NEW n \in Nat, NEW s \in [1 .. n -> Int], NEW p \in Int, NEW m \in Nat,
         \A k \in 1 .. n : p - m <= s[k] /\ s[k] <= p + m
  PROVE  /\ Sum(s) \in Int /\ SumSquares(s) \in Int
         /\ n * (p - m) <= Sum(s) /\ Sum(s) <= n * (p + m)
         /\ SumSquares(s) + n * (p * p) <= 2 * p * Sum(s) + n * (m * m)
<1>1. PICK a : IsFold(a, s) /\ Sum(s) = a[1 .. n]  BY SumIsFold
<1>2. PICK b : IsFold(b, Squares(s)) /\ SumSquares(s) = b[1 .. n]  BY SumSquaresIsFold
<1>3. DOMAIN s = 1 .. n /\ IsFiniteSet(1 .. n) /\ Cardinality(1 .. n) = n  BY FS_Interval
<1>4. DOMAIN Squares(s) = 1 .. n /\ \A k \in 1 .. n : Squares(s)[k] = s[k] * s[k]
  BY <1>3 DEF Squares
<1> DEFINE Holds(u, c) == /\ a[u] \in Int /\ b[u] \in Int
                          /\ c * (p - m) <= a[u] /\ a[u] <= c * (p + m)
                          /\ b[u] + c * (p * p) <= 2 * p * a[u] + c * (m * m)
           Bad == {c \in Nat : \E u \in SUBSET (1 .. n) : Cardinality(u) = c /\ ~ Holds(u, c)}
<1>5. Holds({}, 0)  BY <1>1, <1>2 DEF IsFold
<1>6. ASSUME NEW u \in SUBSET (1 .. n), u # {},
             Holds(u \ {Chosen(u)}, Cardinality(u) - 1)
      PROVE  Holds(u, Cardinality(u))
  <2> DEFINE c == Cardinality(u)
             x == s[Chosen(u)]
             r == u \ {Chosen(u)}
  <2>1. c \in Nat \ {0} /\ Chosen(u) \in 1 .. n  BY <1>3, <1>6, Smaller
  <2>2. x \in Int /\ p - m <= x /\ x <= p + m  BY <2>1
  <2>3. a[u] = x + a[r]  BY <1>1, <1>3, <1>6 DEF IsFold
  <2>4. b[u] = x * x + b[r]  BY <1>2, <1>4, <1>6, <2>1 DEF IsFold
  <2>5. Holds(r, c - 1)  BY <1>6
  <2> HIDE DEF c, x, r
  <2>6. c \in Int /\ a[r] \in Int /\ b[r] \in Int  BY <2>1, <2>5
  <2>7. /\ c * (p - m) <= x + a[r] /\ x + a[r] <= c * (p + m)
        /\ (x * x + b[r]) + c * (p * p) <= 2 * p * (x + a[r]) + c * (m * m)
    BY <2>2, <2>5, <2>6, OneMore
  <2>8. x + a[r] \in Int /\ x * x + b[r] \in Int  BY <2>2, <2>6
  <2>9. Holds(u, c)  BY <2>3, <2>4, <2>7, <2>8
  <2> QED BY <2>9 DEF c
<1>7. Bad = {}
  <2> SUFFICES ASSUME Bad # {} PROVE FALSE  OBVIOUS
  <2>1. PICK c \in Bad : \A k \in Bad : c <= k
    <3>1. Bad \in SUBSET Nat  OBVIOUS
    <3> HIDE DEF Bad
    <3> QED BY <3>1, Least
  <2>2. PICK u \in SUBSET (1 .. n) : Cardinality(u) = c /\ ~ Holds(u, c)  BY <2>1
  <2> HIDE DEF Holds
  <2>3. u # {}  BY <1>5, <2>2, FS_EmptySet
  <2>4. /\ u \ {Chosen(u)} \in SUBSET (1 .. n) /\ c \in Nat \ {0}
        /\ Cardinality(u \ {Chosen(u)}) = c - 1
    <3> HIDE DEF Bad
    <3>1. /\ u \ {Chosen(u)} \in SUBSET (1 .. n) /\ Cardinality(u) \in Nat \ {0}
          /\ Cardinality(u \ {Chosen(u)}) = Cardinality(u) - 1
      BY <1>3, <2>3, Smaller
    <3> QED BY <2>2, <3>1
  <2>5. c - 1 \in Nat /\ c - 1 \notin Bad
    <3> HIDE DEF Bad
    <3> QED BY <2>1, <2>4
  <2>6. Holds(u \ {Chosen(u)}, c - 1)  BY <2>4, <2>5
  <2> QED BY <1>6, <2>2, <2>3, <2>6
<1>8. Holds(1 .. n, n)  
  <2> HIDE DEF Holds
  <2> QED BY <1>3, <1>7
<1> QED BY <1>1, <1>2, <1>8

-------------------------------------------------------------------------------
(***************************************************************************)
(* The inductive invariant                                                 *)
(***************************************************************************)

Low  == Period - MaxDelay
High == Period + MaxDelay

\* Two answers in a row are at least Low and at most High apart.
Jitter == \A k \in 1 .. Len(intervals) : Low <= intervals[k] /\ intervals[k] <= High

\* Both branches become ready at the beginning of a period.
Due == ready # {} => phase = 0

\* An answer on its way belongs to the heartbeat of this period, and the one
\* before it came in the last period.
Answering ==
  pending # NoAck =>
    /\ "heartbeat" \notin ready
    /\ phase + pending <= MaxDelay
    /\ elapsed # Never => Low + phase <= elapsed /\ elapsed <= Period + phase
    /\ silence + pending <= MaxDelay

\* A live peer has answered every heartbeat that is not being answered.
Answered ==
  alive /\ pending = NoAck =>
    IF "heartbeat" \in ready
      THEN elapsed # Never => Low <= elapsed /\ elapsed <= Period
      ELSE 0 <= elapsed /\ elapsed <= phase /\ phase <= elapsed + MaxDelay

\* The detector misses at most the answer that was on its way.
Silent ==
  /\ alive => silence = 0
  /\ elapsed # Never => silence <= elapsed + MaxDelay \/ elapsed = Horizon
  /\ elapsed = Never => intervals = <<>>

\* A check that found nothing to suspect came before the threshold was reached.
Deadline ==
  ~ declared /\ Len(intervals) >= 2 =>
    silence <= MaxDelay + DetectBound + (IF "check" \in ready THEN Period ELSE phase)

IInv ==
  /\ TypeOK
  /\ Jitter /\ Due /\ Answering /\ Answered /\ Silent
  /\ Deadline
  /\ NoFalseSuspicion

-------------------------------------------------------------------------------
(***************************************************************************)
(* The verdict of a check                                                  *)
(***************************************************************************)

LEMMA Constants ==
  /\ Period \in Nat /\ MaxDelay \in Nat /\ WindowSize \in Nat /\ MinStd \in Nat
  /\ YSquared \in Nat /\ DetectBound \in Nat
  /\ MaxDelay < Period /\ Low \in Nat /\ High \in Nat /\ Horizon \in Nat
  /\ DetectBound - High > 0
<1>1. /\ {Period, MaxDelay, WindowSize, MinStd, YSquared, DetectBound} \subseteq Nat
      /\ MaxDelay < Period
      /\ DetectBound - (Period + MaxDelay) > 0
  BY DetectorAssumption
<1>2. /\ Period \in Nat /\ MaxDelay \in Nat /\ WindowSize \in Nat /\ MinStd \in Nat
      /\ YSquared \in Nat /\ DetectBound \in Nat
  BY <1>1
<1>3. Low \in Nat /\ High \in Nat /\ Horizon \in Nat  BY <1>1, <1>2 DEF Low, High, Horizon
<1> QED BY <1>1, <1>2, <1>3 DEF High

LEMMA Thresholds ==
  /\ MaxDelay * MaxDelay <= YSquared * MinStd * MinStd
  /\ \A s \in {MinStd, MaxDelay} :
       (DetectBound - High) * (DetectBound - High) >= YSquared * s * s
BY DetectorAssumption DEF High

LEMMA ProductMono ==
  ASSUME NEW a \in Nat, NEW b \in Nat, NEW c \in Nat, NEW d \in Nat, a <= c, b <= d
  PROVE  a * b <= c * d
<1>1. a * b <= c * b
  <2>1. (c - a) * b >= 0  OBVIOUS
  <2> QED BY <2>1
<1>2. c * b <= c * d
  <2>1. c * (d - b) >= 0  OBVIOUS
  <2> QED BY <2>1
<1>3. a * b \in Int /\ c * b \in Int /\ c * d \in Int  OBVIOUS
<1> QED BY <1>1, <1>2, <1>3

\* A square grows with its root, and n * n comes out of it.
LEMMA ScaledSquare ==
  ASSUME NEW n \in Nat, NEW k \in Nat, NEW l \in Nat, k * k <= l
  PROVE  (n * k) * (n * k) <= (n * n) * l
<1>1. (n * k) * (n * k) = (n * n) * (k * k)  OBVIOUS
<1>2. n * n \in Nat /\ k * k \in Nat  OBVIOUS
<1>3. (n * n) * (k * k) <= (n * n) * l  BY <1>2, ProductMono
<1> QED BY <1>1, <1>3

\* What a window of n intervals of a live peer sums up to.
LEMMA WindowSums ==
  ASSUME TypeOK, Jitter
  PROVE  LET n == Len(intervals)
             S == Sum(intervals)
             Q == SumSquares(intervals)
         IN  /\ n \in Nat /\ S \in Int /\ Q \in Int
             /\ n * Low <= S /\ S <= n * High
             /\ n * Q - S * S <= (n * n) * (MaxDelay * MaxDelay)
<1> DEFINE n == Len(intervals)
           S == Sum(intervals)
           Q == SumSquares(intervals)
           P == Period
           M == MaxDelay
<1>1. intervals \in Seq(0 .. Horizon)  BY DEF TypeOK
<1>2. n \in Nat /\ intervals \in [1 .. n -> 0 .. Horizon]  BY <1>1, LenProperties
<1>3. intervals \in [1 .. n -> Int]  BY <1>2, Constants
<1>4. \A k \in 1 .. n : P - M <= intervals[k] /\ intervals[k] <= P + M  BY DEF Jitter, Low, High
<1>5. P \in Int /\ M \in Nat  BY Constants
<1>6. /\ S \in Int /\ Q \in Int
      /\ n * (P - M) <= S /\ S <= n * (P + M)
      /\ Q + n * (P * P) <= 2 * P * S + n * (M * M)
  <2> HIDE DEF n, P, M
  <2> QED BY <1>2, <1>3, <1>4, <1>5, SumsOfJitter
<1> HIDE DEF n, S, Q, P, M
<1>7. n * Q - S * S <= (n * n) * (M * M)
  <2> DEFINE B == 2 * P * S + n * (M * M) - n * (P * P)
             D == S - n * P
  <2>1. B \in Int /\ D \in Int /\ n * (P * P) \in Int /\ n * Q \in Int /\ S * S \in Int  BY <1>2, <1>5, <1>6
  <2>2. Q <= B
    <3>1. 2 * P * S \in Int /\ n * (M * M) \in Int  BY <1>2, <1>5, <1>6
    <3> HIDE DEF D
    <3> QED BY <1>6, <2>1, <3>1
  <2>3. n * Q <= n * B
    <3> HIDE DEF B
    <3>1. n * (B - Q) >= 0  BY <1>2, <1>6, <2>1, <2>2
    <3> QED BY <1>2, <1>6, <2>1, <3>1
  <2>4. n * B - S * S = (n * n) * (M * M) - D * D  BY <1>2, <1>5, <1>6
  <2>5. D * D >= 0
    <3> HIDE DEF D
    <3> QED BY <2>1
  <2> HIDE DEF B, D
  <2>6. n * B \in Int /\ D * D \in Int /\ (n * n) * (M * M) \in Int  BY <1>2, <1>5, <2>1
  <2> QED BY <2>1, <2>3, <2>4, <2>5, <2>6
<1> QED BY <1>2, <1>6, <1>7 DEF Low, High, n, S, Q, P, M

\* An answer in the current or the last period keeps the peer above suspicion.
LEMMA HeardIsTrusted ==
  ASSUME TypeOK, Jitter, elapsed <= Period
  PROVE  ~ Suspicious
<1> DEFINE n == Len(intervals)
           S == Sum(intervals)
           late == n * elapsed - S
           floor == n * n * MinStd * MinStd
<1> SUFFICES ASSUME late > 0, late * late > YSquared * floor PROVE FALSE  BY DEF Suspicious
<1>1. n \in Nat /\ S \in Int /\ n * Low <= S  BY WindowSums
<1>2. elapsed \in Int  BY Constants DEF TypeOK, Never
<1> HIDE DEF n, S
<1>3. late <= n * MaxDelay
  <2>1. n * elapsed <= n * Period
    <3>1. n * (Period - elapsed) >= 0  BY <1>1, <1>2, Constants
    <3> QED BY <1>1, <1>2, <3>1, Constants
  <2>2. n * Low = n * Period - n * MaxDelay  BY <1>1, Constants DEF Low
  <2>3. n * elapsed \in Int /\ n * Period \in Int /\ n * MaxDelay \in Int  BY <1>1, <1>2, Constants
  <2> QED BY <1>1, <2>1, <2>2, <2>3
<1>4. late \in Nat /\ n * MaxDelay \in Nat
  <2>1. late \in Int /\ n * MaxDelay \in Nat  BY <1>1, <1>2, Constants
  <2> HIDE DEF late
  <2> QED BY <2>1
<1>5. late * late <= (n * MaxDelay) * (n * MaxDelay)
  <2> HIDE DEF late
  <2> QED BY <1>3, <1>4, ProductMono
<1>6. (n * MaxDelay) * (n * MaxDelay) <= (n * n) * (YSquared * MinStd * MinStd)
  <2>1. YSquared * MinStd * MinStd \in Nat  BY Constants
  <2> QED BY <1>1, <2>1, Constants, Thresholds, ScaledSquare
<1>7. (n * n) * (YSquared * MinStd * MinStd) = YSquared * floor  BY <1>1, Constants
<1>8. late * late \in Int /\ YSquared * floor \in Int /\ (n * MaxDelay) * (n * MaxDelay) \in Int
  <2>1. YSquared * floor \in Int  BY <1>1, Constants
  <2> HIDE DEF late, floor
  <2> QED BY <1>4, <2>1
<1> HIDE DEF late, floor
<1> QED BY <1>5, <1>6, <1>7, <1>8

\* DetectBound ticks without an answer are suspicious.
LEMMA SilenceIsSuspicious ==
  ASSUME TypeOK, Jitter, Len(intervals) >= 2, elapsed > DetectBound
  PROVE  Suspicious
<1> DEFINE n == Len(intervals)
           S == Sum(intervals)
           Q == SumSquares(intervals)
           late == n * elapsed - S
           slack == DetectBound - High
<1>1. /\ n \in Nat /\ S \in Int /\ Q \in Int /\ S <= n * High
      /\ n * Q - S * S <= (n * n) * (MaxDelay * MaxDelay)
  BY WindowSums
<1>2. elapsed \in Int /\ elapsed # Never  BY Constants DEF TypeOK, Never
<1>3. /\ slack \in Nat /\ slack > 0
      /\ slack * slack >= YSquared * MinStd * MinStd
      /\ slack * slack >= YSquared * MaxDelay * MaxDelay
  BY Constants, Thresholds
<1>0. n >= 2  OBVIOUS
<1> HIDE DEF n, S, Q
<1>4. late >= n * (slack + 1)
  <2>1. n * (DetectBound + 1) <= n * elapsed
    <3>1. n * (elapsed - (DetectBound + 1)) >= 0  BY <1>1, <1>2, Constants
    <3> QED BY <1>1, <1>2, <3>1, Constants
  <2>2. n * (slack + 1) = n * (DetectBound + 1) - n * High  BY <1>1, Constants
  <2>3. n * elapsed \in Int /\ n * (DetectBound + 1) \in Int /\ n * High \in Int  BY <1>1, <1>2, Constants
  <2> QED BY <1>1, <2>1, <2>2, <2>3
<1>5. late \in Int  BY <1>1, <1>2
<1> HIDE DEF late, slack
<1>6. n * slack \in Nat /\ n * (slack + 1) = n * slack + n  BY <1>1, <1>3
<1>7. late \in Nat /\ late > 0 /\ n * slack + 1 <= late  BY <1>0, <1>1, <1>4, <1>5, <1>6
<1>8. late * late > (n * slack) * (n * slack)
  <2> DEFINE r == n * slack
  <2>1. r \in Nat /\ r + 1 <= late  BY <1>6, <1>7
  <2> HIDE DEF r
  <2>2. (r + 1) * (r + 1) <= late * late  BY <1>7, <2>1, ProductMono
  <2>3. (r + 1) * (r + 1) = r * r + 2 * r + 1  BY <2>1
  <2>4. r * r \in Nat /\ late * late \in Nat  BY <1>7, <2>1
  <2>5. late * late > r * r  BY <2>1, <2>2, <2>3, <2>4
  <2> QED BY <2>5 DEF r
<1>9. (n * slack) * (n * slack) = (n * n) * (slack * slack)  BY <1>1, <1>3
<1>10. \A w \in Nat : YSquared * w * w <= slack * slack =>
         YSquared * ((n * n) * (w * w)) <= (n * slack) * (n * slack)
  <2> TAKE w \in Nat
  <2> HAVE YSquared * w * w <= slack * slack
  <2>1. n * n \in Nat /\ YSquared * w * w \in Nat /\ slack * slack \in Nat  BY <1>1, <1>3, Constants
  <2>2. (n * n) * (YSquared * w * w) <= (n * n) * (slack * slack)  BY <2>1, ProductMono
  <2>3. (n * n) * (YSquared * w * w) = YSquared * ((n * n) * (w * w))  BY <1>1, Constants
  <2> QED BY <1>9, <2>2, <2>3
<1>11. late * late \in Int /\ (n * slack) * (n * slack) \in Int  BY <1>1, <1>3, <1>7
<1>12. late * late > YSquared * (n * n * MinStd * MinStd)
  <2>1. YSquared * ((n * n) * (MinStd * MinStd)) <= (n * slack) * (n * slack)  BY <1>3, <1>10, Constants
  <2>2. YSquared * ((n * n) * (MinStd * MinStd)) = YSquared * (n * n * MinStd * MinStd)  BY <1>1, Constants
  <2>3. YSquared * (n * n * MinStd * MinStd) \in Int  BY <1>1, Constants
  <2> QED BY <1>8, <1>11, <2>1, <2>2, <2>3
<1>13. late * late > YSquared * (n * Q - S * S)
  <2> DEFINE v == n * Q - S * S
             top == (n * n) * (MaxDelay * MaxDelay)
  <2>1. v \in Int /\ top \in Int /\ v <= top  BY <1>1, Constants
  <2>2. YSquared * top <= (n * slack) * (n * slack)  BY <1>3, <1>10, Constants
  <2> HIDE DEF v, top
  <2>3. YSquared * v <= YSquared * top
    <3>1. YSquared * (top - v) >= 0  BY <2>1, Constants
    <3> QED BY <2>1, <3>1, Constants
  <2>4. YSquared * v \in Int /\ YSquared * top \in Int  BY <2>1, Constants
  <2>5. late * late > YSquared * v  BY <1>8, <1>11, <2>2, <2>3, <2>4
  <2> QED BY <2>5 DEF v
<1> QED BY <1>0, <1>2, <1>7, <1>12, <1>13 DEF Suspicious, n, S, Q, late

-------------------------------------------------------------------------------
(***************************************************************************)
(* Every step keeps the invariant                                          *)
(***************************************************************************)

\* The window keeps its bound, and its intervals theirs.
LEMMA SlideKeeps ==
  ASSUME TypeOK, Jitter, NEW x \in 0 .. Horizon, Low <= x, x <= High
  PROVE  LET w == Slide(intervals, x)
         IN  /\ w \in Seq(0 .. Horizon)
             /\ Len(w) <= (IF WindowSize = 0 THEN 1 ELSE WindowSize)
             /\ \A k \in 1 .. Len(w) : Low <= w[k] /\ w[k] <= High
<1> DEFINE S == 0 .. Horizon
           t == IF Len(intervals) >= WindowSize /\ intervals # <<>> THEN Tail(intervals) ELSE intervals
           w == Append(t, x)
<1>1. /\ intervals \in Seq(S) /\ Len(intervals) \in Nat
      /\ Len(intervals) <= (IF WindowSize = 0 THEN 1 ELSE WindowSize)
  BY LenProperties DEF TypeOK
<1> DEFINE Kept == /\ t \in Seq(S) /\ Len(t) + 1 <= (IF WindowSize = 0 THEN 1 ELSE WindowSize)
                   /\ \A k \in 1 .. Len(t) : Low <= t[k] /\ t[k] <= High
<1>2. ASSUME Len(intervals) >= WindowSize, intervals # <<>> PROVE Kept
  <2>1. t = Tail(intervals)  BY <1>2
  <2> HIDE DEF t, S
  <2>2. /\ Tail(intervals) \in Seq(S) /\ Len(Tail(intervals)) = Len(intervals) - 1
        /\ \A i \in 1 .. Len(Tail(intervals)) : Tail(intervals)[i] = intervals[i + 1]
    BY <1>1, <1>2, HeadTailProperties
  <2>3. Len(intervals) # 0  BY <1>1, <1>2, EmptySeq
  <2>4. Len(t) = Len(intervals) - 1  BY <2>1, <2>2
  <2>5. \A i \in 1 .. Len(t) : i + 1 \in 1 .. Len(intervals)  BY <1>1, <2>3, <2>4
  <2>6. \A k \in 1 .. Len(t) : Low <= t[k] /\ t[k] <= High  BY <2>1, <2>2, <2>5 DEF Jitter
  <2>7. Len(t) + 1 <= (IF WindowSize = 0 THEN 1 ELSE WindowSize)  BY <1>1, <2>3, <2>4, Constants
  <2> QED BY <2>1, <2>2, <2>6, <2>7
<1>3. ASSUME ~ (Len(intervals) >= WindowSize /\ intervals # <<>>) PROVE Kept
  <2>1. t = intervals  BY <1>3
  <2> HIDE DEF t, S
  <2>2. Len(intervals) + 1 <= (IF WindowSize = 0 THEN 1 ELSE WindowSize)
    <3>1. CASE intervals = <<>>
      <4>1. Len(intervals) = 0  BY <3>1, EmptySeq
      <4> QED BY <4>1, Constants
    <3>2. CASE intervals # <<>>  BY <1>1, <1>3, <3>2, Constants
    <3> QED BY <3>1, <3>2
  <2> QED BY <1>1, <2>1, <2>2 DEF Jitter
<1>4. Kept  BY <1>2, <1>3
<1> HIDE DEF t, S
<1>5. x \in S  BY DEF S
<1>6. /\ w \in Seq(S) /\ Len(w) = Len(t) + 1 /\ w[Len(t) + 1] = x
      /\ \A i \in 1 .. Len(t) : w[i] = t[i]
  BY <1>4, <1>5, AppendProperties
<1>7. Len(t) \in Nat  BY <1>4, LenProperties
<1> HIDE DEF w
<1>8. \A k \in 1 .. Len(w) : Low <= w[k] /\ w[k] <= High
  <2> TAKE k \in 1 .. Len(w)
  <2>1. k \in 1 .. Len(t) \/ k = Len(t) + 1  BY <1>6, <1>7
  <2> QED BY <1>4, <1>6, <2>1
<1>9. Slide(intervals, x) = w  BY DEF Slide, w, t
<1> QED BY <1>4, <1>6, <1>8, <1>9 DEF S

LEMMA InitInv == Init => IInv
<1> SUFFICES ASSUME Init PROVE IInv  OBVIOUS
<1>1. Len(intervals) = 0 /\ intervals \in Seq(0 .. Horizon)  BY DEF Init
<1>2. TypeOK
  <2>1. elapsed \in Never .. Horizon /\ pending \in NoAck .. MaxDelay /\ silence \in 0 .. Horizon
    BY Constants DEF Init, Never, NoAck
  <2>2. phase \in 0 .. Period - 1 /\ ready \subseteq {"heartbeat", "check"}  BY Constants DEF Init
  <2>3. alive \in BOOLEAN /\ declared \in BOOLEAN  BY DEF Init
  <2>4. Len(intervals) <= (IF WindowSize = 0 THEN 1 ELSE WindowSize)  BY <1>1, Constants
  <2> QED BY <1>1, <2>1, <2>2, <2>3, <2>4 DEF TypeOK
<1>3. Jitter /\ Deadline  BY <1>1 DEF Jitter, Deadline
<1>4. Due /\ Answering /\ Answered /\ Silent /\ NoFalseSuspicion
  BY DEF Init, Due, Answering, Answered, Silent, NoFalseSuspicion, Never, NoAck
<1> QED BY <1>2, <1>3, <1>4 DEF IInv

\* What every action may use.
LEMMA Numbers ==
  ASSUME TypeOK
  PROVE  /\ elapsed \in Int /\ -1 <= elapsed /\ elapsed <= Horizon
         /\ phase \in Nat /\ phase <= Period - 1
         /\ pending \in Int /\ -1 <= pending /\ pending <= MaxDelay
         /\ silence \in Nat /\ silence <= Horizon
         /\ Len(intervals) \in Nat
         /\ Horizon = DetectBound + High + 1 /\ Low = Period - MaxDelay /\ High = Period + MaxDelay
<1>1. Len(intervals) \in Nat  BY LenProperties DEF TypeOK
<1>2. Horizon = DetectBound + High + 1  BY Constants DEF Horizon, High
<1> QED BY <1>1, <1>2, Constants DEF TypeOK, Never, NoAck, Low, High

\* The counter of a period wraps around at its end.
LEMMA Wraps ==
  ASSUME NEW a \in Nat, NEW b \in Nat
  PROVE  (a < b => a % b = a) /\ (0 < b => b % b = 0)
OBVIOUS

LEMMA SendHeartbeatStep ==
  ASSUME IInv, ~ declared, SendHeartbeat
  PROVE  IInv'
<1> USE DEF IInv
<1>1. /\ TypeOK /\ "heartbeat" \in ready /\ phase = 0 /\ pending = NoAck
      /\ ready' = ready \ {"heartbeat"}
      /\ pending' \in (IF alive THEN 0 .. MaxDelay ELSE {NoAck})
      /\ UNCHANGED <<intervals, elapsed, phase, alive, silence, declared>>
  BY DEF SendHeartbeat, Due, Answering
<1>2. TypeOK'  BY <1>1, Constants DEF TypeOK, NoAck
<1>3. Jitter' /\ Silent' /\ NoFalseSuspicion'  BY <1>1 DEF Jitter, Silent, NoFalseSuspicion
<1>4. Due' /\ Deadline'  BY <1>1 DEF Due, Deadline
<1>5. Answering'
  <2>1. CASE alive
    <3>1. elapsed # Never => Low <= elapsed /\ elapsed <= Period  BY <1>1, <2>1 DEF Answered
    <3>2. silence = 0  BY <2>1 DEF Silent
    <3>3. pending' \in Nat /\ pending' <= MaxDelay  BY <1>1, <2>1, Constants
    <3>4. PICK q \in Nat : q = pending' /\ q <= MaxDelay  BY <3>3
    <3>5. Low + phase = Low /\ Period + phase = Period /\ phase + q = q /\ silence + q = q
      BY <1>1, <3>2, Constants DEF Low
    <3>6. phase + pending' <= MaxDelay /\ silence + pending' <= MaxDelay  BY <3>4, <3>5
    <3> QED BY <1>1, <3>1, <3>5, <3>6 DEF Answering
  <2>2. CASE ~ alive  BY <1>1, <2>2 DEF Answering
  <2> QED BY <2>1, <2>2
<1>6. Answered'
  <2>1. alive => pending' # NoAck  BY <1>1, Constants DEF NoAck
  <2> QED BY <1>1, <2>1 DEF Answered
<1> QED BY <1>2, <1>3, <1>4, <1>5, <1>6

LEMMA RecvHeartbeatAckStep ==
  ASSUME IInv, ~ declared, RecvHeartbeatAck
  PROVE  IInv'
<1> USE DEF IInv
<1>1. /\ TypeOK /\ pending = 0 /\ pending' = NoAck /\ elapsed' = 0
      /\ intervals' = IF elapsed = Never THEN intervals ELSE Slide(intervals, elapsed)
      /\ UNCHANGED <<phase, ready, alive, silence, declared>>
  BY DEF RecvHeartbeatAck, HeartbeatAt
<1>2. /\ "heartbeat" \notin ready /\ phase <= MaxDelay /\ silence <= MaxDelay
      /\ elapsed # Never => Low + phase <= elapsed /\ elapsed <= Period + phase
  BY <1>1, Numbers, Constants DEF Answering, NoAck
<1>3. /\ intervals' \in Seq(0 .. Horizon)
      /\ Len(intervals') <= (IF WindowSize = 0 THEN 1 ELSE WindowSize)
      /\ \A k \in 1 .. Len(intervals') : Low <= intervals'[k] /\ intervals'[k] <= High
  <2>1. CASE elapsed = Never  BY <1>1, <2>1 DEF TypeOK, Jitter
  <2>2. CASE elapsed # Never
    <3>1. elapsed \in 0 .. Horizon /\ Low <= elapsed /\ elapsed <= High
      BY <1>1, <1>2, <2>2, Numbers, Constants
    <3> QED BY <1>1, <2>2, <3>1, SlideKeeps
  <2> QED BY <2>1, <2>2
<1>4. TypeOK'  BY <1>1, <1>3, Constants DEF TypeOK, NoAck, Never
<1>5. Jitter'  BY <1>3 DEF Jitter
<1>6. Due' /\ Answering' /\ NoFalseSuspicion'  BY <1>1 DEF Due, Answering, NoFalseSuspicion
<1>7. Answered'  BY <1>1, <1>2, Numbers, Constants DEF Answered
<1>8. Silent'  BY <1>1, <1>2, Numbers, Constants DEF Silent, Never
<1>9. Deadline'  BY <1>1, <1>2, Numbers, Constants DEF Deadline
<1> QED BY <1>4, <1>5, <1>6, <1>7, <1>8, <1>9

LEMMA PhiCheckStep ==
  ASSUME IInv, ~ declared, PhiCheck
  PROVE  IInv'
<1> USE DEF IInv
<1>1. /\ TypeOK /\ Jitter /\ "check" \in ready /\ phase = 0
      /\ ready' = ready \ {"check"} /\ declared' = Suspicious
      /\ UNCHANGED <<intervals, elapsed, phase, pending, alive, silence>>
  BY DEF PhiCheck, Due
<1>2. TypeOK'
  <2>1. Suspicious \in BOOLEAN  BY DEF Suspicious
  <2> QED BY <1>1, <2>1 DEF TypeOK
<1>3. Jitter' /\ Due' /\ Answering' /\ Answered' /\ Silent'
  BY <1>1 DEF Jitter, Due, Answering, Answered, Silent
<1>4. NoFalseSuspicion'
  <2>1. ASSUME alive PROVE elapsed <= Period
    BY <1>1, <2>1, Numbers, Constants DEF Answering, Answered, Never
  <2>2. alive => ~ Suspicious  BY <1>1, <2>1, HeardIsTrusted
  <2> QED BY <1>1, <2>2 DEF NoFalseSuspicion
<1>5. Deadline'
  <2> SUFFICES ASSUME ~ Suspicious, Len(intervals) >= 2, silence > MaxDelay + DetectBound
      PROVE  FALSE
    BY <1>1, Numbers, Constants DEF Deadline
  <2>1. elapsed # Never
    <3>1. intervals # <<>>  OBVIOUS
    <3> QED BY <3>1 DEF Silent
  <2>2. elapsed > DetectBound  BY <1>1, <2>1, Numbers, Constants DEF Silent
  <2> QED BY <1>1, <2>2, SilenceIsSuspicious
<1> QED BY <1>2, <1>3, <1>4, <1>5

LEMMA FallSilentStep ==
  ASSUME IInv, ~ declared, FallSilent
  PROVE  IInv'
<1> USE DEF IInv
<1>1. /\ TypeOK /\ alive /\ alive' = FALSE /\ pending' \in {pending, NoAck}
      /\ UNCHANGED <<intervals, elapsed, phase, ready, silence, declared>>
  BY DEF FallSilent
<1>2. TypeOK'
  <2>1. pending' \in NoAck .. MaxDelay  BY <1>1, Constants DEF TypeOK, NoAck
  <2>2. alive' \in BOOLEAN  BY <1>1
  <2> QED BY <1>1, <2>1, <2>2 DEF TypeOK
<1>3. Jitter' /\ Due' /\ Answering' /\ Answered' /\ Silent' /\ Deadline' /\ NoFalseSuspicion'
  BY <1>1 DEF Jitter, Due, Answering, Answered, Silent, Deadline, NoFalseSuspicion
<1> QED BY <1>2, <1>3

LEMMA TickStep ==
  ASSUME IInv, ~ declared, Tick
  PROVE  IInv'
<1> USE DEF IInv
<1>0. TypeOK  OBVIOUS
<1>1. /\ TypeOK /\ ready = {} /\ pending # 0
      /\ phase' = (phase + 1) % Period
      /\ ready' = IF phase' = 0 THEN {"heartbeat", "check"} ELSE {}
      /\ pending' = IF pending = NoAck THEN NoAck ELSE pending - 1
      /\ elapsed' = IF elapsed \in {Never, Horizon} THEN elapsed ELSE elapsed + 1
      /\ silence' = IF alive \/ silence = Horizon THEN silence ELSE silence + 1
      /\ UNCHANGED <<intervals, alive, declared>>
  BY DEF Tick
<1>2. /\ phase + 1 < Period => phase' = phase + 1
      /\ phase + 1 = Period => phase' = 0
  <2>1. phase + 1 \in Nat /\ Period \in Nat  BY <1>1, Numbers, Constants
  <2> QED BY <1>1, <2>1, Wraps, Constants
<1>3. \/ phase + 1 < Period /\ phase' = phase + 1 /\ ready' = {}
      \/ phase + 1 = Period /\ phase' = 0 /\ ready' = {"heartbeat", "check"}
  BY <1>1, <1>2, Numbers, Constants
<1>4. TypeOK'
  <2>1. phase' \in 0 .. Period - 1 /\ ready' \subseteq {"heartbeat", "check"}
    BY <1>3, Numbers, Constants
  <2>2. elapsed' \in Never .. Horizon
    <3>1. CASE elapsed \in {Never, Horizon}  BY <1>1, <3>1 DEF TypeOK
    <3>2. CASE elapsed \notin {Never, Horizon}
      <4>1. elapsed' = elapsed + 1 /\ elapsed # Horizon  BY <1>1, <3>2
      <4> QED BY <1>1, <4>1, Numbers, Constants DEF Never
    <3> QED BY <3>1, <3>2
  <2>4. silence' \in 0 .. Horizon  BY <1>1, Numbers, Constants
  <2>3. pending' \in NoAck .. MaxDelay  BY <1>1, Numbers, Constants DEF NoAck
  <2> QED BY <1>1, <2>1, <2>2, <2>3, <2>4 DEF TypeOK
<1>5. Jitter' /\ NoFalseSuspicion'  BY <1>1 DEF Jitter, NoFalseSuspicion
<1>6. Due'  BY <1>1 DEF Due
<1>7. Silent'  BY <1>1, Numbers, Constants DEF Silent, Never
<1>8. ASSUME pending # NoAck PROVE Answering' /\ Answered'
  <2>1. /\ phase + pending <= MaxDelay /\ silence + pending <= MaxDelay
        /\ pending \in Nat \ {0}
        /\ elapsed # Never => Low + phase <= elapsed /\ elapsed <= Period + phase
    BY <1>1, <1>8, Numbers DEF Answering, NoAck
  <2>2. phase' = phase + 1 /\ ready' = {}  BY <1>1, <1>3, <2>1, Numbers, Constants
  <2>3. pending' = pending - 1 /\ pending' # NoAck  BY <1>1, <1>8, <2>1 DEF NoAck
  <2>4. silence' + pending' <= MaxDelay
    <3>1. silence' \in Int /\ silence' <= silence + 1  BY <1>1, Numbers
    <3> QED BY <1>1, <2>1, <2>3, <3>1, Numbers, Constants
  <2>5. ASSUME elapsed' # Never PROVE Low + phase' <= elapsed' /\ elapsed' <= Period + phase'
    <3>1. elapsed # Never  BY <1>1, <2>5
    <3>2. elapsed # Horizon  BY <1>1, <2>1, <3>1, Numbers, Constants
    <3>3. elapsed' = elapsed + 1  BY <1>1, <3>1, <3>2
    <3>4. Low \in Int /\ elapsed \in Int /\ phase \in Int /\ Period \in Int
      BY <1>0, Numbers, Constants
    <3>5. Low + phase <= elapsed /\ elapsed <= Period + phase  BY <2>1, <3>1
    <3> QED BY <2>2, <3>3, <3>4, <3>5 DEF Low
  <2>6. phase' + pending' <= MaxDelay  BY <1>1, <2>1, <2>2, <2>3, Numbers, Constants
  <2>7. Answering'  BY <2>2, <2>4, <2>5, <2>6 DEF Answering
  <2> QED BY <2>3, <2>7 DEF Answered
<1>9. ASSUME pending = NoAck PROVE Answering' /\ Answered'
  <2>1. pending' = NoAck  BY <1>1, <1>9
  <2>2. Answering'  BY <2>1 DEF Answering
  <2>3. CASE alive
    <3>1. 0 <= elapsed /\ elapsed <= phase /\ phase <= elapsed + MaxDelay
      BY <1>1, <1>9, <2>3 DEF Answered
    <3>2. elapsed # Never /\ elapsed # Horizon  BY <1>1, <3>1, Numbers, Constants DEF Never
    <3>3. elapsed' = elapsed + 1  BY <1>1, <3>2
    <3>4. CASE phase + 1 < Period /\ phase' = phase + 1 /\ ready' = {}
      <4>1. 0 <= elapsed' /\ elapsed' <= phase' /\ phase' <= elapsed' + MaxDelay
        BY <1>0, <3>1, <3>3, <3>4, Numbers, Constants
      <4> QED BY <2>2, <3>4, <4>1 DEF Answered
    <3>5. CASE phase + 1 = Period /\ phase' = 0 /\ ready' = {"heartbeat", "check"}
      <4>1. Low <= elapsed' /\ elapsed' <= Period  BY <1>1, <3>1, <3>3, <3>5, Numbers, Constants
      <4> QED BY <2>2, <3>5, <4>1 DEF Answered
    <3> QED BY <1>3, <3>4, <3>5
  <2>4. CASE ~ alive  BY <1>1, <2>2, <2>4 DEF Answered
  <2> QED BY <2>3, <2>4
<1>10. Deadline'
  <2> SUFFICES ASSUME Len(intervals) >= 2
      PROVE  silence' <= MaxDelay + DetectBound + (IF "check" \in ready' THEN Period ELSE phase')
    BY <1>1 DEF Deadline
  <2>1. silence <= MaxDelay + DetectBound + phase  BY <1>1 DEF Deadline
  <2>2. silence' \in Int /\ silence' <= silence + 1  BY <1>1, Numbers
  <2>3. CASE phase + 1 < Period /\ phase' = phase + 1 /\ ready' = {}
    <3>1. silence' <= MaxDelay + DetectBound + phase'  BY <1>0, <2>1, <2>2, <2>3, Numbers, Constants
    <3> QED BY <2>3, <3>1
  <2>4. CASE phase + 1 = Period /\ phase' = 0 /\ ready' = {"heartbeat", "check"}
    <3>1. silence' <= MaxDelay + DetectBound + Period  BY <1>1, <2>1, <2>2, <2>4, Numbers, Constants
    <3> QED BY <2>4, <3>1
  <2> QED BY <1>3, <2>3, <2>4
<1> QED BY <1>4, <1>5, <1>6, <1>7, <1>8, <1>9, <1>10

LEMMA StepInv == IInv /\ [Next]_vars => IInv'
<1> SUFFICES ASSUME IInv, [Next]_vars PROVE IInv'  OBVIOUS
<1>1. CASE ~ declared /\ SendHeartbeat  BY <1>1, SendHeartbeatStep
<1>2. CASE ~ declared /\ RecvHeartbeatAck  BY <1>2, RecvHeartbeatAckStep
<1>3. CASE ~ declared /\ PhiCheck  BY <1>3, PhiCheckStep
<1>4. CASE ~ declared /\ FallSilent  BY <1>4, FallSilentStep
<1>5. CASE ~ declared /\ Tick  BY <1>5, TickStep
<1>6. CASE UNCHANGED vars
  BY <1>6 DEF IInv, vars, TypeOK, Jitter, Due, Answering, Answered, Silent, Deadline, NoFalseSuspicion
<1> QED BY <1>1, <1>2, <1>3, <1>4, <1>5, <1>6 DEF Next

-------------------------------------------------------------------------------
(***************************************************************************)
(* The theorems                                                            *)
(***************************************************************************)

\* The invariant holds for every period, delay, window and threshold within
\* DetectorAssumption.
THEOREM Invariance == Spec => []IInv
<1> QED BY InitInv, StepInv, PTL DEF Spec

\* heartbeat_at keeps the window within phi_window_size (one interval when that
\* is 0), and the clock and the branches of the loop stay in their ranges.
THEOREM TypeCorrect == Spec => []TypeOK
<1>1. IInv => TypeOK  BY DEF IInv
<1> QED BY Invariance, <1>1, PTL

\* The phi check of peer_message_loop never declares a peer dead that answers
\* every heartbeat within MaxDelay.
THEOREM NoFalseSuspicionTheorem == Spec => []NoFalseSuspicion
<1>1. IInv => NoFalseSuspicion  BY DEF IInv
<1> QED BY Invariance, <1>1, PTL

\* A peer that falls silent once the window has two intervals is declared dead
\* within MaxDelay + DetectBound + Period ticks.
THEOREM DetectsInTimeTheorem == Spec => []DetectsInTime
<1>1. IInv => DetectsInTime
  <2> SUFFICES ASSUME IInv, ~ declared, Len(intervals) >= 2
      PROVE  silence <= MaxDelay + DetectBound + Period
    BY DEF DetectsInTime
  <2>1. silence <= MaxDelay + DetectBound + (IF "check" \in ready THEN Period ELSE phase)
    BY DEF IInv, Deadline
  <2>2. TypeOK  BY DEF IInv
  <2> QED BY <2>1, <2>2, Numbers, Constants
<1> QED BY Invariance, <1>1, PTL
==============================================================================
