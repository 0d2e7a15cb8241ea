--------------------------- MODULE IntegerLemmas ---------------------------
(* Facts about integers, and about sums over finite sets, that the proofs   *)
(* of several components need.                                             *)
EXTENDS Integers, FiniteSetsExt, FiniteSetTheorems, WellFoundedInduction, TLAPS

(* A finite non-empty set of integers has a least element.                 *)
LEMMA LeastInteger ==
  ASSUME NEW S \in SUBSET Int, IsFiniteSet(S), S # {}
  PROVE  \E least \in S : \A k \in S : least <= k
<1> DEFINE Below(x) == {y \in S : y < x}
           T == {Below(x) : x \in S}
<1>1. T \subseteq FiniteSubsetsOf(S)
  BY FS_Subset DEF FiniteSubsetsOf
<1>2. T # {}
  OBVIOUS
<1>3. PICK U \in T : \A V \in T : <<V, U>> \notin StrictSubsetOrdering(S)
  <2>1. IsWellFoundedOn(StrictSubsetOrdering(S), FiniteSubsetsOf(S))
    BY FS_StrictSubsetOrderingWellFounded
  <2> HIDE DEF T
  <2> QED
    BY <2>1, <1>1, <1>2, WFMin
<1>4. PICK x \in S : U = Below(x)
  OBVIOUS
<1>5. ASSUME NEW y \in S, ~(x <= y) PROVE FALSE
  <2>1. y < x /\ x \in Int /\ y \in Int
    BY <1>5
  <2>2. y \in Below(x) /\ y \notin Below(y)
    BY <2>1
  <2>3. ASSUME NEW z \in Below(y) PROVE z \in Below(x)
    <3>1. z \in S /\ z < y /\ z \in Int
      OBVIOUS
    <3> QED
      BY <3>1, <2>1
  <2>4. <<Below(y), Below(x)>> \in StrictSubsetOrdering(S)
    BY <2>2, <2>3 DEF StrictSubsetOrdering
  <2> QED
    BY <2>4, <1>3, <1>4
<1> QED
  BY <1>5

(* A non-empty set of natural numbers with a bound has a greatest element. *)
LEMMA GreatestInteger ==
  ASSUME NEW m \in Nat, NEW S \in SUBSET (0 .. m), S # {}
  PROVE  \E greatest \in S : \A k \in S : greatest >= k
<1> DEFINE T == {k \in 0 .. m : m - k \in S}
<1>1. T \in SUBSET Int /\ IsFiniteSet(T)
  <2>1. IsFiniteSet(0 .. m) /\ T \in SUBSET (0 .. m)
    BY FS_Interval
  <2>2. T \in SUBSET Int
    OBVIOUS
  <2> HIDE DEF T
  <2> QED
    BY <2>1, <2>2, FS_Subset
<1>2. ASSUME NEW k \in S PROVE m - k \in T
  <2>1. k \in Int /\ m - k \in 0 .. m /\ m - (m - k) = k
    OBVIOUS
  <2> QED
    BY <2>1
<1>3. T # {}
  BY <1>2
<1>4. PICK least \in T : \A k \in T : least <= k
  <2> HIDE DEF T
  <2> QED
    BY <1>1, <1>3, LeastInteger
<1>5. m - least \in S /\ least \in Int
  OBVIOUS
<1>6. ASSUME NEW k \in S PROVE m - least >= k
  <2>1. least <= m - k
    BY <1>2, <1>4
  <2> QED
    BY <1>5, <2>1
<1> QED
  BY <1>5, <1>6

(* Integer division brackets the dividend: what the rounding of a clock    *)
(* rests on.                                                               *)
LEMMA Division ==
  ASSUME NEW a \in Int, NEW d \in Nat \ {0}
  PROVE  /\ a \div d \in Int
         /\ d * (a \div d) <= a
         /\ a < d * (a \div d) + d
  BY SMT

(* A remainder lies in the cycle it is taken of.                           *)
LEMMA Remainder ==
  ASSUME NEW a \in Int, NEW d \in Nat \ {0}
  PROVE  a % d \in 0 .. (d - 1)
  BY SMT

LEMMA SmallRemainder ==
  ASSUME NEW d \in Nat \ {0}, NEW a \in 0 .. (d - 1)
  PROVE  a % d = a
  BY SMT

(* The quotient of a number of at most p per part is at most p.            *)
LEMMA QuotientBound ==
  ASSUME NEW a \in Nat, NEW d \in Nat \ {0}, NEW p \in Nat, a <= p * d
  PROVE  a \div d \in 0 .. p
<1> DEFINE q == a \div d
<1>1. q \in Int /\ d * q <= a /\ a < d * q + d
  BY Division
<1> HIDE DEF q
<1>2. q <= p
  <2> SUFFICES ASSUME q >= p + 1 PROVE FALSE
    BY <1>1
  <2>1. d * q >= d * (p + 1)
    BY <1>1
  <2>2. d * (p + 1) = p * d + d
    OBVIOUS
  <2> QED
    BY <1>1, <2>1, <2>2
<1>3. q >= 0
  <2> SUFFICES ASSUME q <= -1 PROVE FALSE
    BY <1>1
  <2>1. d * q <= d * (-1)
    BY <1>1
  <2> QED
    BY <1>1, <2>1
<1> QED
  BY <1>1, <1>2, <1>3 DEF q

(* Products distribute and grow with a factor.                             *)
LEMMA Product ==
  ASSUME NEW a \in Int, NEW b \in Int, NEW d \in Int
  PROVE  /\ a * d \in Int /\ b * d \in Int
         /\ (a + b) * d = a * d + b * d
         /\ (a - b) * d = a * d - b * d
  BY SMT

LEMMA ProductGrows ==
  ASSUME NEW a \in Int, NEW b \in Int, NEW d \in Nat, a <= b
  PROVE  a * d <= b * d
<1>1. (b - a) * d \in Nat
  <2>1. b - a \in Nat
    OBVIOUS
  <2> QED
    BY <2>1
<1> QED
  BY <1>1, Product

(* A number is its quotient and its remainder.                             *)
LEMMA QuotientAndRemainder ==
  ASSUME NEW a \in Int, NEW d \in Nat \ {0}
  PROVE  /\ (a % d) \in 0 .. (d - 1) /\ (a \div d) \in Int
         /\ a = d * (a \div d) + (a % d)
  BY SMT

(* Whole cycles more or less do not change a remainder.                    *)
LEMMA RemainderAdds ==
  ASSUME NEW a \in Int, NEW k \in Int, NEW d \in Nat \ {0}
  PROVE  ((a + d * k) % d) = (a % d)
<1> DEFINE q == a \div d
           r == a % d
<1>1. q \in Int /\ r \in 0 .. (d - 1) /\ a = d * q + r
  BY SMT
<1> HIDE DEF q, r
<1>2. d * (q + k) = d * q + d * k /\ d * k \in Int /\ d * q \in Int
  BY <1>1, SMT
<1>3. a + d * k = d * (q + k) + r /\ q + k \in Int
  BY <1>1, <1>2
<1>4. ((d * (q + k) + r) % d) = r
  <2> DEFINE b == d * (q + k) + r
  <2>1. b \in Int /\ (b % d) \in 0 .. (d - 1) /\ b = d * (b \div d) + (b % d) /\ b \div d \in Int
    <3>1. b \in Int
      BY <1>1, <1>2
    <3> HIDE DEF b
    <3> QED
      BY <3>1, SMT
  <2> DEFINE p == b \div d
             m == b % d
  <2>2. b = d * p + m /\ p \in Int /\ m \in 0 .. (d - 1)
    BY <2>1
  <2> HIDE DEF p, m
  <2> DEFINE x == q + k - p
  <2>3. d * x = m - r
    <3>1. d * (q + k) + r = d * p + m
      BY <2>2
    <3>2. d * x = d * (q + k) - d * p
      BY <1>1, <2>2, SMT
    <3>3. d * (q + k) \in Int /\ d * p \in Int
      BY <1>3, <2>2
    <3> QED
      BY <1>1, <2>2, <3>1, <3>2, <3>3
  <2>4. x = 0
    <3>1. x \in Int /\ m - r < d /\ r - m < d
      BY <1>1, <2>2
    <3> HIDE DEF x
    <3>2. CASE x >= 1
      <4>1. 1 * d <= x * d
        BY <3>1, <3>2, ProductGrows
      <4> QED
        BY <1>1, <2>2, <2>3, <3>1, <4>1
    <3>3. CASE x <= -1
      <4>1. x * d <= (-1) * d
        BY <3>1, <3>3, ProductGrows
      <4> QED
        BY <1>1, <2>2, <2>3, <3>1, <4>1
    <3> QED
      BY <3>1, <3>2, <3>3
  <2>5. m = r
    <3>1. d * x = 0
      BY <2>4
    <3> QED
      BY <1>1, <2>2, <2>3, <3>1
  <2> QED
    BY <2>5 DEF m
<1> QED
  BY <1>3, <1>4 DEF r

(* A remainder is no more than the number it is taken of.                  *)
LEMMA RemainderAtMost ==
  ASSUME NEW a \in Nat, NEW d \in Nat \ {0}
  PROVE  (a % d) <= a
<1> DEFINE q == a \div d
           r == a % d
<1>1. r \in 0 .. (d - 1) /\ q \in Int /\ a = d * q + r
  BY QuotientAndRemainder
<1> HIDE DEF q, r
<1>2. q >= 0
  <2> SUFFICES ASSUME q <= -1 PROVE FALSE
    BY <1>1
  <2>1. q * d <= (-1) * d
    BY <1>1, ProductGrows
  <2> QED
    BY <1>1, <2>1
<1>3. 0 * d <= q * d
  BY <1>1, <1>2, ProductGrows
<1> QED
  BY <1>1, <1>3 DEF r
------------------------------------------------------------------------------
(***************************************************************************)
(* Sums over finite sets, as MapThenSumSet of the community modules defines *)
(* them, with the weights given as a function: what an element adds, that   *)
(* more elements weigh more, and that renaming them changes nothing.  The   *)
(* inductions go over a set of cases and find a least case outside it.      *)
(***************************************************************************)

(* Induction over the natural numbers that are in P.                       *)
LEMMA InductionOnNat ==
  ASSUME NEW P, 0 \in P, \A n \in Nat : n \in P => n + 1 \in P
  PROVE  Nat \subseteq P
<1> SUFFICES ASSUME NEW m \in Nat, m \notin P PROVE FALSE
  OBVIOUS
<1> DEFINE S == {k \in 0 .. m : k \notin P}
<1>1. S \in SUBSET Int /\ IsFiniteSet(S) /\ S # {}
  <2>1. IsFiniteSet(0 .. m) /\ S \in SUBSET (0 .. m) /\ m \in S
    BY FS_Interval
  <2>2. S # {} /\ S \in SUBSET Int
    BY <2>1
  <2>3. IsFiniteSet(S)
    BY <2>1, FS_Subset
  <2> QED
    BY <2>2, <2>3
<1>2. PICK least \in S : \A k \in S : least <= k
  <2> HIDE DEF S
  <2> QED
    BY <1>1, LeastInteger
<1>3. least - 1 \in Nat /\ least - 1 \notin S /\ least - 1 <= m
  BY <1>2
<1>4. QED
  BY <1>3

(* Induction over the subsets of a finite set that are in P.               *)
LEMMA InductionOnSubsets ==
  ASSUME NEW S, IsFiniteSet(S), NEW P,
         \A T \in SUBSET S : (\A x \in T : T \ {x} \in P) => T \in P
  PROVE  \A T \in SUBSET S : T \in P
<1> DEFINE Failing == {T \in SUBSET S : T \notin P}
<1> SUFFICES ASSUME Failing # {} PROVE FALSE
  OBVIOUS
<1>1. Failing \subseteq FiniteSubsetsOf(S)
  BY FS_Subset DEF FiniteSubsetsOf
<1>2. IsWellFoundedOn(StrictSubsetOrdering(S), FiniteSubsetsOf(S))
  BY FS_StrictSubsetOrderingWellFounded
<1>3. PICK T \in Failing : \A U \in Failing : <<U, T>> \notin StrictSubsetOrdering(S)
  <2> HIDE DEF Failing
  <2> QED
    BY <1>1, <1>2, WFMin
<1>4. ASSUME NEW x \in T PROVE T \ {x} \in P
  <2>1. T \ {x} \in SUBSET S /\ T \in SUBSET S /\ T \ {x} # T /\ T \ {x} \subseteq T
    OBVIOUS
  <2>2. <<T \ {x}, T>> \in StrictSubsetOrdering(S)
    BY <2>1 DEF StrictSubsetOrdering
  <2> QED
    BY <1>3, <2>1, <2>2
<1> QED
  BY <1>4

Chosen(s) == CHOOSE x \in s : TRUE

(* f gives each subset of S its sum.                                       *)
Sums(w, S, f) ==
  f = [s \in SUBSET S |-> IF s = {} THEN 0 ELSE w[Chosen(s)] + f[s \ {Chosen(s)}]]

Total(w, S) == (CHOOSE f : Sums(w, S, f))[S]

LEMMA SumsExist ==
  ASSUME NEW S, IsFiniteSet(S), NEW w, \A x \in S : w[x] \in Int
  PROVE  \E f \in [SUBSET S -> Int] : Sums(w, S, f)
<1> DEFINE Step(f, s) == IF s = {} THEN 0 ELSE w[Chosen(s)] + f[s \ {Chosen(s)}]
           UpTo(n, f) == \A s \in SUBSET S : Cardinality(s) <= n => f[s] = Step(f, s)
           P == {n \in Nat : \E f \in [SUBSET S -> Int] : UpTo(n, f)}
<1>0. \A s \in SUBSET S : IsFiniteSet(s) /\ Cardinality(s) \in Nat
  BY FS_Subset, FS_CardinalityType
<1>1. \A s \in SUBSET S : s # {} => /\ Chosen(s) \in s /\ s \ {Chosen(s)} \in SUBSET S
                                    /\ Cardinality(s \ {Chosen(s)}) = Cardinality(s) - 1
  BY <1>0, FS_RemoveElement DEF Chosen
<1>2. \A f \in [SUBSET S -> Int] : \A s \in SUBSET S : Step(f, s) \in Int
  BY <1>1
<1>3. 0 \in P
  <2>1. \A s \in SUBSET S : Cardinality(s) <= 0 => s = {}
    BY <1>0, FS_EmptySet
  <2>2. [s \in SUBSET S |-> 0] \in [SUBSET S -> Int]
    OBVIOUS
  <2> QED
    BY <2>1, <2>2
<1>4. ASSUME NEW n \in Nat, n \in P PROVE n + 1 \in P
  <2>1. PICK f \in [SUBSET S -> Int] : UpTo(n, f)
    BY <1>4
  <2> DEFINE g == [s \in SUBSET S |-> Step(f, s)]
  <2>2. g \in [SUBSET S -> Int]
    BY <1>2
  <2>3. ASSUME NEW s \in SUBSET S, Cardinality(s) <= n + 1 PROVE g[s] = Step(g, s)
    <3>1. CASE s = {}
      BY <3>1
    <3>2. CASE s # {}
      <4> DEFINE r == s \ {Chosen(s)}
      <4>1. r \in SUBSET S /\ Cardinality(r) <= n
        BY <1>0, <1>1, <2>3, <3>2
      <4>2. g[r] = f[r]
        BY <2>1, <4>1
      <4>3. g[s] = w[Chosen(s)] + f[r]
        BY <3>2
      <4> QED
        BY <3>2, <4>2, <4>3
    <3> QED
      BY <3>1, <3>2
  <2> HIDE DEF g, Step
  <2> QED
    BY <2>2, <2>3
<1>5. Cardinality(S) \in P
  <2>1. Nat \subseteq P
    <3> HIDE DEF P
    <3> QED
      BY <1>3, <1>4, InductionOnNat
  <2> QED
    BY <1>0, <2>1
<1>6. PICK f \in [SUBSET S -> Int] : UpTo(Cardinality(S), f)
  BY <1>5
<1>7. \A s \in SUBSET S : f[s] = Step(f, s)
  BY <1>6, FS_Subset
<1>8. f = [s \in SUBSET S |-> Step(f, s)]
  BY <1>7
<1> QED
  BY <1>8 DEF Sums

(* The sums of the subsets are the same whatever set they are taken in.    *)
LEMMA SumsAgree ==
  ASSUME NEW S, IsFiniteSet(S), NEW w, NEW T \in SUBSET S,
         NEW f, Sums(w, S, f), NEW g, Sums(w, T, g)
  PROVE  g[T] = f[T]
<1> DEFINE P == {U \in SUBSET T : g[U] = f[U]}
<1>1. IsFiniteSet(T)
  BY FS_Subset
<1>2. ASSUME NEW U \in SUBSET T, \A x \in U : U \ {x} \in P PROVE U \in P
  <2>1. f[U] = IF U = {} THEN 0 ELSE w[Chosen(U)] + f[U \ {Chosen(U)}]
    BY DEF Sums
  <2>2. g[U] = IF U = {} THEN 0 ELSE w[Chosen(U)] + g[U \ {Chosen(U)}]
    BY DEF Sums
  <2>3. U # {} => Chosen(U) \in U
    BY DEF Chosen
  <2> QED
    BY <1>2, <2>1, <2>2, <2>3
<1>3. \A U \in SUBSET T : U \in P
  <2> HIDE DEF P
  <2> QED
    BY <1>1, <1>2, InductionOnSubsets
<1> QED
  BY <1>3

(* f gives the sum of each subset of S, the one that is chosen for it.     *)
Totals(w, S, f) ==
  /\ f \in [SUBSET S -> Int]
  /\ Sums(w, S, f)
  /\ \A T \in SUBSET S : Total(w, T) = f[T]

LEMMA TotalsExist ==
  ASSUME NEW S, IsFiniteSet(S), NEW w, \A x \in S : w[x] \in Int
  PROVE  \E f : Totals(w, S, f)
<1>1. PICK f \in [SUBSET S -> Int] : Sums(w, S, f)
  BY SumsExist
<1>2. ASSUME NEW T \in SUBSET S PROVE Total(w, T) = f[T]
  <2> DEFINE g == CHOOSE h : Sums(w, T, h)
             h == [s \in SUBSET T |-> f[s]]
  <2>1. Sums(w, T, h)
    <3>1. ASSUME NEW s \in SUBSET T
          PROVE  h[s] = IF s = {} THEN 0 ELSE w[Chosen(s)] + h[s \ {Chosen(s)}]
      <4>1. f[s] = IF s = {} THEN 0 ELSE w[Chosen(s)] + f[s \ {Chosen(s)}]
        BY <1>1 DEF Sums
      <4>2. s \ {Chosen(s)} \in SUBSET T
        OBVIOUS
      <4> QED
        BY <4>1, <4>2
    <3>2. h = [s \in SUBSET T |-> h[s]]
      OBVIOUS
    <3> HIDE DEF h
    <3> QED
      BY <3>1, <3>2 DEF Sums
  <2>2. Sums(w, T, g)
    BY <2>1
  <2>3. g[T] = f[T]
    <3> HIDE DEF g
    <3> QED
      BY <1>1, <2>2, SumsAgree
  <2> QED
    BY <2>3 DEF Total
<1> QED
  BY <1>1, <1>2 DEF Totals

(* The sum of a set is that of all but one element, and that element.      *)
LEMMA TotalRemove ==
  ASSUME NEW S, IsFiniteSet(S), NEW w, \A x \in S : w[x] \in Int
  PROVE  /\ \A T \in SUBSET S : Total(w, T) \in Int
         /\ Total(w, {}) = 0
         /\ \A T \in SUBSET S : \A x \in T : Total(w, T) = w[x] + Total(w, T \ {x})
<1>0. PICK f : Totals(w, S, f)
  BY TotalsExist
<1>1. f \in [SUBSET S -> Int] /\ Sums(w, S, f) /\ \A T \in SUBSET S : Total(w, T) = f[T]
  BY <1>0 DEF Totals
<1>2. \A T \in SUBSET S : f[T] = IF T = {} THEN 0 ELSE w[Chosen(T)] + f[T \ {Chosen(T)}]
  BY <1>1 DEF Sums
<1> DEFINE P == {T \in SUBSET S : \A x \in T : f[T] = w[x] + f[T \ {x}]}
<1>3. ASSUME NEW T \in SUBSET S, \A x \in T : T \ {x} \in P PROVE T \in P
  <2>1. ASSUME NEW x \in T PROVE f[T] = w[x] + f[T \ {x}]
    <3> DEFINE c == Chosen(T)
    <3>1. c \in T /\ f[T] = w[c] + f[T \ {c}]
      BY <1>2 DEF Chosen
    <3> HIDE DEF c
    <3>2. CASE c # x
      <4>1. T \ {c} \in P /\ T \ {x} \in P /\ x \in T \ {c} /\ c \in T \ {x}
        BY <1>3, <3>1, <3>2
      <4>2. f[T \ {c}] = w[x] + f[(T \ {c}) \ {x}]
        BY <4>1
      <4>3. f[T \ {x}] = w[c] + f[(T \ {x}) \ {c}]
        BY <4>1
      <4> DEFINE r == (T \ {x}) \ {c}
      <4>4. (T \ {c}) \ {x} = r
        OBVIOUS
      <4>5. w[x] \in Int /\ w[c] \in Int /\ f[r] \in Int
        BY <1>1, <3>1
      <4>6. f[T \ {c}] = w[x] + f[r] /\ f[T \ {x}] = w[c] + f[r]
        BY <4>2, <4>3, <4>4
      <4> HIDE DEF r, P
      <4> QED
        BY <3>1, <4>5, <4>6
    <3> QED
      BY <3>1, <3>2
  <2> QED
    BY <2>1
<1>4. \A T \in SUBSET S : T \in P
  <2> HIDE DEF P
  <2> QED
    BY <1>3, InductionOnSubsets
<1> QED
  BY <1>1, <1>2, <1>4

(* With no negative weights, more elements weigh no less.                  *)
LEMMA TotalSubset ==
  ASSUME NEW S, IsFiniteSet(S), NEW w, \A x \in S : w[x] \in Nat, NEW T \in SUBSET S
  PROVE  Total(w, T) \in Nat /\ Total(w, T) <= Total(w, S)
<1> DEFINE P == {U \in SUBSET S : Total(w, U) \in Nat /\ \A V \in SUBSET U : Total(w, V) <= Total(w, U)}
<1>1. /\ \A x \in S : w[x] \in Nat
      /\ \A U \in SUBSET S : Total(w, U) \in Int
      /\ Total(w, {}) = 0
      /\ \A U \in SUBSET S : \A x \in U : Total(w, U) = w[x] + Total(w, U \ {x})
  <2>1. \A x \in S : w[x] \in Int
    OBVIOUS
  <2> QED
    BY <2>1, TotalRemove
<1>2. ASSUME NEW U \in SUBSET S, \A x \in U : U \ {x} \in P PROVE U \in P
  <2>1. ASSUME NEW x \in U PROVE /\ Total(w, U) \in Nat
                                 /\ Total(w, U \ {x}) <= Total(w, U)
                                 /\ \A V \in SUBSET (U \ {x}) : Total(w, V) <= Total(w, U)
    <3>1. Total(w, U) = w[x] + Total(w, U \ {x}) /\ w[x] \in Nat /\ U \ {x} \in P
      BY <1>1, <1>2
    <3>2. \A V \in SUBSET (U \ {x}) : Total(w, V) \in Int /\ Total(w, V) <= Total(w, U \ {x})
      BY <1>1, <3>1
    <3> QED
      BY <3>1, <3>2
  <2>2. Total(w, U) \in Nat
    <3>1. CASE U = {}
      BY <1>1, <3>1
    <3> QED
      BY <2>1, <3>1
  <2>3. ASSUME NEW V \in SUBSET U, V # U PROVE Total(w, V) <= Total(w, U)
    <3>1. PICK x \in U : x \notin V
      BY <2>3
    <3>2. V \in SUBSET (U \ {x})
      BY <3>1
    <3> QED
      BY <2>1, <3>2
  <2> QED
    BY <2>2, <2>3
<1>3. \A U \in SUBSET S : U \in P
  <2> HIDE DEF P
  <2> QED
    BY <1>2, InductionOnSubsets
<1> QED
  BY <1>3

(* Renaming the elements one to one keeps the sum.                         *)
LEMMA TotalRenamed ==
  ASSUME NEW S, IsFiniteSet(S), NEW w, \A x \in S : w[x] \in Int,
         NEW R, IsFiniteSet(R), NEW v, \A x \in R : v[x] \in Int,
         NEW f \in [S -> R], \A x \in S : w[x] = v[f[x]],
         \A x, y \in S : f[x] = f[y] => x = y
  PROVE  Total(w, S) = Total(v, {f[x] : x \in S})
<1> DEFINE Image(T) == {f[x] : x \in T}
           P == {T \in SUBSET S : Total(w, T) = Total(v, Image(T))}
<1>1. /\ Total(w, {}) = 0
      /\ \A T \in SUBSET S : \A x \in T : Total(w, T) = w[x] + Total(w, T \ {x})
  BY TotalRemove
<1>2. /\ Total(v, {}) = 0
      /\ \A T \in SUBSET R : \A x \in T : Total(v, T) = v[x] + Total(v, T \ {x})
  BY TotalRemove
<1>3. ASSUME NEW T \in SUBSET S, \A x \in T : T \ {x} \in P PROVE T \in P
  <2>1. CASE T = {}
    <3>1. Image(T) = {}
      BY <2>1
    <3> QED
      BY <1>1, <1>2, <2>1, <3>1
  <2>2. ASSUME NEW x \in T PROVE Total(w, T) = Total(v, Image(T))
    <3>1. Image(T \ {x}) = Image(T) \ {f[x]}
      OBVIOUS
    <3>2. Image(T) \in SUBSET R /\ f[x] \in Image(T)
      OBVIOUS
    <3>3. Total(w, T \ {x}) = Total(v, Image(T) \ {f[x]})
      BY <1>3, <3>1
    <3>4. w[x] = v[f[x]]
      OBVIOUS
    <3>5. Total(w, T) = w[x] + Total(w, T \ {x})
      BY <1>1
    <3> HIDE DEF Image, P
    <3>6. Total(v, Image(T)) = v[f[x]] + Total(v, Image(T) \ {f[x]})
      BY <1>2, <3>2
    <3> QED
      BY <3>3, <3>4, <3>5, <3>6
  <2> QED
    BY <2>1, <2>2
<1>4. \A T \in SUBSET S : T \in P
  <2> HIDE DEF P
  <2> QED
    BY <1>3, InductionOnSubsets
<1> QED
  BY <1>4

(* The sum of the community modules, with the weights of a function.       *)
LEMMA SumSetIsTotal ==
  ASSUME NEW w, NEW S
  PROVE  MapThenSumSet(LAMBDA x : w[x], S) = Total(w, S)
BY DEF MapThenSumSet, MapThenFoldSet, Total, Sums, Chosen

(* A set that has no more elements than the values of a function on a      *)
(* finite set is finite.                                                   *)
LEMMA FiniteImage ==
  ASSUME NEW S, IsFiniteSet(S), NEW f, NEW T, \A y \in T : \E x \in S : y = f[x]
  PROVE  IsFiniteSet(T)
<1> DEFINE g == [x \in S |-> f[x]]
           Image == {f[x] : x \in S}
<1>1. g \in Surjection(S, Image)
  BY DEF Surjection
<1>2. T \in SUBSET Image
  OBVIOUS
<1> HIDE DEF g, Image
<1>3. IsFiniteSet(Image)
  BY <1>1, FS_Surjection
<1> QED
  BY <1>2, <1>3, FS_Subset
=============================================================================
