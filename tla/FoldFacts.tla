------------------------------ MODULE FoldFacts ------------------------------
(***************************************************************************)
(* Facts about FoldLeft for one operator Op, which an instance of this      *)
(* module provides.  p, q and r stand for what the operator takes from its  *)
(* surroundings.  FoldLeft(LAMBDA c, x : Op(p, q, r, c, x), base, seq) is   *)
(* f[DOMAIN seq] for the f that IsFold describes: the definitions of        *)
(* FoldLeft and MapThenFoldSet (SequencesExt, Folds) say so.                *)
(***************************************************************************)
EXTENDS Sequences, Integers, WellFoundedInduction, TLAPS

CONSTANT Op(_, _, _, _, _)

Top(t) == CHOOSE x \in t : \A y \in t : x >= y

IsFoldUpTo(f, k, p, q, r, base, seq) ==
  f = [t \in SUBSET (1 .. k) |->
         IF t = {} THEN base ELSE Op(p, q, r, f[t \ {Top(t)}], seq[Top(t)])]
IsFold(f, p, q, r, base, seq) ==
  f = [t \in SUBSET DOMAIN seq |->
         IF t = {} THEN base ELSE Op(p, q, r, f[t \ {Top(t)}], seq[Top(t)])]

-----------------------------------------------------------------------------
Less == {pair \in Nat \X Nat : pair[1] < pair[2]}

\* A set of natural numbers that is not empty has a least element: the form of
\* induction the proofs of this module use.
LEMMA LeastElement ==
  ASSUME NEW T \in SUBSET Nat, T # {}
  PROVE  \E n \in T : \A k \in T : n <= k
<1>1. IsWellFoundedOn(Less, Nat)
  BY NatLessThanWellFounded DEF OpToRel, Less
<1>2. PICK n \in T : \A k \in T : ~(<<k, n>> \in Less)
  BY <1>1, WFMin, Zenon
<1>3. \A k \in T : n <= k
  <2>. TAKE k \in T
  <2>1. ~(k < n)
    BY <1>2 DEF Less
  <2>. QED
    BY <2>1
<1>. QED
  BY <1>3

\* Top is the greatest element of a part of 1 .. k.
LEMMA TopIsGreatest ==
  ASSUME NEW k \in Nat, NEW t \in SUBSET (1 .. k), t # {}
  PROVE  Top(t) \in t /\ \A y \in t : Top(t) >= y
<1>. DEFINE T == {k - x : x \in t}
<1>1. T \in SUBSET Nat /\ T # {}
  OBVIOUS
<1>2. PICK n \in T : \A j \in T : n <= j
  BY <1>1, LeastElement
<1>3. PICK x \in t : n = k - x
  BY <1>2
<1>4. \A y \in t : x >= y
  <2>. TAKE y \in t
  <2>1. k - y \in T
    OBVIOUS
  <2>2. n <= k - y
    BY <1>2, <2>1
  <2>. QED
    BY <1>3, <2>2
<1>. QED
  BY <1>4, Zenon DEF Top

LEMMA TopOfPrefix ==
  ASSUME NEW k \in Nat, NEW t \in SUBSET (1 .. k + 1), k + 1 \in t
  PROVE  Top(t) = k + 1
<1>1. PICK x \in t : x = Top(t) /\ \A y \in t : x >= y
  BY TopIsGreatest, k + 1 \in Nat, t # {}
<1>2. x \in 1 .. k + 1 /\ x >= k + 1
  BY <1>1
<1>. QED
  BY <1>1, <1>2

\* One more element: the fold of the first k of them extends to the next.
LEMMA FoldExtends ==
  ASSUME NEW k \in Nat, NEW p, NEW q, NEW r, NEW base, NEW seq,
         NEW f, IsFoldUpTo(f, k, p, q, r, base, seq)
  PROVE  \E g : IsFoldUpTo(g, k + 1, p, q, r, base, seq)
<1>. DEFINE g == [t \in SUBSET (1 .. k + 1) |->
                    IF k + 1 \in t THEN Op(p, q, r, f[t \ {k + 1}], seq[k + 1]) ELSE f[t]]
            Rest(t) == IF t = {} THEN base ELSE Op(p, q, r, g[t \ {Top(t)}], seq[Top(t)])
<1>1. ASSUME NEW t \in SUBSET (1 .. k + 1)
      PROVE  g[t] = Rest(t)
  <2>1. CASE k + 1 \in t
    <3>1. Top(t) = k + 1
      BY <2>1, TopOfPrefix
    <3>2. t \ {k + 1} \in SUBSET (1 .. k + 1) /\ k + 1 \notin t \ {k + 1}
      OBVIOUS
    <3>3. g[t \ {k + 1}] = f[t \ {k + 1}]
      BY <3>2
    <3>. QED
      BY <2>1, <3>1, <3>3
  <2>2. CASE k + 1 \notin t /\ t # {}
    <3>1. t \in SUBSET (1 .. k)
      <4>1. \A x \in t : x \in 1 .. k + 1 /\ x # k + 1
        BY <2>2
      <4>. QED
        BY <4>1
    <3>2. f[t] = Op(p, q, r, f[t \ {Top(t)}], seq[Top(t)])
      BY <2>2, <3>1 DEF IsFoldUpTo
    <3>3. t \ {Top(t)} \in SUBSET (1 .. k + 1) /\ k + 1 \notin t \ {Top(t)}
      BY <2>2
    <3>. QED
      BY <2>2, <3>2, <3>3
  <2>3. CASE t = {}
    <3>1. f[{}] = base
      BY DEF IsFoldUpTo
    <3>. QED
      BY <2>3, <3>1
  <2>. QED
    BY <2>1, <2>2, <2>3
<1>2. g = [t \in SUBSET (1 .. k + 1) |-> g[t]]
  OBVIOUS
<1>3. g = [t \in SUBSET (1 .. k + 1) |-> Rest(t)]
  BY <1>1, <1>2, Zenon
<1>4. IsFoldUpTo(g, k + 1, p, q, r, base, seq)
  BY <1>3, Zenon DEF IsFoldUpTo
<1>. QED
  BY <1>4, Zenon

\* There is a fold of every sequence.
LEMMA FoldExists ==
  ASSUME NEW E, NEW seq \in Seq(E), NEW p, NEW q, NEW r, NEW base
  PROVE  \E f : IsFold(f, p, q, r, base, seq)
<1>. DEFINE T == {k \in Nat : ~\E f : IsFoldUpTo(f, k, p, q, r, base, seq)}
<1>1. T = {}
  <2>1. SUFFICES ASSUME T # {} PROVE FALSE
    OBVIOUS
  <2>2. PICK n \in T : \A j \in T : n <= j
    BY <2>1, LeastElement, T \in SUBSET Nat
  <2>3. n # 0
    <3>. DEFINE f == [t \in SUBSET (1 .. 0) |-> base]
    <3>1. SUFFICES IsFoldUpTo(f, 0, p, q, r, base, seq)
      BY <2>2, Zenon
    <3>2. \A t \in SUBSET (1 .. 0) : t = {}
      OBVIOUS
    <3>. QED
      BY <3>2 DEF IsFoldUpTo
  <2>4. n - 1 \in Nat /\ n - 1 \notin T
    BY <2>2, <2>3
  <2>5. PICK f : IsFoldUpTo(f, n - 1, p, q, r, base, seq)
    BY <2>4, Zenon
  <2>6. \E g : IsFoldUpTo(g, (n - 1) + 1, p, q, r, base, seq)
    BY <2>4, <2>5, FoldExtends
  <2>7. (n - 1) + 1 = n
    BY <2>2
  <2>. QED
    BY <2>2, <2>6, <2>7, Zenon
<1>2. Len(seq) \in Nat /\ DOMAIN seq = 1 .. Len(seq)
  OBVIOUS
<1>3. PICK f : IsFoldUpTo(f, Len(seq), p, q, r, base, seq)
  BY <1>1, <1>2, Zenon
<1>4. IsFold(f, p, q, r, base, seq)
  BY <1>2, <1>3, Zenon DEF IsFoldUpTo, IsFold
<1>. QED
  BY <1>4, Zenon

\* The invariant of a fold: X[i] is where it may be after i elements.
LEMMA FoldStays ==
  ASSUME NEW E, NEW seq \in Seq(E), NEW p, NEW q, NEW r, NEW base, NEW X, NEW f,
         IsFold(f, p, q, r, base, seq),
         base \in X[0],
         \A i \in 1 .. Len(seq) : \A c \in X[i - 1] : Op(p, q, r, c, seq[i]) \in X[i]
  PROVE  f[DOMAIN seq] \in X[Len(seq)]
<1>. DEFINE n == Len(seq)
            T == {k \in 0 .. n : f[1 .. k] \notin X[k]}
<1>1. n \in Nat /\ DOMAIN seq = 1 .. n
  OBVIOUS
<1>2. T = {}
  <2>1. SUFFICES ASSUME T # {} PROVE FALSE
    OBVIOUS
  <2>2. PICK k \in T : \A j \in T : k <= j
    BY <2>1, LeastElement, <1>1, T \in SUBSET Nat
  <2>3. k # 0
    <3>1. f[1 .. 0] = base
      BY <1>1, 1 .. 0 = {} DEF IsFold
    <3>. QED
      BY <2>2, <3>1
  <2>4. k - 1 \in 0 .. n /\ k \in 1 .. n /\ k - 1 \notin T
    BY <2>2, <2>3, <1>1
  <2>5. f[1 .. k - 1] \in X[k - 1]
    BY <2>4
  <2>. DEFINE j == k - 1
  <2>6. j \in Nat /\ k = j + 1 /\ j < n
    BY <2>4, <1>1
  <2>. HIDE DEF j
  <2>7. Top(1 .. k) = k
    BY <2>6, TopOfPrefix
  <2>8. /\ (1 .. k) \ {k} = 1 .. j
        /\ 1 .. k \in SUBSET (DOMAIN seq)
        /\ 1 .. k # {}
    <3>1. \A x \in (1 .. k) \ {k} : x \in 1 .. j
      BY <2>6
    <3>2. \A x \in 1 .. j : x \in 1 .. k /\ x # k
      BY <2>6
    <3>3. \A x \in 1 .. k : x \in 1 .. n
      BY <2>6, <1>1
    <3>4. (1 .. k) \ {k} = 1 .. j
      BY <3>1, <3>2
    <3>5. k \in 1 .. k
      BY <2>6
    <3>6. 1 .. k \in SUBSET (DOMAIN seq)
      BY <3>3, <1>1
    <3>. QED
      BY <3>4, <3>5, <3>6, Zenon
  <2>9. f[1 .. k] = Op(p, q, r, f[1 .. j], seq[k])
    BY <2>7, <2>8, Zenon DEF IsFold
  <2>. QED
    BY <2>2, <2>4, <2>5, <2>9 DEF j
<1>. QED
  BY <1>1, <1>2

\* A function of 0 .. n that is defined from its value one below exists: it is the
\* fold of any sequence of n elements, at the prefixes.
LEMMA CountExists ==
  ASSUME NEW n \in Nat, NEW p, NEW q, NEW r, NEW base
  PROVE  \E h : h = [k \in 0 .. n |-> IF k = 0 THEN base ELSE Op(p, q, r, h[k - 1], k)]
<1>. DEFINE seq == [i \in 1 .. n |-> i]
<1>1. seq \in Seq(Nat) /\ DOMAIN seq = 1 .. n
  OBVIOUS
<1>2. PICK f : IsFold(f, p, q, r, base, seq)
  BY <1>1, FoldExists
<1>. DEFINE h == [k \in 0 .. n |-> f[1 .. k]]
            Next(k) == IF k = 0 THEN base ELSE Op(p, q, r, h[k - 1], k)
<1>3. ASSUME NEW k \in 0 .. n
      PROVE  h[k] = Next(k)
  <2>1. CASE k = 0
    <3>1. f[{}] = base
      BY <1>1, <1>2 DEF IsFold
    <3>2. 1 .. 0 = {}
      OBVIOUS
    <3>. QED
      BY <2>1, <3>1, <3>2
  <2>2. CASE k # 0
    <3>. DEFINE j == k - 1
    <3>1. j \in Nat /\ k = j + 1 /\ j \in 0 .. n /\ k \in 1 .. n
      BY <2>2
    <3>. HIDE DEF j
    <3>2. Top(1 .. k) = k
      BY <3>1, TopOfPrefix
    <3>3. (1 .. k) \ {k} = 1 .. j
      <4>1. \A x \in (1 .. k) \ {k} : x \in 1 .. j
        BY <3>1
      <4>2. \A x \in 1 .. j : x \in 1 .. k /\ x # k
        BY <3>1
      <4>. QED
        BY <4>1, <4>2
    <3>4. 1 .. k \in SUBSET (DOMAIN seq) /\ 1 .. k # {}
      <4>1. \A x \in 1 .. k : x \in 1 .. n
        BY <3>1
      <4>2. k \in 1 .. k
        BY <3>1
      <4>. QED
        BY <4>1, <4>2, <1>1
    <3>5. f[1 .. k] = Op(p, q, r, f[1 .. j], seq[k])
      BY <1>2, <3>2, <3>3, <3>4, Zenon DEF IsFold
    <3>6. seq[k] = k /\ h[j] = f[1 .. j] /\ h[k] = f[1 .. k]
      BY <3>1
    <3>7. h[k - 1] = h[j]
      BY DEF j
    <3>. QED
      BY <2>2, <3>5, <3>6, <3>7
  <2>. QED
    BY <2>1, <2>2
<1>4. h = [k \in 0 .. n |-> h[k]]
  OBVIOUS
<1>5. h = [k \in 0 .. n |-> Next(k)]
  BY <1>3, <1>4, Zenon
<1>. QED
  BY <1>5, Zenon
=============================================================================
