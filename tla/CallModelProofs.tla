--------------------------- MODULE CallModelProofs ---------------------------
(***************************************************************************)
(* What holds of the tree of calls for any number of calls and conferences  *)
(* and any delay of the signals: types, the history, and that a live call   *)
(* keeps its row.                                                          *)
(*                                                                          *)
(* The slots are functions from a model to a model, so there is one lemma   *)
(* for each of them.  Their loops are folds, and removeCall() comes back to *)
(* itself: FoldFacts is instantiated for both.                              *)
(***************************************************************************)
EXTENDS CallModel, FiniteSetTheorems, SequenceTheorems, TLAPS

Selecting == INSTANCE FoldFacts WITH
  Op <- LAMBDA set, unused1, unused2, kept, c : IF c \in set THEN Append(kept, c) ELSE kept
Cleaning == INSTANCE FoldFacts WITH
  Op <- LAMBDA remove, alsoBroken, unused, m, x : CleanOne(remove, alsoBroken, m, x)
Adopting == INSTANCE FoldFacts WITH
  Op <- LAMBDA k, unused1, unused2, m, c : IF c \in m.ids THEN Adopt(m, c, k) ELSE m
Filing == INSTANCE FoldFacts WITH Op <- LAMBDA unused1, unused2, unused3, m, c : Reconciled(m, c)
Loading == INSTANCE FoldFacts WITH Op <- LAMBDA unused1, unused2, unused3, m, c : addExistingCall(m, c)
Deepening == INSTANCE FoldFacts WITH
  Op <- LAMBDA unused1, unused2, unused3, remove, d : Reentering(remove)

-----------------------------------------------------------------------------
(* Lists.                                                                   *)

LEMMA AppendHas ==
  ASSUME NEW E, NEW s \in Seq(E), NEW x \in E
  PROVE  /\ Append(s, x) \in Seq(E)
         /\ \A e : Contains(Append(s, x), e) <=> Contains(s, e) \/ e = x
<1>1. /\ Append(s, x) \in Seq(E) /\ Len(s) \in Nat /\ Len(Append(s, x)) = Len(s) + 1
      /\ \A i \in 1 .. Len(s) : Append(s, x)[i] = s[i]
      /\ Append(s, x)[Len(s) + 1] = x
  BY AppendProperties, LenProperties
<1>2. ASSUME NEW e PROVE Contains(Append(s, x), e) <=> Contains(s, e) \/ e = x
  <2>1. ASSUME Contains(Append(s, x), e) PROVE Contains(s, e) \/ e = x
    <3>1. PICK i \in 1 .. Len(s) + 1 : Append(s, x)[i] = e
      BY <1>1, <2>1 DEF Contains
    <3>2. i \in 1 .. Len(s) \/ i = Len(s) + 1
      BY <1>1
    <3>. QED
      BY <1>1, <3>1, <3>2 DEF Contains
  <2>2. ASSUME Contains(s, e) PROVE Contains(Append(s, x), e)
    <3>1. PICK i \in 1 .. Len(s) : s[i] = e
      BY <2>2 DEF Contains
    <3>2. i \in 1 .. Len(s) + 1
      BY <1>1
    <3>. QED
      BY <1>1, <3>1, <3>2 DEF Contains
  <2>3. ASSUME e = x PROVE Contains(Append(s, x), e)
    <3>1. Len(s) + 1 \in 1 .. Len(s) + 1
      BY <1>1
    <3>. QED
      BY <1>1, <2>3, <3>1 DEF Contains
  <2>. QED
    BY <2>1, <2>2, <2>3
<1>. QED
  BY <1>1, <1>2

LEMMA ConcatHas ==
  ASSUME NEW E, NEW s \in Seq(E), NEW t \in Seq(E)
  PROVE  /\ s \o t \in Seq(E)
         /\ \A e : Contains(s \o t, e) <=> Contains(s, e) \/ Contains(t, e)
<1>1. /\ s \o t \in Seq(E) /\ Len(s) \in Nat /\ Len(t) \in Nat
      /\ Len(s \o t) = Len(s) + Len(t)
      /\ \A i \in 1 .. Len(s) + Len(t) : (s \o t)[i] = IF i <= Len(s) THEN s[i] ELSE t[i - Len(s)]
  BY ConcatProperties, LenProperties
<1>2. ASSUME NEW e PROVE Contains(s \o t, e) <=> Contains(s, e) \/ Contains(t, e)
  <2>1. ASSUME Contains(s \o t, e) PROVE Contains(s, e) \/ Contains(t, e)
    <3>1. PICK i \in 1 .. Len(s) + Len(t) : (s \o t)[i] = e
      BY <1>1, <2>1 DEF Contains
    <3>2. CASE i <= Len(s)
      BY <1>1, <3>1, <3>2 DEF Contains
    <3>3. CASE ~(i <= Len(s))
      <4>1. i - Len(s) \in 1 .. Len(t) /\ t[i - Len(s)] = e
        BY <1>1, <3>1, <3>3
      <4>. QED
        BY <4>1 DEF Contains
    <3>. QED
      BY <3>2, <3>3
  <2>2. ASSUME Contains(s, e) PROVE Contains(s \o t, e)
    <3>1. PICK i \in 1 .. Len(s) : s[i] = e
      BY <2>2 DEF Contains
    <3>2. i \in 1 .. Len(s) + Len(t) /\ i <= Len(s)
      BY <1>1
    <3>3. (s \o t)[i] = e
      BY <1>1, <3>1, <3>2
    <3>. QED
      BY <1>1, <3>2, <3>3 DEF Contains
  <2>3. ASSUME Contains(t, e) PROVE Contains(s \o t, e)
    <3>1. PICK i \in 1 .. Len(t) : t[i] = e
      BY <2>3 DEF Contains
    <3>. DEFINE j == Len(s) + i
    <3>2. j \in 1 .. Len(s) + Len(t) /\ ~(j <= Len(s)) /\ j - Len(s) = i
      BY <1>1
    <3>. HIDE DEF j
    <3>3. (s \o t)[j] = e
      BY <1>1, <3>1, <3>2
    <3>. QED
      BY <1>1, <3>2, <3>3 DEF Contains
  <2>. QED
    BY <2>1, <2>2, <2>3
<1>. QED
  BY <1>1, <1>2

\* removeInternal() on the list: one occurrence goes, nothing else does.
LEMMA RemoveFirstHas ==
  ASSUME NEW E, NEW s \in Seq(E), NEW x
  PROVE  /\ RemoveFirst(s, x) \in Seq(E)
         /\ \A e : Contains(RemoveFirst(s, x), e) => Contains(s, e)
         /\ \A e : e # x /\ Contains(s, e) => Contains(RemoveFirst(s, x), e)
<1>0. Len(s) \in Nat /\ \A i \in 1 .. Len(s) : s[i] \in E
  BY LenProperties, ElementOfSeq
<1>1. CASE ~\E i \in 1 .. Len(s) : s[i] = x
  BY <1>1 DEF RemoveFirst
<1>2. CASE \E i \in 1 .. Len(s) : s[i] = x
  <2>. DEFINE I == {i \in 1 .. Len(s) : s[i] = x}
              n == SelectInSeq(s, LAMBDA v : v = x)
  <2>1. PICK l \in I : \A j \in I : l <= j
    BY <1>0, <1>2, Selecting!LeastElement, I \in SUBSET Nat
  <2>2. n = Min(I)
    BY <1>2 DEF SelectInSeq
  <2>3. n \in I
    <3>1. \E y \in I : \A j \in I : y <= j
      BY <2>1
    <3>2. Min(I) = CHOOSE y \in I : \A j \in I : y <= j
      BY DEF Min
    <3>. QED
      BY <2>2, <3>1, <3>2, Zenon
  <2>. HIDE DEF n
  <2>. DEFINE a == SubSeq(s, 1, n - 1)
              b == SubSeq(s, n + 1, Len(s))
  <2>4. n \in 1 .. Len(s) /\ s[n] = x
    BY <2>3
  <2>5. /\ a \in Seq(E) /\ Len(a) = n - 1
        /\ \A i \in 1 .. n - 1 : a[i] = s[i]
    <3>1. \A i \in 1 .. n - 1 : s[i] \in E
      BY <1>0, <2>4
    <3>. QED
      BY <1>0, <2>4, <3>1, SubSeqProperties, SMT
  <2>6. /\ b \in Seq(E) /\ Len(b) = Len(s) - n
        /\ \A i \in 1 .. Len(s) - n : b[i] = s[n + i]
    <3>1. \A i \in n + 1 .. Len(s) : s[i] \in E
      BY <1>0, <2>4
    <3>. QED
      BY <1>0, <2>4, <3>1, SubSeqProperties, SMT
  <2>7. RemoveFirst(s, x) = a \o b
    BY <1>2 DEF RemoveFirst, RemoveAt, n
  <2>. HIDE DEF a, b
  <2>8. /\ a \o b \in Seq(E)
        /\ \A e : Contains(a \o b, e) <=> Contains(a, e) \/ Contains(b, e)
    BY <2>5, <2>6, ConcatHas
  <2>9. ASSUME NEW e, Contains(a, e) \/ Contains(b, e) PROVE Contains(s, e)
    <3>1. CASE Contains(a, e)
      <4>1. PICK i \in 1 .. n - 1 : a[i] = e
        BY <2>5, <3>1 DEF Contains
      <4>2. i \in 1 .. Len(s) /\ s[i] = e
        BY <1>0, <2>4, <2>5, <4>1
      <4>. QED
        BY <4>2 DEF Contains
    <3>2. CASE Contains(b, e)
      <4>1. PICK i \in 1 .. Len(s) - n : b[i] = e
        BY <2>6, <3>2 DEF Contains
      <4>2. n + i \in 1 .. Len(s) /\ s[n + i] = e
        BY <1>0, <2>4, <2>6, <4>1
      <4>. QED
        BY <4>2 DEF Contains
    <3>. QED
      BY <2>9, <3>1, <3>2
  <2>10. ASSUME NEW e, e # x, Contains(s, e) PROVE Contains(a, e) \/ Contains(b, e)
    <3>1. PICK i \in 1 .. Len(s) : s[i] = e
      BY <2>10 DEF Contains
    <3>2. i # n
      BY <2>4, <2>10, <3>1
    <3>3. CASE i < n
      <4>1. i \in 1 .. n - 1 /\ a[i] = e
        BY <1>0, <2>4, <2>5, <3>1, <3>3
      <4>. QED
        BY <2>5, <4>1 DEF Contains
    <3>4. CASE i > n
      <4>1. i - n \in 1 .. Len(s) - n /\ n + (i - n) = i
        BY <1>0, <2>4, <3>4
      <4>2. b[i - n] = e
        BY <2>6, <3>1, <4>1
      <4>. QED
        BY <2>6, <4>1, <4>2 DEF Contains
    <3>. QED
      BY <1>0, <2>4, <3>2, <3>3, <3>4
  <2>. QED
    BY <2>7, <2>8, <2>9, <2>10, Zenon
<1>. QED
  BY <1>1, <1>2

-----------------------------------------------------------------------------
(* The folds of the model.                                                  *)

\* Only(): the foreach of removeCall() and slotChangingConference() over children.
LEMMA SelectingStays ==
  ASSUME NEW E, NEW list \in Seq(E), NEW X, NEW set,
         <<>> \in X[0],
         \A i \in 1 .. Len(list) : \A n \in X[i - 1] :
           (IF list[i] \in set THEN Append(n, list[i]) ELSE n) \in X[i]
  PROVE  Only(set, list) \in X[Len(list)]
<1>. DEFINE f == CHOOSE f : f = [t \in SUBSET DOMAIN list |->
                 IF t = {} THEN <<>>
                 ELSE IF list[Max(t)] \in set
                      THEN Append(f[t \ {Max(t)}], list[Max(t)])
                      ELSE f[t \ {Max(t)}]]
<1>1. Only(set, list) = f[DOMAIN list]
  BY DEF Only, FoldLeft, MapThenFoldSet
<1>2. \E h : Selecting!IsFold(h, set, set, set, <<>>, list)
  BY Selecting!FoldExists
<1>3. \E h : h = [t \in SUBSET DOMAIN list |->
                 IF t = {} THEN <<>>
                 ELSE IF list[Max(t)] \in set
                      THEN Append(h[t \ {Max(t)}], list[Max(t)])
                      ELSE h[t \ {Max(t)}]]
  BY <1>2, Zenon DEF Selecting!IsFold, Selecting!Top, Max
<1>4. f = [t \in SUBSET DOMAIN list |->
                 IF t = {} THEN <<>>
                 ELSE IF list[Max(t)] \in set
                      THEN Append(f[t \ {Max(t)}], list[Max(t)])
                      ELSE f[t \ {Max(t)}]]
  BY <1>3, Zenon
<1>. HIDE DEF f
<1>5. Selecting!IsFold(f, set, set, set, <<>>, list)
  BY <1>4, Zenon DEF Selecting!IsFold, Selecting!Top, Max
<1>6. f[DOMAIN list] \in X[Len(list)]
  BY <1>5, Selecting!FoldStays
<1>. QED
  BY <1>1, <1>6

\* Cleanup(): the top level is searched for conferences to remove.
LEMMA CleaningStays ==
  ASSUME NEW E, NEW list \in Seq(E), NEW X, NEW remove, NEW alsoBroken, NEW m, list = m.top,
         m \in X[0],
         \A i \in 1 .. Len(list) : \A n \in X[i - 1] :
           CleanOne(remove, alsoBroken, n, list[i]) \in X[i]
  PROVE  Cleanup(remove, m, alsoBroken) \in X[Len(list)]
<1>. DEFINE f == CHOOSE f : f = [t \in SUBSET DOMAIN list |->
                 IF t = {} THEN m
                 ELSE CleanOne(remove, alsoBroken, f[t \ {Max(t)}], list[Max(t)])]
<1>1. Cleanup(remove, m, alsoBroken) = f[DOMAIN list]
  BY DEF Cleanup, FoldLeft, MapThenFoldSet
<1>2. \E h : Cleaning!IsFold(h, remove, alsoBroken, m, m, list)
  BY Cleaning!FoldExists
<1>3. \E h : h = [t \in SUBSET DOMAIN list |->
                 IF t = {} THEN m
                 ELSE CleanOne(remove, alsoBroken, h[t \ {Max(t)}], list[Max(t)])]
  BY <1>2, Zenon DEF Cleaning!IsFold, Cleaning!Top, Max
<1>4. f = [t \in SUBSET DOMAIN list |->
                 IF t = {} THEN m
                 ELSE CleanOne(remove, alsoBroken, f[t \ {Max(t)}], list[Max(t)])]
  BY <1>3, Zenon
<1>. HIDE DEF f
<1>5. Cleaning!IsFold(f, remove, alsoBroken, m, m, list)
  BY <1>4, Zenon DEF Cleaning!IsFold, Cleaning!Top, Max
<1>6. f[DOMAIN list] \in X[Len(list)]
  BY <1>5, Cleaning!FoldStays
<1>. QED
  BY <1>1, <1>6

\* AdoptAll(): participants move below their conference.
LEMMA AdoptingStays ==
  ASSUME NEW E, NEW list \in Seq(E), NEW X, NEW m, NEW k,
         m \in X[0],
         \A i \in 1 .. Len(list) : \A n \in X[i - 1] :
           (IF list[i] \in n.ids THEN Adopt(n, list[i], k) ELSE n) \in X[i]
  PROVE  AdoptAll(m, k, list) \in X[Len(list)]
<1>. DEFINE f == CHOOSE f : f = [t \in SUBSET DOMAIN list |->
                 IF t = {} THEN m
                 ELSE IF list[Max(t)] \in f[t \ {Max(t)}].ids
                      THEN Adopt(f[t \ {Max(t)}], list[Max(t)], k)
                      ELSE f[t \ {Max(t)}]]
<1>1. AdoptAll(m, k, list) = f[DOMAIN list]
  BY DEF AdoptAll, FoldLeft, MapThenFoldSet
<1>2. \E h : Adopting!IsFold(h, k, k, k, m, list)
  BY Adopting!FoldExists
<1>3. \E h : h = [t \in SUBSET DOMAIN list |->
                 IF t = {} THEN m
                 ELSE IF list[Max(t)] \in h[t \ {Max(t)}].ids
                      THEN Adopt(h[t \ {Max(t)}], list[Max(t)], k)
                      ELSE h[t \ {Max(t)}]]
  BY <1>2, Zenon DEF Adopting!IsFold, Adopting!Top, Max
<1>4. f = [t \in SUBSET DOMAIN list |->
                 IF t = {} THEN m
                 ELSE IF list[Max(t)] \in f[t \ {Max(t)}].ids
                      THEN Adopt(f[t \ {Max(t)}], list[Max(t)], k)
                      ELSE f[t \ {Max(t)}]]
  BY <1>3, Zenon
<1>. HIDE DEF f
<1>5. Adopting!IsFold(f, k, k, k, m, list)
  BY <1>4, Zenon DEF Adopting!IsFold, Adopting!Top, Max
<1>6. f[DOMAIN list] \in X[Len(list)]
  BY <1>5, Adopting!FoldStays
<1>. QED
  BY <1>1, <1>6

\* slotChangingConference(): the calls are compared with the daemon's list.
LEMMA FilingStays ==
  ASSUME NEW E, NEW list \in Seq(E), NEW X, NEW m,
         m \in X[0],
         \A i \in 1 .. Len(list) : \A n \in X[i - 1] :
           Reconciled(n, list[i]) \in X[i]
  PROVE  FoldLeft(Reconciled, m, list) \in X[Len(list)]
<1>. DEFINE f == CHOOSE f : f = [t \in SUBSET DOMAIN list |->
                 IF t = {} THEN m
                 ELSE Reconciled(f[t \ {Max(t)}], list[Max(t)])]
<1>1. FoldLeft(Reconciled, m, list) = f[DOMAIN list]
  BY DEF FoldLeft, MapThenFoldSet
<1>2. \E h : Filing!IsFold(h, m, m, m, m, list)
  BY Filing!FoldExists
<1>3. \E h : h = [t \in SUBSET DOMAIN list |->
                 IF t = {} THEN m
                 ELSE Reconciled(h[t \ {Max(t)}], list[Max(t)])]
  BY <1>2, Zenon DEF Filing!IsFold, Filing!Top, Max
<1>4. f = [t \in SUBSET DOMAIN list |->
                 IF t = {} THEN m
                 ELSE Reconciled(f[t \ {Max(t)}], list[Max(t)])]
  BY <1>3, Zenon
<1>. HIDE DEF f
<1>5. Filing!IsFold(f, m, m, m, m, list)
  BY <1>4, Zenon DEF Filing!IsFold, Filing!Top, Max
<1>6. f[DOMAIN list] \in X[Len(list)]
  BY <1>5, Filing!FoldStays
<1>. QED
  BY <1>1, <1>6

\* CallModelPrivate::init(): the daemon's calls are loaded.
LEMMA LoadingStays ==
  ASSUME NEW E, NEW list \in Seq(E), NEW X, NEW m,
         m \in X[0],
         \A i \in 1 .. Len(list) : \A n \in X[i - 1] :
           addExistingCall(n, list[i]) \in X[i]
  PROVE  FoldLeft(addExistingCall, m, list) \in X[Len(list)]
<1>. DEFINE f == CHOOSE f : f = [t \in SUBSET DOMAIN list |->
                 IF t = {} THEN m
                 ELSE addExistingCall(f[t \ {Max(t)}], list[Max(t)])]
<1>1. FoldLeft(addExistingCall, m, list) = f[DOMAIN list]
  BY DEF FoldLeft, MapThenFoldSet
<1>2. \E h : Loading!IsFold(h, m, m, m, m, list)
  BY Loading!FoldExists
<1>3. \E h : h = [t \in SUBSET DOMAIN list |->
                 IF t = {} THEN m
                 ELSE addExistingCall(h[t \ {Max(t)}], list[Max(t)])]
  BY <1>2, Zenon DEF Loading!IsFold, Loading!Top, Max
<1>4. f = [t \in SUBSET DOMAIN list |->
                 IF t = {} THEN m
                 ELSE addExistingCall(f[t \ {Max(t)}], list[Max(t)])]
  BY <1>3, Zenon
<1>. HIDE DEF f
<1>5. Loading!IsFold(f, m, m, m, m, list)
  BY <1>4, Zenon DEF Loading!IsFold, Loading!Top, Max
<1>6. f[DOMAIN list] \in X[Len(list)]
  BY <1>5, Loading!FoldStays
<1>. QED
  BY <1>1, <1>6

\* removeCall() is defined at every depth by the one below it.
LEMMA RemovalUnfolds ==
  /\ Depth \in Nat
  /\ Removal[0] = [m \in Models |-> [x \in Item |-> RowsWithout(m, x)]]
  /\ \A d \in 1 .. Depth : Removal[d] = Reentering(Removal[d - 1])
<1>1. Depth \in Nat
  BY ConstantsAssumption, FS_CardinalityType DEF Depth
<1>. DEFINE base == [m \in Models |-> [x \in Item |-> RowsWithout(m, x)]]
<1>2. Removal = CHOOSE h : h = [d \in 0 .. Depth |-> IF d = 0 THEN base ELSE Reentering(h[d - 1])]
  BY DEF Removal
<1>. HIDE DEF base
<1>3. \E h : h = [d \in 0 .. Depth |-> IF d = 0 THEN base ELSE Reentering(h[d - 1])]
  BY <1>1, Deepening!CountExists, Zenon
<1>4. Removal = [d \in 0 .. Depth |-> IF d = 0 THEN base ELSE Reentering(Removal[d - 1])]
  BY <1>2, <1>3, Zenon
<1>5. \A d \in 0 .. Depth : Removal[d] = IF d = 0 THEN base ELSE Reentering(Removal[d - 1])
  BY <1>4, Zenon
<1>6. Removal[0] = base
  BY <1>1, <1>5
<1>7. \A d \in 1 .. Depth : Removal[d] = Reentering(Removal[d - 1])
  BY <1>1, <1>5
<1>8. Removal[0] = [m \in Models |-> [x \in Item |-> RowsWithout(m, x)]]
  BY <1>6, Zenon DEF base
<1>. QED
  BY <1>1, <1>7, <1>8, Zenon

LEMMA OnlyHas ==
  ASSUME NEW E, NEW s \in Seq(E), NEW set
  PROVE  /\ Only(set, s) \in Seq(E)
         /\ \A e : Contains(Only(set, s), e) <=> Contains(s, e) /\ e \in set
<1>0. Len(s) \in Nat /\ \A i \in 1 .. Len(s) : s[i] \in E
  BY LenProperties, ElementOfSeq
<1>. DEFINE Seen(i) == {s[j] : j \in 1 .. i} \cap set
            X == [i \in 0 .. Len(s) |->
                    {kept \in Seq(E) : \A e : Contains(kept, e) <=> e \in Seen(i)}]
<1>1. <<>> \in X[0]
  <2>1. Seen(0) = {} /\ 0 \in 0 .. Len(s)
    BY <1>0
  <2>2. \A e : ~Contains(<<>>, e)
    BY DEF Contains
  <2>. QED
    BY <2>1, <2>2
<1>2. ASSUME NEW i \in 1 .. Len(s), NEW n \in X[i - 1]
      PROVE  (IF s[i] \in set THEN Append(n, s[i]) ELSE n) \in X[i]
  <2>1. i - 1 \in 0 .. Len(s) /\ i \in 0 .. Len(s)
    BY <1>0
  <2>2. n \in Seq(E) /\ \A e : Contains(n, e) <=> e \in Seen(i - 1)
    BY <2>1
  <2>3. Seen(i) = Seen(i - 1) \cup ({s[i]} \cap set)
    <3>1. \A j : j \in 1 .. i <=> j \in 1 .. i - 1 \/ j = i
      BY <1>0
    <3>. QED
      BY <3>1
  <2>4. s[i] \in E
    BY <1>0
  <2>5. Append(n, s[i]) \in Seq(E) /\ \A e : Contains(Append(n, s[i]), e) <=> Contains(n, e) \/ e = s[i]
    BY <2>2, <2>4, AppendHas
  <2>. HIDE DEF Seen
  <2>6. CASE s[i] \in set
    <3>1. \A e : Contains(Append(n, s[i]), e) <=> e \in Seen(i)
      BY <2>2, <2>3, <2>5, <2>6
    <3>. QED
      BY <2>1, <2>5, <2>6, <3>1
  <2>7. CASE s[i] \notin set
    <3>1. \A e : Contains(n, e) <=> e \in Seen(i)
      BY <2>2, <2>3, <2>7
    <3>. QED
      BY <2>1, <2>2, <2>7, <3>1
  <2>. QED
    BY <2>6, <2>7
<1>. HIDE DEF X
<1>3. Only(set, s) \in X[Len(s)]
  BY <1>1, <1>2, SelectingStays
<1>4. Only(set, s) \in Seq(E) /\ \A e : Contains(Only(set, s), e) <=> e \in Seen(Len(s))
  BY <1>0, <1>3 DEF X
<1>5. \A e : e \in Seen(Len(s)) <=> Contains(s, e) /\ e \in set
  BY DEF Contains
<1>. QED
  BY <1>4, <1>5

-----------------------------------------------------------------------------
(* Removing.                                                                *)

LEMMA ShownMeans ==
  ASSUME NEW m \in Models
  PROVE  /\ \A c \in Calls : Shown(m, c) <=>
              \/ Contains(m.top, c)
              \/ \E k \in Confs : Contains(m.top, k) /\ Contains(m.kids[k], c)
         /\ \A k \in Confs : Shown(m, k) <=> Contains(m.top, k)
<1>1. Calls \cap Confs = {}
  BY ConstantsAssumption
<1>2. m.top \in Seq(Item) /\ DOMAIN m.top = 1 .. Len(m.top)
  BY LenProperties DEF Models
<1>3. \A y : y \in ToSet(m.top) <=> Contains(m.top, y)
  BY <1>2 DEF ToSet, Contains
<1>4. \A y \in Item : \A e : Contains(m.kids[y], e) => e \in Calls
  <2>1. \A y \in Item : m.kids[y] \in Seq(Calls)
    BY DEF Models
  <2>. QED
    BY <2>1, ElementOfSeq DEF Contains
<1>5. \A y : Contains(m.top, y) => y \in Item
  BY <1>2, ElementOfSeq DEF Contains
<1>. QED
  BY <1>1, <1>3, <1>4, <1>5 DEF Shown, Conference, Item

\* What removing a row, and all that follows from it, may do.
Cut(m, x, n) ==
  /\ n.kids = m.kids /\ n.parent = m.parent /\ n.ids = m.ids
  /\ n.watched = m.watched /\ n.history = m.history
  /\ \A c \in Calls : n.state[c] = m.state[c]
  /\ \A c \in Calls : Contains(n.top, c) => Contains(m.top, c) \/ \E k \in Item : Contains(m.kids[k], c)
  /\ \A c \in Calls : c # x /\ m.state[c] \notin {"OVER", "ERROR"} /\ Shown(m, c) => Shown(n, c)

LEMMA CutTwice ==
  ASSUME NEW m, NEW x, NEW n, NEW k \in Confs, NEW o, Cut(m, x, n), Cut(n, k, o)
  PROVE  Cut(m, x, o)
<1>1. \A c \in Calls : c # k
  BY ConstantsAssumption
<1>. QED
  BY <1>1 DEF Cut

LEMMA RowsCut ==
  ASSUME NEW m \in Models, NEW x \in Item
  PROVE  RowsWithout(m, x) \in Models /\ Cut(m, x, RowsWithout(m, x))
<1>. DEFINE n == RowsWithout(m, x)
            alive == {c \in Calls : m.state[c] \notin {"OVER", "ERROR"}}
            back == Only(alive, m.kids[x])
<1>1. /\ m.top \in Seq(Item) /\ m.kids[x] \in Seq(Calls) /\ m.kids \in [Item -> Seq(Calls)]
      /\ Calls \subseteq Item
  BY DEF Models, Item
<1>2. /\ RemoveFirst(m.top, x) \in Seq(Item)
      /\ \A e : Contains(RemoveFirst(m.top, x), e) => Contains(m.top, e)
      /\ \A e : e # x /\ Contains(m.top, e) => Contains(RemoveFirst(m.top, x), e)
  BY <1>1, RemoveFirstHas
<1>3. /\ back \in Seq(Calls)
      /\ \A e : Contains(back, e) <=> Contains(m.kids[x], e) /\ e \in alive
  BY <1>1, OnlyHas
<1>4. back \in Seq(Item)
  BY <1>1, <1>3, SeqMonotonic
<1>. HIDE DEF back
<1>5. /\ RemoveFirst(m.top, x) \o back \in Seq(Item)
      /\ \A e : Contains(RemoveFirst(m.top, x) \o back, e) <=>
                  Contains(RemoveFirst(m.top, x), e) \/ Contains(back, e)
  BY <1>2, <1>4, ConcatHas
<1>6. n = [m EXCEPT !.top = RemoveFirst(m.top, x) \o back]
  <2>. DEFINE out == removeInternal(m, x)
  <2>1. /\ out = [m EXCEPT !.top = RemoveFirst(m.top, x)]
        /\ out.state = m.state /\ out.kids = m.kids /\ out.top = RemoveFirst(m.top, x)
    BY DEF removeInternal, Models
  <2>. HIDE DEF out
  <2>2. NotReallyOver(out, x) = back
    BY <2>1 DEF NotReallyOver, back
  <2>3. n = [out EXCEPT !.top = out.top \o NotReallyOver(out, x)]
    BY DEF RowsWithout, out
  <2>. QED
    BY <2>1, <2>2, <2>3 DEF Models
<1>. HIDE DEF n
<1>7. n \in Models /\ n.top = RemoveFirst(m.top, x) \o back
  BY <1>5, <1>6 DEF Models
<1>8. /\ n.kids = m.kids /\ n.parent = m.parent /\ n.ids = m.ids
      /\ n.watched = m.watched /\ n.history = m.history /\ n.state = m.state
  BY <1>6 DEF Models
<1>9. ASSUME NEW c \in Calls, c # x, c \in alive, Shown(m, c)
      PROVE  Shown(n, c)
  <2>1. CASE Contains(m.top, c)
    <3>1. Contains(n.top, c)
      BY <1>2, <1>5, <1>7, <1>9, <2>1
    <3>. QED
      BY <1>7, <3>1, ShownMeans
  <2>2. CASE \E k \in Confs : Contains(m.top, k) /\ Contains(m.kids[k], c)
    <3>1. PICK k \in Confs : Contains(m.top, k) /\ Contains(m.kids[k], c)
      BY <2>2
    <3>2. CASE k = x
      <4>1. Contains(n.top, c)
        BY <1>3, <1>5, <1>7, <1>9, <3>1, <3>2
      <4>. QED
        BY <1>7, <4>1, ShownMeans
    <3>3. CASE k # x
      <4>1. Contains(n.top, k) /\ Contains(n.kids[k], c)
        BY <1>2, <1>5, <1>7, <1>8, <3>1, <3>3
      <4>. QED
        BY <1>7, <4>1, ShownMeans
    <3>. QED
      BY <3>2, <3>3
  <2>. QED
    BY <1>9, <2>1, <2>2, ShownMeans
<1>10. \A c \in Calls : Contains(n.top, c) => Contains(m.top, c) \/ Contains(m.kids[x], c)
  BY <1>2, <1>3, <1>5, <1>7
<1>11. Cut(m, x, n)
  BY <1>8, <1>9, <1>10 DEF Cut
<1>. QED
  BY <1>7, <1>11 DEF n

\* What removes a row: it gives a model, and cuts.
Remover(remove) ==
  /\ remove \in [Models -> [Item -> Models]]
  /\ \A m \in Models, x \in Item : Cut(m, x, remove[m][x])

LEMMA RemoverGives ==
  ASSUME NEW remove, Remover(remove), NEW m \in Models, NEW x \in Item
  PROVE  remove[m][x] \in Models /\ Cut(m, x, remove[m][x])
BY DEF Remover

\* A new state of an item, and the rows it takes away.
LEMMA StateField ==
  ASSUME NEW m \in Models, NEW x \in Item, NEW s \in State \cup {"absent"}
  PROVE  LET n == [m EXCEPT !.state[x] = s]
         IN /\ n \in Models /\ n.state = [m.state EXCEPT ![x] = s]
            /\ n.kids = m.kids /\ n.parent = m.parent /\ n.ids = m.ids /\ n.top = m.top
            /\ n.watched = m.watched /\ n.history = m.history
BY DEF Models

LEMMA ToldCut ==
  ASSUME NEW remove, Remover(remove), NEW m \in Models, NEW x \in Item
  PROVE  /\ Told(remove, m, x) \in Models
         /\ Told(remove, m, x) = m
            \/ (m.state[x] \in {"ERROR", "ABORTED", "OVER"} /\ Cut(m, x, Told(remove, m, x)))
BY RemoverGives DEF Told

\* The state of a conference is no call's.
LEMMA ConferenceTurns ==
  ASSUME NEW remove, Remover(remove), NEW m \in Models, NEW k \in Confs, NEW s \in State,
         NEW x
  PROVE  /\ ChangedTo(remove, m, k, s) \in Models
         /\ \A o : Cut(o, x, m) => Cut(o, x, ChangedTo(remove, m, k, s))
<1>. DEFINE n == [m EXCEPT !.state[k] = s]
            t == Told(remove, n, k)
<1>0. k \in Item /\ \A c \in Calls : c # k
  BY ConstantsAssumption DEF Item
<1>1. /\ n \in Models /\ n.kids = m.kids /\ n.parent = m.parent /\ n.ids = m.ids /\ n.top = m.top
      /\ n.watched = m.watched /\ n.history = m.history
      /\ \A c \in Calls : n.state[c] = m.state[c]
  <2>1. /\ n \in Models /\ n.state = [m.state EXCEPT ![k] = s]
        /\ n.kids = m.kids /\ n.parent = m.parent /\ n.ids = m.ids /\ n.top = m.top
        /\ n.watched = m.watched /\ n.history = m.history
    BY <1>0, StateField
  <2>2. m.state \in [Item -> State \cup {"absent"}] /\ Calls \subseteq Item
    BY DEF Models, Item
  <2>. QED
    BY <1>0, <2>1, <2>2
<1>. HIDE DEF n
<1>2. \A o : Cut(o, x, m) => Cut(o, x, n)
  <2>1. \A c \in Calls : Shown(m, c) <=> Shown(n, c)
    BY <1>1, ShownMeans
  <2>. QED
    BY <1>1, <2>1 DEF Cut
<1>3. t \in Models /\ (t = n \/ Cut(n, k, t))
  BY <1>0, <1>1, ToldCut
<1>. HIDE DEF t
<1>4. \A o : Cut(o, x, n) => Cut(o, x, t)
  BY <1>3, CutTwice
<1>5. ChangedTo(remove, m, k, s) = IF s = m.state[k] THEN m ELSE t
  BY DEF ChangedTo, n, t
<1>. QED
  BY <1>2, <1>3, <1>4, <1>5

\* One element of the search for conferences that are over.
LEMMA CleanOneCuts ==
  ASSUME NEW remove, Remover(remove), NEW alsoBroken, NEW m \in Models, NEW y \in Item, NEW x
  PROVE  /\ CleanOne(remove, alsoBroken, m, y) \in Models
         /\ \A o : Cut(o, x, m) => Cut(o, x, CleanOne(remove, alsoBroken, m, y))
<1>1. CASE ~(y \in Confs)
  BY <1>1 DEF CleanOne, Conference
<1>2. CASE y \in Confs
  <2>. DEFINE n == remove[m][y]
  <2>1. n \in Models /\ Cut(m, y, n)
    BY RemoverGives
  <2>. HIDE DEF n
  <2>2. \A o : Cut(o, x, m) => Cut(o, x, n)
    BY <1>2, <2>1, CutTwice
  <2>3. /\ ChangedTo(remove, n, y, "OVER") \in Models
        /\ \A o : Cut(o, x, n) => Cut(o, x, ChangedTo(remove, n, y, "OVER"))
    BY <1>2, <2>1, ConferenceTurns, "OVER" \in State DEF State
  <2>4. \/ CleanOne(remove, alsoBroken, m, y) = m
        \/ CleanOne(remove, alsoBroken, m, y) = ChangedTo(remove, n, y, "OVER")
    BY DEF CleanOne, n
  <2>. QED
    BY <2>2, <2>3, <2>4
<1>. QED
  BY <1>1, <1>2

LEMMA CleanupCuts ==
  ASSUME NEW remove, Remover(remove), NEW alsoBroken, NEW m \in Models, NEW x, NEW o, Cut(o, x, m)
  PROVE  /\ Cleanup(remove, m, alsoBroken) \in Models
         /\ Cut(o, x, Cleanup(remove, m, alsoBroken))
<1>. DEFINE list == m.top
            X == [i \in 0 .. Len(list) |-> {n \in Models : Cut(o, x, n)}]
<1>1. list \in Seq(Item) /\ Len(list) \in Nat /\ \A i \in 1 .. Len(list) : list[i] \in Item
  <2>1. list \in Seq(Item)
    BY DEF Models
  <2>. QED
    BY <2>1, LenProperties, ElementOfSeq
<1>2. m \in X[0]
  BY <1>1
<1>3. ASSUME NEW i \in 1 .. Len(list), NEW n \in X[i - 1]
      PROVE  CleanOne(remove, alsoBroken, n, list[i]) \in X[i]
  <2>1. i - 1 \in 0 .. Len(list) /\ i \in 0 .. Len(list)
    BY <1>1
  <2>2. n \in Models /\ Cut(o, x, n)
    BY <2>1
  <2>. QED
    BY <1>1, <2>1, <2>2, CleanOneCuts
<1>. HIDE DEF X
<1>4. Cleanup(remove, m, alsoBroken) \in X[Len(list)]
  BY <1>1, <1>2, <1>3, CleaningStays
<1>5. X[Len(list)] = {n \in Models : Cut(o, x, n)}
  BY <1>1 DEF X
<1>6. Cleanup(remove, m, alsoBroken) \in {n \in Models : Cut(o, x, n)}
  BY <1>4, <1>5
<1>. QED
  BY <1>6

\* So removeCall() cuts, however often it comes back to itself.
LEMMA RemovalRemoves == Remover(Removal[Depth])
<1>. DEFINE T == {d \in 0 .. Depth : ~Remover(Removal[d])}
<1>1. T = {}
  <2>1. SUFFICES ASSUME T # {} PROVE FALSE
    OBVIOUS
  <2>2. PICK d \in T : \A e \in T : d <= e
    BY <2>1, Selecting!LeastElement, RemovalUnfolds, T \in SUBSET Nat
  <2>3. CASE d = 0
    <3>. DEFINE base == [m \in Models |-> [x \in Item |-> RowsWithout(m, x)]]
    <3>1. base \in [Models -> [Item -> Models]] /\ \A m \in Models, x \in Item : base[m][x] = RowsWithout(m, x)
      BY RowsCut
    <3>2. Removal[0] = base
      BY RemovalUnfolds, Zenon
    <3>. HIDE DEF base
    <3>3. Remover(base)
      BY <3>1, RowsCut DEF Remover
    <3>. QED
      BY <2>2, <2>3, <3>2, <3>3
  <2>4. CASE d # 0
    <3>1. d - 1 \in 0 .. Depth /\ d \in 1 .. Depth /\ d - 1 \notin T
      BY <2>2, <2>4, RemovalUnfolds
    <3>. DEFINE below == Removal[d - 1]
    <3>2. Remover(below)
      BY <3>1
    <3>3. Removal[d] = Reentering(below)
      BY <3>1, RemovalUnfolds
    <3>. HIDE DEF below
    <3>4. ASSUME NEW m \in Models, NEW x \in Item
          PROVE  /\ Cleanup(below, RowsWithout(m, x), TRUE) \in Models
                 /\ Cut(m, x, Cleanup(below, RowsWithout(m, x), TRUE))
      BY <3>2, RowsCut, CleanupCuts
    <3>5. /\ Reentering(below) \in [Models -> [Item -> Models]]
          /\ \A m \in Models, x \in Item :
               Reentering(below)[m][x] = Cleanup(below, RowsWithout(m, x), TRUE)
      BY <3>4 DEF Reentering
    <3>6. Remover(Reentering(below))
      BY <3>4, <3>5 DEF Remover
    <3>. QED
      BY <2>2, <3>3, <3>6
  <2>. QED
    BY <2>3, <2>4
<1>. QED
  BY <1>1, RemovalUnfolds

-----------------------------------------------------------------------------
(* Sound models, and what the slots make of them.                           *)

\* Children and registered calls are known, so is what has a row; the history has
\* registered calls that are over; and no call is busy.
Sound(m) ==
  /\ m \in Models
  /\ \A k \in Item, c \in Calls : Contains(m.kids[k], c) => c \in m.ids
  /\ \A c \in Calls : Contains(m.top, c) \/ c \in m.ids => m.state[c] # "absent"
  /\ \A c \in m.history : c \in m.ids /\ Finished(m, c)
  /\ \A c \in Calls : m.state[c] # "BUSY"

\* The rows change, the calls do not.
Rearranged(m, n) ==
  /\ n.history = m.history
  /\ \A c \in Calls : n.state[c] = m.state[c] /\ (c \in n.ids <=> c \in m.ids)

\* No live call loses its row.
KeepsRows(m, n) == \A c \in Calls : Live(m, c) /\ Shown(m, c) => Shown(n, c)

LEMMA RearrangedSound ==
  ASSUME NEW m, Sound(m), NEW n \in Models, Rearranged(m, n),
         \A k \in Item, c \in Calls : Contains(n.kids[k], c) => c \in n.ids,
         \A c \in Calls : Contains(n.top, c) =>
            Contains(m.top, c) \/ c \in m.ids
  PROVE  Sound(n)
<1>1. \A c \in n.history : c \in Calls
  BY DEF Models
<1>. QED
  BY <1>1 DEF Sound, Rearranged, Finished

LEMMA CutSound ==
  ASSUME NEW m, Sound(m), NEW x, NEW n \in Models, Cut(m, x, n)
  PROVE  Sound(n) /\ Rearranged(m, n)
<1>1. Rearranged(m, n)
  BY DEF Cut, Rearranged
<1>2. \A k \in Item, c \in Calls : Contains(n.kids[k], c) => c \in n.ids
  BY DEF Cut, Sound
<1>3. \A c \in Calls : Contains(n.top, c) => Contains(m.top, c) \/ c \in m.ids
  BY DEF Cut, Sound
<1>. QED
  BY <1>1, <1>2, <1>3, RearrangedSound

LEMMA CutKeepsRows ==
  ASSUME NEW m, NEW n, NEW x, Cut(m, x, n), x \in Confs \/ ~Live(m, x)
  PROVE  KeepsRows(m, n)
<1>1. \A c \in Calls : c \notin Confs
  BY ConstantsAssumption
<1>2. \A c \in Calls : Live(m, c) => c # x /\ m.state[c] \notin {"OVER", "ERROR"}
  BY <1>1 DEF Live, Finished, LifeCycle, Talking, Transferring, Conferencing
<1>. QED
  BY <1>2 DEF Cut, KeepsRows

LEMMA AdoptHas ==
  ASSUME NEW m \in Models, NEW c \in Calls, NEW k \in Confs
  PROVE  LET n == Adopt(m, c, k)
         IN /\ n \in Models
            /\ n.state = m.state /\ n.ids = m.ids /\ n.watched = m.watched /\ n.history = m.history
            /\ n.parent = [m.parent EXCEPT ![c] = k]
            /\ \A e : Contains(n.top, e) => Contains(m.top, e)
            /\ \A e : e # c /\ Contains(m.top, e) => Contains(n.top, e)
            /\ \A l \in Item : \A e : Contains(n.kids[l], e) => Contains(m.kids[l], e) \/ e = c
            /\ \A l \in Item : \A e : e # c /\ Contains(m.kids[l], e) => Contains(n.kids[l], e)
            /\ Contains(n.kids[k], c)
<1>. DEFINE n == Adopt(m, c, k)
            old == m.parent[c]
            left == IF old \in {None, k} THEN m ELSE [m EXCEPT !.kids[old] = Only(Calls \ {c}, @)]
            out == removeInternal(left, c)
<1>1. k \in Item /\ c \in Item /\ None \notin Item /\ old \in Confs \cup {None} /\ Confs \subseteq Item
  BY ConstantsAssumption DEF Models, Item
<1>2. /\ left \in Models
      /\ left.state = m.state /\ left.ids = m.ids /\ left.watched = m.watched
      /\ left.history = m.history /\ left.parent = m.parent /\ left.top = m.top
      /\ \A l \in Item : \A e : Contains(left.kids[l], e) => Contains(m.kids[l], e)
      /\ \A l \in Item : \A e : e # c /\ Contains(m.kids[l], e) => Contains(left.kids[l], e)
  <2>1. CASE old \in {None, k}
    BY <2>1
  <2>2. CASE old \notin {None, k}
    <3>. DEFINE rest == Only(Calls \ {c}, m.kids[old])
    <3>1. old \in Item /\ m.kids \in [Item -> Seq(Calls)]
      BY <1>1, <2>2 DEF Models
    <3>2. /\ rest \in Seq(Calls)
          /\ \A e : Contains(rest, e) <=> Contains(m.kids[old], e) /\ e \in Calls \ {c}
      BY <3>1, OnlyHas
    <3>3. \A e : Contains(m.kids[old], e) => e \in Calls
      BY <3>1, ElementOfSeq DEF Contains
    <3>. HIDE DEF rest
    <3>4. left = [m EXCEPT !.kids = [m.kids EXCEPT ![old] = rest]]
      BY <2>2 DEF rest, Models
    <3>5. [m.kids EXCEPT ![old] = rest] \in [Item -> Seq(Calls)]
      BY <3>1, <3>2
    <3>6. /\ left \in Models
          /\ left.state = m.state /\ left.ids = m.ids /\ left.watched = m.watched
          /\ left.history = m.history /\ left.parent = m.parent /\ left.top = m.top
          /\ left.kids = [m.kids EXCEPT ![old] = rest]
      BY <3>4, <3>5 DEF Models
    <3>. QED
      BY <3>1, <3>2, <3>3, <3>6
  <2>. QED
    BY <2>1, <2>2
<1>. HIDE DEF left
<1>3. left.top \in Seq(Item) /\ left.kids \in [Item -> Seq(Calls)] /\ left.parent \in [Item -> Confs \cup {None}]
  BY <1>2 DEF Models
<1>4. /\ RemoveFirst(left.top, c) \in Seq(Item)
      /\ \A e : Contains(RemoveFirst(left.top, c), e) => Contains(left.top, e)
      /\ \A e : e # c /\ Contains(left.top, e) => Contains(RemoveFirst(left.top, c), e)
  BY <1>3, RemoveFirstHas
<1>5. /\ out \in Models
      /\ out.state = left.state /\ out.ids = left.ids /\ out.watched = left.watched
      /\ out.history = left.history /\ out.parent = left.parent /\ out.kids = left.kids
      /\ out.top = RemoveFirst(left.top, c)
  BY <1>2, <1>4 DEF removeInternal, Models
<1>. HIDE DEF out
<1>. DEFINE more == IF Contains(out.kids[k], c) THEN out.kids[k] ELSE Append(out.kids[k], c)
<1>6. /\ more \in Seq(Calls) /\ Contains(more, c)
      /\ \A e : Contains(more, e) <=> Contains(left.kids[k], e) \/ e = c
  <2>1. /\ Append(out.kids[k], c) \in Seq(Calls)
        /\ \A e : Contains(Append(out.kids[k], c), e) <=> Contains(out.kids[k], e) \/ e = c
    BY <1>1, <1>3, <1>5, AppendHas
  <2>. QED
    BY <1>1, <1>3, <1>5, <2>1
<1>. HIDE DEF more
<1>7. n = [out EXCEPT !.parent[c] = k, !.kids[k] = more]
  BY DEF Adopt, left, out, more
<1>8. /\ n \in Models
      /\ n.state = out.state /\ n.ids = out.ids /\ n.watched = out.watched
      /\ n.history = out.history /\ n.top = out.top
      /\ n.parent = [out.parent EXCEPT ![c] = k] /\ n.kids = [out.kids EXCEPT ![k] = more]
  <2>1. /\ [out.parent EXCEPT ![c] = k] \in [Item -> Confs \cup {None}]
        /\ [out.kids EXCEPT ![k] = more] \in [Item -> Seq(Calls)]
    BY <1>1, <1>3, <1>5, <1>6
  <2>2. n = [out EXCEPT !.parent = [out.parent EXCEPT ![c] = k], !.kids = [out.kids EXCEPT ![k] = more]]
    BY <1>5, <1>7 DEF Models
  <2>. HIDE DEF n
  <2>. QED
    BY <1>5, <2>1, <2>2 DEF Models
<1>. HIDE DEF n
<1>9. \A l \in Item : n.kids[l] = IF l = k THEN more ELSE left.kids[l]
  BY <1>1, <1>3, <1>5, <1>8
<1>10. \A l \in Item : \A e : Contains(n.kids[l], e) => Contains(m.kids[l], e) \/ e = c
  BY <1>2, <1>6, <1>9
<1>11. \A l \in Item : \A e : e # c /\ Contains(m.kids[l], e) => Contains(n.kids[l], e)
  BY <1>2, <1>6, <1>9
<1>12. Contains(n.kids[k], c)
  BY <1>1, <1>6, <1>9
<1>. QED
  BY <1>2, <1>4, <1>5, <1>8, <1>10, <1>11, <1>12 DEF n

\* Participants, of which done are seated already, move below k.
Seated(m, k, done, n) ==
  /\ n.state = m.state /\ n.ids = m.ids /\ n.watched = m.watched /\ n.history = m.history
  /\ \A e : Contains(n.top, e) => Contains(m.top, e)
  /\ \A l \in Confs : Contains(m.top, l) => Contains(n.top, l)
  /\ \A l \in Item : \A e : Contains(n.kids[l], e) => Contains(m.kids[l], e) \/ e \in m.ids
  /\ \A e \in Calls : Shown(m, e) => Shown(n, e)
  /\ \A e \in done : e \in m.ids => Contains(n.kids[k], e) /\ n.parent[e] = k

LEMMA AdoptSeats ==
  ASSUME NEW m \in Models, NEW k \in Confs, Contains(m.top, k), NEW done \in SUBSET Calls,
         NEW n \in Models, Seated(m, k, done, n), NEW c \in Calls
  PROVE  LET o == IF c \in n.ids THEN Adopt(n, c, k) ELSE n
         IN o \in Models /\ Seated(m, k, done \cup {c}, o)
<1>1. CASE c \notin n.ids
  BY <1>1 DEF Seated
<1>2. CASE c \in n.ids
  <2>. DEFINE o == Adopt(n, c, k)
  <2>1. /\ o \in Models
        /\ o.state = n.state /\ o.ids = n.ids /\ o.watched = n.watched /\ o.history = n.history
        /\ o.parent = [n.parent EXCEPT ![c] = k]
        /\ \A e : Contains(o.top, e) => Contains(n.top, e)
        /\ \A e : e # c /\ Contains(n.top, e) => Contains(o.top, e)
        /\ \A l \in Item : \A e : Contains(o.kids[l], e) => Contains(n.kids[l], e) \/ e = c
        /\ \A l \in Item : \A e : e # c /\ Contains(n.kids[l], e) => Contains(o.kids[l], e)
        /\ Contains(o.kids[k], c)
    BY AdoptHas
  <2>. HIDE DEF o
  <2>2. k \in Item /\ Confs \subseteq Item /\ Calls \subseteq Item /\ \A l \in Confs : l # c
    BY ConstantsAssumption DEF Item
  <2>3. \A l \in Confs : Contains(m.top, l) => Contains(o.top, l)
    BY <2>1, <2>2 DEF Seated
  <2>4. \A e \in Calls : Shown(n, e) => Shown(o, e)
    <3>1. ASSUME NEW e \in Calls, Shown(n, e), e # c PROVE Shown(o, e)
      <4>1. CASE Contains(n.top, e)
        BY <2>1, <3>1, <4>1, ShownMeans
      <4>2. CASE \E l \in Confs : Contains(n.top, l) /\ Contains(n.kids[l], e)
        <5>1. PICK l \in Confs : Contains(n.top, l) /\ Contains(n.kids[l], e)
          BY <4>2
        <5>2. Contains(o.top, l) /\ Contains(o.kids[l], e)
          BY <2>1, <2>2, <3>1, <5>1
        <5>. QED
          BY <2>1, <5>2, ShownMeans
      <4>. QED
        BY <3>1, <4>1, <4>2, ShownMeans
    <3>2. Shown(o, c)
      BY <2>1, <2>3, ShownMeans
    <3>. QED
      BY <3>1, <3>2
  <2>5. \A e \in done \cup {c} : e \in m.ids => Contains(o.kids[k], e) /\ o.parent[e] = k
    <3>1. n.parent \in [Item -> Confs \cup {None}]
      BY DEF Models
    <3>. QED
      BY <2>1, <2>2, <3>1 DEF Seated
  <2>6. \A l \in Item : \A e : Contains(o.kids[l], e) => Contains(m.kids[l], e) \/ e \in m.ids
    BY <1>2, <2>1 DEF Seated
  <2>7. \A e : Contains(o.top, e) => Contains(m.top, e)
    BY <2>1 DEF Seated
  <2>8. o.state = m.state /\ o.ids = m.ids /\ o.watched = m.watched /\ o.history = m.history
    BY <2>1 DEF Seated
  <2>9. \A e \in Calls : Shown(m, e) => Shown(o, e)
    BY <2>4 DEF Seated
  <2>10. Seated(m, k, done \cup {c}, o)
    BY <2>3, <2>5, <2>6, <2>7, <2>8, <2>9 DEF Seated
  <2>. QED
    BY <1>2, <2>1, <2>10 DEF o
<1>. QED
  BY <1>1, <1>2

LEMMA AdoptAllSeats ==
  ASSUME NEW m \in Models, NEW k \in Confs, Contains(m.top, k), NEW list \in Seq(Calls)
  PROVE  /\ AdoptAll(m, k, list) \in Models
         /\ Seated(m, k, {e \in Calls : Contains(list, e)}, AdoptAll(m, k, list))
<1>. DEFINE Done(i) == {list[j] : j \in 1 .. i}
            X == [i \in 0 .. Len(list) |-> {n \in Models : Seated(m, k, Done(i), n)}]
<1>1. Len(list) \in Nat /\ \A i \in 1 .. Len(list) : list[i] \in Calls
  BY LenProperties, ElementOfSeq
<1>2. m \in X[0]
  <2>1. 0 \in 0 .. Len(list) /\ Done(0) = {}
    BY <1>1
  <2>2. Seated(m, k, {}, m)
    BY DEF Seated
  <2>. QED
    BY <2>1, <2>2
<1>3. ASSUME NEW i \in 1 .. Len(list), NEW n \in X[i - 1]
      PROVE  (IF list[i] \in n.ids THEN Adopt(n, list[i], k) ELSE n) \in X[i]
  <2>1. i - 1 \in 0 .. Len(list) /\ i \in 0 .. Len(list) /\ list[i] \in Calls
    BY <1>1
  <2>2. n \in Models /\ Seated(m, k, Done(i - 1), n)
    BY <2>1
  <2>3. Done(i) = Done(i - 1) \cup {list[i]}
    <3>1. \A j : j \in 1 .. i <=> j \in 1 .. i - 1 \/ j = i
      BY <1>1
    <3>. QED
      BY <3>1
  <2>4. Done(i - 1) \in SUBSET Calls
    BY <1>1, <2>1
  <2>. HIDE DEF Done
  <2>. DEFINE o == IF list[i] \in n.ids THEN Adopt(n, list[i], k) ELSE n
  <2>5. o \in Models /\ Seated(m, k, Done(i - 1) \cup {list[i]}, o)
    BY <2>1, <2>2, <2>4, AdoptSeats
  <2>. HIDE DEF o
  <2>6. o \in X[i]
    BY <2>1, <2>3, <2>5
  <2>. QED
    BY <2>6 DEF o
<1>. HIDE DEF X
<1>4. AdoptAll(m, k, list) \in X[Len(list)]
  BY <1>2, <1>3, AdoptingStays
<1>5. Done(Len(list)) = {e \in Calls : Contains(list, e)}
  BY <1>1 DEF Contains
<1>. HIDE DEF Done
<1>6. X[Len(list)] = {n \in Models : Seated(m, k, Done(Len(list)), n)}
  BY <1>1 DEF X
<1>. QED
  BY <1>4, <1>5, <1>6


\* Every live call has a row.
AllShown(m) == \A c \in Calls : Live(m, c) => Shown(m, c)

\* What a slot may do to the calls, when it adds those in new.
Continues(m, n, new) ==
  /\ Sound(n)
  /\ m.history \subseteq n.history
  /\ \A c \in Calls : c \in n.ids <=> c \in m.ids \/ c \in new
  /\ \A c \in Calls : n.state[c] # "absent" <=> m.state[c] # "absent" \/ c \in new
Allowed(m, n, new) == Continues(m, n, new) /\ (AllShown(m) => AllShown(n))

LEMMA AllowedSame == ASSUME NEW m, Sound(m) PROVE Allowed(m, m, {})
BY DEF Allowed, Continues

LEMMA AllowedTwice ==
  ASSUME NEW m, NEW n, NEW o, NEW a, NEW b, Allowed(m, n, a), Allowed(n, o, b)
  PROVE  Allowed(m, o, a \cup b)
BY DEF Allowed, Continues

LEMMA AllowedThen ==
  ASSUME NEW m, NEW n, NEW o, Allowed(m, n, {}), Allowed(n, o, {})
  PROVE  Allowed(m, o, {})
BY DEF Allowed, Continues

LEMMA RearrangedAllowed ==
  ASSUME NEW m, NEW n, Sound(n), Rearranged(m, n), KeepsRows(m, n)
  PROVE  Allowed(m, n, {})
<1>1. \A c \in Calls : Live(n, c) <=> Live(m, c)
  BY DEF Rearranged, Live, Finished
<1>. QED
  BY <1>1 DEF Rearranged, KeepsRows, Allowed, Continues, AllShown

LEMMA CutAllowed ==
  ASSUME NEW m, Sound(m), NEW x, NEW n \in Models, Cut(m, x, n), x \in Confs \/ ~Live(m, x)
  PROVE  Allowed(m, n, {})
BY CutSound, CutKeepsRows, RearrangedAllowed

LEMMA SeatedAllowed ==
  ASSUME NEW m, Sound(m), NEW k, NEW done, NEW n \in Models, Seated(m, k, done, n)
  PROVE  Allowed(m, n, {})
<1>1. Rearranged(m, n) /\ KeepsRows(m, n)
  BY DEF Seated, Rearranged, KeepsRows
<1>2. \A l \in Item, c \in Calls : Contains(n.kids[l], c) => c \in n.ids
  BY DEF Seated, Sound
<1>3. \A c \in Calls : Contains(n.top, c) => Contains(m.top, c) \/ c \in m.ids
  BY DEF Seated
<1>4. Sound(n)
  BY <1>1, <1>2, <1>3, RearrangedSound
<1>. QED
  BY <1>1, <1>4, RearrangedAllowed

\* A row is a call's that is there.
LEMMA ShownIsThere ==
  ASSUME NEW m, Sound(m), NEW c \in Calls, Shown(m, c)
  PROVE  m.state[c] # "absent"
<1>1. m \in Models /\ Confs \subseteq Item
  BY DEF Sound, Item
<1>. QED
  BY <1>1, ShownMeans DEF Sound

-----------------------------------------------------------------------------
(* Changes of state.                                                        *)

Stays(old, s) == LifeCycle(old) = "FINISHED" => LifeCycle(s) = "FINISHED"

LEMMA StateAllowed ==
  ASSUME NEW m, Sound(m), NEW x \in Item, NEW s \in State,
         x \in Calls => s # "BUSY" /\ m.state[x] # "absent" /\ Stays(m.state[x], s)
  PROVE  Allowed(m, [m EXCEPT !.state[x] = s], {})
<1>. DEFINE n == [m EXCEPT !.state[x] = s]
<1>1. m \in Models /\ m.state \in [Item -> State \cup {"absent"}] /\ Calls \subseteq Item
  BY DEF Sound, Models, Item
<1>2. /\ n \in Models /\ n.state = [m.state EXCEPT ![x] = s]
      /\ n.kids = m.kids /\ n.parent = m.parent /\ n.ids = m.ids /\ n.top = m.top
      /\ n.watched = m.watched /\ n.history = m.history
  BY <1>1, StateField
<1>. HIDE DEF n
<1>3. \A c \in Calls : n.state[c] = IF c = x THEN s ELSE m.state[c]
  BY <1>1, <1>2
<1>4. "absent" \notin State
  BY DEF State
<1>5. \A c \in m.history : c \in Calls
  BY <1>1 DEF Models
<1>6. Sound(n)
  <2>1. \A c \in n.history : c \in n.ids /\ Finished(n, c)
    BY <1>2, <1>3, <1>5 DEF Sound, Finished, Stays
  <2>2. \A c \in Calls : Contains(n.top, c) \/ c \in n.ids => n.state[c] # "absent"
    BY <1>2, <1>3, <1>4 DEF Sound
  <2>3. \A k \in Item, c \in Calls : Contains(n.kids[k], c) => c \in n.ids
    BY <1>2 DEF Sound
  <2>4. \A c \in Calls : n.state[c] # "BUSY"
    BY <1>2, <1>3 DEF Sound
  <2>. QED
    BY <1>2, <2>1, <2>2, <2>3, <2>4 DEF Sound
<1>7. AllShown(m) => AllShown(n)
  <2>1. \A c \in Calls : Shown(n, c) <=> Shown(m, c)
    BY <1>1, <1>2, ShownMeans
  <2>2. \A c \in Calls : Live(n, c) => Live(m, c)
    BY <1>3 DEF Live, Finished, Stays
  <2>. QED
    BY <2>1, <2>2 DEF AllShown
<1>8. \A c \in Calls : n.state[c] # "absent" <=> m.state[c] # "absent"
  BY <1>3, <1>4
<1>9. Allowed(m, n, {})
  BY <1>2, <1>6, <1>7, <1>8 DEF Allowed, Continues
<1>. QED
  BY <1>9 DEF n

\* Every state that takes a row away is one of the finished ones.
LEMMA RemovedIsFinished ==
  \A s \in {"ERROR", "ABORTED", "OVER", "FAILURE"} :
    s \in State /\ s # "BUSY" /\ s # "absent" /\ LifeCycle(s) = "FINISHED"
BY DEF State, LifeCycle, Talking, Transferring, Conferencing

\* slotCallChanged(), called by changed().
LEMMA ToldAllowed ==
  ASSUME NEW m, Sound(m), NEW x \in Item
  PROVE  /\ Allowed(m, slotCallChanged(m, x), {})
         /\ \A c \in Calls : slotCallChanged(m, x).state[c] = m.state[c]
<1>. DEFINE n == Told(Removal[Depth], m, x)
<1>1. m \in Models
  BY DEF Sound
<1>2. /\ n \in Models
      /\ n = m \/ (m.state[x] \in {"ERROR", "ABORTED", "OVER"} /\ Cut(m, x, n))
  BY <1>1, RemovalRemoves, ToldCut
<1>3. slotCallChanged(m, x) = n
  BY DEF slotCallChanged
<1>. HIDE DEF n
<1>4. CASE n = m
  BY <1>3, <1>4, AllowedSame
<1>5. CASE m.state[x] \in {"ERROR", "ABORTED", "OVER"} /\ Cut(m, x, n)
  <2>1. ~Live(m, x)
    BY <1>5, RemovedIsFinished DEF Live, Finished
  <2>2. Allowed(m, n, {})
    BY <1>2, <1>5, <2>1, CutAllowed
  <2>. QED
    BY <1>3, <1>5, <2>2 DEF Cut
<1>. QED
  BY <1>2, <1>4, <1>5

LEMMA ChangeAllowed ==
  ASSUME NEW m, Sound(m), NEW x \in Item, NEW s \in State,
         x \in Calls => s # "BUSY" /\ m.state[x] # "absent" /\ Stays(m.state[x], s)
  PROVE  /\ Allowed(m, changeCurrentState(m, x, s), {})
         /\ x \in Calls => changeCurrentState(m, x, s).state[x] = s
<1>. DEFINE n == [m EXCEPT !.state[x] = s]
            t == slotCallChanged(n, x)
<1>1. m.state \in [Item -> State \cup {"absent"}] /\ m \in Models
  BY DEF Sound, Models
<1>2. Allowed(m, n, {}) /\ n.state[x] = s
  BY <1>1, StateAllowed, StateField
<1>. HIDE DEF n
<1>3. Allowed(n, t, {}) /\ \A c \in Calls : t.state[c] = n.state[c]
  <2>1. Sound(n)
    BY <1>2 DEF Allowed, Continues
  <2>. QED
    BY <2>1, ToldAllowed
<1>4. changeCurrentState(m, x, s) = IF s = m.state[x] THEN m ELSE t
  BY DEF changeCurrentState, ChangedTo, slotCallChanged, n, t
<1>. HIDE DEF t
<1>5. Allowed(m, t, {})
  BY <1>2, <1>3, AllowedThen
<1>. QED
  BY <1>2, <1>3, <1>4, <1>5, AllowedSame

LEMMA RemoveAllowed ==
  ASSUME NEW m, Sound(m), NEW x \in Item, x \in Confs \/ ~Live(m, x)
  PROVE  /\ Allowed(m, removeCall(m, x), {})
         /\ \A c \in Calls : removeCall(m, x).state[c] = m.state[c]
<1>. DEFINE n == Removal[Depth][m][x]
<1>1. m \in Models
  BY DEF Sound
<1>2. n \in Models /\ Cut(m, x, n)
  BY <1>1, RemovalRemoves, RemoverGives
<1>3. removeCall(m, x) = n
  BY DEF removeCall
<1>. HIDE DEF n
<1>. QED
  BY <1>2, <1>3, CutAllowed DEF Cut

-----------------------------------------------------------------------------
(* slotChangingConference().                                                *)

\* Every conference in which the daemon has a registered call has a row.
Filed(m) ==
  \A c \in Calls, k \in Confs :
    c \in m.ids /\ k \in m.ids /\ k \in ConferencesOf(c) => Contains(m.top, k)

\* What comparing a call with the daemon's conferences may do.
Refiled(m, n) ==
  /\ Sound(n) /\ Rearranged(m, n) /\ n.ids = m.ids
  /\ \A l \in Confs : Contains(n.top, l) <=> Contains(m.top, l)
  /\ Filed(m) => KeepsRows(m, n)

LEMMA RefiledTwice ==
  ASSUME NEW m, NEW n, NEW o, Refiled(m, n), Refiled(n, o)
  PROVE  Refiled(m, o)
<1>1. Filed(m) => Filed(n)
  BY DEF Refiled, Filed
<1>2. Rearranged(m, o)
  BY DEF Refiled, Rearranged
<1>3. KeepsRows(m, n) /\ KeepsRows(n, o) => KeepsRows(m, o)
  BY DEF Refiled, Rearranged, KeepsRows, Live, Finished
<1>. QED
  BY <1>1, <1>2, <1>3 DEF Refiled

LEMMA ReconciledRefiles ==
  ASSUME NEW m, Sound(m), NEW c \in Calls
  PROVE  Refiled(m, Reconciled(m, c))
<1>. DEFINE actual == ConferencesOf(c)
            known == actual \cap m.ids
            k == CHOOSE k \in known : TRUE
            n == Reconciled(m, c)
<1>0. /\ m \in Models /\ c \in Item /\ c \notin Confs /\ Confs \subseteq Item /\ Calls \subseteq Item
      /\ m.top \in Seq(Item) /\ m.kids \in [Item -> Seq(Calls)] /\ m.parent \in [Item -> Confs \cup {None}]
  BY ConstantsAssumption DEF Sound, Models, Item
<1>1. CASE n = m
  BY <1>1 DEF Refiled, Rearranged, KeepsRows
<1>2. CASE n = [m EXCEPT !.parent[c] = None]
  <2>1. /\ n \in Models /\ n.state = m.state /\ n.ids = m.ids /\ n.history = m.history
        /\ n.top = m.top /\ n.kids = m.kids
    BY <1>0, <1>2 DEF Models
  <2>. HIDE DEF n
  <2>2. Rearranged(m, n)
    BY <2>1 DEF Rearranged
  <2>3. Sound(n)
    BY <2>1, <2>2, RearrangedSound DEF Sound
  <2>4. KeepsRows(m, n)
    BY <1>0, <2>1, ShownMeans DEF KeepsRows
  <2>5. \A l \in Confs : Contains(n.top, l) <=> Contains(m.top, l)
    BY <2>1
  <2>6. n.ids = m.ids
    BY <2>1
  <2>7. Refiled(m, n)
    BY <2>2, <2>3, <2>4, <2>5, <2>6 DEF Refiled
  <2>. QED
    BY <2>7 DEF n
<1>3. ASSUME c \in m.ids, known # {},
             n = [removeInternal(m, c) EXCEPT !.kids[k] = IF Contains(@, c) THEN @ ELSE Append(@, c)]
      PROVE  Refiled(m, n)
  <2>1. k \in Confs /\ k \in m.ids /\ k \in ConferencesOf(c)
    BY <1>3 DEF ConferencesOf
  <2>. HIDE DEF k, known, actual
  <2>2. /\ RemoveFirst(m.top, c) \in Seq(Item)
        /\ \A e : Contains(RemoveFirst(m.top, c), e) => Contains(m.top, e)
        /\ \A e : e # c /\ Contains(m.top, e) => Contains(RemoveFirst(m.top, c), e)
    BY <1>0, RemoveFirstHas
  <2>. DEFINE out == removeInternal(m, c)
              more == IF Contains(m.kids[k], c) THEN m.kids[k] ELSE Append(m.kids[k], c)
              filed == [m.kids EXCEPT ![k] = more]
  <2>3. /\ out \in Models
        /\ out.state = m.state /\ out.ids = m.ids /\ out.watched = m.watched
        /\ out.history = m.history /\ out.parent = m.parent /\ out.kids = m.kids
        /\ out.top = RemoveFirst(m.top, c)
    BY <1>0, <2>2 DEF removeInternal, Models
  <2>4. /\ more \in Seq(Calls)
        /\ \A e : Contains(more, e) <=> Contains(m.kids[k], e) \/ e = c
    <3>1. m.kids[k] \in Seq(Calls)
      BY <1>0, <2>1
    <3>2. /\ Append(m.kids[k], c) \in Seq(Calls)
          /\ \A e : Contains(Append(m.kids[k], c), e) <=> Contains(m.kids[k], e) \/ e = c
      BY <3>1, AppendHas
    <3>. QED
      BY <3>1, <3>2
  <2>5. n = [out EXCEPT !.kids[k] = IF Contains(@, c) THEN @ ELSE Append(@, c)]
    BY <1>3
  <2>. HIDE DEF n, out, more
  <2>6. n = [out EXCEPT !.kids = filed]
    BY <1>0, <2>1, <2>3, <2>5 DEF more, Models
  <2>7. filed \in [Item -> Seq(Calls)] /\ \A l \in Item : filed[l] = IF l = k THEN more ELSE m.kids[l]
    BY <1>0, <2>1, <2>4
  <2>. HIDE DEF filed
  <2>8. /\ n \in Models /\ n.state = m.state /\ n.ids = m.ids /\ n.history = m.history
        /\ n.top = RemoveFirst(m.top, c) /\ n.kids = filed
    BY <2>3, <2>6, <2>7 DEF Models
  <2>9. Rearranged(m, n)
    BY <2>8 DEF Rearranged
  <2>10. \A l \in Item : \A e : Contains(n.kids[l], e) <=> Contains(m.kids[l], e) \/ (l = k /\ e = c)
    BY <2>4, <2>7, <2>8
  <2>11. Sound(n)
    <3>1. \A l \in Item, e \in Calls : Contains(n.kids[l], e) => e \in n.ids
      BY <1>3, <2>8, <2>10 DEF Sound
    <3>2. \A e \in Calls : Contains(n.top, e) => Contains(m.top, e)
      BY <2>2, <2>8
    <3>. QED
      BY <2>8, <2>9, <3>1, <3>2, RearrangedSound
  <2>12. \A l \in Confs : Contains(n.top, l) <=> Contains(m.top, l)
    BY <1>0, <2>2, <2>8
  <2>13. ASSUME Filed(m), NEW e \in Calls, Shown(m, e) PROVE Shown(n, e)
    <3>1. CASE e = c
      <4>1. Contains(n.top, k) /\ Contains(n.kids[k], c)
        BY <1>0, <1>3, <2>1, <2>10, <2>12, <2>13 DEF Filed
      <4>. QED
        BY <2>1, <2>8, <3>1, <4>1, ShownMeans
    <3>2. CASE e # c /\ Contains(m.top, e)
      <4>1. Contains(n.top, e)
        BY <2>2, <2>8, <3>2
      <4>. QED
        BY <2>8, <4>1, ShownMeans
    <3>3. CASE \E l \in Confs : Contains(m.top, l) /\ Contains(m.kids[l], e)
      <4>1. PICK l \in Confs : Contains(m.top, l) /\ Contains(m.kids[l], e)
        BY <3>3
      <4>2. Contains(n.top, l) /\ Contains(n.kids[l], e)
        BY <1>0, <2>10, <2>12, <4>1
      <4>. QED
        BY <2>8, <4>2, ShownMeans
    <3>. QED
      BY <1>0, <2>13, <3>1, <3>2, <3>3, ShownMeans
  <2>. QED
    BY <2>8, <2>9, <2>11, <2>12, <2>13 DEF Refiled, KeepsRows
<1>. QED
  BY <1>1, <1>2, <1>3 DEF Reconciled

LEMMA ComparingRefiles ==
  ASSUME NEW m, Sound(m), NEW list \in Seq(Calls)
  PROVE  Refiled(m, FoldLeft(Reconciled, m, list))
<1>. DEFINE X == [i \in 0 .. Len(list) |-> {n \in Models : Refiled(m, n)}]
            result == FoldLeft(Reconciled, m, list)
<1>1. Len(list) \in Nat /\ \A i \in 1 .. Len(list) : list[i] \in Calls
  BY LenProperties, ElementOfSeq
<1>2. m \in X[0]
  BY <1>1 DEF Refiled, Rearranged, KeepsRows, Sound
<1>3. ASSUME NEW i \in 1 .. Len(list), NEW n \in X[i - 1]
      PROVE  Reconciled(n, list[i]) \in X[i]
  <2>1. i - 1 \in 0 .. Len(list) /\ i \in 0 .. Len(list) /\ list[i] \in Calls
    BY <1>1
  <2>. DEFINE c == list[i]
              o == Reconciled(n, c)
  <2>2. n \in Models /\ Refiled(m, n)
    BY <2>1
  <2>. HIDE DEF c
  <2>3. Refiled(n, o)
    BY <2>1, <2>2, ReconciledRefiles DEF c, Refiled
  <2>. HIDE DEF o
  <2>4. Refiled(m, o) /\ o \in Models
    BY <2>2, <2>3, RefiledTwice DEF Refiled, Sound
  <2>5. o \in X[i]
    BY <2>1, <2>4
  <2>. QED
    BY <2>5 DEF o, c
<1>. HIDE DEF X
<1>4. result \in X[Len(list)]
  BY <1>2, <1>3, FilingStays
<1>5. X[Len(list)] = {n \in Models : Refiled(m, n)}
  BY <1>1 DEF X
<1>. HIDE DEF result
<1>6. Refiled(m, result)
  BY <1>4, <1>5
<1>. QED
  BY <1>6 DEF result

\* Without another conference the search for finished ones leaves one with
\* participants alone.
LEMMA OneIsLeftAlone ==
  ASSUME NEW k, Confs = {k}, NEW m \in Models, m.kids[k] # <<>>
  PROVE  Cleanup(Removal[Depth], m, FALSE) = m
<1>. DEFINE list == m.top
            X == [i \in 0 .. Len(list) |-> {m}]
            remove == Removal[Depth]
<1>1. list \in Seq(Item) /\ Len(list) \in Nat
  BY LenProperties DEF Models
<1>2. m \in X[0]
  BY <1>1
<1>3. ASSUME NEW i \in 1 .. Len(list), NEW n \in X[i - 1]
      PROVE  CleanOne(remove, FALSE, n, list[i]) \in X[i]
  <2>1. i - 1 \in 0 .. Len(list) /\ i \in 0 .. Len(list)
    BY <1>1
  <2>2. n = m
    BY <2>1
  <2>3. CleanOne(remove, FALSE, m, list[i]) = m
    BY DEF CleanOne, Conference, Empty
  <2>. QED
    BY <2>1, <2>2, <2>3
<1>. HIDE DEF X, remove
<1>4. Cleanup(remove, m, FALSE) \in X[Len(list)]
  BY <1>1, <1>2, <1>3, CleaningStays
<1>5. X[Len(list)] = {m}
  BY <1>1 DEF X
<1>. QED
  BY <1>4, <1>5 DEF remove

LEMMA ChangingContinues ==
  ASSUME NEW m, Sound(m), NEW k \in Confs, NEW list \in Seq(Calls),
         daemon.members[k] \in Seq(Calls)
  PROVE  LET n == slotChangingConference(m, k, list)
         IN /\ Continues(m, n, {})
            /\ Filed(n) \/ Confs = {k} => Allowed(m, n, {})
<1>. DEFINE n == slotChangingConference(m, k, list)
            participants == daemon.members[k]
            leavers == {c \in Calls : ~Contains(participants, c) /\ ~Finished(m, c)}
            gone == Only(leavers, m.kids[k])
            parents == [x \in Item |-> IF Contains(gone, x) THEN None ELSE m.parent[x]]
            freed == [m EXCEPT !.state[k] = "CONFERENCE", !.top = @ \o gone, !.kids[k] = <<>>,
                        !.parent = [x \in Item |-> IF Contains(gone, x) THEN None ELSE @[x]]]
            seated == AdoptAll(freed, k, participants)
            cleaned == Cleanup(Removal[Depth], seated, FALSE)
            compared == FoldLeft(Reconciled, cleaned, list)
<1>0. /\ m \in Models /\ k \in Item /\ k \notin Calls /\ Confs \subseteq Item /\ Calls \subseteq Item
      /\ m.top \in Seq(Item) /\ m.kids \in [Item -> Seq(Calls)] /\ m.kids[k] \in Seq(Calls)
      /\ m.parent \in [Item -> Confs \cup {None}] /\ m.state \in [Item -> State \cup {"absent"}]
  BY ConstantsAssumption DEF Sound, Models, Item
<1>1. CASE k \notin m.ids \/ ~Shown(m, k)
  BY <1>1, AllowedSame DEF slotChangingConference, Allowed
<1>2. CASE ~(k \notin m.ids \/ ~Shown(m, k))
  <2>1. n = compared
    BY <1>2 DEF slotChangingConference
  <2>2. Contains(m.top, k)
    BY <1>0, <1>2, ShownMeans
  <2>3. /\ gone \in Seq(Calls) /\ gone \in Seq(Item)
        /\ \A e : Contains(gone, e) <=> Contains(m.kids[k], e) /\ e \in leavers
    <3>1. /\ gone \in Seq(Calls)
          /\ \A e : Contains(gone, e) <=> Contains(m.kids[k], e) /\ e \in leavers
      BY <1>0, OnlyHas
    <3>. HIDE DEF gone
    <3>. QED
      BY <1>0, <3>1, SeqMonotonic
  <2>. HIDE DEF gone
  <2>4. /\ m.top \o gone \in Seq(Item)
        /\ \A e : Contains(m.top \o gone, e) <=> Contains(m.top, e) \/ Contains(gone, e)
    BY <1>0, <2>3, ConcatHas
  <2>5. /\ freed \in Models
        /\ freed.state = [m.state EXCEPT ![k] = "CONFERENCE"]
        /\ freed.kids = [m.kids EXCEPT ![k] = <<>>]
        /\ freed.top = m.top \o gone
        /\ freed.ids = m.ids /\ freed.watched = m.watched /\ freed.history = m.history
    <3>. DEFINE states == [m.state EXCEPT ![k] = "CONFERENCE"]
                kids == [m.kids EXCEPT ![k] = <<>>]
                rows == m.top \o gone
    <3>1. states \in [Item -> State \cup {"absent"}]
      BY <1>0, "CONFERENCE" \in State DEF State
    <3>2. kids \in [Item -> Seq(Calls)]
      BY <1>0, <<>> \in Seq(Calls)
    <3>3. parents \in [Item -> Confs \cup {None}]
      BY <1>0
    <3>4. freed = [m EXCEPT !.state = states, !.top = rows, !.kids = kids, !.parent = parents]
      BY <1>0 DEF Models
    <3>. HIDE DEF freed, states, kids, parents, rows
    <3>5. rows \in Seq(Item)
      BY <2>4 DEF rows
    <3>6. /\ freed \in Models /\ freed.state = states /\ freed.kids = kids /\ freed.top = rows
          /\ freed.ids = m.ids /\ freed.watched = m.watched /\ freed.history = m.history
      BY <1>0, <3>1, <3>2, <3>3, <3>4, <3>5 DEF Models
    <3>. QED
      BY <3>6 DEF states, kids, rows
  <2>. HIDE DEF freed
  <2>6. /\ \A c \in Calls : freed.state[c] = m.state[c]
        /\ \A l \in Item : \A e : Contains(freed.kids[l], e) <=> l # k /\ Contains(m.kids[l], e)
    <3>1. \A e : ~Contains(<<>>, e)
      BY DEF Contains
    <3>. QED
      BY <1>0, <2>5, <3>1
  <2>7. Sound(freed)
    <3>1. Rearranged(m, freed)
      BY <2>5, <2>6 DEF Rearranged
    <3>2. \A l \in Item, c \in Calls : Contains(freed.kids[l], c) => c \in freed.ids
      BY <2>5, <2>6 DEF Sound
    <3>3. \A c \in Calls : Contains(freed.top, c) => Contains(m.top, c) \/ c \in m.ids
      BY <1>0, <2>3, <2>4, <2>5 DEF Sound
    <3>. QED
      BY <2>5, <3>1, <3>2, <3>3, RearrangedSound
  <2>8. /\ seated \in Models
        /\ Seated(freed, k, {e \in Calls : Contains(participants, e)}, seated)
    <3>1. Contains(freed.top, k)
      BY <2>2, <2>4, <2>5
    <3>. QED
      BY <2>5, <3>1, AdoptAllSeats
  <2>. HIDE DEF seated
  <2>9. Sound(seated)
    BY <2>7, <2>8, SeatedAllowed DEF Allowed, Continues
  <2>10. Contains(seated.top, k) /\ seated.ids = m.ids
    BY <2>2, <2>4, <2>5, <2>8 DEF Seated
  <2>11. Rearranged(m, seated)
    BY <2>5, <2>6, <2>8 DEF Seated, Rearranged
  <2>12. ASSUME NEW c \in Calls, Live(m, c), Shown(m, c) PROVE Shown(seated, c)
    <3>1. CASE Contains(m.top, c)
      <4>1. Shown(freed, c)
        BY <2>4, <2>5, <3>1, ShownMeans
      <4>. QED
        BY <2>8, <4>1 DEF Seated
    <3>2. CASE \E l \in Confs : l # k /\ Contains(m.top, l) /\ Contains(m.kids[l], c)
      <4>1. PICK l \in Confs : l # k /\ Contains(m.top, l) /\ Contains(m.kids[l], c)
        BY <3>2
      <4>2. Contains(freed.top, l) /\ Contains(freed.kids[l], c)
        BY <1>0, <2>4, <2>5, <2>6, <4>1
      <4>3. Shown(freed, c)
        BY <2>5, <4>2, ShownMeans
      <4>. QED
        BY <2>8, <4>3 DEF Seated
    <3>3. CASE Contains(m.kids[k], c) /\ ~Contains(participants, c)
      <4>1. c \in leavers
        BY <2>12, <3>3 DEF Live
      <4>2. Contains(freed.top, c)
        BY <2>3, <2>4, <2>5, <3>3, <4>1
      <4>3. Shown(freed, c)
        BY <2>5, <4>2, ShownMeans
      <4>. QED
        BY <2>8, <4>3 DEF Seated
    <3>4. CASE Contains(m.kids[k], c) /\ Contains(participants, c)
      <4>1. c \in freed.ids
        BY <1>0, <2>5, <3>4 DEF Sound
      <4>2. Contains(seated.kids[k], c)
        BY <2>8, <3>4, <4>1 DEF Seated
      <4>. QED
        BY <2>8, <2>10, <4>2, ShownMeans
    <3>. QED
      BY <1>0, <2>12, <3>1, <3>2, <3>3, <3>4, ShownMeans
  <2>13. Allowed(m, seated, {})
    BY <2>9, <2>11, <2>12, RearrangedAllowed DEF KeepsRows
  <2>14. cleaned \in Models /\ Cut(seated, k, cleaned)
    <3>1. Cut(seated, k, seated)
      BY DEF Cut
    <3>. QED
      BY <2>8, <3>1, RemovalRemoves, CleanupCuts
  <2>15. Confs = {k} => Filed(cleaned)
    <3>1. SUFFICES ASSUME Confs = {k}, NEW c \in Calls, c \in cleaned.ids, k \in ConferencesOf(c)
                   PROVE  Contains(cleaned.top, k)
      BY DEF Filed
    <3>2. Contains(participants, c) /\ c \in freed.ids
      BY <2>5, <2>10, <2>14, <3>1 DEF ConferencesOf, Cut
    <3>3. Contains(seated.kids[k], c)
      BY <2>8, <3>2 DEF Seated
    <3>4. seated.kids[k] # <<>>
      <4>1. ~Contains(<<>>, c)
        BY DEF Contains
      <4>. QED
        BY <3>3, <4>1
    <3>5. cleaned = seated
      BY <2>8, <3>1, <3>4, OneIsLeftAlone
    <3>. QED
      BY <2>10, <3>5
  <2>. HIDE DEF cleaned
  <2>16. Allowed(seated, cleaned, {})
    BY <2>9, <2>14, CutAllowed
  <2>17. Allowed(m, cleaned, {}) /\ Sound(cleaned)
    BY <2>13, <2>16, AllowedThen DEF Allowed, Continues
  <2>18. Refiled(cleaned, compared)
    BY <2>17, ComparingRefiles
  <2>. HIDE DEF compared
  <2>19. Continues(cleaned, compared, {})
    BY <2>18 DEF Refiled, Rearranged, Continues
  <2>20. Filed(cleaned) => Allowed(cleaned, compared, {})
    BY <2>18, RearrangedAllowed DEF Refiled
  <2>21. Filed(compared) => Filed(cleaned)
    BY <2>18 DEF Refiled, Filed
  <2>22. Continues(m, compared, {})
    BY <2>17, <2>19 DEF Allowed, Continues
  <2>23. Filed(compared) \/ Confs = {k} => Allowed(m, compared, {})
    BY <2>15, <2>17, <2>20, <2>21, AllowedThen
  <2>. QED
    BY <2>1, <2>22, <2>23
<1>. QED
  BY <1>1, <1>2

-----------------------------------------------------------------------------
(* Signals about calls.                                                     *)

CallSignal == {"INCOMING", "incomingCall", "CONNECTING", "RINGING", "CURRENT", "HUNGUP", "FAILURE"}
Said == [about: Calls, name: CallSignal] \cup [about: Confs, name: ConferenceSignal]

\* The cells of the tables that a call meets which is never busy.
Heard == {"RINGING", "CONNECTING", "CURRENT", "HUNG_UP", "FAILURE"}

LEMMA SignalIsHeard ==
  ASSUME NEW name \in CallSignal
  PROVE  ToDaemonState(name) \in Heard /\ (name = "HUNGUP" => ToDaemonState(name) = "HUNG_UP")
BY DEF CallSignal, ToDaemonState, DaemonState, Heard

LEMMA HeardMoves ==
  ASSUME NEW s \in State, s # "BUSY", NEW d \in Heard
  PROVE  /\ StateAfterSignal(s, d) \in State /\ StateAfterSignal(s, d) # "BUSY"
         /\ Stays(s, StateAfterSignal(s, d))
         /\ d = "HUNG_UP" => LifeCycle(StateAfterSignal(s, d)) = "FINISHED"
BY DEF State, Heard, StateAfterSignal, PlainState, Stays, LifeCycle, Talking, Transferring,
       Conferencing

LEMMA HistoryAllowed ==
  ASSUME NEW m, Sound(m), NEW c \in Calls, c \in m.ids, Finished(m, c)
  PROVE  Allowed(m, [m EXCEPT !.history = @ \cup {c}], {})
<1>. DEFINE n == [m EXCEPT !.history = @ \cup {c}]
<1>1. /\ m \in Models
      /\ n \in Models /\ n.state = m.state /\ n.kids = m.kids /\ n.ids = m.ids /\ n.top = m.top
      /\ n.history = m.history \cup {c}
  BY DEF Sound, Models
<1>. HIDE DEF n
<1>2. Sound(n)
  BY <1>1 DEF Sound, Finished
<1>3. \A e \in Calls : Live(n, e) = Live(m, e) /\ (Shown(n, e) <=> Shown(m, e))
  BY <1>1, ShownMeans DEF Live, Finished
<1>4. Allowed(m, n, {})
  BY <1>1, <1>2, <1>3 DEF Allowed, Continues, AllShown
<1>. QED
  BY <1>4 DEF n

LEMMA CallStateChangedAllowed ==
  ASSUME NEW m, Sound(m), NEW c \in Calls, c \in m.ids, NEW name \in CallSignal
  PROVE  LET n == CallStateChanged(m, c, name)
         IN Allowed(m, n, {}) /\ (name = "HUNGUP" => c \in n.history)
<1>. DEFINE old == m.state[c]
            sig == ToDaemonState(name)
            s == StateAfterSignal(old, sig)
            moved == changeCurrentState(m, c, s)
            wrong == CallbackOfSignal(old, sig) = "error"
            told == IF wrong THEN changeCurrentState(moved, c, "ERROR") ELSE slotCallChanged(moved, c)
            leaves == \/ name = "HUNGUP"
                      \/ told.state[c] = "OVER" /\ (old = "OVER" \/ LifeCycle(old) # "FINISHED")
            removed == IF leaves THEN removeCall(told, c) ELSE told
            n == [removed EXCEPT !.history = IF Finished(removed, c) THEN @ \cup {c} ELSE @]
<1>1. CallStateChanged(m, c, name) = n
  BY DEF CallStateChanged
<1>2. c \in Item /\ old \in State /\ old # "BUSY" /\ old # "absent"
  BY DEF Sound, Models, Item
<1>3. /\ s \in State /\ s # "BUSY" /\ Stays(old, s)
      /\ name = "HUNGUP" => LifeCycle(s) = "FINISHED"
  BY <1>2, SignalIsHeard, HeardMoves
<1>. HIDE DEF s
<1>4. Allowed(m, moved, {}) /\ moved.state[c] = s
  BY <1>2, <1>3, ChangeAllowed
<1>. HIDE DEF moved, wrong
<1>5. Sound(moved) /\ moved.state[c] # "absent"
  BY <1>2, <1>4 DEF Allowed, Continues
<1>6. Allowed(moved, told, {}) /\ told.state[c] \in {s, "ERROR"}
  <2>1. CASE wrong
    <3>1. /\ Allowed(moved, changeCurrentState(moved, c, "ERROR"), {})
          /\ changeCurrentState(moved, c, "ERROR").state[c] = "ERROR"
      BY <1>2, <1>5, ChangeAllowed, RemovedIsFinished DEF Stays
    <3>. QED
      BY <2>1, <3>1
  <2>2. CASE ~wrong
    <3>1. /\ Allowed(moved, slotCallChanged(moved, c), {})
          /\ slotCallChanged(moved, c).state[c] = s
      BY <1>2, <1>4, <1>5, ToldAllowed
    <3>. QED
      BY <2>2, <3>1
  <2>. QED
    BY <2>1, <2>2
<1>. HIDE DEF told
<1>7. Sound(told)
  BY <1>6 DEF Allowed, Continues
<1>8. leaves => LifeCycle(told.state[c]) = "FINISHED"
  BY <1>3, <1>6, RemovedIsFinished
<1>9. Allowed(told, removed, {}) /\ removed.state[c] = told.state[c]
  <2>1. CASE leaves
    <3>1. /\ Allowed(told, removeCall(told, c), {})
          /\ removeCall(told, c).state[c] = told.state[c]
      BY <1>2, <1>7, <1>8, <2>1, RemoveAllowed DEF Live, Finished
    <3>. QED
      BY <2>1, <3>1
  <2>2. CASE ~leaves
    BY <1>7, <2>2, AllowedSame
  <2>. QED
    BY <2>1, <2>2
<1>10. name = "HUNGUP" => Finished(removed, c)
  BY <1>8, <1>9 DEF Finished
<1>. HIDE DEF removed, leaves
<1>11. Allowed(m, removed, {})
  BY <1>4, <1>6, <1>9, AllowedThen
<1>12. Sound(removed) /\ c \in removed.ids /\ removed \in Models
  BY <1>11 DEF Allowed, Continues, Sound
<1>13. Allowed(removed, n, {}) /\ (name = "HUNGUP" => c \in n.history)
  <2>1. CASE Finished(removed, c)
    <3>1. n = [removed EXCEPT !.history = @ \cup {c}]
      BY <2>1
    <3>2. n.history = removed.history \cup {c}
      BY <1>12, <3>1 DEF Models
    <3>. QED
      BY <1>12, <2>1, <3>1, <3>2, HistoryAllowed
  <2>2. CASE ~Finished(removed, c)
    <3>1. n = removed
      BY <1>12, <2>2 DEF Models
    <3>. QED
      BY <1>10, <1>12, <2>2, <3>1, AllowedSame
  <2>. QED
    BY <2>1, <2>2
<1>. HIDE DEF n
<1>14. Allowed(m, n, {})
  BY <1>11, <1>13, AllowedThen
<1>. QED
  BY <1>1, <1>13, <1>14

-----------------------------------------------------------------------------
(* Adding.                                                                  *)

LEMMA AddCallAllowed ==
  ASSUME NEW m, Sound(m), NEW c \in Calls, c \notin m.ids, NEW s \in State, s # "BUSY"
  PROVE  Allowed(m, addCall2(m, c, s, TRUE), {c})
<1>. DEFINE n == addCall2(m, c, s, TRUE)
            live == LifeCycle(s) # "FINISHED"
            states == [m.state EXCEPT ![c] = s]
            rows == IF live THEN Append(m.top, c) ELSE m.top
            seen == IF live THEN m.watched \cup {c} ELSE m.watched
<1>1. /\ m \in Models /\ c \in Item /\ Calls \subseteq Item /\ Confs \subseteq Item /\ "absent" \notin State
      /\ m.top \in Seq(Item) /\ m.state \in [Item -> State \cup {"absent"}] /\ m.watched \subseteq Item
  BY DEF Sound, Models, Item, State
<1>2. /\ rows \in Seq(Item)
      /\ \A e : Contains(rows, e) <=> Contains(m.top, e) \/ (live /\ e = c)
  <2>1. /\ Append(m.top, c) \in Seq(Item)
        /\ \A e : Contains(Append(m.top, c), e) <=> Contains(m.top, e) \/ e = c
    BY <1>1, AppendHas
  <2>. QED
    BY <1>1, <2>1
<1>3. n = [m EXCEPT !.state = states, !.top = rows, !.watched = seen, !.ids = m.ids \cup {c}]
  BY <1>1 DEF addCall2, Models
<1>4. states \in [Item -> State \cup {"absent"}] /\ \A e \in Calls : states[e] = IF e = c THEN s ELSE m.state[e]
  BY <1>1
<1>5. seen \subseteq Item
  BY <1>1
<1>. HIDE DEF n, states, rows, seen
<1>6. /\ n \in Models /\ n.state = states /\ n.top = rows /\ n.ids = m.ids \cup {c}
      /\ n.kids = m.kids /\ n.history = m.history
  BY <1>1, <1>2, <1>3, <1>4, <1>5 DEF Models
<1>7. c \notin m.history
  BY DEF Sound
<1>8. Sound(n)
  <2>1. \A e \in n.history : e \in n.ids /\ Finished(n, e)
    <3>1. \A e \in m.history : e \in Calls
      BY <1>1 DEF Models
    <3>. QED
      BY <1>4, <1>6, <1>7, <3>1 DEF Sound, Finished
  <2>2. \A e \in Calls : Contains(n.top, e) \/ e \in n.ids => n.state[e] # "absent"
    BY <1>1, <1>2, <1>4, <1>6 DEF Sound
  <2>3. \A k \in Item, e \in Calls : Contains(n.kids[k], e) => e \in n.ids
    BY <1>6 DEF Sound
  <2>4. \A e \in Calls : n.state[e] # "BUSY"
    BY <1>4, <1>6 DEF Sound
  <2>. QED
    BY <1>6, <2>1, <2>2, <2>3, <2>4 DEF Sound
<1>9. AllShown(m) => AllShown(n)
  <2>1. \A e \in Calls : Shown(m, e) => Shown(n, e)
    BY <1>1, <1>2, <1>6, ShownMeans
  <2>2. live => Shown(n, c)
    BY <1>2, <1>6, ShownMeans
  <2>3. \A e \in Calls : Live(n, e) => IF e = c THEN live ELSE Live(m, e)
    BY <1>4, <1>6 DEF Live, Finished
  <2>. QED
    BY <2>1, <2>2, <2>3 DEF AllShown
<1>10. \A e \in Calls : n.state[e] # "absent" <=> m.state[e] # "absent" \/ e \in {c}
  BY <1>1, <1>4, <1>6
<1>11. Allowed(m, n, {c})
  BY <1>6, <1>8, <1>9, <1>10 DEF Allowed, Continues
<1>. QED
  BY <1>11 DEF n

LEMMA AddExistingAllowed ==
  ASSUME NEW m, Sound(m), NEW c \in Calls, c \notin m.ids
  PROVE  \E new \in SUBSET Known : Allowed(m, addExistingCall(m, c), new)
<1>1. CASE c \in Known
  <2>1. StartState(daemon.call[c]) \in State /\ StartState(daemon.call[c]) # "BUSY"
    BY DEF StartState, State
  <2>2. addExistingCall(m, c) = addCall2(m, c, StartState(daemon.call[c]), TRUE)
    BY <1>1 DEF addExistingCall
  <2>3. Allowed(m, addExistingCall(m, c), {c})
    BY <2>1, <2>2, AddCallAllowed
  <2>. QED
    BY <1>1, <2>3
<1>2. CASE c \notin Known
  <2>1. addExistingCall(m, c) = m
    BY <1>2 DEF addExistingCall
  <2>. QED
    BY <2>1, AllowedSame
<1>. QED
  BY <1>1, <1>2

LEMMA CallSlotAllowed ==
  ASSUME NEW m, Sound(m), NEW c \in Calls, NEW name \in CallSignal
  PROVE  LET n == slotCallStateChanged(m, c, name)
         IN /\ \E new \in SUBSET Known : Allowed(m, n, new)
            /\ name = "HUNGUP" /\ c \in m.ids => c \in n.history
<1>1. CASE c \in m.ids
  <2>1. slotCallStateChanged(m, c, name) = CallStateChanged(m, c, name)
    BY <1>1 DEF slotCallStateChanged
  <2>. QED
    BY <1>1, <2>1, CallStateChangedAllowed
<1>2. CASE c \notin m.ids
  <2>1. \/ slotCallStateChanged(m, c, name) = m
        \/ slotCallStateChanged(m, c, name) = addExistingCall(m, c)
    BY <1>2 DEF slotCallStateChanged
  <2>. QED
    BY <1>2, <2>1, AllowedSame, AddExistingAllowed
<1>. QED
  BY <1>1, <1>2

LEMMA AddConferenceAllowed ==
  ASSUME NEW m, Sound(m), NEW k \in Confs, daemon.members[k] \in Seq(Calls)
  PROVE  Allowed(m, addConference(m, k), {})
<1>. DEFINE participants == daemon.members[k]
            states == [m.state EXCEPT ![k] = "CONFERENCE"]
            n == [m EXCEPT !.state[k] = "CONFERENCE", !.top = Append(@, k),
                           !.ids = @ \cup {k}, !.watched = @ \cup {k}]
            seated == AdoptAll(n, k, participants)
<1>1. /\ m \in Models /\ k \in Item /\ k \notin Calls /\ Calls \subseteq Item /\ Confs \subseteq Item
      /\ m.top \in Seq(Item) /\ m.state \in [Item -> State \cup {"absent"}]
      /\ m.watched \subseteq Item /\ m.ids \subseteq Item
  BY ConstantsAssumption DEF Sound, Models, Item
<1>2. /\ Append(m.top, k) \in Seq(Item)
      /\ \A e : Contains(Append(m.top, k), e) <=> Contains(m.top, e) \/ e = k
  BY <1>1, AppendHas
<1>3. states \in [Item -> State \cup {"absent"}] /\ \A c \in Calls : states[c] = m.state[c]
  BY <1>1, "CONFERENCE" \in State DEF State
<1>4. n = [m EXCEPT !.state = states, !.top = Append(m.top, k), !.ids = m.ids \cup {k},
                    !.watched = m.watched \cup {k}]
  BY <1>1 DEF Models
<1>. HIDE DEF states, n
<1>5. /\ n \in Models /\ n.state = states /\ n.top = Append(m.top, k) /\ n.ids = m.ids \cup {k}
      /\ n.kids = m.kids /\ n.history = m.history
  BY <1>1, <1>2, <1>3, <1>4 DEF Models
<1>6. Rearranged(m, n)
  BY <1>1, <1>3, <1>5 DEF Rearranged
<1>7. Sound(n)
  <2>1. \A l \in Item, c \in Calls : Contains(n.kids[l], c) => c \in n.ids
    BY <1>5 DEF Sound
  <2>2. \A c \in Calls : Contains(n.top, c) => Contains(m.top, c)
    BY <1>1, <1>2, <1>5
  <2>. QED
    BY <1>5, <1>6, <2>1, <2>2, RearrangedSound
<1>8. KeepsRows(m, n)
  BY <1>1, <1>2, <1>5, ShownMeans DEF KeepsRows
<1>9. Allowed(m, n, {})
  BY <1>6, <1>7, <1>8, RearrangedAllowed
<1>10. Contains(n.top, k)
  BY <1>2, <1>5
<1>11. seated \in Models /\ Seated(n, k, {e \in Calls : Contains(participants, e)}, seated)
  BY <1>5, <1>10, AdoptAllSeats
<1>. HIDE DEF seated
<1>12. Allowed(n, seated, {})
  BY <1>7, <1>11, SeatedAllowed
<1>13. Allowed(m, seated, {})
  BY <1>9, <1>12, AllowedThen
<1>14. addConference(m, k) = m \/ addConference(m, k) = seated
  BY DEF addConference, seated, n
<1>. QED
  BY <1>13, <1>14, AllowedSame

LEMMA ConferenceRemovedAllowed ==
  ASSUME NEW m, Sound(m), NEW k \in Confs
  PROVE  Allowed(m, slotConferenceRemoved(m, k), {})
<1>. DEFINE n == removeCall(m, k)
            o == changeCurrentState(n, k, "OVER")
<1>1. k \in Item /\ k \notin Calls
  BY ConstantsAssumption DEF Item
<1>2. Allowed(m, n, {})
  BY <1>1, RemoveAllowed
<1>. HIDE DEF n
<1>3. Allowed(n, o, {})
  BY <1>1, <1>2, ChangeAllowed, RemovedIsFinished DEF Allowed, Continues
<1>4. Allowed(m, o, {})
  BY <1>2, <1>3, AllowedThen
<1>5. slotConferenceRemoved(m, k) = m \/ slotConferenceRemoved(m, k) = o
  BY DEF slotConferenceRemoved, removeConference, o, n
<1>. QED
  BY <1>4, <1>5, AllowedSame

-----------------------------------------------------------------------------
(* What the daemon does and says.                                           *)

HangUpOf(c) == [about |-> c, name |-> "HUNGUP"]

DaemonOK == daemon \in [call: [Calls -> DaemonCall], members: [Confs -> Seq(Calls)], used: SUBSET Confs]

\* What a step does to the daemon, and to what it had to say.
Moves ==
  /\ DaemonOK' /\ signals' \in Seq(Said)
  /\ \A c \in Calls : daemon.call[c] # "none" => daemon'.call[c] # "none"
  /\ \A c \in Calls : daemon'.call[c] = "over" => daemon.call[c] = "over" \/ Contains(signals', HangUpOf(c))
  /\ \A k \in Confs, c \in Calls : Contains(daemon'.members[k], c) =>
       daemon'.call[c] # "none" \/ \E l \in Confs : Contains(daemon.members[l], c)

LEMMA SilentMoves ==
  ASSUME DaemonOK, NEW pending \in Seq(Said), Silent(pending)
  PROVE  Moves /\ signals' = pending /\ daemon' = daemon
BY DEF Silent, Moves, DaemonOK

LEMMA DaemonMoves ==
  ASSUME DaemonOK, NEW pending \in Seq(Said), NEW q \in Seq(Said),
         NEW calls \in [Calls -> DaemonCall], NEW members \in [Confs -> Seq(Calls)],
         Daemon(calls, members, pending, q),
         \A c \in Calls : daemon.call[c] # "none" => calls[c] # "none",
         \A c \in Calls : calls[c] = "over" => daemon.call[c] = "over" \/ Contains(q, HangUpOf(c)),
         \A k \in Confs, c \in Calls : Contains(members[k], c) =>
           calls[c] # "none" \/ \E l \in Confs : Contains(daemon.members[l], c)
  PROVE  /\ Moves
         /\ daemon'.call = calls /\ daemon'.members = members
         /\ \A e : Contains(pending, e) => Contains(signals', e)
<1>1. /\ daemon'.call = calls /\ daemon'.members = members
      /\ DaemonOK'
  BY DEF Daemon, DaemonOK
<1>2. /\ signals' \in Seq(Said)
      /\ \A e : Contains(signals', e) <=> Contains(pending, e) \/ Contains(q, e)
  BY ConcatHas DEF Daemon
<1>. QED
  BY <1>1, <1>2 DEF Moves

LEMMA SayIsSaid ==
  ASSUME NEW x, NEW name, [about |-> x, name |-> name] \in Said
  PROVE  Say(x, name) \in Seq(Said) /\ Contains(Say(x, name), [about |-> x, name |-> name])
<1>. DEFINE s == <<[about |-> x, name |-> name]>>
<1>1. s \in Seq(Said) /\ Len(s) = 1 /\ s[1] = [about |-> x, name |-> name]
  OBVIOUS
<1>2. Contains(s, [about |-> x, name |-> name])
  BY <1>1, 1 \in 1 .. 1 DEF Contains
<1>. QED
  BY <1>1, <1>2 DEF Say

LEMMA CallSaid ==
  ASSUME NEW c \in Calls, NEW name \in CallSignal
  PROVE  [about |-> c, name |-> name] \in Said
BY DEF Said

LEMMA ConferenceSaid ==
  ASSUME NEW k \in Confs, NEW name \in ConferenceSignal
  PROVE  [about |-> k, name |-> name] \in Said /\ Say(k, name) \in Seq(Said)
<1>1. [about |-> k, name |-> name] \in Said
  BY DEF Said
<1>. QED
  BY <1>1, SayIsSaid

LEMMA EndsAreSaid ==
  ASSUME NEW k \in Confs
  PROVE  EndOfConference(k) \subseteq Seq(Said)
<1>1. Say(k, "conferenceRemoved") \in Seq(Said) /\ Say(k, "conferenceChanged") \in Seq(Said)
  BY ConferenceSaid DEF ConferenceSignal
<1>2. Say(k, "conferenceChanged") \o Say(k, "conferenceRemoved") \in Seq(Said)
  BY <1>1, ConcatHas
<1>. QED
  BY <1>1, <1>2 DEF EndOfConference

LEMMA LeavingIsSaid ==
  ASSUME NEW c \in Calls
  PROVE  Leaving(c) \subseteq Seq(Said)
<1>1. <<>> \in Seq(Said)
  OBVIOUS
<1>2. ASSUME NEW k \in Confs
      PROVE  (IF Without(c)[k] = <<>> THEN EndOfConference(k) ELSE {Say(k, "conferenceChanged")}) \subseteq Seq(Said)
  BY EndsAreSaid, ConferenceSaid DEF ConferenceSignal
<1>. QED
  BY <1>1, <1>2 DEF Leaving, ConferencesOf

LEMMA EitherIsSaid ==
  ASSUME NEW p \in Seq(Said), NEW q \in Seq(Said), NEW r \in EitherOrder(p, q)
  PROVE  r \in Seq(Said) /\ \A e : Contains(r, e) <=> Contains(p, e) \/ Contains(q, e)
<1>1. r = p \o q \/ r = q \o p
  BY DEF EitherOrder
<1>2. /\ p \o q \in Seq(Said)
      /\ \A e : Contains(p \o q, e) <=> Contains(p, e) \/ Contains(q, e)
  BY ConcatHas
<1>3. /\ q \o p \in Seq(Said)
      /\ \A e : Contains(q \o p, e) <=> Contains(q, e) \/ Contains(p, e)
  BY ConcatHas
<1>. QED
  BY <1>1, <1>2, <1>3

LEMMA WithoutHas ==
  ASSUME DaemonOK, NEW c \in Calls
  PROVE  /\ Without(c) \in [Confs -> Seq(Calls)]
         /\ \A k \in Confs, e \in Calls : Contains(Without(c)[k], e) => Contains(daemon.members[k], e)
<1>1. ASSUME NEW k \in Confs
      PROVE  LET rest == Only(Calls \ {c}, daemon.members[k])
                 left == IF Contains(daemon.members[k], c) /\ Len(rest) < 2 THEN <<>> ELSE rest
             IN left \in Seq(Calls) /\ \A e \in Calls : Contains(left, e) => Contains(daemon.members[k], e)
  <2>. DEFINE rest == Only(Calls \ {c}, daemon.members[k])
  <2>1. /\ rest \in Seq(Calls)
        /\ \A e : Contains(rest, e) <=> Contains(daemon.members[k], e) /\ e \in Calls \ {c}
    BY OnlyHas DEF DaemonOK
  <2>2. <<>> \in Seq(Calls) /\ \A e : ~Contains(<<>>, e)
    BY DEF Contains
  <2>. QED
    BY <2>1, <2>2
<1>. QED
  BY <1>1 DEF Without

-----------------------------------------------------------------------------
(* The invariant.                                                           *)

MembersKnown == \A k \in Confs, c \in Calls : Contains(daemon.members[k], c) => daemon.call[c] # "none"

\* The client has registered the calls of the daemon, and no others.
Registered ==
  \A c \in Calls :
    /\ c \in model.ids => daemon.call[c] # "none"
    /\ model.state[c] # "absent" /\ c \notin model.ids => daemon.call[c] = "none"

\* The end of a call that is not in the history yet is still to be heard.
EndsAreHeard ==
  \A c \in Calls :
    c \in model.ids /\ daemon.call[c] = "over" => c \in model.history \/ Contains(signals, HangUpOf(c))

Inductive ==
  /\ Sound(model) /\ DaemonOK /\ signals \in Seq(Said)
  /\ MembersKnown /\ Registered /\ EndsAreHeard

\* The client follows what the daemon does.
LEMMA StepKeeps ==
  ASSUME Inductive, Moves, NEW new,
         Continues(model, model', new),
         \A c \in Calls : c \in new => daemon'.call[c] \notin {"none", "over"},
         \A c \in Calls : daemon.call[c] = "none" /\ daemon'.call[c] # "none" =>
           model.state[c] = "absent" \/ c \in new,
         \A c \in Calls : c \in model.ids /\ Contains(signals, HangUpOf(c)) =>
           Contains(signals', HangUpOf(c)) \/ c \in model'.history
  PROVE  Inductive'
<1>1. Sound(model)' /\ DaemonOK' /\ (signals \in Seq(Said))'
  BY DEF Continues, Moves, Sound, Finished
<1>2. MembersKnown'
  <2>. SUFFICES ASSUME NEW k \in Confs, NEW c \in Calls, Contains(daemon'.members[k], c)
                PROVE  daemon'.call[c] # "none"
    BY DEF MembersKnown
  <2>. QED
    BY DEF Inductive, MembersKnown, Moves
<1>3. Registered'
  <2>. SUFFICES ASSUME NEW c \in Calls
                PROVE  /\ c \in model'.ids => daemon'.call[c] # "none"
                       /\ model'.state[c] # "absent" /\ c \notin model'.ids => daemon'.call[c] = "none"
    BY DEF Registered
  <2>. QED
    BY DEF Inductive, Registered, Moves, Continues
<1>4. EndsAreHeard'
  <2>. SUFFICES ASSUME NEW c \in Calls, c \in model'.ids, daemon'.call[c] = "over"
                PROVE  c \in model'.history \/ Contains(signals', HangUpOf(c))
    BY DEF EndsAreHeard, HangUpOf
  <2>. QED
    BY DEF Inductive, EndsAreHeard, Moves, Continues
<1>. QED
  BY <1>1, <1>2, <1>3, <1>4 DEF Inductive

\* What the daemon does to the calls it has, without forgetting what it said.
Quiet ==
  /\ Moves
  /\ \A c \in Calls : daemon.call[c] = "none" => daemon'.call[c] = "none"
  /\ \A e : Contains(signals, e) => Contains(signals', e)

LEMMA BecomeMoves ==
  ASSUME Inductive, NEW c \in Calls, NEW d \in DaemonCall \ {"none", "over"},
         NEW pending \in Seq(Said), NEW q \in Seq(Said), Become(c, d, pending, q)
  PROVE  /\ Moves /\ daemon'.call = [daemon.call EXCEPT ![c] = d]
         /\ \A e : Contains(pending, e) => Contains(signals', e)
<1>. DEFINE calls == [daemon.call EXCEPT ![c] = d]
<1>1. /\ DaemonOK /\ daemon.call \in [Calls -> DaemonCall] /\ daemon.members \in [Confs -> Seq(Calls)]
  BY DEF Inductive, DaemonOK
<1>2. calls \in [Calls -> DaemonCall] /\ \A e \in Calls : calls[e] = IF e = c THEN d ELSE daemon.call[e]
  BY <1>1
<1>3. Daemon(calls, daemon.members, pending, q)
  BY DEF Become
<1>. HIDE DEF calls
<1>4. /\ \A e \in Calls : daemon.call[e] # "none" => calls[e] # "none"
      /\ \A e \in Calls : calls[e] = "over" => daemon.call[e] = "over"
  BY <1>2
<1>5. \A k \in Confs, e \in Calls : Contains(daemon.members[k], e) =>
        calls[e] # "none" \/ \E l \in Confs : Contains(daemon.members[l], e)
  OBVIOUS
<1>6. /\ Moves /\ daemon'.call = calls
      /\ \A e : Contains(pending, e) => Contains(signals', e)
  BY <1>1, <1>2, <1>3, <1>4, <1>5, DaemonMoves, SMTT(60)
<1>. QED
  BY <1>6 DEF calls

LEMMA EndsIsQuiet ==
  ASSUME Inductive, NEW c \in Known, NEW d, NEW name,
         <<d, name>> \in {<<"over", "HUNGUP">>, <<"failed", "FAILURE">>}, Ends(c, d, name)
  PROVE  Quiet
<1>. DEFINE calls == [daemon.call EXCEPT ![c] = d]
<1>1. /\ c \in Calls /\ daemon.call[c] # "none"
      /\ DaemonOK /\ daemon.call \in [Calls -> DaemonCall] /\ signals \in Seq(Said)
  BY DEF Inductive, DaemonOK, Known
<1>2. d \in DaemonCall /\ d # "none" /\ name \in CallSignal /\ (d = "over" => name = "HUNGUP")
  BY DEF DaemonCall, CallSignal
<1>3. calls \in [Calls -> DaemonCall] /\ \A e \in Calls : calls[e] = IF e = c THEN d ELSE daemon.call[e]
  BY <1>1, <1>2
<1>4. PICK q \in Leaving(c) : \E r \in EitherOrder(q, Say(c, name)) : Daemon(calls, Without(c), signals, r)
  BY DEF Ends
<1>. HIDE DEF calls
<1>4a. PICK r \in EitherOrder(q, Say(c, name)) : Daemon(calls, Without(c), signals, r)
  BY <1>4
<1>5. q \in Seq(Said)
  BY <1>1, LeavingIsSaid
<1>6. Say(c, name) \in Seq(Said) /\ Contains(Say(c, name), [about |-> c, name |-> name])
  BY <1>1, <1>2, CallSaid, SayIsSaid
<1>7. r \in Seq(Said) /\ \A e : Contains(r, e) <=> Contains(q, e) \/ Contains(Say(c, name), e)
  BY <1>5, <1>6, EitherIsSaid
<1>8. /\ Without(c) \in [Confs -> Seq(Calls)]
      /\ \A k \in Confs, e \in Calls : Contains(Without(c)[k], e) => Contains(daemon.members[k], e)
  BY <1>1, WithoutHas
<1>9. \A e \in Calls : calls[e] = "over" => daemon.call[e] = "over" \/ Contains(r, HangUpOf(e))
  BY <1>2, <1>3, <1>6, <1>7 DEF HangUpOf
<1>10. \A e \in Calls : daemon.call[e] # "none" => calls[e] # "none"
  BY <1>2, <1>3
<1>11. \A k \in Confs, e \in Calls : Contains(Without(c)[k], e) =>
         calls[e] # "none" \/ \E l \in Confs : Contains(daemon.members[l], e)
  BY <1>8
<1>12. /\ Moves /\ daemon'.call = calls
       /\ \A e : Contains(signals, e) => Contains(signals', e)
  BY <1>1, <1>3, <1>4a, <1>7, <1>8, <1>9, <1>10, <1>11, DaemonMoves
<1>. QED
  BY <1>1, <1>3, <1>12 DEF Quiet

LEMMA AskIsQuiet ==
  ASSUME Inductive, NEW members \in [Confs -> Seq(Calls)], NEW q \in Seq(Said),
         Daemon(daemon.call, members, signals, q),
         \A k \in Confs, e \in Calls : Contains(members[k], e) =>
           daemon.call[e] # "none" \/ \E l \in Confs : Contains(daemon.members[l], e)
  PROVE  Quiet
<1>1. DaemonOK /\ daemon.call \in [Calls -> DaemonCall] /\ signals \in Seq(Said)
  BY DEF Inductive, DaemonOK
<1>2. /\ Moves /\ daemon'.call = daemon.call
      /\ \A e : Contains(signals, e) => Contains(signals', e)
  BY <1>1, DaemonMoves
<1>. QED
  BY <1>2 DEF Quiet

LEMMA SilentIsQuiet ==
  ASSUME Inductive, Silent(signals)
  PROVE  Quiet
BY SilentMoves DEF Inductive, Quiet

\* All hang up with their conference, which is announced at some moment among them.
LEMMA InsertHas ==
  ASSUME NEW s \in Seq(Said), NEW e \in Said, NEW i \in 1 .. Len(s) + 1
  PROVE  /\ InsertAt(s, i, e) \in Seq(Said)
         /\ \A v : Contains(s, v) => Contains(InsertAt(s, i, e), v)
<1>0. Len(s) \in Nat /\ \A j \in 1 .. Len(s) : s[j] \in Said
  BY LenProperties, ElementOfSeq
<1>. DEFINE a == SubSeq(s, 1, i - 1)
            b == <<e>>
            d == SubSeq(s, i, Len(s))
<1>1. /\ a \in Seq(Said) /\ Len(a) = i - 1 /\ \A j \in 1 .. i - 1 : a[j] = s[j]
  <2>1. \A j \in 1 .. i - 1 : s[j] \in Said
    BY <1>0
  <2>. QED
    BY <1>0, <2>1, SubSeqProperties, SMT
<1>2. /\ d \in Seq(Said) /\ Len(d) = Len(s) - i + 1 /\ \A j \in 1 .. Len(s) - i + 1 : d[j] = s[i + j - 1]
  <2>1. \A j \in i .. Len(s) : s[j] \in Said
    BY <1>0
  <2>. QED
    BY <1>0, <2>1, SubSeqProperties, SMT
<1>3. b \in Seq(Said)
  OBVIOUS
<1>4. InsertAt(s, i, e) = (a \o b) \o d
  BY DEF InsertAt
<1>. HIDE DEF a, b, d
<1>5. a \o b \in Seq(Said) /\ \A v : Contains(a \o b, v) <=> Contains(a, v) \/ Contains(b, v)
  BY <1>1, <1>3, ConcatHas
<1>. DEFINE ab == a \o b
<1>. HIDE DEF ab
<1>6. ab \o d \in Seq(Said) /\ \A v : Contains(ab \o d, v) <=> Contains(ab, v) \/ Contains(d, v)
  BY <1>2, <1>5, ConcatHas DEF ab
<1>7. ASSUME NEW v, Contains(s, v) PROVE Contains(a, v) \/ Contains(d, v)
  <2>1. PICK j \in 1 .. Len(s) : s[j] = v
    BY <1>7 DEF Contains
  <2>2. CASE j < i
    <3>1. j \in 1 .. i - 1 /\ a[j] = v
      BY <1>0, <1>1, <2>1, <2>2
    <3>. QED
      BY <1>1, <3>1 DEF Contains
  <2>3. CASE ~(j < i)
    <3>1. j - i + 1 \in 1 .. Len(s) - i + 1 /\ i + (j - i + 1) - 1 = j
      BY <1>0, <2>3
    <3>2. d[j - i + 1] = v
      BY <1>2, <2>1, <3>1
    <3>. QED
      BY <1>2, <3>1, <3>2 DEF Contains
  <2>. QED
    BY <2>2, <2>3
<1>. QED
  BY <1>4, <1>5, <1>6, <1>7 DEF ab

LEMMA HangUpIsQuiet ==
  ASSUME Inductive, NEW x \in Item, DaemonHangUp(x)
  PROVE  Quiet
<1>0. /\ DaemonOK /\ daemon.call \in [Calls -> DaemonCall] /\ daemon.members \in [Confs -> Seq(Calls)]
      /\ signals \in Seq(Said)
  BY DEF Inductive, DaemonOK
<1>1. CASE x \in Known
  <2>1. x \notin Confs
    BY <1>1, ConstantsAssumption DEF Known
  <2>2. Ends(x, "over", "HUNGUP")
    BY <1>1, <2>1 DEF DaemonHangUp
  <2>. QED
    BY <1>1, <2>2, EndsIsQuiet
<1>2. CASE x \notin Known /\ x \in Confs /\ daemon.members[x] # <<>>
  <2>. DEFINE all == daemon.members[x]
              said == [i \in 1 .. Len(all) |-> [about |-> all[i], name |-> "HUNGUP"]]
              calls == [c \in Calls |-> IF Contains(all, c) THEN "over" ELSE daemon.call[c]]
              members == [daemon.members EXCEPT ![x] = <<>>]
              end == [about |-> x, name |-> "conferenceRemoved"]
  <2>1. PICK i \in 1 .. Len(said) + 1 : Daemon(calls, members, signals, InsertAt(said, i, end))
    BY <1>2 DEF DaemonHangUp
  <2>2. all \in Seq(Calls) /\ Len(all) \in Nat /\ \A j \in 1 .. Len(all) : all[j] \in Calls
    <3>1. all \in Seq(Calls)
      BY <1>0, <1>2
    <3>. HIDE DEF all
    <3>. QED
      BY <3>1, LenProperties, ElementOfSeq
  <2>. HIDE DEF all
  <2>3. said \in Seq(Said) /\ Len(said) = Len(all)
    <3>1. \A j \in 1 .. Len(all) : [about |-> all[j], name |-> "HUNGUP"] \in Said
      BY <2>2, CallSaid DEF CallSignal
    <3>. QED
      BY <2>2, <3>1
  <2>4. \A c \in Calls : Contains(all, c) => Contains(said, HangUpOf(c))
    <3>. SUFFICES ASSUME NEW c \in Calls, Contains(all, c) PROVE Contains(said, HangUpOf(c))
      OBVIOUS
    <3>1. PICK j \in 1 .. Len(all) : all[j] = c
      BY DEF Contains
    <3>2. j \in 1 .. Len(said) /\ said[j] = HangUpOf(c)
      BY <2>3, <3>1 DEF HangUpOf
    <3>. HIDE DEF said
    <3>. QED
      BY <3>2 DEF Contains
  <2>. HIDE DEF said
  <2>5. end \in Said
    BY <1>2, ConferenceSaid DEF ConferenceSignal
  <2>. DEFINE q == InsertAt(said, i, end)
  <2>6. q \in Seq(Said) /\ \A v : Contains(said, v) => Contains(q, v)
    BY <2>3, <2>5, InsertHas
  <2>. HIDE DEF q
  <2>7. /\ calls \in [Calls -> DaemonCall]
        /\ \A c \in Calls : calls[c] = IF Contains(all, c) THEN "over" ELSE daemon.call[c]
    BY <1>0, "over" \in DaemonCall DEF DaemonCall
  <2>8. /\ members \in [Confs -> Seq(Calls)]
        /\ \A k \in Confs, c \in Calls : Contains(members[k], c) => Contains(daemon.members[k], c)
    <3>1. <<>> \in Seq(Calls) /\ \A e : ~Contains(<<>>, e)
      BY DEF Contains
    <3>. QED
      BY <1>0, <1>2, <3>1
  <2>9. \A c \in Calls : Contains(all, c) => daemon.call[c] # "none"
    BY <1>2 DEF Inductive, MembersKnown, all
  <2>10. Daemon(calls, members, signals, q)
    BY <2>1 DEF q
  <2>. HIDE DEF calls, members
  <2>11. \A c \in Calls : daemon.call[c] # "none" => calls[c] # "none"
    BY <2>7
  <2>12. \A c \in Calls : calls[c] = "over" => daemon.call[c] = "over" \/ Contains(q, HangUpOf(c))
    BY <2>4, <2>6, <2>7
  <2>13. \A k \in Confs, c \in Calls : Contains(members[k], c) =>
           calls[c] # "none" \/ \E l \in Confs : Contains(daemon.members[l], c)
    BY <2>8
  <2>14. /\ Moves /\ daemon'.call = calls
         /\ \A e : Contains(signals, e) => Contains(signals', e)
    BY <1>0, <2>6, <2>7, <2>8, <2>10, <2>11, <2>12, <2>13, DaemonMoves, SMTT(60)
  <2>. QED
    BY <2>7, <2>9, <2>14 DEF Quiet
<1>3. CASE x \notin Known /\ ~(x \in Confs /\ daemon.members[x] # <<>>)
  BY <1>3, SilentIsQuiet DEF DaemonHangUp
<1>. QED
  BY <1>1, <1>2, <1>3

-----------------------------------------------------------------------------
(* The steps.                                                               *)

\* A step that leaves no live call without a row, provided that each conference
\* of the daemon has one or that there is but one.
RowsStay == Filed(model)' \/ (\E k : Confs = {k}) => (AllShown(model) => AllShown(model'))
Keeps == Inductive' /\ RowsStay

LEMMA QuietKeeps ==
  ASSUME Inductive, Quiet, Allowed(model, model', {})
  PROVE  Keeps
<1>1. Inductive'
  BY StepKeeps DEF Quiet, Allowed
<1>. QED
  BY <1>1 DEF Keeps, RowsStay, Allowed

LEMMA DaemonStepKeeps ==
  ASSUME Inductive, NEW c \in Calls, DaemonStep(c)
  PROVE  Keeps
<1>1. /\ model' = model /\ Allowed(model, model', {}) /\ signals \in Seq(Said)
  BY AllowedSame DEF DaemonStep, Inductive
<1>2. ASSUME NEW d \in DaemonCall \ {"none", "over"}, NEW q \in Seq(Said), Become(c, d, signals, q),
             daemon.call[c] # "none" \/ model.state[c] = "absent"
      PROVE  Keeps
  <2>1. /\ Moves /\ daemon'.call = [daemon.call EXCEPT ![c] = d]
        /\ \A e : Contains(signals, e) => Contains(signals', e)
    BY <1>1, <1>2, BecomeMoves
  <2>2. \A e \in Calls : e # c => daemon'.call[e] = daemon.call[e]
    BY <2>1 DEF Inductive, DaemonOK
  <2>3. \A e \in Calls : daemon.call[e] = "none" /\ daemon'.call[e] # "none" =>
          model.state[e] = "absent" \/ e \in {}
    BY <1>2, <2>2
  <2>4. Continues(model, model', {})
    BY <1>1 DEF Allowed
  <2>5. Inductive'
    BY <2>1, <2>3, <2>4, StepKeeps
  <2>. QED
    BY <1>1, <2>5 DEF Keeps, RowsStay, Allowed
<1>3. CASE NewIncomingCall(c)
  <2>1. PICK q \in {<<>>, Say(c, "INCOMING")} : Become(c, "incoming", signals, q \o Say(c, "incomingCall"))
    BY <1>3 DEF NewIncomingCall
  <2>2. q \in Seq(Said) /\ Say(c, "incomingCall") \in Seq(Said)
    <3>1. Say(c, "INCOMING") \in Seq(Said) /\ Say(c, "incomingCall") \in Seq(Said)
      BY CallSaid, SayIsSaid DEF CallSignal
    <3>2. <<>> \in Seq(Said)
      OBVIOUS
    <3>. QED
      BY <2>1, <3>1, <3>2
  <2>3. q \o Say(c, "incomingCall") \in Seq(Said)
    BY <2>2, ConcatHas
  <2>. QED
    BY <1>2, <1>3, <2>1, <2>3 DEF NewIncomingCall, DaemonCall
<1>4. CASE NewForeignCall(c)
  <2>1. Say(c, "CONNECTING") \in Seq(Said)
    BY CallSaid, SayIsSaid DEF CallSignal
  <2>. QED
    BY <1>2, <1>4, <2>1 DEF NewForeignCall, DaemonCall
<1>5. CASE Progress(c)
  <2>1. Say(c, "RINGING") \in Seq(Said) /\ Say(c, "CURRENT") \in Seq(Said)
    BY CallSaid, SayIsSaid DEF CallSignal
  <2>. QED
    BY <1>2, <1>5, <2>1 DEF Progress, DaemonCall
<1>6. CASE Closes(c)
  <2>1. Quiet
    BY <1>6, EndsIsQuiet DEF Closes
  <2>. QED
    BY <1>1, <2>1, QuietKeeps
<1>. QED
  BY <1>3, <1>4, <1>5, <1>6 DEF DaemonStep

\* An answer is a change of a call the daemon has.
LEMMA AnswerMoves ==
  ASSUME Inductive, NEW c \in Calls, NEW pending \in Seq(Said), DaemonAnswer(c, pending) \/ Silent(pending)
  PROVE  /\ Moves
         /\ \A e \in Calls : /\ daemon.call[e] = "none" => daemon'.call[e] = "none"
                             /\ e \in Known => daemon'.call[e] \notin {"none", "over"}
         /\ \A e : Contains(pending, e) => Contains(signals', e)
<1>1. DaemonOK /\ daemon.call \in [Calls -> DaemonCall]
  BY DEF Inductive, DaemonOK
<1>2. CASE Silent(pending)
  BY <1>1, <1>2, SilentMoves DEF Known
<1>3. CASE daemon.call[c] = "incoming" /\ Become(c, "current", pending, Say(c, "CURRENT"))
  <2>1. Say(c, "CURRENT") \in Seq(Said) /\ "current" \in DaemonCall \ {"none", "over"}
    BY CallSaid, SayIsSaid DEF CallSignal, DaemonCall
  <2>2. /\ Moves /\ daemon'.call = [daemon.call EXCEPT ![c] = "current"]
        /\ \A e : Contains(pending, e) => Contains(signals', e)
    BY <1>3, <2>1, BecomeMoves
  <2>3. \A e \in Calls : daemon'.call[e] = IF e = c THEN "current" ELSE daemon.call[e]
    BY <1>1, <2>2
  <2>. QED
    BY <1>3, <2>2, <2>3 DEF Known
<1>. QED
  BY <1>2, <1>3 DEF DaemonAnswer

LEMMA DialingKeeps ==
  ASSUME Inductive, NEW c \in Calls, dialingCall(c)
  PROVE  Keeps
<1>. DEFINE states == [model.state EXCEPT ![c] = "NEW"]
            rows == Append(model.top, c)
<1>1. /\ model \in Models /\ c \in Item /\ Calls \subseteq Item /\ Confs \subseteq Item
      /\ model.top \in Seq(Item) /\ model.state \in [Item -> State \cup {"absent"}]
      /\ model.watched \subseteq Item /\ Sound(model) /\ signals \in Seq(Said)
  BY DEF Inductive, Sound, Models, Item
<1>2. /\ model.state[c] = "absent" /\ daemon.call[c] = "none" /\ Silent(signals)
      /\ model' = addCall2(model, c, "NEW", FALSE)
  BY DEF dialingCall
<1>3. "NEW" \in State /\ LifeCycle("NEW") = "CREATION"
  BY DEF State, LifeCycle, Talking, Transferring, Conferencing
<1>4. model' = [model EXCEPT !.state = states, !.top = rows, !.watched = model.watched \cup {c}]
  BY <1>1, <1>2, <1>3 DEF addCall2, Models
<1>5. /\ rows \in Seq(Item)
      /\ \A e : Contains(rows, e) <=> Contains(model.top, e) \/ e = c
  BY <1>1, AppendHas
<1>6. states \in [Item -> State \cup {"absent"}] /\ \A e \in Calls : states[e] = IF e = c THEN "NEW" ELSE model.state[e]
  BY <1>1, <1>3
<1>. HIDE DEF states, rows
<1>7. /\ model' \in Models /\ model'.state = states /\ model'.top = rows /\ model'.ids = model.ids
      /\ model'.kids = model.kids /\ model'.history = model.history
  BY <1>1, <1>4, <1>5, <1>6 DEF Models
<1>8. c \notin model.ids /\ c \notin model.history
  BY <1>1, <1>2 DEF Sound
<1>9. Sound(model')
  <2>1. \A e \in model'.history : e \in model'.ids /\ Finished(model', e)
    <3>1. \A e \in model.history : e \in Calls
      BY <1>1 DEF Models
    <3>. QED
      BY <1>1, <1>6, <1>7, <1>8, <3>1 DEF Sound, Finished
  <2>2. \A e \in Calls : Contains(model'.top, e) \/ e \in model'.ids => model'.state[e] # "absent"
    BY <1>1, <1>5, <1>6, <1>7 DEF Sound
  <2>3. \A k \in Item, e \in Calls : Contains(model'.kids[k], e) => e \in model'.ids
    BY <1>1, <1>7 DEF Sound
  <2>4. \A e \in Calls : model'.state[e] # "BUSY"
    BY <1>1, <1>6, <1>7 DEF Sound
  <2>. QED
    BY <1>7, <2>1, <2>2, <2>3, <2>4 DEF Sound
<1>10. daemon' = daemon /\ signals' = signals
  BY <1>2 DEF Silent
<1>11. MembersKnown' /\ DaemonOK' /\ signals' \in Seq(Said)
  BY <1>1, <1>10 DEF Inductive, MembersKnown, DaemonOK
<1>12. Registered'
  BY <1>2, <1>6, <1>7, <1>10 DEF Inductive, Registered
<1>13. EndsAreHeard'
  BY <1>7, <1>10 DEF Inductive, EndsAreHeard, HangUpOf
<1>14. Inductive'
  BY <1>9, <1>11, <1>12, <1>13 DEF Inductive, Sound, Finished
<1>15. AllShown(model) => AllShown(model')
  <2>1. \A e \in Calls : Shown(model, e) => Shown(model', e)
    BY <1>1, <1>5, <1>7, ShownMeans
  <2>2. Shown(model', c)
    BY <1>5, <1>7, ShownMeans
  <2>3. \A e \in Calls : e # c => (Live(model', e) <=> Live(model, e))
    BY <1>6, <1>7 DEF Live, Finished
  <2>. QED
    BY <2>1, <2>2, <2>3 DEF AllShown
<1>. QED
  BY <1>14, <1>15 DEF Keeps, RowsStay

LEMMA RegisterAllowed ==
  ASSUME NEW m, Sound(m), NEW c \in Calls, m.state[c] # "absent"
  PROVE  Allowed(m, [m EXCEPT !.ids = @ \cup {c}], {c})
<1>. DEFINE n == [m EXCEPT !.ids = @ \cup {c}]
<1>0. m \in Models /\ c \in Item
  BY DEF Sound, Item
<1>1. /\ n \in Models /\ n.state = m.state /\ n.kids = m.kids /\ n.ids = m.ids \cup {c} /\ n.top = m.top
      /\ n.history = m.history
  BY <1>0 DEF Models
<1>. HIDE DEF n
<1>2. Sound(n)
  BY <1>1 DEF Sound, Finished
<1>3. \A e \in Calls : Live(n, e) = Live(m, e) /\ (Shown(n, e) <=> Shown(m, e))
  BY <1>0, <1>1, ShownMeans DEF Live, Finished
<1>4. Allowed(m, n, {c})
  BY <1>1, <1>2, <1>3 DEF Allowed, Continues, AllShown
<1>. QED
  BY <1>4 DEF n

LEMMA PlaceCallKeeps ==
  ASSUME Inductive, NEW c \in Calls, placeCall(c)
  PROVE  Keeps
<1>. DEFINE placed == changeCurrentState(model, c, StateAfterAction("DIALING", "ACCEPT"))
            s == StateAfterAction("DIALING", "ACCEPT")
<1>1. /\ c \in Item /\ Sound(model) /\ signals \in Seq(Said)
  BY DEF Inductive, Item
<1>2. Shown(model, c) /\ LifeCycle(model.state[c]) = "CREATION"
  BY DEF placeCall, Creating
<1>3. s \in State /\ s # "BUSY" /\ Stays(model.state[c], s)
  BY <1>2 DEF StateAfterAction, State, Stays
<1>4. model.state[c] # "absent"
  BY <1>1, <1>2, ShownIsThere
<1>5. /\ \/ model' = [placed EXCEPT !.ids = @ \cup {c}] /\ Become(c, "connecting", signals, <<>>)
         \/ model' = changeCurrentState(placed, c, "ERROR") /\ Silent(signals)
         \/ model' = changeCurrentState(placed, c, "FAILURE") /\ Silent(signals)
  BY DEF placeCall
<1>6. Allowed(model, placed, {})
  <2>. HIDE DEF s
  <2>. QED
    BY <1>1, <1>3, <1>4, ChangeAllowed DEF s
<1>. HIDE DEF placed
<1>7. Sound(placed) /\ placed.state[c] # "absent"
  BY <1>4, <1>6 DEF Allowed, Continues
<1>8. CASE model' = [placed EXCEPT !.ids = @ \cup {c}] /\ Become(c, "connecting", signals, <<>>)
  <2>1. Allowed(placed, model', {c})
    BY <1>7, <1>8, RegisterAllowed
  <2>2. Allowed(model, model', {c})
    <3>1. {} \cup {c} = {c}
      OBVIOUS
    <3>. QED
      BY <1>6, <2>1, <3>1, AllowedTwice
  <2>3. "connecting" \in DaemonCall \ {"none", "over"} /\ <<>> \in Seq(Said)
    BY DEF DaemonCall
  <2>4. /\ Moves /\ daemon'.call = [daemon.call EXCEPT ![c] = "connecting"]
        /\ \A e : Contains(signals, e) => Contains(signals', e)
    BY <1>1, <1>8, <2>3, BecomeMoves
  <2>5. \A e \in Calls : daemon'.call[e] = IF e = c THEN "connecting" ELSE daemon.call[e]
    BY <2>4 DEF Inductive, DaemonOK
  <2>6. Continues(model, model', {c})
    BY <2>2 DEF Allowed
  <2>7. Inductive'
    BY <2>4, <2>5, <2>6, StepKeeps
  <2>. QED
    BY <2>2, <2>7 DEF Keeps, RowsStay, Allowed
<1>9. ASSUME NEW t \in {"ERROR", "FAILURE"}, model' = changeCurrentState(placed, c, t), Silent(signals)
      PROVE  Keeps
  <2>1. t \in State /\ t # "BUSY" /\ Stays(placed.state[c], t)
    BY <1>9, RemovedIsFinished DEF Stays
  <2>2. Allowed(placed, model', {})
    BY <1>1, <1>7, <1>9, <2>1, ChangeAllowed
  <2>3. Allowed(model, model', {})
    BY <1>6, <2>2, AllowedThen
  <2>. QED
    BY <1>9, <2>3, SilentIsQuiet, QuietKeeps
<1>. QED
  BY <1>5, <1>8, <1>9

LEMMA PickUpKeeps ==
  ASSUME Inductive, NEW c \in Calls, pickUp(c)
  PROVE  Keeps
<1>1. model' = model /\ DaemonAnswer(c, signals) /\ signals \in Seq(Said) /\ Sound(model)
  BY DEF pickUp, Inductive
<1>2. Quiet
  BY <1>1, AnswerMoves DEF Quiet
<1>. QED
  BY <1>1, <1>2, AllowedSame, QuietKeeps

\* Both ends of a call in the client: no live call is left without a row.
LEMMA EndAllowed ==
  ASSUME NEW m, Sound(m), NEW x \in Item, NEW s \in {"OVER", "ERROR"},
         x \in Calls => m.state[x] # "absent"
  PROVE  Allowed(m, changeCurrentState(m, x, s), {})
<1>1. s \in State /\ s # "BUSY" /\ \A old : Stays(old, s)
  BY RemovedIsFinished DEF Stays
<1>. QED
  BY <1>1, ChangeAllowed

LEMMA RefusedMoves ==
  ASSUME NEW s \in State \cup {"absent"}, s # "BUSY"
  PROVE  /\ StateAfterAction(s, "REFUSE") \in State /\ StateAfterAction(s, "REFUSE") # "BUSY"
         /\ Stays(s, StateAfterAction(s, "REFUSE")) \/ s = "absent"
BY DEF State, StateAfterAction, PlainState, Stays, LifeCycle, Talking, Transferring, Conferencing

LEMMA BusyMoves == StateAfterAction("BUSY", "REFUSE") \in State
BY DEF State, StateAfterAction, PlainState, Talking, Transferring, Conferencing

LEMMA HangUpKeeps ==
  ASSUME Inductive, NEW x \in Item, hangUp(x)
  PROVE  Keeps
<1>. DEFINE s == model.state[x]
            t == StateAfterAction(s, "REFUSE")
            m == changeCurrentState(model, x, t)
            f == CallbackOfAction(s, "REFUSE")
            there == x \in Known \/ (x \in Confs /\ daemon.members[x] # <<>>)
            end == IF f = "refuse" THEN "ERROR" ELSE "OVER"
<1>1. Sound(model) /\ model.state \in [Item -> State \cup {"absent"}] /\ s \in State \cup {"absent"}
  BY DEF Inductive, Sound, Models
<1>2. x \in Calls => s # "absent" /\ s # "BUSY"
  BY <1>1, ShownIsThere DEF hangUp, Sound
<1>3. t \in State /\ (x \in Calls => t # "BUSY" /\ Stays(s, t))
  <2>1. CASE s = "BUSY"
    BY <1>2, <2>1, BusyMoves
  <2>2. CASE s # "BUSY"
    BY <1>1, <1>2, <2>2, RefusedMoves
  <2>. QED
    BY <2>1, <2>2
<1>4. /\ \/ model' = m
         \/ model' = slotCallChanged(m, x)
         \/ model' = changeCurrentState(m, x, end)
      /\ Silent(signals) \/ DaemonHangUp(x)
  <2>1. CASE f = "nothing"
    BY <2>1 DEF hangUp
  <2>2. CASE f # "nothing"
    <3>1. /\ model' = CASE f = "remove" -> slotCallChanged(m, x)
                        [] f # "remove" /\ there -> m
                        [] OTHER -> changeCurrentState(m, x, end)
          /\ DaemonHangUp(x)
      BY <2>2 DEF hangUp
    <3>. HIDE DEF m, f, there, end
    <3>. QED
      BY <3>1
  <2>. QED
    BY <2>1, <2>2
<1>. HIDE DEF t
<1>5. Allowed(model, m, {})
  BY <1>1, <1>2, <1>3, ChangeAllowed
<1>. HIDE DEF m
<1>6. Sound(m) /\ (x \in Calls => m.state[x] # "absent")
  BY <1>2, <1>5 DEF Allowed, Continues
<1>7. Allowed(m, slotCallChanged(m, x), {}) /\ Allowed(m, changeCurrentState(m, x, end), {})
  BY <1>6, ToldAllowed, EndAllowed
<1>8. Allowed(model, model', {})
  BY <1>4, <1>5, <1>7, AllowedThen
<1>9. Quiet
  BY <1>4, SilentIsQuiet, HangUpIsQuiet
<1>. QED
  BY <1>8, <1>9, QuietKeeps

LEMMA AttendedTransferKeeps ==
  ASSUME Inductive, NEW c \in Calls, NEW d \in Calls, attendedTransfer(c, d)
  PROVE  Keeps
<1>. DEFINE m == changeCurrentState(model, c, "OVER")
            n == changeCurrentState(m, d, "OVER")
<1>1. Sound(model) /\ c \in Item /\ d \in Item
  BY DEF Inductive, Item
<1>2. model.state[c] # "absent" /\ model.state[d] # "absent"
  BY <1>1, ShownIsThere DEF attendedTransfer
<1>3. Allowed(model, m, {})
  BY <1>1, <1>2, EndAllowed
<1>. HIDE DEF m
<1>4. Sound(m) /\ m.state[d] # "absent"
  BY <1>2, <1>3 DEF Allowed, Continues
<1>5. Allowed(m, n, {})
  BY <1>1, <1>4, EndAllowed
<1>6. model' = n /\ Silent(signals)
  BY DEF attendedTransfer, n, m
<1>7. Allowed(model, model', {})
  BY <1>3, <1>5, <1>6, AllowedThen
<1>. QED
  BY <1>6, <1>7, SilentIsQuiet, QuietKeeps

LEMMA TransferKeeps ==
  ASSUME Inductive, NEW c \in Calls, transfer(c)
  PROVE  Keeps
<1>. DEFINE m == changeCurrentState(model, c, "TRANSFERRED")
            n == changeCurrentState(m, c, "OVER")
<1>1. Sound(model) /\ c \in Item
  BY DEF Inductive, Item
<1>2. model.state[c] # "absent" /\ model.state[c] \in {"CURRENT", "HOLD"}
  BY <1>1, ShownIsThere DEF transfer, Offered
<1>3. "TRANSFERRED" \in State /\ Stays(model.state[c], "TRANSFERRED")
  BY <1>2 DEF State, Stays, LifeCycle, Talking, Transferring, Conferencing
<1>4. Allowed(model, m, {})
  BY <1>1, <1>2, <1>3, ChangeAllowed
<1>. HIDE DEF m
<1>5. Sound(m) /\ m.state[c] # "absent"
  BY <1>2, <1>4 DEF Allowed, Continues
<1>6. Allowed(m, n, {})
  BY <1>1, <1>5, EndAllowed
<1>7. model' = n /\ Silent(signals)
  BY DEF transfer, n, m
<1>8. Allowed(model, model', {})
  BY <1>4, <1>6, <1>7, AllowedThen
<1>. QED
  BY <1>7, <1>8, SilentIsQuiet, QuietKeeps

-----------------------------------------------------------------------------
(* Conferences: the client asks, the daemon does.                           *)

LEMMA AskKeeps ==
  ASSUME Inductive, NEW c, NEW members \in [Confs -> Seq(Calls)], NEW q \in Seq(Said),
         Ask(c, members, q),
         \A k \in Confs, e \in Calls : Contains(members[k], e) =>
           daemon.call[e] # "none" \/ \E l \in Confs : Contains(daemon.members[l], e)
  PROVE  Keeps
<1>1. model' = model /\ Daemon(daemon.call, members, signals, q) /\ Sound(model)
  BY DEF Ask, Inductive
<1>. QED
  BY <1>1, AskIsQuiet, AllowedSame, QuietKeeps

LEMMA CreateKeeps ==
  ASSUME Inductive, NEW c \in Calls, NEW d \in Calls, createJoinOrMergeConferenceFromCall(c, d)
  PROVE  Keeps
<1>1. /\ daemon.members \in [Confs -> Seq(Calls)]
      /\ daemon.call[c] # "none" /\ daemon.call[d] # "none"
  BY DEF Inductive, DaemonOK, createJoinOrMergeConferenceFromCall, Talks
<1>2. PICK k \in Confs : Ask(c, [daemon.members EXCEPT ![k] = <<c, d>>], Say(k, "conferenceCreated"))
  BY DEF createJoinOrMergeConferenceFromCall
<1>. DEFINE both == <<c, d>>
            members == [daemon.members EXCEPT ![k] = both]
<1>3. both \in Seq(Calls) /\ \A e : Contains(both, e) => e = c \/ e = d
  BY DEF Contains
<1>4. Ask(c, members, Say(k, "conferenceCreated"))
  BY <1>2
<1>. HIDE DEF both
<1>5. members \in [Confs -> Seq(Calls)] /\ \A l \in Confs : members[l] = IF l = k THEN both ELSE daemon.members[l]
  BY <1>1, <1>3
<1>. HIDE DEF members
<1>6. \A l \in Confs, e \in Calls : Contains(members[l], e) =>
        daemon.call[e] # "none" \/ \E o \in Confs : Contains(daemon.members[o], e)
  BY <1>1, <1>3, <1>5
<1>7. Say(k, "conferenceCreated") \in Seq(Said)
  BY ConferenceSaid DEF ConferenceSignal
<1>. QED
  BY <1>4, <1>5, <1>6, <1>7, AskKeeps

LEMMA AddParticipantKeeps ==
  ASSUME Inductive, NEW c \in Calls, NEW k \in Confs, addParticipant(c, k)
  PROVE  Keeps
<1>1. DaemonOK /\ daemon.call[c] # "none"
  BY DEF Inductive, addParticipant, Talks
<1>2. PICK q \in Leaving(c) :
        Ask(c, [Without(c) EXCEPT ![k] = Append(@, c)], q \o Say(k, "conferenceChanged"))
  BY DEF addParticipant
<1>. DEFINE members == [Without(c) EXCEPT ![k] = Append(Without(c)[k], c)]
<1>3. /\ Without(c) \in [Confs -> Seq(Calls)]
      /\ \A l \in Confs, e \in Calls : Contains(Without(c)[l], e) => Contains(daemon.members[l], e)
  BY <1>1, WithoutHas
<1>4. Ask(c, members, q \o Say(k, "conferenceChanged"))
  BY <1>2, <1>3
<1>5. /\ Append(Without(c)[k], c) \in Seq(Calls)
      /\ \A e : Contains(Append(Without(c)[k], c), e) <=> Contains(Without(c)[k], e) \/ e = c
  BY <1>3, AppendHas
<1>6. /\ members \in [Confs -> Seq(Calls)]
      /\ \A l \in Confs : members[l] = IF l = k THEN Append(Without(c)[k], c) ELSE Without(c)[l]
  BY <1>3, <1>5
<1>. HIDE DEF members
<1>7. \A l \in Confs, e \in Calls : Contains(members[l], e) =>
        daemon.call[e] # "none" \/ \E o \in Confs : Contains(daemon.members[o], e)
  BY <1>1, <1>3, <1>5, <1>6
<1>8. q \o Say(k, "conferenceChanged") \in Seq(Said)
  <2>1. q \in Seq(Said) /\ Say(k, "conferenceChanged") \in Seq(Said)
    BY LeavingIsSaid, ConferenceSaid DEF ConferenceSignal
  <2>. QED
    BY <2>1, ConcatHas
<1>. QED
  BY <1>4, <1>6, <1>7, <1>8, AskKeeps

LEMMA DetachKeeps ==
  ASSUME Inductive, NEW c \in Calls, detachParticipant(c)
  PROVE  Keeps
<1>1. DaemonOK
  BY DEF Inductive
<1>2. PICK q \in Leaving(c) : Ask(c, Without(c), q)
  BY DEF detachParticipant
<1>3. /\ Without(c) \in [Confs -> Seq(Calls)]
      /\ \A l \in Confs, e \in Calls : Contains(Without(c)[l], e) => Contains(daemon.members[l], e)
  BY <1>1, WithoutHas
<1>4. q \in Seq(Said)
  BY LeavingIsSaid
<1>. QED
  BY <1>2, <1>3, <1>4, AskKeeps

LEMMA MergeKeeps ==
  ASSUME Inductive, NEW k \in Confs, NEW l \in Confs, mergeConferences(k, l)
  PROVE  Keeps
<1>1. daemon.members \in [Confs -> Seq(Calls)] /\ k # l
  BY DEF Inductive, DaemonOK, mergeConferences
<1>2. PICK p \in EndOfConference(k) : \E q \in EitherOrder(p, Say(l, "conferenceChanged")) :
        Ask(k, [daemon.members EXCEPT ![k] = <<>>, ![l] = @ \o daemon.members[k]], q)
  BY DEF mergeConferences
<1>3. PICK q \in EitherOrder(p, Say(l, "conferenceChanged")) :
        Ask(k, [daemon.members EXCEPT ![k] = <<>>, ![l] = @ \o daemon.members[k]], q)
  BY <1>2
<1>. DEFINE all == daemon.members[l] \o daemon.members[k]
            members == [daemon.members EXCEPT ![k] = <<>>, ![l] = all]
<1>4. Ask(k, members, q)
  BY <1>1, <1>3
<1>5. /\ all \in Seq(Calls)
      /\ \A e : Contains(all, e) <=> Contains(daemon.members[l], e) \/ Contains(daemon.members[k], e)
  BY <1>1, ConcatHas
<1>. HIDE DEF all
<1>6. <<>> \in Seq(Calls) /\ \A e : ~Contains(<<>>, e)
  BY DEF Contains
<1>7. /\ members \in [Confs -> Seq(Calls)]
      /\ \A o \in Confs : members[o] = IF o = l THEN all ELSE IF o = k THEN <<>> ELSE daemon.members[o]
  BY <1>1, <1>5, <1>6
<1>. HIDE DEF members
<1>8. \A o \in Confs, e \in Calls : Contains(members[o], e) =>
        daemon.call[e] # "none" \/ \E r \in Confs : Contains(daemon.members[r], e)
  BY <1>5, <1>6, <1>7
<1>9. q \in Seq(Said)
  <2>1. p \in Seq(Said) /\ Say(l, "conferenceChanged") \in Seq(Said)
    BY EndsAreSaid, ConferenceSaid DEF ConferenceSignal
  <2>. QED
    BY <2>1, EitherIsSaid
<1>. QED
  BY <1>4, <1>7, <1>8, <1>9, AskKeeps

LEMMA UserStepKeeps ==
  ASSUME Inductive, UserStep
  PROVE  Keeps
BY DialingKeeps, PlaceCallKeeps, PickUpKeeps, TransferKeeps, DetachKeeps, HangUpKeeps,
   AttendedTransferKeeps, CreateKeeps, AddParticipantKeeps, MergeKeeps DEF UserStep

-----------------------------------------------------------------------------
(* The event loop.                                                          *)

LEMMA QueueHas ==
  ASSUME NEW s \in Seq(Said), s # <<>>
  PROVE  /\ Head(s) \in Said /\ Tail(s) \in Seq(Said)
         /\ \A e : Contains(s, e) => e = Head(s) \/ Contains(Tail(s), e)
<1>1. /\ Len(s) \in Nat /\ Len(s) > 0 /\ s[1] \in Said /\ Head(s) = s[1]
      /\ Tail(s) \in Seq(Said) /\ Len(Tail(s)) = Len(s) - 1
      /\ \A i \in 1 .. Len(s) - 1 : Tail(s)[i] = s[i + 1]
  BY HeadTailProperties, LenProperties, EmptySeq, ElementOfSeq
<1>2. ASSUME NEW e, Contains(s, e), e # Head(s) PROVE Contains(Tail(s), e)
  <2>1. PICK i \in 1 .. Len(s) : s[i] = e
    BY <1>2 DEF Contains
  <2>2. i - 1 \in 1 .. Len(s) - 1 /\ (i - 1) + 1 = i
    BY <1>1, <1>2, <2>1
  <2>3. Tail(s)[i - 1] = e
    BY <1>1, <2>1, <2>2
  <2>. QED
    BY <1>1, <2>2, <2>3 DEF Contains
<1>. QED
  BY <1>1, <1>2

LEMMA ListIsSeq ==
  ASSUME NEW S \in SUBSET Calls, NEW list \in SetToSeqs(S)
  PROVE  list \in Seq(Calls)
<1>1. IsFiniteSet(S)
  BY ConstantsAssumption, FS_Subset
<1>2. Cardinality(S) \in Nat
  BY <1>1, FS_CardinalityType
<1>3. list \in [1 .. Cardinality(S) -> S]
  BY DEF SetToSeqs
<1>. QED
  BY <1>2, <1>3

LEMMA AcceptedMoves ==
  ASSUME NEW s \in State, s # "BUSY"
  PROVE  /\ StateAfterAction(s, "ACCEPT") \in State /\ StateAfterAction(s, "ACCEPT") # "BUSY"
         /\ Stays(s, StateAfterAction(s, "ACCEPT"))
BY DEF State, StateAfterAction, Stays, LifeCycle, Talking, Transferring, Conferencing

\* What the delivery of a signal has to say of the model, and of the daemon.
LEMMA DeliveredKeeps ==
  ASSUME Inductive, signals # <<>>,
         NEW c \in Calls, DaemonAnswer(c, Tail(signals)) \/ Silent(Tail(signals)),
         NEW new \in SUBSET Known, Continues(model, model', new), RowsStay,
         \A e \in Calls : Head(signals) = HangUpOf(e) /\ e \in model.ids => e \in model'.history
  PROVE  Keeps
<1>1. /\ Tail(signals) \in Seq(Said)
      /\ \A e : Contains(signals, e) => e = Head(signals) \/ Contains(Tail(signals), e)
  BY QueueHas DEF Inductive
<1>2. /\ Moves
      /\ \A e \in Calls : /\ daemon.call[e] = "none" => daemon'.call[e] = "none"
                          /\ e \in Known => daemon'.call[e] \notin {"none", "over"}
      /\ \A e : Contains(Tail(signals), e) => Contains(signals', e)
  BY <1>1, AnswerMoves
<1>3. \A e \in Calls : e \in model.ids /\ Contains(signals, HangUpOf(e)) =>
         Contains(signals', HangUpOf(e)) \/ e \in model'.history
  BY <1>1, <1>2
<1>4. \A e \in Calls : e \in new => daemon'.call[e] \notin {"none", "over"}
  BY <1>2
<1>5. Inductive'
  BY <1>2, <1>3, <1>4, StepKeeps
<1>. QED
  BY <1>5 DEF Keeps

LEMMA IncomingCallKeeps ==
  ASSUME Inductive, signals # <<>>, NEW c \in Calls, Head(signals).name = "incomingCall",
         slotIncomingCall(model, c, Tail(signals))
  PROVE  Keeps
<1>. DEFINE added == IF c \in model.ids \/ c \notin Known THEN model ELSE addCall2(model, c, "INCOMING", TRUE)
            s == StateAfterAction(added.state[c], "ACCEPT")
            answered == changeCurrentState(added, c, s)
<1>1. Sound(model) /\ c \in Item
  BY DEF Inductive, Item
<1>2. PICK new \in SUBSET Known : Allowed(model, added, new)
  <2>1. CASE c \in model.ids \/ c \notin Known
    BY <1>1, <2>1, AllowedSame
  <2>2. CASE ~(c \in model.ids \/ c \notin Known)
    <3>1. "INCOMING" \in State
      BY DEF State
    <3>2. Allowed(model, addCall2(model, c, "INCOMING", TRUE), {c})
      BY <1>1, <2>2, <3>1, AddCallAllowed
    <3>. QED
      BY <2>2, <3>2
  <2>. QED
    BY <2>1, <2>2
<1>3. /\ \/ model' = answered /\ c \in added.ids
         \/ model' = added
      /\ DaemonAnswer(c, Tail(signals)) \/ Silent(Tail(signals))
  BY DEF slotIncomingCall
<1>. HIDE DEF added
<1>4. c \in added.ids => Allowed(added, answered, {})
  <2>. SUFFICES ASSUME c \in added.ids PROVE Allowed(added, answered, {})
    OBVIOUS
  <2>1. Sound(added)
    BY <1>2 DEF Allowed, Continues
  <2>2. added.state[c] \in State /\ added.state[c] # "BUSY" /\ added.state[c] # "absent"
    BY <1>1, <2>1 DEF Sound, Models
  <2>3. s \in State /\ s # "BUSY" /\ Stays(added.state[c], s)
    BY <2>2, AcceptedMoves
  <2>. HIDE DEF s
  <2>. QED
    BY <1>1, <2>1, <2>2, <2>3, ChangeAllowed
<1>. HIDE DEF answered
<1>5. Allowed(model, model', new)
  <2>1. CASE model' = added
    BY <1>2, <2>1
  <2>2. CASE model' = answered /\ c \in added.ids
    <3>1. new \cup {} = new
      OBVIOUS
    <3>. QED
      BY <1>2, <1>4, <2>2, <3>1, AllowedTwice
  <2>. QED
    BY <1>3, <2>1, <2>2
<1>6. \A e \in Calls : Head(signals) # HangUpOf(e)
  BY DEF HangUpOf
<1>7. Continues(model, model', new) /\ RowsStay
  BY <1>5 DEF Allowed, RowsStay
<1>. QED
  BY <1>3, <1>6, <1>7, DeliveredKeeps

LEMMA DeliverKeeps ==
  ASSUME Inductive, Deliver
  PROVE  Keeps
<1>. DEFINE x == Head(signals).about
            name == Head(signals).name
            rest == Tail(signals)
<1>1. /\ signals # <<>> /\ signals \in Seq(Said) /\ Sound(model)
      /\ daemon.members \in [Confs -> Seq(Calls)] /\ Calls \cap Confs = {}
  BY ConstantsAssumption DEF Deliver, Inductive, DaemonOK
<1>2. /\ Head(signals) \in Said /\ rest \in Seq(Said)
      /\ (x \in Calls /\ name \in CallSignal) \/ (x \in Confs /\ name \in ConferenceSignal)
      /\ CallSignal \cap ConferenceSignal = {}
  <2>1. Head(signals) \in Said /\ rest \in Seq(Said)
    BY <1>1, QueueHas
  <2>. QED
    BY <2>1 DEF Said, CallSignal, ConferenceSignal
<1>3. CASE name = "incomingCall"
  <2>1. x \in Calls
    BY <1>2, <1>3 DEF ConferenceSignal
  <2>2. slotIncomingCall(model, x, rest)
    BY <1>3 DEF Deliver
  <2>. QED
    BY <1>1, <1>3, <2>1, <2>2, IncomingCallKeeps
<1>4. CASE name # "incomingCall"
  <2>1. /\ CASE name = "conferenceCreated" -> model' = slotIncomingConference(model, x)
             [] name = "conferenceChanged" ->
                  \E callList \in SetToSeqs(Known) : model' = slotChangingConference(model, x, callList)
             [] name = "conferenceRemoved" -> model' = slotConferenceRemoved(model, x)
             [] OTHER -> model' = slotCallStateChanged(model, x, name)
        /\ Silent(rest)
    BY <1>4 DEF Deliver
  <2>2. daemon' = daemon
    BY <2>1 DEF Silent
  <2>3. ASSUME NEW new \in SUBSET Known, Continues(model, model', new), RowsStay,
               \A e \in Calls : Head(signals) = HangUpOf(e) /\ e \in model.ids => e \in model'.history
        PROVE  Keeps
    <3>1. CASE \E c : c \in Calls
      BY <1>1, <2>1, <2>3, <3>1, DeliveredKeeps
    <3>2. CASE ~\E c : c \in Calls
      <4>1. /\ Moves
        BY <1>1, <1>2, <2>1, SilentMoves DEF Inductive
      <4>2. Inductive'
        BY <2>3, <3>2, <4>1, StepKeeps
      <4>. QED
        BY <2>3, <4>2 DEF Keeps
    <3>. QED
      BY <3>1, <3>2
  <2>4. ASSUME name \in CallSignal PROVE Keeps
    <3>1. x \in Calls
      BY <1>2, <2>4
    <3>2. model' = slotCallStateChanged(model, x, name)
      BY <2>1, <2>4 DEF CallSignal
    <3>3. /\ \E new \in SUBSET Known : Allowed(model, model', new)
          /\ name = "HUNGUP" /\ x \in model.ids => x \in model'.history
      BY <1>1, <2>4, <3>1, <3>2, CallSlotAllowed
    <3>4. \A e \in Calls : Head(signals) = HangUpOf(e) /\ e \in model.ids => e \in model'.history
      BY <3>3 DEF HangUpOf
    <3>. QED
      BY <2>3, <3>3, <3>4 DEF Allowed, RowsStay
  <2>5. ASSUME name \in ConferenceSignal PROVE Keeps
    <3>1. x \in Confs /\ daemon.members[x] \in Seq(Calls)
      BY <1>1, <1>2, <2>5
    <3>2. \A e \in Calls : Head(signals) # HangUpOf(e)
      BY <2>5 DEF HangUpOf, ConferenceSignal
    <3>3. Continues(model, model', {}) /\ RowsStay
      <4>1. CASE name = "conferenceCreated"
        <5>1. model' = slotIncomingConference(model, x)
          BY <2>1, <4>1
        <5>2. Allowed(model, model', {})
          BY <1>1, <3>1, <5>1, AllowedSame, AddConferenceAllowed DEF slotIncomingConference
        <5>. QED
          BY <5>2 DEF Allowed, RowsStay
      <4>2. CASE name = "conferenceRemoved"
        <5>1. model' = slotConferenceRemoved(model, x)
          BY <2>1, <4>2
        <5>2. Allowed(model, model', {})
          BY <1>1, <3>1, <5>1, ConferenceRemovedAllowed
        <5>. QED
          BY <5>2 DEF Allowed, RowsStay
      <4>3. CASE name = "conferenceChanged"
        <5>1. PICK callList \in SetToSeqs(Known) : model' = slotChangingConference(model, x, callList)
          BY <2>1, <4>3
        <5>2. callList \in Seq(Calls)
          BY ListIsSeq DEF Known
        <5>3. /\ Continues(model, model', {})
              /\ Filed(model') \/ Confs = {x} => Allowed(model, model', {})
          BY <1>1, <3>1, <5>1, <5>2, ChangingContinues
        <5>4. Filed(model)' => Filed(model')
          BY <2>2 DEF Filed, ConferencesOf
        <5>5. \A k : Confs = {k} => k = x
          BY <3>1
        <5>. QED
          BY <5>3, <5>4, <5>5 DEF Allowed, RowsStay
      <4>. QED
        BY <2>5, <4>1, <4>2, <4>3 DEF ConferenceSignal
    <3>. QED
      BY <2>3, <3>2, <3>3
  <2>. QED
    BY <1>2, <2>4, <2>5
<1>. QED
  BY <1>3, <1>4

LEMMA NextKeeps ==
  ASSUME Inductive, [Next]_vars
  PROVE  Keeps
<1>1. CASE Next
  BY <1>1, UserStepKeeps, DeliverKeeps, DaemonStepKeeps DEF Next
<1>2. CASE UNCHANGED vars
  <2>1. model' = model /\ daemon' = daemon /\ signals' = signals
    BY <1>2 DEF vars
  <2>2. Inductive'
    BY <2>1 DEF Inductive, DaemonOK, MembersKnown, Registered, EndsAreHeard, HangUpOf
  <2>. QED
    BY <2>1, <2>2 DEF Keeps, RowsStay
<1>. QED
  BY <1>1, <1>2

-----------------------------------------------------------------------------
(* The start.                                                               *)

\* Calls that have been loaded: those the daemon has, and each has a row.
Loaded(n, done) ==
  /\ Sound(n) /\ AllShown(n) /\ n.history = {}
  /\ \A c \in Calls : n.state[c] # "absent" => c \in n.ids
  /\ \A c \in Calls : c \in n.ids => c \in done /\ c \in Known

LEMMA BlankIsLoaded == Loaded(Blank, {})
<1>1. /\ Blank \in Models /\ \A x \in Item : Blank.kids[x] = <<>> /\ Blank.state[x] = "absent"
      /\ Blank.top = <<>> /\ Blank.ids = {} /\ Blank.history = {}
  BY DEF Blank, Models
<1>2. \A e : ~Contains(<<>>, e)
  BY DEF Contains
<1>3. Calls \subseteq Item
  BY DEF Item
<1>. HIDE DEF Blank
<1>4. Sound(Blank)
  BY <1>1, <1>2, <1>3 DEF Sound
<1>5. AllShown(Blank)
  BY <1>1, <1>3 DEF AllShown, Live
<1>. QED
  BY <1>1, <1>3, <1>4, <1>5 DEF Loaded

LEMMA LoadingLoads ==
  ASSUME NEW list \in Seq(Calls),
         \A i, j \in 1 .. Len(list) : i # j => list[i] # list[j]
  PROVE  Loaded(FoldLeft(addExistingCall, Blank, list), Calls)
<1>. DEFINE Done(i) == {list[j] : j \in 1 .. i}
            X == [i \in 0 .. Len(list) |-> {n \in Models : Loaded(n, Done(i))}]
            result == FoldLeft(addExistingCall, Blank, list)
<1>1. Len(list) \in Nat /\ \A i \in 1 .. Len(list) : list[i] \in Calls
  BY LenProperties, ElementOfSeq
<1>2. Blank \in X[0]
  <2>1. 0 \in 0 .. Len(list) /\ Done(0) = {}
    BY <1>1
  <2>. HIDE DEF Done
  <2>. QED
    BY <2>1, BlankIsLoaded DEF Loaded, Sound
<1>3. ASSUME NEW i \in 1 .. Len(list), NEW n \in X[i - 1]
      PROVE  addExistingCall(n, list[i]) \in X[i]
  <2>. DEFINE c == list[i]
              o == addExistingCall(n, c)
  <2>1. i - 1 \in 0 .. Len(list) /\ i \in 0 .. Len(list) /\ c \in Calls
    BY <1>1
  <2>2. n \in Models /\ Loaded(n, Done(i - 1))
    BY <2>1
  <2>3. c \notin Done(i - 1)
    <3>1. \A j \in 1 .. i - 1 : j \in 1 .. Len(list) /\ j # i
      BY <1>1
    <3>. QED
      BY <3>1
  <2>4. \A e : e \in Done(i) <=> e \in Done(i - 1) \/ e = c
    <3>1. \A j : j \in 1 .. i <=> j \in 1 .. i - 1 \/ j = i
      BY <1>1
    <3>. QED
      BY <3>1
  <2>. HIDE DEF Done, c
  <2>5. Sound(n) /\ c \notin n.ids
    BY <2>1, <2>2, <2>3 DEF Loaded
  <2>6. CASE c \in Known
    <3>1. StartState(daemon.call[c]) \in State /\ StartState(daemon.call[c]) # "BUSY"
      BY DEF StartState, State
    <3>2. o = addCall2(n, c, StartState(daemon.call[c]), TRUE)
      BY <2>6 DEF addExistingCall
    <3>3. o.history = n.history
      BY <2>2, <3>2 DEF addCall2, Models
    <3>4. Allowed(n, o, {c})
      BY <2>1, <2>5, <3>1, <3>2, AddCallAllowed
    <3>. HIDE DEF o
    <3>5. Loaded(o, Done(i))
      BY <2>2, <2>4, <2>6, <3>3, <3>4 DEF Loaded, Allowed, Continues
    <3>. QED
      BY <2>1, <3>5 DEF o, c, Loaded, Sound
  <2>7. CASE c \notin Known
    <3>1. o = n
      BY <2>7 DEF addExistingCall
    <3>2. Loaded(n, Done(i))
      BY <2>2, <2>4 DEF Loaded
    <3>. QED
      BY <2>1, <2>2, <3>1, <3>2 DEF o, c
  <2>. QED
    BY <2>6, <2>7
<1>. HIDE DEF X, Done
<1>4. result \in X[Len(list)]
  BY <1>2, <1>3, LoadingStays
<1>. HIDE DEF result
<1>5. Loaded(result, Done(Len(list)))
  BY <1>1, <1>4 DEF X
<1>. QED
  BY <1>5 DEF Loaded, result

LEMMA InitHolds ==
  ASSUME Init
  PROVE  Inductive /\ AllShown(model)
<1>1. PICK talking \in SUBSET Calls, k \in Confs, together \in BOOLEAN :
        \E there \in SetToSeqs(talking) :
          LET met == together /\ Len(there) > 1
          IN /\ daemon = [call |-> [c \in Calls |-> IF c \in talking THEN "current" ELSE "none"],
                          members |-> [l \in Confs |-> IF met /\ l = k THEN there ELSE <<>>],
                          used |-> IF met THEN {k} ELSE {}]
             /\ signals = <<>>
             /\ LET loaded == FoldLeft(addExistingCall, Blank, there)
                IN model = IF met THEN addConference(loaded, k) ELSE loaded
  BY DEF Init
<1>2. PICK there \in SetToSeqs(talking) :
        LET met == together /\ Len(there) > 1
        IN /\ daemon = [call |-> [c \in Calls |-> IF c \in talking THEN "current" ELSE "none"],
                        members |-> [l \in Confs |-> IF met /\ l = k THEN there ELSE <<>>],
                        used |-> IF met THEN {k} ELSE {}]
           /\ signals = <<>>
           /\ LET loaded == FoldLeft(addExistingCall, Blank, there)
              IN model = IF met THEN addConference(loaded, k) ELSE loaded
  BY <1>1
<1>. DEFINE met == together /\ Len(there) > 1
            loaded == FoldLeft(addExistingCall, Blank, there)
<1>3. /\ there \in Seq(Calls) /\ \A i \in 1 .. Len(there) : there[i] \in talking
      /\ \A i, j \in 1 .. Len(there) : i # j => there[i] # there[j]
  <2>1. IsFiniteSet(talking)
    BY ConstantsAssumption, FS_Subset
  <2>2. Cardinality(talking) \in Nat
    BY <2>1, FS_CardinalityType
  <2>3. /\ there \in [1 .. Cardinality(talking) -> talking]
        /\ \A i, j \in 1 .. Cardinality(talking) : i # j => there[i] # there[j]
    BY DEF SetToSeqs
  <2>4. there \in Seq(Calls) /\ Len(there) = Cardinality(talking)
    BY <2>2, <2>3
  <2>. QED
    BY <2>3, <2>4
<1>4. \A c \in Calls : Contains(there, c) => c \in talking
  BY <1>3 DEF Contains
<1>5. /\ \A c \in Calls : daemon.call[c] = IF c \in talking THEN "current" ELSE "none"
      /\ \A l \in Confs : daemon.members[l] = IF met /\ l = k THEN there ELSE <<>>
      /\ signals = <<>>
      /\ model = IF met THEN addConference(loaded, k) ELSE loaded
  BY <1>2
<1>6. DaemonOK
  <2>1. "current" \in DaemonCall /\ "none" \in DaemonCall /\ <<>> \in Seq(Calls)
    BY DEF DaemonCall
  <2>. QED
    BY <1>2, <1>3, <2>1 DEF DaemonOK
<1>7. MembersKnown
  <2>1. \A e : ~Contains(<<>>, e)
    BY DEF Contains
  <2>. QED
    BY <1>4, <1>5, <2>1 DEF MembersKnown
<1>8. signals \in Seq(Said)
  BY <1>5
<1>9. Loaded(loaded, Calls)
  BY <1>3, LoadingLoads
<1>. HIDE DEF loaded, met
<1>10. Allowed(loaded, model, {})
  <2>1. Sound(loaded)
    BY <1>9 DEF Loaded
  <2>2. daemon.members[k] \in Seq(Calls)
    BY <1>6 DEF DaemonOK
  <2>. QED
    BY <1>5, <2>1, <2>2, AllowedSame, AddConferenceAllowed
<1>11. Registered
  BY <1>9, <1>10 DEF Registered, Loaded, Allowed, Continues, Known
<1>12. EndsAreHeard
  BY <1>5 DEF EndsAreHeard
<1>. QED
  BY <1>6, <1>7, <1>8, <1>9, <1>10, <1>11, <1>12 DEF Inductive, Loaded, Allowed, Continues

-----------------------------------------------------------------------------
(* Theorems.                                                                *)

LEMMA AlwaysInductive == Spec => []Inductive
<1>1. Init => Inductive
  BY InitHolds
<1>2. Inductive /\ [Next]_vars => Inductive'
  BY NextKeeps DEF Keeps
<1>. QED
  BY <1>1, <1>2, PTL DEF Spec

\* Every field stays in its domain: each slot of callmodel.cpp, with all that its
\* signals set off, leaves a tree of calls and conferences.
THEOREM TypeCorrect == Spec => []TypeOK
<1>1. Inductive => TypeOK
  <2>1. Said \subseteq Message
    BY DEF Said, Message, CallSignal, ConferenceSignal, DaemonState, Item
  <2>2. Seq(Said) \subseteq Seq(Message)
    BY <2>1, SeqMonotonic
  <2>. QED
    BY <2>2 DEF Inductive, Sound, DaemonOK, TypeOK
<1>. QED
  BY <1>1, AlwaysInductive, PTL

\* A call in the history is over, and stays there; and once everything was heard
\* every call the client knew and the daemon has closed is in the history,
\* however the signals and the user's actions were interleaved.
THEOREM HistoryIsRight == Spec => []HistoryAgrees
<1>1. Inductive => HistoryAgrees
  <2>. SUFFICES ASSUME Inductive, NEW c \in Calls
                PROVE  /\ c \in model.history => Finished(model, c)
                       /\ Settled /\ model.state[c] # "absent" /\ daemon.call[c] = "over"
                            => c \in model.history
    BY DEF HistoryAgrees
  <2>1. c \in model.history => Finished(model, c)
    BY DEF Inductive, Sound
  <2>2. ASSUME Settled, model.state[c] # "absent", daemon.call[c] = "over"
        PROVE  c \in model.history
    <3>1. c \in model.ids
      BY <2>2 DEF Inductive, Registered
    <3>2. ~Contains(signals, HangUpOf(c))
      BY <2>2 DEF Settled, Contains
    <3>. QED
      BY <2>2, <3>1, <3>2 DEF Inductive, EndsAreHeard
  <2>. QED
    BY <2>1, <2>2
<1>. QED
  BY <1>1, AlwaysInductive, PTL

LEMMA ShownIsLive == AllShown(model) <=> LiveAreShown
BY DEF AllShown, LiveAreShown

\* With one conference at most a call that is not over never drops out of the tree:
\* not when it moves below the conference or out of it, when the conference
\* ends, nor when the search for finished conferences meets it on its way.
THEOREM LiveRowsOfOneConference ==
  ASSUME NEW k, Confs = {k}
  PROVE  Spec => []LiveAreShown
<1>1. Init => Inductive /\ AllShown(model)
  BY InitHolds
<1>2. Inductive /\ AllShown(model) /\ [Next]_vars => (Inductive /\ AllShown(model))'
  <2>. SUFFICES ASSUME Inductive, AllShown(model), [Next]_vars
                PROVE  Inductive' /\ AllShown(model')
    BY DEF AllShown, Live, Shown, Finished
  <2>. QED
    BY NextKeeps DEF Keeps, RowsStay
<1>3. Inductive /\ AllShown(model) => LiveAreShown
  BY ShownIsLive
<1>. QED
  BY <1>1, <1>2, <1>3, PTL DEF Spec

\* Every conference that the daemon has and the client knows has a row.
ConferencesHaveRows ==
  \A k \in Confs : k \in model.ids /\ daemon.members[k] # <<>> => Shown(model, k)

\* With any number of conferences the same holds as long as each conference that
\* the daemon has and the client knows has a row: only filing an orphan below a
\* conference that was removed, in slotChangingConference(), makes a call vanish.
THEOREM LiveRowsWhileConferencesHaveTheirs ==
  Spec /\ []ConferencesHaveRows => []LiveAreShown
<1>1. Init => Inductive /\ AllShown(model)
  BY InitHolds
<1>2. Inductive /\ AllShown(model) /\ ConferencesHaveRows' /\ [Next]_vars
        => (Inductive /\ AllShown(model))'
  <2>. SUFFICES ASSUME Inductive, AllShown(model), ConferencesHaveRows', [Next]_vars
                PROVE  Inductive' /\ AllShown(model')
    BY DEF AllShown, Live, Shown, Finished
  <2>1. Inductive' /\ RowsStay
    BY NextKeeps DEF Keeps
  <2>2. Filed(model)'
    <3>1. model' \in Models
      BY <2>1 DEF Inductive, Sound
    <3>2. \A k \in Confs : Shown(model', k) <=> Contains(model'.top, k)
      BY <3>1, ShownMeans
    <3>3. \A k \in Confs, c \in Calls : Contains(daemon'.members[k], c) => daemon'.members[k] # <<>>
      BY DEF Contains
    <3>. QED
      BY <3>2, <3>3 DEF ConferencesHaveRows, Filed, ConferencesOf, Shown
  <2>. QED
    BY <2>1, <2>2 DEF RowsStay
<1>3. Inductive /\ AllShown(model) => LiveAreShown
  BY ShownIsLive
<1>. QED
  BY <1>1, <1>2, <1>3, PTL DEF Spec
=============================================================================
