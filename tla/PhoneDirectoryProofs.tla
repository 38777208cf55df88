------------------------ MODULE PhoneDirectoryProofs ------------------------
(***************************************************************************)
(* What holds of the directory in every instance: the types, the sharing of *)
(* details between merged objects, the accounts of numbers, the answer to a *)
(* lookup made twice and, as long as nothing is merged, the list of popular *)
(* numbers.                                                                 *)
(*                                                                          *)
(* Every handler is a function from a book to a book, so the invariant is a *)
(* predicate of a book (Sound) and each operation has one lemma: it leads   *)
(* from a sound book to a sound book.  The loops of the handlers are folds; *)
(* FoldFacts is instantiated once for each of them.                         *)
(***************************************************************************)
EXTENDS PhoneDirectory, FiniteSetTheorems, SequenceTheorems, TLAPS

Filling == INSTANCE FoldFacts WITH
  Op <- LAMBDA uri, account, person, found, m : Visit(uri, account, person, found, m)
Merging == INSTANCE FoldFacts WITH
  Op <- LAMBDA m, account, unused, c, n : MergeWith(m, account, c, n)
Joining == INSTANCE FoldFacts WITH Op <- LAMBDA cm, unused1, unused2, c, n : MergeInto(cm, c, n)
Naming == INSTANCE FoldFacts WITH
  Op <- LAMBDA account, name, unused, c, cm : NameOne(c, cm, account, name)
Telling == INSTANCE FoldFacts WITH
  Op <- LAMBDA unused1, unused2, unused3, c, n : slotCallAdded(c, n)
Removing == INSTANCE FoldFacts WITH
  Op <- LAMBDA m, unused1, unused2, kept, x : IF x = m THEN kept ELSE Append(kept, x)

-----------------------------------------------------------------------------
(* The folds of the model.                                                  *)

\* fillDetails(): the numbers of a wrapper are visited.
LEMMA FillingStays ==
  ASSUME NEW E, NEW s \in Seq(E), NEW X, NEW bk, NEW uri, NEW account, NEW person,
         [book |-> bk, number |-> 0] \in X,
         \A c \in X : \A i \in DOMAIN s : Visit(uri, account, person, c, s[i]) \in X
  PROVE  fillDetails(bk, s, uri, account, person) \in X
<1>. DEFINE f == CHOOSE f : f = [t \in SUBSET DOMAIN s |->
                 IF t = {} THEN [book |-> bk, number |-> 0]
                 ELSE Visit(uri, account, person, f[t \ {Max(t)}], s[Max(t)])]
<1>1. fillDetails(bk, s, uri, account, person) = f[DOMAIN s]
  BY DEF fillDetails, FoldLeft, MapThenFoldSet
<1>2. \E h : Filling!IsFold(h, uri, account, person, [book |-> bk, number |-> 0], s)
  BY Filling!FoldExists
<1>3. \E h : h = [t \in SUBSET DOMAIN s |->
                 IF t = {} THEN [book |-> bk, number |-> 0]
                 ELSE Visit(uri, account, person, h[t \ {Max(t)}], s[Max(t)])]
  BY <1>2, Zenon DEF Filling!IsFold, Filling!Top, Max
<1>4. f = [t \in SUBSET DOMAIN s |->
                 IF t = {} THEN [book |-> bk, number |-> 0]
                 ELSE Visit(uri, account, person, f[t \ {Max(t)}], s[Max(t)])]
  BY <1>3, Zenon
<1>. HIDE DEF f
<1>5. Filling!IsFold(f, uri, account, person, [book |-> bk, number |-> 0], s)
  BY <1>4, Zenon DEF Filling!IsFold, Filling!Top, Max
<1>. DEFINE Y == [i \in 0 .. Len(s) |-> X]
<1>6. \A i \in 1 .. Len(s) : \A c \in Y[i - 1] : Visit(uri, account, person, c, s[i]) \in Y[i]
  OBVIOUS
<1>7. [book |-> bk, number |-> 0] \in Y[0] /\ Y[Len(s)] = X
  OBVIOUS
<1>. HIDE DEF Y
<1>8. f[DOMAIN s] \in Y[Len(s)]
  BY <1>5, <1>6, <1>7, Filling!FoldStays
<1>. QED
  BY <1>1, <1>7, <1>8

\* setAccount(): a number is merged with the duplicates of a wrapper.
LEMMA MergingStays ==
  ASSUME NEW E, NEW s \in Seq(E), NEW X, NEW b, NEW m, NEW account,
         b \in X,
         \A c \in X : \A i \in DOMAIN s : MergeWith(m, account, c, s[i]) \in X
  PROVE  MergeDuplicates(b, m, account, s) \in X
<1>. DEFINE f == CHOOSE f : f = [t \in SUBSET DOMAIN s |->
                 IF t = {} THEN b
                 ELSE MergeWith(m, account, f[t \ {Max(t)}], s[Max(t)])]
<1>1. MergeDuplicates(b, m, account, s) = f[DOMAIN s]
  BY DEF MergeDuplicates, FoldLeft, MapThenFoldSet
<1>2. \E h : Merging!IsFold(h, m, account, account, b, s)
  BY Merging!FoldExists
<1>3. \E h : h = [t \in SUBSET DOMAIN s |->
                 IF t = {} THEN b
                 ELSE MergeWith(m, account, h[t \ {Max(t)}], s[Max(t)])]
  BY <1>2, Zenon DEF Merging!IsFold, Merging!Top, Max
<1>4. f = [t \in SUBSET DOMAIN s |->
                 IF t = {} THEN b
                 ELSE MergeWith(m, account, f[t \ {Max(t)}], s[Max(t)])]
  BY <1>3, Zenon
<1>. HIDE DEF f
<1>5. Merging!IsFold(f, m, account, account, b, s)
  BY <1>4, Zenon DEF Merging!IsFold, Merging!Top, Max
<1>. DEFINE Y == [i \in 0 .. Len(s) |-> X]
<1>6. \A i \in 1 .. Len(s) : \A c \in Y[i - 1] : MergeWith(m, account, c, s[i]) \in Y[i]
  OBVIOUS
<1>7. b \in Y[0] /\ Y[Len(s)] = X
  OBVIOUS
<1>. HIDE DEF Y
<1>8. f[DOMAIN s] \in Y[Len(s)]
  BY <1>5, <1>6, <1>7, Merging!FoldStays
<1>. QED
  BY <1>1, <1>7, <1>8

\* slotRegisteredNameFound(): the numbers of a name are merged into one.
LEMMA JoiningStays ==
  ASSUME NEW E, NEW s \in Seq(E), NEW X, NEW b, NEW cm,
         b \in X,
         \A c \in X : \A i \in DOMAIN s : MergeInto(cm, c, s[i]) \in X
  PROVE  MergeNamed(b, cm, s) \in X
<1>. DEFINE f == CHOOSE f : f = [t \in SUBSET DOMAIN s |->
                 IF t = {} THEN b
                 ELSE MergeInto(cm, f[t \ {Max(t)}], s[Max(t)])]
<1>1. MergeNamed(b, cm, s) = f[DOMAIN s]
  BY DEF MergeNamed, FoldLeft, MapThenFoldSet
<1>2. \E h : Joining!IsFold(h, cm, cm, cm, b, s)
  BY Joining!FoldExists
<1>3. \E h : h = [t \in SUBSET DOMAIN s |->
                 IF t = {} THEN b
                 ELSE MergeInto(cm, h[t \ {Max(t)}], s[Max(t)])]
  BY <1>2, Zenon DEF Joining!IsFold, Joining!Top, Max
<1>4. f = [t \in SUBSET DOMAIN s |->
                 IF t = {} THEN b
                 ELSE MergeInto(cm, f[t \ {Max(t)}], s[Max(t)])]
  BY <1>3, Zenon
<1>. HIDE DEF f
<1>5. Joining!IsFold(f, cm, cm, cm, b, s)
  BY <1>4, Zenon DEF Joining!IsFold, Joining!Top, Max
<1>. DEFINE Y == [i \in 0 .. Len(s) |-> X]
<1>6. \A i \in 1 .. Len(s) : \A c \in Y[i - 1] : MergeInto(cm, c, s[i]) \in Y[i]
  OBVIOUS
<1>7. b \in Y[0] /\ Y[Len(s)] = X
  OBVIOUS
<1>. HIDE DEF Y
<1>8. f[DOMAIN s] \in Y[Len(s)]
  BY <1>5, <1>6, <1>7, Joining!FoldStays
<1>. QED
  BY <1>1, <1>7, <1>8

\* slotRegisteredNameFound(): the numbers of an address get the name.
LEMMA NamingStays ==
  ASSUME NEW E, NEW s \in Seq(E), NEW X, NEW b, NEW account, NEW address, NEW name,
         s = b.directory[<<address>>],
         b \in X,
         \A c \in X : \A i \in DOMAIN s : NameOne(c, s[i], account, name) \in X
  PROVE  slotRegisteredNameFound(b, account, address, name) \in X
<1>. DEFINE f == CHOOSE f : f = [t \in SUBSET DOMAIN s |->
                 IF t = {} THEN b
                 ELSE NameOne(f[t \ {Max(t)}], s[Max(t)], account, name)]
<1>1. slotRegisteredNameFound(b, account, address, name) = f[DOMAIN s]
  BY DEF slotRegisteredNameFound, FoldLeft, MapThenFoldSet
<1>2. \E h : Naming!IsFold(h, account, name, name, b, s)
  BY Naming!FoldExists
<1>3. \E h : h = [t \in SUBSET DOMAIN s |->
                 IF t = {} THEN b
                 ELSE NameOne(h[t \ {Max(t)}], s[Max(t)], account, name)]
  BY <1>2, Zenon DEF Naming!IsFold, Naming!Top, Max
<1>4. f = [t \in SUBSET DOMAIN s |->
                 IF t = {} THEN b
                 ELSE NameOne(f[t \ {Max(t)}], s[Max(t)], account, name)]
  BY <1>3, Zenon
<1>. HIDE DEF f
<1>5. Naming!IsFold(f, account, name, name, b, s)
  BY <1>4, Zenon DEF Naming!IsFold, Naming!Top, Max
<1>. DEFINE Y == [i \in 0 .. Len(s) |-> X]
<1>6. \A i \in 1 .. Len(s) : \A c \in Y[i - 1] : NameOne(c, s[i], account, name) \in Y[i]
  OBVIOUS
<1>7. b \in Y[0] /\ Y[Len(s)] = X
  OBVIOUS
<1>. HIDE DEF Y
<1>8. f[DOMAIN s] \in Y[Len(s)]
  BY <1>5, <1>6, <1>7, Naming!FoldStays
<1>. QED
  BY <1>1, <1>7, <1>8

\* callAdded(): every object that shares the details is told.
LEMMA TellingStays ==
  ASSUME NEW E, NEW s \in Seq(E), NEW X, NEW b, NEW m,
         s = b.parents[b.d[m]],
         b \in X,
         \A c \in X : \A i \in DOMAIN s : slotCallAdded(c, s[i]) \in X
  PROVE  TellParents(b, m) \in X
<1>. DEFINE f == CHOOSE f : f = [t \in SUBSET DOMAIN s |->
                 IF t = {} THEN b
                 ELSE slotCallAdded(f[t \ {Max(t)}], s[Max(t)])]
<1>1. TellParents(b, m) = f[DOMAIN s]
  BY DEF TellParents, FoldLeft, MapThenFoldSet
<1>2. \E h : Telling!IsFold(h, b, b, b, b, s)
  BY Telling!FoldExists
<1>3. \E h : h = [t \in SUBSET DOMAIN s |->
                 IF t = {} THEN b
                 ELSE slotCallAdded(h[t \ {Max(t)}], s[Max(t)])]
  BY <1>2, Zenon DEF Telling!IsFold, Telling!Top, Max
<1>4. f = [t \in SUBSET DOMAIN s |->
                 IF t = {} THEN b
                 ELSE slotCallAdded(f[t \ {Max(t)}], s[Max(t)])]
  BY <1>3, Zenon
<1>. HIDE DEF f
<1>5. Telling!IsFold(f, b, b, b, b, s)
  BY <1>4, Zenon DEF Telling!IsFold, Telling!Top, Max
<1>. DEFINE Y == [i \in 0 .. Len(s) |-> X]
<1>6. \A i \in 1 .. Len(s) : \A c \in Y[i - 1] : slotCallAdded(c, s[i]) \in Y[i]
  OBVIOUS
<1>7. b \in Y[0] /\ Y[Len(s)] = X
  OBVIOUS
<1>. HIDE DEF Y
<1>8. f[DOMAIN s] \in Y[Len(s)]
  BY <1>5, <1>6, <1>7, Telling!FoldStays
<1>. QED
  BY <1>1, <1>7, <1>8

\* removeAll(): the elements that are kept.
LEMMA RemovingStays ==
  ASSUME NEW E, NEW s \in Seq(E), NEW X, NEW m,
         <<>> \in X[0],
         \A i \in 1 .. Len(s) : \A c \in X[i - 1] : (IF s[i] = m THEN c ELSE Append(c, s[i])) \in X[i]
  PROVE  Without(s, m) \in X[Len(s)]
<1>. DEFINE f == CHOOSE f : f = [t \in SUBSET DOMAIN s |->
                 IF t = {} THEN <<>>
                 ELSE (IF s[Max(t)] = m THEN f[t \ {Max(t)}] ELSE Append(f[t \ {Max(t)}], s[Max(t)]))]
<1>1. Without(s, m) = f[DOMAIN s]
  BY DEF Without, FoldLeft, MapThenFoldSet
<1>2. \E h : Removing!IsFold(h, m, m, m, <<>>, s)
  BY Removing!FoldExists
<1>3. \E h : h = [t \in SUBSET DOMAIN s |->
                 IF t = {} THEN <<>>
                 ELSE (IF s[Max(t)] = m THEN h[t \ {Max(t)}] ELSE Append(h[t \ {Max(t)}], s[Max(t)]))]
  BY <1>2, Zenon DEF Removing!IsFold, Removing!Top, Max
<1>4. f = [t \in SUBSET DOMAIN s |->
                 IF t = {} THEN <<>>
                 ELSE (IF s[Max(t)] = m THEN f[t \ {Max(t)}] ELSE Append(f[t \ {Max(t)}], s[Max(t)]))]
  BY <1>3, Zenon
<1>. HIDE DEF f
<1>5. Removing!IsFold(f, m, m, m, <<>>, s)
  BY <1>4, Zenon DEF Removing!IsFold, Removing!Top, Max
<1>6. f[DOMAIN s] \in X[Len(s)]
  BY <1>5, Removing!FoldStays
<1>. QED
  BY <1>1, <1>6

-----------------------------------------------------------------------------
(* The invariant.                                                           *)

\* The details of an object list it, nothing else does, and what is not created
\* yet is on its own.
Proxies(b) ==
  /\ \A m \in Known(b) : b.d[m] \in Known(b)
  /\ \A m \in Known(b) : \E i \in DOMAIN b.parents[b.d[m]] : b.parents[b.d[m]][i] = m
  /\ \A m \in Number \ Known(b) : b.d[m] = m
  /\ \A e \in Number : \A i \in DOMAIN b.parents[e] :
       b.parents[e][i] \in Known(b) /\ b.d[b.parents[e][i]] = e
  /\ \A e \in Number : \A i, j \in DOMAIN b.parents[e] :
       b.parents[e][i] = b.parents[e][j] => i = j

\* The directory and the list of popular numbers hold numbers that exist.
Filed(b) == \A u \in Uri : \A i \in DOMAIN b.directory[u] : b.directory[u][i] \in Known(b)
Listed(b) == \A i \in DOMAIN b.popular : b.popular[i] \in Known(b)

\* The index of a number is its place, unless some number was ever merged: the
\* details it left are then used by nobody, and never again.
Alone(b) == \A m \in Known(b) : b.d[m] = m
Placed(b) ==
  /\ \A i \in DOMAIN b.popular : b.details[b.popular[i]].popularity = i
  /\ \A m \in Known(b) :
       b.details[m].popularity = 0 \/ \E i \in DOMAIN b.popular : b.popular[i] = m
Abandoned(b) == \E e \in Known(b) : \A m \in Known(b) : b.d[m] # e
Ranked(b) == (Alone(b) /\ Placed(b)) \/ Abandoned(b)

Sound(b) == b \in Book /\ Proxies(b) /\ Filed(b) /\ Listed(b) /\ Ranked(b)

\* Details keep the account they have.  A step also keeps the account of every
\* object that has one, or changes none at all, or loses some by merging.
DetailsKeep(b, c) ==
  \A e \in Known(b) :
    b.details[e].account # None => c.details[e].account = b.details[e].account
KeepsAccounts(b, c) ==
  /\ \A m \in Known(b) : Of(b, m).account # None => Of(c, m).account = Of(b, m).account
  /\ DetailsKeep(b, c)
SameAccounts(b, c) ==
  /\ \A m \in Known(b) : Of(c, m).account = Of(b, m).account
  /\ DetailsKeep(b, c)
LosesAccounts(b, c) ==
  /\ \A m \in Known(b) :
       Of(b, m).account # None => Of(c, m).account \in {None, Of(b, m).account}
  /\ DetailsKeep(b, c)

\* What an operation that creates no number leaves.
Follows(b, c) == Sound(c) /\ c.size = b.size /\ KeepsAccounts(b, c)

-----------------------------------------------------------------------------
(* Sequences and numbers.                                                   *)

Once(s) == \A i, j \in DOMAIN s : s[i] = s[j] => i = j

\* removeAll() leaves the other elements, each as often as before.
LEMMA WithoutKeeps ==
  ASSUME NEW s \in Seq(Number), NEW m, Once(s)
  PROVE  /\ Without(s, m) \in Seq(Number)
         /\ \A j \in DOMAIN Without(s, m) :
              Without(s, m)[j] # m /\ \E k \in DOMAIN s : s[k] = Without(s, m)[j]
         /\ \A k \in DOMAIN s :
              s[k] # m => \E j \in DOMAIN Without(s, m) : Without(s, m)[j] = s[k]
         /\ Once(Without(s, m))
<1>. DEFINE Kept(i, t) ==
              /\ \A j \in DOMAIN t : t[j] # m /\ \E k \in 1 .. i : s[k] = t[j]
              /\ \A k \in 1 .. i : s[k] # m => \E j \in DOMAIN t : t[j] = s[k]
              /\ Once(t)
            X == [i \in 0 .. Len(s) |-> {t \in Seq(Number) : Kept(i, t)}]
<1>1. Len(s) \in Nat /\ DOMAIN s = 1 .. Len(s)
  OBVIOUS
<1>2. <<>> \in X[0]
  BY <1>1 DEF Once
<1>3. ASSUME NEW i \in 1 .. Len(s), NEW t \in X[i - 1]
      PROVE  (IF s[i] = m THEN t ELSE Append(t, s[i])) \in X[i]
  <2>1. t \in Seq(Number) /\ Kept(i - 1, t) /\ i \in 0 .. Len(s) /\ i - 1 \in 0 .. Len(s)
    BY <1>1
  <2>2. s[i] \in Number /\ \A k \in 1 .. i : k = i \/ k \in 1 .. i - 1
    BY <1>1
  <2>3. CASE s[i] = m
    <3>1. Kept(i, t)
      BY <2>1, <2>2, <2>3
    <3>. QED
      BY <2>1, <2>3, <3>1
  <2>4. CASE s[i] # m
    <3>. DEFINE u == Append(t, s[i])
    <3>1. /\ u \in Seq(Number) /\ Len(u) = Len(t) + 1 /\ u[Len(t) + 1] = s[i]
          /\ \A j \in 1 .. Len(t) : u[j] = t[j]
          /\ Len(t) \in Nat /\ DOMAIN u = 1 .. Len(t) + 1 /\ DOMAIN t = 1 .. Len(t)
      BY <2>1, <2>2
    <3>. HIDE DEF u
    <3>2. \A j \in DOMAIN u : u[j] # m /\ \E k \in 1 .. i : s[k] = u[j]
      <4>. TAKE j \in DOMAIN u
      <4>1. CASE j = Len(t) + 1
        BY <3>1, <2>4, <4>1
      <4>2. CASE j \in 1 .. Len(t)
        BY <3>1, <2>1, <4>2
      <4>. QED
        BY <3>1, <4>1, <4>2
    <3>3. \A k \in 1 .. i : s[k] # m => \E j \in DOMAIN u : u[j] = s[k]
      <4>. TAKE k \in 1 .. i
      <4>1. CASE k = i
        BY <3>1, <4>1
      <4>2. CASE k \in 1 .. i - 1
        BY <3>1, <2>1, <4>2
      <4>. QED
        BY <2>2, <4>1, <4>2
    <3>4. \A j \in 1 .. Len(t) : t[j] # s[i]
      <4>. TAKE j \in 1 .. Len(t)
      <4>1. PICK k \in 1 .. i - 1 : s[k] = t[j]
        BY <2>1, <3>1
      <4>2. k \in DOMAIN s /\ i \in DOMAIN s /\ k # i
        BY <4>1, <1>1
      <4>. QED
        BY <4>1, <4>2 DEF Once
    <3>5. Once(u)
      <4>. SUFFICES ASSUME NEW j \in DOMAIN u, NEW k \in DOMAIN u, u[j] = u[k] PROVE j = k
        BY DEF Once
      <4>1. CASE j \in 1 .. Len(t) /\ k \in 1 .. Len(t)
        BY <2>1, <3>1, <4>1 DEF Once
      <4>2. CASE j = Len(t) + 1 \/ k = Len(t) + 1
        BY <3>1, <3>4, <4>2
      <4>. QED
        BY <3>1, <4>1, <4>2
    <3>6. Kept(i, u)
      BY <3>2, <3>3, <3>5
    <3>7. u \in X[i]
      BY <3>6, <3>1, <2>1
    <3>. QED
      BY <3>7, <2>4 DEF u
  <2>. QED
    BY <2>3, <2>4
<1>. HIDE DEF X
<1>4. Without(s, m) \in X[Len(s)]
  BY <1>2, <1>3, RemovingStays
<1>5. Without(s, m) \in Seq(Number) /\ Kept(Len(s), Without(s, m))
  BY <1>1, <1>4 DEF X
<1>. QED
  BY <1>1, <1>5

\* How often a number is in a list that has it at most once.
LEMMA CountOnce ==
  ASSUME NEW s \in Seq(Number), Once(s), NEW m
  PROVE  Cardinality({i \in 1 .. Len(s) : s[i] = m})
           = IF \E i \in DOMAIN s : s[i] = m THEN 1 ELSE 0
<1>1. DOMAIN s = 1 .. Len(s)
  OBVIOUS
<1>2. CASE \E i \in DOMAIN s : s[i] = m
  <2>1. PICK i \in DOMAIN s : s[i] = m
    BY <1>2
  <2>2. {j \in 1 .. Len(s) : s[j] = m} = {i}
    BY <1>1, <2>1 DEF Once
  <2>. QED
    BY <1>2, <2>2, FS_Singleton
<1>3. CASE ~\E i \in DOMAIN s : s[i] = m
  <2>1. {j \in 1 .. Len(s) : s[j] = m} = {}
    BY <1>1, <1>3
  <2>. QED
    BY <1>3, <2>1, FS_EmptySet
<1>. QED
  BY <1>2, <1>3

-----------------------------------------------------------------------------
(* Details that are written to.                                             *)

\* The parts of a book that are left alone when details are written.
SameBut(b, c) ==
  /\ c.size = b.size /\ c.d = b.d /\ c.parents = b.parents
  /\ c.directory = b.directory /\ c.keys = b.keys
  /\ c.popular = b.popular /\ c.broken = b.broken

Written(b, e, v) == [b EXCEPT !.details[e] = v]

LEMMA DetailsWritten ==
  ASSUME NEW b \in Book, NEW e \in Number, NEW v \in Details,
         NEW c, c = Written(b, e, v)
  PROVE  c \in Book /\ SameBut(b, c) /\ c.details = [b.details EXCEPT ![e] = v]
<1>1. /\ c.size = b.size /\ c.d = b.d /\ c.parents = b.parents
      /\ c.directory = b.directory /\ c.keys = b.keys
      /\ c.popular = b.popular /\ c.broken = b.broken
      /\ c.details = [b.details EXCEPT ![e] = v]
  BY DEF Book, Written
<1>2. c.details \in [Number -> Details]
  BY <1>1 DEF Book
<1>3. c \in Book
  BY <1>1, <1>2 DEF Book, Written
<1>. QED
  BY <1>1, <1>3 DEF SameBut

LEMMA BookParts ==
  ASSUME NEW b \in Book
  PROVE  /\ b.size \in 0 .. MaxNumbers /\ b.d \in [Number -> Number]
         /\ b.parents \in [Number -> Seq(Number)] /\ b.details \in [Number -> Details]
         /\ b.directory \in [Uri -> Seq(Number)] /\ b.keys \in SUBSET Uri
         /\ b.popular \in Seq(Number) /\ b.broken \in {"no", "popular", "directory"}
BY DEF Book

LEMMA KnownIsNumber ==
  ASSUME NEW b \in Book
  PROVE  \A m \in Known(b) : m \in Number /\ b.d[m] \in Number /\ Of(b, m) \in Details
BY BookParts, ContactMethodAssumption DEF Known, Number, Of

LEMMA SameProxies ==
  ASSUME NEW b, NEW c, c.size = b.size, c.d = b.d, c.parents = b.parents
  PROVE  /\ Proxies(b) => Proxies(c)
         /\ Known(c) = Known(b)
         /\ Alone(b) => Alone(c)
         /\ Abandoned(b) => Abandoned(c)
BY DEF Proxies, Known, Alone, Abandoned

\* Writing anything but the index of a number to its details.
LEMMA Retouched ==
  ASSUME NEW b, Sound(b), NEW e \in Number, NEW v \in Details,
         v.popularity = b.details[e].popularity,
         NEW c, c = Written(b, e, v)
  PROVE  /\ Sound(c) /\ SameBut(b, c)
         /\ \A m \in Known(b) : Of(c, m) = IF b.d[m] = e THEN v ELSE Of(b, m)
         /\ \A m \in Known(b) : c.details[m] = IF m = e THEN v ELSE b.details[m]
<1>1. c \in Book /\ SameBut(b, c) /\ c.details = [b.details EXCEPT ![e] = v]
  <2>1. b \in Book
    BY DEF Sound
  <2>. QED
    BY <2>1, DetailsWritten
<1>2. /\ Proxies(c) /\ Known(c) = Known(b)
      /\ Alone(b) => Alone(c)
      /\ Abandoned(b) => Abandoned(c)
  BY <1>1, SameProxies DEF Sound, SameBut
<1>3. Filed(c) /\ Listed(c)
  BY <1>1, <1>2 DEF Sound, SameBut, Filed, Listed
<1>4. \A m \in Number : c.details[m].popularity = b.details[m].popularity
  BY <1>1, BookParts DEF Sound
<1>5. Placed(b) => Placed(c)
  <2>1. \A m \in Known(b) : m \in Number
    BY KnownIsNumber DEF Sound
  <2>2. \A i \in DOMAIN b.popular : b.popular[i] \in Number
    BY <2>1 DEF Sound, Listed
  <2>. QED
    BY <1>1, <1>2, <1>4, <2>1, <2>2 DEF Placed, SameBut
<1>6. Ranked(c)
  BY <1>2, <1>5 DEF Sound, Ranked
<1>7. \A m \in Known(b) : Of(c, m) = IF b.d[m] = e THEN v ELSE Of(b, m)
  BY <1>1, KnownIsNumber, BookParts DEF Sound, Of, SameBut
<1>8. \A m \in Known(b) : c.details[m] = IF m = e THEN v ELSE b.details[m]
  BY <1>1, KnownIsNumber, BookParts DEF Sound
<1>. QED
  BY <1>1, <1>2, <1>3, <1>6, <1>7, <1>8 DEF Sound

\* setPerson(), setRegisteredName() and addCall() leave every account alone.
LEMMA SetPersonFollows ==
  ASSUME NEW b, Sound(b), NEW m \in Known(b), NEW p \in Persons \cup {None}
  PROVE  /\ Sound(setPerson(b, m, p)) /\ SameBut(b, setPerson(b, m, p))
         /\ SameAccounts(b, setPerson(b, m, p))
<1>. DEFINE v == [Of(b, m) EXCEPT !.person = p]
            c == setPerson(b, m, p)
<1>1. Of(b, m) \in Details /\ b.d[m] \in Number
  BY KnownIsNumber DEF Sound
<1>2. v \in Details /\ v.popularity = Of(b, m).popularity /\ v.account = Of(b, m).account
  BY <1>1 DEF Details
<1>3. c = Written(b, b.d[m], v)
  BY DEF setPerson, Of, Written
<1>. HIDE DEF v, c
<1>4. /\ Sound(c) /\ SameBut(b, c)
      /\ \A n \in Known(b) : Of(c, n) = IF b.d[n] = b.d[m] THEN v ELSE Of(b, n)
      /\ \A n \in Known(b) : c.details[n] = IF n = b.d[m] THEN v ELSE b.details[n]
  BY <1>1, <1>2, <1>3, Retouched DEF Of
<1>5. SameAccounts(b, c)
  BY <1>2, <1>4 DEF SameAccounts, DetailsKeep, Of
<1>. QED
  BY <1>4, <1>5 DEF c

LEMMA SetRegisteredNameFollows ==
  ASSUME NEW b, Sound(b), NEW m \in Known(b), NEW name \in Users
  PROVE  /\ Sound(setRegisteredName(b, m, name)) /\ SameBut(b, setRegisteredName(b, m, name))
         /\ SameAccounts(b, setRegisteredName(b, m, name))
<1>. DEFINE v == [Of(b, m) EXCEPT !.name = IF @ = None THEN name ELSE @]
            c == setRegisteredName(b, m, name)
<1>1. Of(b, m) \in Details /\ b.d[m] \in Number
  BY KnownIsNumber DEF Sound
<1>2. v \in Details /\ v.popularity = Of(b, m).popularity /\ v.account = Of(b, m).account
  BY <1>1 DEF Details
<1>3. c = Written(b, b.d[m], v)
  BY DEF setRegisteredName, Of, Written
<1>. HIDE DEF v, c
<1>4. /\ Sound(c) /\ SameBut(b, c)
      /\ \A n \in Known(b) : Of(c, n) = IF b.d[n] = b.d[m] THEN v ELSE Of(b, n)
      /\ \A n \in Known(b) : c.details[n] = IF n = b.d[m] THEN v ELSE b.details[n]
  BY <1>1, <1>2, <1>3, Retouched DEF Of
<1>5. SameAccounts(b, c)
  BY <1>2, <1>4 DEF SameAccounts, DetailsKeep, Of
<1>. QED
  BY <1>4, <1>5 DEF c

\* The counter of seconds wraps within its width.
LEMMA SecondsWrap ==
  ASSUME NEW x \in Int
  PROVE  ((x + Half) % Width) - Half \in -Half .. Half - 1
<1>1. Width = 2 * Half /\ Half \in Nat
  BY ContactMethodAssumption DEF Half
<1>2. (x + Half) % Width \in 0 .. Width - 1
  BY <1>1, ContactMethodAssumption
<1>. QED
  BY <1>1, <1>2

LEMMA AddCallFollows ==
  ASSUME NEW b, Sound(b), NEW m \in Known(b), NEW s \in Int
  PROVE  /\ Sound(addCall(b, m, s)) /\ SameBut(b, addCall(b, m, s))
         /\ SameAccounts(b, addCall(b, m, s))
<1>. DEFINE v == [Of(b, m) EXCEPT !.seconds = ((@ + s + Half) % Width) - Half]
            c == addCall(b, m, s)
<1>1. Of(b, m) \in Details /\ b.d[m] \in Number
  BY KnownIsNumber DEF Sound
<1>2. v \in Details /\ v.popularity = Of(b, m).popularity /\ v.account = Of(b, m).account
  <2>1. Half \in Nat
    BY ContactMethodAssumption DEF Half
  <2>2. Of(b, m).seconds + s \in Int
    BY <1>1, <2>1 DEF Details
  <2>3. ((Of(b, m).seconds + s + Half) % Width) - Half \in -Half .. Half - 1
    BY <2>2, SecondsWrap
  <2>. QED
    BY <1>1, <2>3 DEF Details
<1>3. c = Written(b, b.d[m], v)
  BY DEF addCall, Of, Written
<1>. HIDE DEF v, c
<1>4. /\ Sound(c) /\ SameBut(b, c)
      /\ \A n \in Known(b) : Of(c, n) = IF b.d[n] = b.d[m] THEN v ELSE Of(b, n)
      /\ \A n \in Known(b) : c.details[n] = IF n = b.d[m] THEN v ELSE b.details[n]
  BY <1>1, <1>2, <1>3, Retouched DEF Of
<1>5. SameAccounts(b, c)
  BY <1>2, <1>4 DEF SameAccounts, DetailsKeep, Of
<1>. QED
  BY <1>4, <1>5 DEF c

\* setAccount() for a number without account: those that have one keep it.
LEMMA SetAccountFollows ==
  ASSUME NEW b, Sound(b), NEW m \in Known(b), NEW account \in Accounts,
         Of(b, m).account = None
  PROVE  Follows(b, setAccount(b, m, account)) /\ SameBut(b, setAccount(b, m, account))
<1>. DEFINE v == [Of(b, m) EXCEPT !.account = account]
            c == setAccount(b, m, account)
<1>1. Of(b, m) \in Details /\ b.d[m] \in Number
  BY KnownIsNumber DEF Sound
<1>2. v \in Details /\ v.popularity = Of(b, m).popularity
  BY <1>1 DEF Details
<1>3. c = Written(b, b.d[m], v)
  BY DEF setAccount, Of, Written
<1>. HIDE DEF v, c
<1>4. /\ Sound(c) /\ SameBut(b, c)
      /\ \A n \in Known(b) : Of(c, n) = IF b.d[n] = b.d[m] THEN v ELSE Of(b, n)
      /\ \A n \in Known(b) : c.details[n] = IF n = b.d[m] THEN v ELSE b.details[n]
  BY <1>1, <1>2, <1>3, Retouched DEF Of
<1>5. KeepsAccounts(b, c)
  BY <1>4 DEF KeepsAccounts, DetailsKeep, Of
<1>. QED
  BY <1>4, <1>5 DEF c, Follows, SameBut

-----------------------------------------------------------------------------
(* Filing, merging and creating numbers.                                    *)

\* The parts of a book that are left alone when the directory is written.
LEMMA Refiled ==
  ASSUME NEW b, Sound(b), NEW c \in Book,
         c.size = b.size, c.d = b.d, c.parents = b.parents, c.details = b.details,
         c.popular = b.popular, Filed(c)
  PROVE  Sound(c) /\ SameAccounts(b, c)
<1>1. /\ Proxies(c) /\ Known(c) = Known(b)
      /\ Alone(b) => Alone(c)
      /\ Abandoned(b) => Abandoned(c)
  BY SameProxies DEF Sound
<1>2. Listed(c) /\ (Placed(b) => Placed(c))
  BY <1>1 DEF Sound, Listed, Placed
<1>3. Ranked(c)
  BY <1>1, <1>2 DEF Sound, Ranked
<1>. QED
  BY <1>1, <1>2, <1>3 DEF Sound, SameAccounts, Of, DetailsKeep

\* The parts of a book that filing leaves alone.
SameNumbers(b, c) ==
  /\ c.size = b.size /\ c.d = b.d /\ c.parents = b.parents /\ c.details = b.details
  /\ c.popular = b.popular /\ c.broken = b.broken

LEMMA FileFollows ==
  ASSUME NEW b, Sound(b), NEW u \in Uri, NEW m \in Known(b)
  PROVE  /\ Sound(File(b, u, m)) /\ SameAccounts(b, File(b, u, m))
         /\ SameNumbers(b, File(b, u, m))
         /\ File(b, u, m).directory = [b.directory EXCEPT ![u] = Append(@, m)]
<1>. DEFINE c == File(b, u, m)
<1>1. b \in Book /\ m \in Number
  BY KnownIsNumber DEF Sound
<1>2. /\ c.size = b.size /\ c.d = b.d /\ c.parents = b.parents /\ c.details = b.details
      /\ c.popular = b.popular /\ c.broken = b.broken
      /\ c.directory = [b.directory EXCEPT ![u] = Append(@, m)]
      /\ c.keys = b.keys \cup {u}
  BY <1>1 DEF File, Book
<1>3. c.directory \in [Uri -> Seq(Number)] /\ c.keys \in SUBSET Uri
  <2>1. Append(b.directory[u], m) \in Seq(Number)
    BY <1>1, BookParts
  <2>. QED
    BY <1>1, <1>2, <2>1, BookParts
<1>4. c \in Book
  BY <1>1, <1>2, <1>3 DEF Book, File
<1>. HIDE DEF c
<1>5. Filed(c)
  <2>. SUFFICES ASSUME NEW w \in Uri, NEW i \in DOMAIN c.directory[w]
                PROVE  c.directory[w][i] \in Known(c)
    BY DEF Filed
  <2>1. Known(c) = Known(b) /\ b.directory[w] \in Seq(Number)
    BY <1>1, <1>2, BookParts DEF Known
  <2>2. CASE w = u
    <3>1. c.directory[w] = Append(b.directory[w], m)
      BY <1>1, <1>2, <2>2, BookParts
    <3>2. i \in 1 .. Len(b.directory[w]) \/ i = Len(b.directory[w]) + 1
      BY <2>1, <3>1, <1>1
    <3>3. CASE i \in 1 .. Len(b.directory[w])
      BY <2>1, <3>1, <3>3, <1>1 DEF Sound, Filed
    <3>4. CASE i = Len(b.directory[w]) + 1
      BY <2>1, <3>1, <3>4, <1>1
    <3>. QED
      BY <3>2, <3>3, <3>4
  <2>3. CASE w # u
    BY <1>1, <1>2, <2>1, <2>3, BookParts DEF Sound, Filed
  <2>. QED
    BY <2>2, <2>3
<1>6. Sound(c) /\ SameAccounts(b, c)
  BY <1>2, <1>4, <1>5, Refiled
<1>. QED
  BY <1>2, <1>6 DEF c, SameNumbers

LEMMA MentionFollows ==
  ASSUME NEW b, Sound(b), NEW us \in SUBSET Uri
  PROVE  /\ Sound(Mention(b, us)) /\ SameAccounts(b, Mention(b, us))
         /\ SameNumbers(b, Mention(b, us))
         /\ Mention(b, us).directory = b.directory
<1>. DEFINE c == Mention(b, us)
<1>1. b \in Book
  BY DEF Sound
<1>2. /\ c.size = b.size /\ c.d = b.d /\ c.parents = b.parents /\ c.details = b.details
      /\ c.popular = b.popular /\ c.broken = b.broken
      /\ c.directory = b.directory
      /\ c.keys = b.keys \cup us
  BY <1>1 DEF Mention, Book
<1>3. c \in Book
  BY <1>1, <1>2, BookParts DEF Book, Mention
<1>4. Filed(c)
  BY <1>2 DEF Sound, Filed, Known
<1>. HIDE DEF c
<1>5. Sound(c) /\ SameAccounts(b, c)
  BY <1>2, <1>3, <1>4, Refiled
<1>. QED
  BY <1>2, <1>5 DEF c, SameNumbers

LEMMA MergedDetailsType ==
  ASSUME NEW mine \in Details, NEW other \in Details
  PROVE  /\ MergedDetails(mine, other) \in Details
         /\ MergedDetails(mine, other).account = other.account
         /\ MergedDetails(mine, other).popularity = other.popularity
<1>. DEFINE longer == IF UriSize[mine.uri] > UriSize[other.uri] THEN mine ELSE other
<1>1. longer \in Details
  OBVIOUS
<1>. HIDE DEF longer
<1>2. longer.uri \in Uri /\ longer.ring \in BOOLEAN
  BY <1>1 DEF Details
<1>3. MergedDetails(mine, other)
        = [other EXCEPT !.person = IF @ = None THEN mine.person ELSE @,
                        !.name = IF @ = None THEN mine.name ELSE @,
                        !.uri = longer.uri, !.ring = longer.ring]
  BY DEF MergedDetails, longer
<1>. QED
  BY <1>2, <1>3 DEF Details

\* The parts of the book a merge leaves.
LEMMA MergeParts ==
  ASSUME NEW b, Sound(b), NEW m \in Known(b), NEW o \in Known(b), MayMerge(b, m, o)
  PROVE  LET c == merge(b, m, o)
             x == b.d[m]
             y == b.d[o]
         IN /\ c \in Book
            /\ c.size = b.size /\ c.directory = b.directory /\ c.keys = b.keys
            /\ c.popular = b.popular /\ c.broken = b.broken
            /\ c.d = [b.d EXCEPT ![m] = y]
            /\ \A e \in Number : c.parents[e] =
                 IF e = y THEN Append(b.parents[y], m)
                 ELSE IF e = x THEN Without(b.parents[x], m) ELSE b.parents[e]
            /\ c.details = [b.details EXCEPT ![y] = MergedDetails(Of(b, m), Of(b, o))]
<1>. DEFINE c == merge(b, m, o)
            x == b.d[m]
            y == b.d[o]
<1>1. /\ x \in Number /\ y \in Number /\ x # y /\ m \in Number /\ o \in Number
      /\ Of(b, m) \in Details /\ Of(b, o) \in Details
  BY KnownIsNumber DEF MayMerge, Sound
<1>2. c = [b EXCEPT !.d[m] = y, !.parents[y] = Append(@, m), !.parents[x] = Without(@, m),
                    !.details[y] = MergedDetails(Of(b, m), Of(b, o))]
  BY DEF merge
<1>. HIDE DEF c, x, y
<1>. b \in Book
  BY DEF Sound
<1>3. /\ c.size = b.size /\ c.directory = b.directory /\ c.keys = b.keys
      /\ c.popular = b.popular /\ c.broken = b.broken
  BY <1>2 DEF Book
<1>4. c.d = [b.d EXCEPT ![m] = y]
  BY <1>2 DEF Book
<1>5. c.details = [b.details EXCEPT ![y] = MergedDetails(Of(b, m), Of(b, o))]
  BY <1>2 DEF Book
<1>6. c.parents = [[b.parents EXCEPT ![y] = Append(b.parents[y], m)] EXCEPT ![x] = Without(@, m)]
  BY <1>1, <1>2, b.parents \in [Number -> Seq(Number)] DEF Book
<1>7. Without(b.parents[x], m) \in Seq(Number)
  BY <1>1, BookParts, WithoutKeeps DEF Sound, Proxies, Once
<1>8. Append(b.parents[y], m) \in Seq(Number)
  BY <1>1, BookParts
<1>9. /\ c.d \in [Number -> Number] /\ c.parents \in [Number -> Seq(Number)]
      /\ c.details \in [Number -> Details]
  <2>1. c.d \in [Number -> Number]
    BY <1>1, <1>4, BookParts
  <2>2. c.parents \in [Number -> Seq(Number)]
    <3>. DEFINE ps == [b.parents EXCEPT ![y] = Append(b.parents[y], m)]
                w == Without(b.parents[x], m)
    <3>1. ps \in [Number -> Seq(Number)]
      BY <1>1, <1>8, BookParts
    <3>2. ps[x] = b.parents[x]
      BY <1>1, BookParts
    <3>3. c.parents = [ps EXCEPT ![x] = w]
      BY <1>1, <1>6, <3>1, <3>2, Zenon
    <3>4. w \in Seq(Number)
      BY <1>7
    <3>. HIDE DEF ps, w
    <3>. QED
      BY <1>1, <3>1, <3>3, <3>4
  <2>3. c.details \in [Number -> Details]
    BY <1>1, <1>5, MergedDetailsType, BookParts
  <2>. QED
    BY <2>1, <2>2, <2>3
<1>10. c \in Book
  BY <1>2, <1>3, <1>9, BookParts DEF Book
<1>11. \A e \in Number : c.parents[e] =
         IF e = y THEN Append(b.parents[y], m)
         ELSE IF e = x THEN Without(b.parents[x], m) ELSE b.parents[e]
  BY <1>1, <1>6, BookParts
<1>. QED
  BY <1>3, <1>4, <1>5, <1>10, <1>11 DEF c, x, y

\* A merge keeps every object listed where its details are, and who has an
\* account keeps it unless it joins a number that has none.
LEMMA MergeFollows ==
  ASSUME NEW b, Sound(b), NEW m \in Known(b), NEW o \in Known(b)
  PROVE  /\ Sound(merge(b, m, o))
         /\ merge(b, m, o).size = b.size
         /\ merge(b, m, o).directory = b.directory
         /\ merge(b, m, o).broken = b.broken
         /\ LosesAccounts(b, merge(b, m, o))
         /\ Of(b, m).account = None \/ Of(b, o).account # None => KeepsAccounts(b, merge(b, m, o))
<1>1. CASE ~MayMerge(b, m, o)
  BY <1>1 DEF merge, LosesAccounts, KeepsAccounts, DetailsKeep
<1>2. CASE MayMerge(b, m, o)
  <2>. DEFINE c == merge(b, m, o)
              x == b.d[m]
              y == b.d[o]
  <2>1. /\ c \in Book
        /\ c.size = b.size /\ c.directory = b.directory /\ c.keys = b.keys
        /\ c.popular = b.popular /\ c.broken = b.broken
        /\ c.d = [b.d EXCEPT ![m] = y]
        /\ \A e \in Number : c.parents[e] =
             IF e = y THEN Append(b.parents[y], m)
             ELSE IF e = x THEN Without(b.parents[x], m) ELSE b.parents[e]
        /\ c.details = [b.details EXCEPT ![y] = MergedDetails(Of(b, m), Of(b, o))]
    BY <1>2, MergeParts
  <2>2. /\ x \in Known(b) /\ y \in Known(b) /\ x # y
        /\ x \in Number /\ y \in Number /\ m \in Number /\ o \in Number
        /\ Of(b, m) \in Details /\ Of(b, o) \in Details
        /\ \A n \in Known(b) : n \in Number /\ b.d[n] \in Number
    BY <1>2, KnownIsNumber DEF MayMerge, Sound, Proxies
  <2>3. /\ b \in Book /\ Proxies(b) /\ Filed(b) /\ Listed(b) /\ Ranked(b)
        /\ b.d \in [Number -> Number] /\ b.details \in [Number -> Details]
        /\ b.parents \in [Number -> Seq(Number)]
    BY BookParts DEF Sound
  <2>. HIDE DEF c, x, y
  <2>4. Known(c) = Known(b)
    BY <2>1 DEF Known
  <2>5. \A n \in Number : c.d[n] = IF n = m THEN y ELSE b.d[n]
    BY <2>1, <2>2, <2>3
  <2>6. Once(b.parents[x]) /\ Once(b.parents[y])
    BY <2>2, <2>3 DEF Proxies, Once
  <2>7. /\ \A j \in DOMAIN c.parents[x] :
             c.parents[x][j] # m /\ \E k \in DOMAIN b.parents[x] : b.parents[x][k] = c.parents[x][j]
        /\ \A k \in DOMAIN b.parents[x] :
             b.parents[x][k] # m => \E j \in DOMAIN c.parents[x] : c.parents[x][j] = b.parents[x][k]
        /\ Once(c.parents[x])
    <3>1. c.parents[x] = Without(b.parents[x], m) /\ b.parents[x] \in Seq(Number)
      BY <2>1, <2>2, <2>3
    <3>. QED
      BY <2>6, <3>1, WithoutKeeps
  <2>8. /\ DOMAIN c.parents[y] = 1 .. Len(b.parents[y]) + 1
        /\ DOMAIN b.parents[y] = 1 .. Len(b.parents[y]) /\ Len(b.parents[y]) \in Nat
        /\ c.parents[y][Len(b.parents[y]) + 1] = m
        /\ \A i \in DOMAIN b.parents[y] : c.parents[y][i] = b.parents[y][i]
    <3>1. c.parents[y] = Append(b.parents[y], m) /\ b.parents[y] \in Seq(Number)
      BY <2>1, <2>2, <2>3
    <3>. QED
      BY <2>2, <3>1
  <2>9. \A i \in DOMAIN b.parents[y] : b.parents[y][i] # m
    BY <2>2, <2>3 DEF Proxies, x
  <2>10. Proxies(c)
    <3>1. \A n \in Known(c) : c.d[n] \in Known(c)
      BY <2>2, <2>3, <2>4, <2>5 DEF Proxies
    <3>2. ASSUME NEW n \in Known(c)
          PROVE  \E i \in DOMAIN c.parents[c.d[n]] : c.parents[c.d[n]][i] = n
      <4>1. CASE n = m
        <5>1. c.d[n] = y
          BY <2>2, <2>5, <4>1
        <5>2. Len(b.parents[y]) + 1 \in DOMAIN c.parents[y]
          BY <2>8
        <5>. QED
          BY <2>8, <5>1, <5>2, <4>1
      <4>2. CASE n # m
        <5>1. c.d[n] = b.d[n] /\ b.d[n] \in Number
          BY <2>2, <2>4, <2>5, <4>2
        <5>2. PICK i \in DOMAIN b.parents[b.d[n]] : b.parents[b.d[n]][i] = n
          BY <2>3, <2>4 DEF Proxies
        <5>3. CASE b.d[n] = y
          BY <2>8, <5>1, <5>2, <5>3
        <5>4. CASE b.d[n] = x
          BY <2>7, <5>1, <5>2, <5>4, <4>2
        <5>5. CASE b.d[n] # x /\ b.d[n] # y
          BY <2>1, <5>1, <5>2, <5>5
        <5>. QED
          BY <5>3, <5>4, <5>5
      <4>. QED
        BY <4>1, <4>2
    <3>3. \A n \in Number \ Known(c) : c.d[n] = n
      BY <2>3, <2>4, <2>5 DEF Proxies
    <3>4. ASSUME NEW e \in Number, NEW i \in DOMAIN c.parents[e]
          PROVE  c.parents[e][i] \in Known(c) /\ c.d[c.parents[e][i]] = e
      <4>1. CASE e = y
        <5>1. CASE i \in DOMAIN b.parents[y]
          <6>1. c.parents[e][i] = b.parents[y][i] /\ b.parents[y][i] # m
            BY <2>8, <2>9, <4>1, <5>1
          <6>2. b.parents[y][i] \in Known(b) /\ b.d[b.parents[y][i]] = y
            BY <2>2, <2>3, <5>1 DEF Proxies
          <6>. QED
            BY <2>2, <2>4, <2>5, <6>1, <6>2, <4>1
        <5>2. CASE i = Len(b.parents[y]) + 1
          BY <2>2, <2>4, <2>5, <2>8, <4>1, <5>2
        <5>. QED
          BY <2>8, <4>1, <5>1, <5>2
      <4>2. CASE e = x
        <5>1. PICK k \in DOMAIN b.parents[x] : b.parents[x][k] = c.parents[x][i]
          BY <2>7, <4>2
        <5>2. b.parents[x][k] \in Known(b) /\ b.d[b.parents[x][k]] = x
          BY <2>2, <2>3 DEF Proxies
        <5>3. c.parents[x][i] # m
          BY <2>7, <4>2
        <5>. QED
          BY <2>2, <2>4, <2>5, <5>1, <5>2, <5>3, <4>2
      <4>3. CASE e # x /\ e # y
        <5>1. c.parents[e] = b.parents[e]
          BY <2>1, <4>3
        <5>2. b.parents[e][i] \in Known(b) /\ b.d[b.parents[e][i]] = e
          BY <2>3, <5>1 DEF Proxies
        <5>3. b.parents[e][i] # m
          BY <5>2, <4>3 DEF x
        <5>. QED
          BY <2>2, <2>4, <2>5, <5>1, <5>2, <5>3
      <4>. QED
        BY <4>1, <4>2, <4>3
    <3>5. ASSUME NEW e \in Number
          PROVE  Once(c.parents[e])
      <4>1. CASE e = y
        <5>. SUFFICES ASSUME NEW i \in DOMAIN c.parents[y], NEW j \in DOMAIN c.parents[y],
                             c.parents[y][i] = c.parents[y][j]
                      PROVE  i = j
          BY <4>1 DEF Once
        <5>1. CASE i \in DOMAIN b.parents[y] /\ j \in DOMAIN b.parents[y]
          BY <2>6, <2>8, <5>1 DEF Once
        <5>2. CASE i \in DOMAIN b.parents[y] /\ j = Len(b.parents[y]) + 1
          BY <2>8, <2>9, <5>2
        <5>3. CASE i = Len(b.parents[y]) + 1 /\ j \in DOMAIN b.parents[y]
          BY <2>8, <2>9, <5>3
        <5>. QED
          BY <2>8, <5>1, <5>2, <5>3
      <4>2. CASE e = x
        BY <2>7, <4>2
      <4>3. CASE e # x /\ e # y
        BY <2>1, <2>3, <4>3 DEF Proxies, Once
      <4>. QED
        BY <4>1, <4>2, <4>3
    <3>. QED
      BY <3>1, <3>2, <3>3, <3>4, <3>5 DEF Proxies, Once
  <2>11. Filed(c) /\ Listed(c)
    BY <2>1, <2>3, <2>4 DEF Filed, Listed
  <2>12. Abandoned(c)
    <3>1. CASE Abandoned(b)
      <4>1. PICK e \in Known(b) : \A n \in Known(b) : b.d[n] # e
        BY <3>1 DEF Abandoned
      <4>2. \A n \in Known(c) : c.d[n] # e
        BY <2>2, <2>4, <2>5, <4>1 DEF y
      <4>. QED
        BY <2>4, <4>1, <4>2 DEF Abandoned
    <3>2. CASE Alone(b)
      <4>1. x = m
        BY <3>2 DEF Alone, x
      <4>2. \A n \in Known(c) : c.d[n] # m
        BY <2>2, <2>4, <2>5, <3>2, <4>1 DEF Alone
      <4>. QED
        BY <2>4, <4>2 DEF Abandoned
    <3>. QED
      BY <2>3, <3>1, <3>2 DEF Ranked
  <2>13. Sound(c)
    BY <2>1, <2>10, <2>11, <2>12 DEF Sound, Ranked
  <2>14. \A e \in Number : c.details[e].account = b.details[e].account
    BY <2>1, <2>2, <2>3, MergedDetailsType DEF Of, y
  <2>15. ASSUME NEW n \in Known(b)
         PROVE  Of(c, n).account = IF n = m THEN Of(b, o).account ELSE Of(b, n).account
    BY <2>2, <2>5, <2>14 DEF Of, y
  <2>16. DetailsKeep(b, c)
    BY <2>2, <2>14 DEF DetailsKeep
  <2>17. LosesAccounts(b, c)
    BY <1>2, <2>15, <2>16 DEF LosesAccounts, MayMerge
  <2>18. Of(b, m).account = None \/ Of(b, o).account # None => KeepsAccounts(b, c)
    BY <1>2, <2>15, <2>16 DEF KeepsAccounts, MayMerge
  <2>. QED
    BY <2>1, <2>13, <2>17, <2>18 DEF c
<1>. QED
  BY <1>1, <1>2

\* The constructor: the new object is the only one of its details.
LEMMA NewFollows ==
  ASSUME NEW b, Sound(b), b.size < MaxNumbers,
         NEW uri \in Uri, NEW ring \in BOOLEAN,
         NEW account \in Accounts \cup {None}, NEW person \in Persons \cup {None}
  PROVE  /\ Sound(New(b, uri, ring, account, person))
         /\ New(b, uri, ring, account, person).size = b.size + 1
         /\ New(b, uri, ring, account, person).directory = b.directory
         /\ SameAccounts(b, New(b, uri, ring, account, person))
<1>. DEFINE m == b.size + 1
            c == New(b, uri, ring, account, person)
            v == [account |-> account, person |-> person, uri |-> uri, ring |-> ring,
                  name |-> None, popularity |-> 0, seconds |-> 0]
<1>1. b \in Book /\ Proxies(b) /\ Filed(b) /\ Listed(b) /\ Ranked(b)
  BY DEF Sound
<1>2. m \in Number /\ m \notin Known(b) /\ \A n \in Known(b) : n \in Number /\ b.d[n] \in Known(b)
  BY <1>1, BookParts, ContactMethodAssumption DEF Number, Known, Proxies
<1>3. v \in Details /\ v.popularity = 0
  BY ContactMethodAssumption DEF Details, Half
<1>4. c = [b EXCEPT !.size = m, !.parents[m] = <<m>>, !.details[m] = v]
  BY DEF New
<1>. HIDE DEF c, v
<1>5. /\ c.size = m /\ c.d = b.d /\ c.directory = b.directory /\ c.keys = b.keys
      /\ c.popular = b.popular /\ c.broken = b.broken
  BY <1>1, <1>4 DEF Book
<1>6. c.parents = [b.parents EXCEPT ![m] = <<m>>]
  BY <1>1, <1>4 DEF Book
<1>7. c.details = [b.details EXCEPT ![m] = v]
  BY <1>1, <1>4 DEF Book
<1>8. Known(c) = Known(b) \cup {m}
  BY <1>1, <1>5, BookParts DEF Known
<1>. HIDE DEF m
<1>9. c.parents \in [Number -> Seq(Number)] /\ c.details \in [Number -> Details]
  BY <1>1, <1>2, <1>3, <1>6, <1>7, BookParts
<1>10. m \in 0 .. MaxNumbers
  BY <1>2, ContactMethodAssumption DEF Number
<1>11. c \in Book
  BY <1>1, <1>4, <1>5, <1>9, <1>10, BookParts DEF Book
<1>12. \A e \in Number : /\ c.parents[e] = IF e = m THEN <<m>> ELSE b.parents[e]
                         /\ c.details[e] = IF e = m THEN v ELSE b.details[e]
  BY <1>1, <1>2, <1>6, <1>7, BookParts
<1>13. b.d[m] = m
  BY <1>1, <1>2 DEF Proxies
<1>14. Proxies(c)
  <2>1. \A n \in Known(c) : c.d[n] \in Known(c)
    BY <1>2, <1>5, <1>8, <1>13
  <2>2. ASSUME NEW n \in Known(c)
        PROVE  \E i \in DOMAIN c.parents[c.d[n]] : c.parents[c.d[n]][i] = n
    <3>1. CASE n = m
      <4>1. c.parents[c.d[n]] = <<m>>
        BY <1>2, <1>5, <1>12, <1>13, <3>1
      <4>. QED
        BY <3>1, <4>1
    <3>2. CASE n # m
      BY <1>1, <1>2, <1>5, <1>8, <1>12, <3>2 DEF Proxies
    <3>. QED
      BY <3>1, <3>2
  <2>3. \A n \in Number \ Known(c) : c.d[n] = n
    BY <1>1, <1>5, <1>8 DEF Proxies
  <2>4. ASSUME NEW e \in Number, NEW i \in DOMAIN c.parents[e]
        PROVE  c.parents[e][i] \in Known(c) /\ c.d[c.parents[e][i]] = e
    <3>1. CASE e = m
      <4>1. c.parents[e] = <<m>> /\ i = 1
        BY <1>12, <3>1
      <4>. QED
        BY <1>5, <1>8, <1>13, <3>1, <4>1
    <3>2. CASE e # m
      BY <1>1, <1>5, <1>8, <1>12, <3>2 DEF Proxies
    <3>. QED
      BY <3>1, <3>2
  <2>5. \A e \in Number : Once(c.parents[e])
    <3>1. Once(<<m>>)
      BY DEF Once
    <3>. QED
      BY <1>1, <1>12, <3>1 DEF Proxies, Once
  <2>. QED
    BY <2>1, <2>2, <2>3, <2>4, <2>5 DEF Proxies, Once
<1>15. Filed(c) /\ Listed(c)
  BY <1>1, <1>5, <1>8 DEF Filed, Listed
<1>16. Ranked(c)
  <2>1. CASE Abandoned(b)
    <3>1. PICK e \in Known(b) : \A n \in Known(b) : b.d[n] # e
      BY <2>1 DEF Abandoned
    <3>2. \A n \in Known(c) : c.d[n] # e
      BY <1>2, <1>5, <1>8, <1>13, <3>1
    <3>. QED
      BY <1>8, <3>1, <3>2 DEF Abandoned, Ranked
  <2>2. CASE Alone(b) /\ Placed(b)
    <3>1. Alone(c)
      BY <1>5, <1>8, <1>13, <2>2 DEF Alone
    <3>2. \A n \in Known(b) : c.details[n] = b.details[n]
      BY <1>2, <1>12
    <3>3. Placed(c)
      BY <1>1, <1>2, <1>3, <1>5, <1>8, <1>12, <2>2, <3>2 DEF Placed, Listed
    <3>. QED
      BY <3>1, <3>3 DEF Ranked
  <2>. QED
    BY <1>1, <2>1, <2>2 DEF Ranked
<1>17. SameAccounts(b, c)
  BY <1>2, <1>5, <1>12 DEF SameAccounts, Of, DetailsKeep
<1>. QED
  BY <1>5, <1>11, <1>14, <1>15, <1>16, <1>17 DEF Sound, c, m

-----------------------------------------------------------------------------
(* Looking a number up.                                                     *)

LEMMA FollowsOn ==
  ASSUME NEW b, NEW c, NEW e, Follows(b, c), Follows(c, e)
  PROVE  Follows(b, e)
BY DEF Follows, KeepsAccounts, Known, DetailsKeep

LEMMA SameAccountsKept ==
  ASSUME NEW b, NEW c, SameAccounts(b, c)
  PROVE  KeepsAccounts(b, c) /\ LosesAccounts(b, c)
BY DEF SameAccounts, KeepsAccounts, LosesAccounts

LEMMA PairOfSingles ==
  ASSUME NEW x, NEW h
  PROVE  <<x>> \o <<h>> = <<x, h>>
<1>. DEFINE S == {x, h}
            s == <<x>>
            t == <<h>>
            u == <<x, h>>
<1>1. /\ s \in Seq(S) /\ Len(s) = 1 /\ s[1] = x
      /\ t \in Seq(S) /\ Len(t) = 1 /\ t[1] = h
      /\ u \in Seq(S) /\ Len(u) = 2 /\ u[1] = x /\ u[2] = h
  OBVIOUS
<1>. HIDE DEF s, t, u, S
<1>2. /\ s \o t \in Seq(S) /\ Len(s \o t) = Len(s) + Len(t)
      /\ \A i \in 1 .. Len(s) + Len(t) :
           (s \o t)[i] = IF i <= Len(s) THEN s[i] ELSE t[i - Len(s)]
  BY <1>1, ConcatProperties
<1>3. Len(s \o t) = 2 /\ (s \o t)[1] = x /\ (s \o t)[2] = h
  BY <1>1, <1>2
<1>4. s \o t = u
  BY <1>1, <1>2, <1>3, SeqEqual
<1>. QED
  BY <1>4 DEF s, t, u

LEMMA UriShapes ==
  ASSUME NEW u \in Uri
  PROVE  /\ WithoutHostname(u) \in Uri
         /\ ~hasHostname(u) => \A a \in Accounts : Extended(u, a) \in Uri
<1>1. CASE u \in {<<x>> : x \in Users}
  <2>1. PICK x \in Users : u = <<x>>
    BY <1>1
  <2>2. \A a \in Accounts : Extended(u, a) = <<x, Host[a]>>
    BY <2>1, PairOfSingles DEF Extended
  <2>. QED
    BY <2>1, <2>2 DEF WithoutHostname, Uri
<1>2. CASE u \in {<<x, Host[a]>> : x \in Users, a \in Accounts}
  <2>1. PICK x \in Users, a \in Accounts : u = <<x, Host[a]>>
    BY <1>2
  <2>. QED
    BY <2>1 DEF hasHostname, WithoutHostname, Uri
<1>. QED
  BY <1>1, <1>2 DEF Uri

\* PhoneDirectoryModelPrivate::setAccount() merges the number only with numbers
\* of the account it has just been given.
LEMMA MergeDuplicatesFollows ==
  ASSUME NEW b, Sound(b), NEW m \in Known(b), NEW account \in Accounts, account # None,
         NEW wrap \in Seq(Number), \A i \in DOMAIN wrap : wrap[i] \in Known(b)
  PROVE  Follows(b, MergeDuplicates(b, m, account, wrap))
<1>. DEFINE X == {c \in Book : Follows(b, c)}
<1>1. b \in X
  BY DEF Sound, Follows, KeepsAccounts, DetailsKeep
<1>2. ASSUME NEW c \in X, NEW i \in DOMAIN wrap
      PROVE  MergeWith(m, account, c, wrap[i]) \in X
  <2>1. Sound(c) /\ Known(c) = Known(b) /\ Follows(b, c)
    BY DEF Follows, Known
  <2>2. CASE wrap[i] # m /\ Of(c, wrap[i]).account = account
    <3>. DEFINE e == merge(c, m, wrap[i])
    <3>1. Sound(e) /\ e.size = c.size /\ KeepsAccounts(c, e)
      BY <2>1, <2>2, MergeFollows
    <3>2. Follows(b, e) /\ e \in Book
      BY <2>1, <3>1, FollowsOn DEF Follows, Sound
    <3>. QED
      BY <2>2, <3>2 DEF MergeWith
  <2>3. CASE ~(wrap[i] # m /\ Of(c, wrap[i]).account = account)
    BY <2>3 DEF MergeWith
  <2>. QED
    BY <2>2, <2>3
<1>. HIDE DEF X
<1>3. MergeDuplicates(b, m, account, wrap) \in X
  BY <1>1, <1>2, MergingStays
<1>. QED
  BY <1>3 DEF X

LEMMA SetAccountInDirectory ==
  ASSUME NEW b, Sound(b), NEW m \in Known(b), NEW account \in Accounts, account # None,
         Of(b, m).account = None
  PROVE  Follows(b, directorySetAccount(b, m, account))
<1>. DEFINE set == setAccount(b, m, account)
            extended == Extended(Of(b, m).uri, account)
<1>1. Follows(b, set) /\ set.directory = b.directory
  BY SetAccountFollows DEF SameBut
<1>2. Sound(set) /\ Known(set) = Known(b)
  BY <1>1 DEF Follows, Known
<1>3. CASE hasHostname(Of(b, m).uri)
  BY <1>1, <1>3 DEF directorySetAccount
<1>4. CASE ~hasHostname(Of(b, m).uri)
  <2>1. Of(b, m).uri \in Uri
    BY KnownIsNumber DEF Sound, Details
  <2>2. extended \in Uri
    BY <1>4, <2>1, UriShapes
  <2>. HIDE DEF set, extended
  <2>3. ASSUME NEW c, Follows(b, c)
        PROVE  Follows(b, File(c, extended, m))
    <3>1. Sound(c) /\ Known(c) = Known(b) /\ m \in Known(c)
      BY <2>3 DEF Follows, Known
    <3>2. Follows(c, File(c, extended, m))
      BY <2>2, <3>1, FileFollows, SameAccountsKept DEF Follows, SameNumbers
    <3>. QED
      BY <2>3, <3>2, FollowsOn
  <2>4. CASE b.directory[extended] = <<>>
    <3>1. Follows(b, File(File(set, extended, m), extended, m))
      BY <1>1, <2>3
    <3>. QED
      BY <1>4, <2>4, <3>1 DEF directorySetAccount, set, extended
  <2>5. CASE b.directory[extended] # <<>>
    <3>1. /\ b.directory[extended] \in Seq(Number)
          /\ \A i \in DOMAIN b.directory[extended] : b.directory[extended][i] \in Known(b)
      BY <2>2, BookParts DEF Sound, Filed
    <3>2. Follows(set, MergeDuplicates(set, m, account, b.directory[extended]))
      BY <1>2, <3>1, MergeDuplicatesFollows
    <3>3. Follows(b, File(MergeDuplicates(set, m, account, b.directory[extended]), extended, m))
      BY <1>1, <2>3, <3>2, FollowsOn
    <3>. QED
      BY <1>4, <2>5, <3>3 DEF directorySetAccount, set, extended
  <2>. QED
    BY <2>4, <2>5
<1>. QED
  BY <1>3, <1>4

LEMMA MinIsLeast ==
  ASSUME NEW I \in SUBSET Nat, I # {}
  PROVE  Min(I) \in I /\ \A j \in I : Min(I) <= j
<1>1. PICK n \in I : \A j \in I : n <= j
  BY Filling!LeastElement
<1>. QED
  BY <1>1, Zenon DEF Min

\* What a lookup answers: a book and a number of it, or none.
Answers(b, found) ==
  Follows(b, found.book) /\ (found.number = 0 \/ found.number \in Known(b))

LEMMA FillOneFollows ==
  ASSUME NEW b, Sound(b), NEW m \in Known(b), NEW uri,
         NEW account \in Accounts \cup {None}, NEW person \in Persons \cup {None}
  PROVE  Answers(b, FillOne(b, m, uri, account, person))
<1>. DEFINE withPerson == IF TakesPerson(b, m, uri, account, person)
                          THEN setPerson(b, m, person) ELSE b
            given == directorySetAccount(b, m, account)
            found == FillOne(b, m, uri, account, person)
<1>1. found.number \in {0, m}
  BY DEF FillOne
<1>2. found.book = IF TakesAccount(b, m, account, person) THEN given ELSE withPerson
  BY DEF FillOne
<1>3. Follows(b, b)
  BY DEF Follows, KeepsAccounts, DetailsKeep
<1>4. Follows(b, setPerson(b, m, person))
  BY SetPersonFollows, SameAccountsKept DEF Follows, SameBut
<1>5. TakesAccount(b, m, account, person) => Follows(b, given)
  BY SetAccountInDirectory DEF TakesAccount
<1>. HIDE DEF found, given
<1>6. Follows(b, withPerson)
  BY <1>3, <1>4
<1>. HIDE DEF withPerson
<1>7. Follows(b, found.book)
  BY <1>2, <1>5, <1>6
<1>. QED
  BY <1>1, <1>7 DEF Answers, found

LEMMA FillDetailsFollows ==
  ASSUME NEW b, Sound(b), NEW wrap \in Seq(Number),
         \A i \in DOMAIN wrap : wrap[i] \in Known(b), NEW uri,
         NEW account \in Accounts \cup {None}, NEW person \in Persons \cup {None}
  PROVE  /\ Answers(b, fillDetails(b, wrap, uri, account, person))
         /\ fillDetails(b, wrap, uri, account, person) \in [book : Book, number : Nat]
<1>. DEFINE X == {f \in [book : Book, number : Nat] : Answers(b, f)}
            Found(c, m) == FillOne(c, m, uri, account, person)
<1>1. [book |-> b, number |-> 0] \in X
  BY DEF Sound, Answers, Follows, KeepsAccounts, DetailsKeep
<1>2. ASSUME NEW f \in X, NEW i \in DOMAIN wrap
      PROVE  Visit(uri, account, person, f, wrap[i]) \in X
  <2>1. CASE f.number # 0
    BY <2>1 DEF Visit
  <2>2. CASE f.number = 0
    <3>. DEFINE c == f.book
                g == Found(c, wrap[i])
    <3>1. Follows(b, c)
      BY DEF Answers
    <3>2. Sound(c) /\ Known(c) = Known(b) /\ wrap[i] \in Known(c)
      BY <3>1 DEF Follows, Known
    <3>3. Answers(c, g)
      BY <3>2, FillOneFollows
    <3>4. g = [book |-> g.book, number |-> g.number]
      BY DEF FillOne
    <3>. HIDE DEF g, c
    <3>5. Answers(b, g)
      BY <3>1, <3>2, <3>3, FollowsOn DEF Answers
    <3>6. g.book \in Book /\ g.number \in Nat
      BY <3>5, ContactMethodAssumption DEF Answers, Follows, Sound, Known
    <3>7. g \in X
      BY <3>4, <3>5, <3>6
    <3>. QED
      BY <2>2, <3>7 DEF Visit, g, c
  <2>. QED
    BY <2>1, <2>2
<1>. HIDE DEF X
<1>3. fillDetails(b, wrap, uri, account, person) \in X
  BY <1>1, <1>2, FillingStays
<1>. QED
  BY <1>3 DEF X

\* The wrapper of a URI, and what stands for the wrapper of one not looked for.
LEMMA WrapperIsKnown ==
  ASSUME NEW b, Sound(b), NEW u \in Uri
  PROVE  /\ b.directory[u] \in Seq(Number)
         /\ \A i \in DOMAIN b.directory[u] : b.directory[u][i] \in Known(b)
BY BookParts DEF Sound, Filed

LEMMA ShortCandidateFollows ==
  ASSUME NEW b, Sound(b), NEW uri \in Uri,
         NEW account \in Accounts \cup {None}, NEW person \in Persons \cup {None}
  PROVE  Answers(b, ShortCandidate(b, uri, account, person))
<1>. DEFINE wrap == IF hasHostname(uri) /\ account # None /\ uri[2] = Host[account]
                    THEN b.directory[WithoutHostname(uri)] ELSE <<>>
            I == {i \in 1 .. Len(wrap) : Of(b, wrap[i]).account = account}
            i == IF I # {} THEN Min(I) ELSE 0
            f == ShortCandidate(b, uri, account, person)
<1>1. wrap \in Seq(Number) /\ \A j \in DOMAIN wrap : wrap[j] \in Known(b)
  <2>1. WithoutHostname(uri) \in Uri
    BY UriShapes
  <2>. QED
    BY <2>1, WrapperIsKnown
<1>2. f = IF i = 0 THEN [book |-> b, number |-> 0]
          ELSE [book |-> IF person # None /\ Of(b, wrap[i]).person \in {None, person}
                         THEN setPerson(b, wrap[i], person) ELSE b,
                number |-> wrap[i]]
  BY DEF ShortCandidate, SelectInSeq
<1>. HIDE DEF wrap, f
<1>3. i = 0 \/ i \in DOMAIN wrap
  <2>1. I \in SUBSET Nat /\ \A j \in I : j \in DOMAIN wrap
    BY <1>1
  <2>. HIDE DEF I
  <2>. QED
    BY <2>1, MinIsLeast
<1>. HIDE DEF i
<1>4. Follows(b, b)
  BY DEF Follows, KeepsAccounts, DetailsKeep
<1>5. CASE i = 0
  BY <1>2, <1>4, <1>5 DEF Answers, f
<1>6. CASE i # 0
  <2>1. wrap[i] \in Known(b)
    BY <1>1, <1>3, <1>6
  <2>2. Follows(b, setPerson(b, wrap[i], person))
    BY <2>1, SetPersonFollows, SameAccountsKept DEF Follows, SameBut
  <2>3. f.number = wrap[i] /\ f.book \in {b, setPerson(b, wrap[i], person)}
    BY <1>2, <1>6
  <2>. QED
    BY <1>4, <2>1, <2>2, <2>3 DEF Answers, f
<1>. QED
  BY <1>5, <1>6

\* The last merge of a lookup is the one that may cost a number its account.
LEMMA MergeCandidatesLoses ==
  ASSUME NEW b, Sound(b), NEW c1 \in {0} \cup Known(b), NEW c2 \in {0} \cup Known(b),
         NEW c3 \in {0} \cup Known(b)
  PROVE  /\ Sound(MergeCandidates(b, c1, c2, c3))
         /\ MergeCandidates(b, c1, c2, c3).size = b.size
         /\ LosesAccounts(b, MergeCandidates(b, c1, c2, c3))
<1>. DEFINE Fine(c) == Sound(c) /\ c.size = b.size /\ LosesAccounts(b, c)
<1>1. Fine(b)
  BY DEF LosesAccounts, DetailsKeep
<1>2. \A m, o \in Known(b) : Fine(merge(b, m, o))
  BY MergeFollows
<1>. HIDE DEF Fine
<1>3. CASE c3 # 0 /\ (c1 # 0 \/ c2 # 0)
  <2>1. MergeCandidates(b, c1, c2, c3) = merge(b, c3, IF c1 # 0 THEN c1 ELSE c2)
    BY <1>3 DEF MergeCandidates
  <2>2. Fine(MergeCandidates(b, c1, c2, c3))
    BY <1>2, <1>3, <2>1
  <2>. QED
    BY <2>2 DEF Fine
<1>4. CASE c3 = 0 /\ c1 # 0 /\ c2 # 0
  <2>1. MergeCandidates(b, c1, c2, c3) \in {b, merge(b, c2, c1), merge(b, c1, c2)}
    BY <1>4 DEF MergeCandidates
  <2>2. Fine(MergeCandidates(b, c1, c2, c3))
    BY <1>1, <1>2, <1>4, <2>1
  <2>. QED
    BY <2>2 DEF Fine
<1>5. CASE ~(c3 # 0 /\ (c1 # 0 \/ c2 # 0)) /\ ~(c3 = 0 /\ c1 # 0 /\ c2 # 0)
  <2>1. MergeCandidates(b, c1, c2, c3) = b
    BY <1>5 DEF MergeCandidates
  <2>. QED
    BY <1>1, <2>1 DEF Fine
<1>. QED
  BY <1>3, <1>4, <1>5

\* What a lookup that may create a number leaves.
Grows(b, found) ==
  /\ Sound(found.book)
  /\ found.book.size \in {b.size, b.size + 1}
  /\ SameAccounts(b, found.book)
  /\ found.number \in Known(found.book)

LEMMA CreateGrows ==
  ASSUME NEW b, Sound(b), b.size < MaxNumbers,
         NEW uri \in Uri, NEW ring \in BOOLEAN,
         NEW account \in Accounts \cup {None}, NEW person \in Persons \cup {None}
  PROVE  Grows(b, Create(b, uri, ring, account, person))
<1>. DEFINE m == b.size + 1
            created == New(b, uri, ring, account, person)
            f == Create(b, uri, ring, account, person)
<1>1. Sound(created) /\ created.size = m /\ SameAccounts(b, created)
  BY NewFollows
<1>2. f.number = m /\ f.book \in {File(File(created, Extended(uri, account), m), uri, m),
                                   File(created, uri, m)}
  BY DEF Create
<1>3. (f.book = File(created, uri, m)) \/ (~hasHostname(uri) /\ account # None)
  BY DEF Create
<1>4. b.size \in Nat /\ m \in Known(created)
  BY <1>1, BookParts DEF Sound, Known
<1>. HIDE DEF m, created, f
<1>5. ASSUME NEW c, Sound(c), c.size = m, SameAccounts(b, c), NEW u \in Uri
      PROVE  /\ Sound(File(c, u, m)) /\ File(c, u, m).size = m
             /\ SameAccounts(b, File(c, u, m))
  <2>1. m \in Known(c) /\ \A n \in Known(b) : n \in Known(c)
    BY <1>4, <1>5 DEF Known, m
  <2>. DEFINE e == File(c, u, m)
  <2>2. Sound(e) /\ SameNumbers(c, e) /\ SameAccounts(c, e)
    BY <1>5, <2>1, FileFollows
  <2>. HIDE DEF e
  <2>3. e.size = m /\ SameAccounts(b, e)
    BY <1>5, <2>1, <2>2 DEF SameNumbers, SameAccounts, DetailsKeep
  <2>. QED
    BY <2>2, <2>3 DEF e
<1>6. Sound(f.book) /\ f.book.size = m /\ SameAccounts(b, f.book)
  <2>1. CASE f.book = File(created, uri, m)
    BY <1>1, <1>5, <2>1
  <2>2. CASE f.book # File(created, uri, m)
    <3>1. Extended(uri, account) \in Uri
      BY <1>3, <2>2, UriShapes
    <3>2. f.book = File(File(created, Extended(uri, account), m), uri, m)
      BY <1>2, <2>2
    <3>. QED
      BY <1>1, <1>5, <3>1, <3>2
  <2>. QED
    BY <2>1, <2>2
<1>. QED
  BY <1>2, <1>4, <1>6 DEF Grows, Known, m, f

LEMMA FindOrCreateGrows ==
  ASSUME NEW b, Sound(b), b.size < MaxNumbers,
         NEW uri \in Uri, NEW ring \in BOOLEAN,
         NEW account \in Accounts \cup {None}, NEW person \in Persons \cup {None}
  PROVE  Grows(b, FindOrCreate(b, uri, ring, account, person))
<1>. DEFINE wrap == b.directory[uri]
            Fits(n) == /\ account = None \/ Of(b, n).account = account
                       /\ person = None \/ Of(b, n).person \in {None, person}
            I == {j \in 1 .. Len(wrap) : Fits(wrap[j])}
            i == IF I # {} THEN Min(I) ELSE 0
            m == wrap[i]
            f == FindOrCreate(b, uri, ring, account, person)
<1>1. wrap \in Seq(Number) /\ \A j \in DOMAIN wrap : wrap[j] \in Known(b)
  BY WrapperIsKnown
<1>2. f = IF i = 0 THEN Create(b, uri, ring, account, person)
          ELSE [book |-> IF person = None THEN b ELSE setPerson(b, m, person), number |-> m]
  BY DEF FindOrCreate, SelectInSeq
<1>. HIDE DEF wrap, f, Fits
<1>3. i = 0 \/ i \in DOMAIN wrap
  <2>1. I \in SUBSET Nat /\ \A j \in I : j \in DOMAIN wrap
    BY <1>1
  <2>. HIDE DEF I
  <2>. QED
    BY <2>1, MinIsLeast
<1>. HIDE DEF i
<1>4. CASE i = 0
  BY <1>2, <1>4, CreateGrows DEF f
<1>5. CASE i # 0
  <2>1. m \in Known(b)
    BY <1>1, <1>3, <1>5
  <2>2. f.number = m /\ f.book \in {b, setPerson(b, m, person)}
    BY <1>2, <1>5
  <2>. HIDE DEF m
  <2>3. ASSUME NEW c, Sound(c), c.size = b.size, SameAccounts(b, c), f.book = c
        PROVE  Grows(b, f)
    BY <2>1, <2>2, <2>3 DEF Grows, Known
  <2>4. Sound(b) /\ SameAccounts(b, b)
    BY DEF SameAccounts, DetailsKeep
  <2>5. LET c == setPerson(b, m, person) IN Sound(c) /\ c.size = b.size /\ SameAccounts(b, c)
    BY <2>1, SetPersonFollows DEF SameBut
  <2>. QED
    BY <2>2, <2>3, <2>4, <2>5 DEF f
<1>. QED
  BY <1>4, <1>5

LEMMA LookedUpInUri ==
  ASSUME NEW uri \in Uri, NEW account \in Accounts \cup {None}
  PROVE  LookedUp(uri, account) \in SUBSET Uri
BY UriShapes DEF LookedUp

\* A lookup leaves a sound book, creates one number at most, answers a number
\* that exists and takes the account of a number away at most.
LEMMA GetNumberSound ==
  ASSUME NEW b, Sound(b), b.size < MaxNumbers,
         NEW uri \in Uri, NEW ring \in BOOLEAN,
         NEW account \in Accounts \cup {None}, NEW person \in Persons \cup {None}
  PROVE  LET f == getNumber(b, uri, ring, account, person)
         IN /\ Sound(f.book)
            /\ f.book.size \in {b.size, b.size + 1}
            /\ LosesAccounts(b, f.book)
            /\ f.number \in Known(f.book)
<1>. DEFINE wrap2 == IF ~hasHostname(uri) /\ account # None
                     THEN b.directory[Extended(uri, account)] ELSE <<>>
            f1 == fillDetails(b, b.directory[uri], uri, account, person)
            f2 == IF f1.number # 0 /\ Of(f1.book, f1.number).person # None
                  THEN fillDetails(f1.book, wrap2, uri, account, person)
                  ELSE [f1 EXCEPT !.number = 0]
            f3 == ShortCandidate(f2.book, uri, account, person)
            merged == MergeCandidates(f3.book, f1.number, f2.number, f3.number)
            looked == Mention(merged, LookedUp(uri, account))
            found == IF f2.number # 0 THEN f2.number
                     ELSE IF f1.number # 0 THEN f1.number ELSE f3.number
            f == getNumber(b, uri, ring, account, person)
<1>1. f = IF found # 0 THEN [book |-> looked, number |-> found]
          ELSE FindOrCreate(looked, uri, ring, account, person)
  BY DEF getNumber
<1>2. /\ f1 \in [book : Book, number : Nat]
      /\ Follows(b, f1.book) /\ Sound(f1.book) /\ Known(f1.book) = Known(b)
      /\ f1.number \in {0} \cup Known(b)
  BY WrapperIsKnown, FillDetailsFollows DEF Answers, Follows, Known
<1>3. wrap2 \in Seq(Number) /\ \A i \in DOMAIN wrap2 : wrap2[i] \in Known(b)
  <2>1. CASE ~hasHostname(uri) /\ account # None
    <3>1. Extended(uri, account) \in Uri
      BY <2>1, UriShapes
    <3>. QED
      BY <2>1, <3>1, WrapperIsKnown
  <2>2. CASE ~(~hasHostname(uri) /\ account # None)
    BY <2>2
  <2>. QED
    BY <2>1, <2>2
<1>. HIDE DEF wrap2, f1
<1>4. /\ Follows(b, f2.book) /\ Sound(f2.book) /\ Known(f2.book) = Known(b)
      /\ f2.number \in {0} \cup Known(b)
  <2>1. CASE f1.number # 0 /\ Of(f1.book, f1.number).person # None
    <3>1. f2 = fillDetails(f1.book, wrap2, uri, account, person)
      BY <2>1
    <3>. HIDE DEF f2
    <3>2. Answers(f1.book, f2)
      BY <1>2, <1>3, <3>1, FillDetailsFollows
    <3>. QED
      BY <1>2, <3>2, FollowsOn DEF Answers, Follows, Known
  <2>2. CASE ~(f1.number # 0 /\ Of(f1.book, f1.number).person # None)
    <3>1. f2.book = f1.book /\ f2.number = 0
      BY <1>2, <2>2
    <3>. HIDE DEF f2
    <3>. QED
      BY <1>2, <3>1
  <2>. QED
    BY <2>1, <2>2
<1>. HIDE DEF f2
<1>5. /\ Follows(b, f3.book) /\ Sound(f3.book) /\ Known(f3.book) = Known(b)
      /\ f3.number \in {0} \cup Known(b)
  <2>1. Answers(f2.book, f3)
    BY <1>4, ShortCandidateFollows
  <2>. HIDE DEF f3
  <2>. QED
    BY <1>4, <2>1, FollowsOn DEF Answers, Follows, Known
<1>. HIDE DEF f3
<1>6. /\ Sound(merged) /\ merged.size = b.size /\ LosesAccounts(b, merged)
  <2>1. Sound(merged) /\ merged.size = f3.book.size /\ LosesAccounts(f3.book, merged)
    <3>1. /\ f1.number \in {0} \cup Known(f3.book) /\ f2.number \in {0} \cup Known(f3.book)
          /\ f3.number \in {0} \cup Known(f3.book)
      BY <1>2, <1>4, <1>5
    <3>. QED
      BY <1>5, <3>1, MergeCandidatesLoses
  <2>. HIDE DEF merged
  <2>2. LosesAccounts(b, merged)
    BY <1>5, <2>1 DEF Follows, KeepsAccounts, LosesAccounts, DetailsKeep
  <2>. QED
    BY <1>5, <2>1, <2>2 DEF Follows
<1>. HIDE DEF merged
<1>7. /\ Sound(looked) /\ looked.size = b.size /\ LosesAccounts(b, looked)
  <2>1. Sound(looked) /\ SameNumbers(merged, looked) /\ SameAccounts(merged, looked)
    BY <1>6, MentionFollows, LookedUpInUri
  <2>. HIDE DEF looked
  <2>. QED
    BY <1>6, <2>1 DEF SameNumbers, SameAccounts, LosesAccounts, Known, DetailsKeep
<1>. HIDE DEF looked
<1>8. found \in {0} \cup Known(b)
  BY <1>2, <1>4, <1>5
<1>. HIDE DEF found
<1>9. CASE found # 0
  <2>1. f.book = looked /\ f.number = found
    BY <1>1, <1>9
  <2>. QED
    BY <1>7, <1>8, <1>9, <2>1 DEF Known
<1>10. CASE found = 0
  <2>1. Grows(looked, f)
    BY <1>1, <1>7, <1>10, FindOrCreateGrows
  <2>. HIDE DEF f
  <2>2. LosesAccounts(b, f.book)
    BY <1>7, <2>1 DEF Grows, SameAccounts, LosesAccounts, Known, DetailsKeep
  <2>. QED
    BY <1>7, <2>1, <2>2 DEF Grows, f
<1>. QED
  BY <1>9, <1>10

-----------------------------------------------------------------------------
(* The popular numbers.                                                     *)

\* What counting a call leaves.
Told(b, c) == Sound(c) /\ c.size = b.size /\ SameAccounts(b, c)

LEMMA ToldOn ==
  ASSUME NEW b, NEW c, NEW e, Told(b, c), Told(c, e)
  PROVE  Told(b, e)
BY DEF Told, SameAccounts, Known, DetailsKeep

\* The list and the indices may change, as long as they agree.
LEMMA Reranked ==
  ASSUME NEW b, Sound(b), NEW c \in Book,
         c.size = b.size, c.d = b.d, c.parents = b.parents, c.directory = b.directory,
         \A e \in Number : c.details[e].account = b.details[e].account,
         Listed(c), Alone(b) /\ Placed(b) => Placed(c)
  PROVE  Told(b, c)
<1>1. /\ Proxies(c) /\ Known(c) = Known(b)
      /\ Alone(b) => Alone(c)
      /\ Abandoned(b) => Abandoned(c)
  BY SameProxies DEF Sound
<1>2. Filed(c) /\ Ranked(c)
  BY <1>1 DEF Sound, Filed, Ranked
<1>3. SameAccounts(b, c)
  BY KnownIsNumber DEF Sound, SameAccounts, Of, DetailsKeep
<1>. QED
  BY <1>1, <1>2, <1>3 DEF Told, Sound

LEMMA BreakingTells ==
  ASSUME NEW b, Sound(b), NEW how \in {"no", "popular", "directory"}
  PROVE  Told(b, [b EXCEPT !.broken = how])
<1>. DEFINE c == [b EXCEPT !.broken = how]
<1>1. b \in Book
  BY DEF Sound
<1>2. /\ c.size = b.size /\ c.d = b.d /\ c.parents = b.parents /\ c.details = b.details
      /\ c.directory = b.directory /\ c.popular = b.popular
  BY <1>1 DEF Book
<1>3. c \in Book
  BY <1>1 DEF Book
<1>4. Listed(c) /\ (Placed(b) => Placed(c))
  BY <1>2 DEF Sound, Listed, Placed, Known
<1>. HIDE DEF c
<1>5. Told(b, c)
  BY <1>2, <1>3, <1>4, Reranked
<1>. QED
  BY <1>5 DEF c

Reindexed(ds, x, i) == [ds EXCEPT ![x].popularity = i]

LEMMA IndexWritten ==
  ASSUME NEW ds \in [Number -> Details], NEW x \in Number, NEW i \in Nat
  PROVE  /\ Reindexed(ds, x, i) \in [Number -> Details]
         /\ \A e \in Number :
              /\ Reindexed(ds, x, i)[e].account = ds[e].account
              /\ Reindexed(ds, x, i)[e].popularity = IF e = x THEN i ELSE ds[e].popularity
<1>. DEFINE v == [ds[x] EXCEPT !.popularity = i]
            es == Reindexed(ds, x, i)
<1>1. v \in Details /\ v.popularity = i /\ v.account = ds[x].account
  BY DEF Details
<1>2. es = [ds EXCEPT ![x] = v]
  BY DEF Reindexed
<1>. HIDE DEF v, es
<1>3. /\ es \in [Number -> Details]
      /\ \A e \in Number : /\ es[e].account = ds[e].account
                           /\ es[e].popularity = IF e = x THEN i ELSE ds[e].popularity
  BY <1>1, <1>2
<1>. QED
  BY <1>3 DEF es

\* A number that is not in the list while it has room.
LEMMA AppendTells ==
  ASSUME NEW b, Sound(b), NEW n \in Known(b), Position(b, n) = 0
  PROVE  Told(b, SetPosition([b EXCEPT !.popular = Append(@, n)], n, Len(b.popular) + 1))
<1>. DEFINE L == Len(b.popular)
            c == SetPosition([b EXCEPT !.popular = Append(@, n)], n, L + 1)
            x == b.d[n]
<1>1. b \in Book /\ n \in Number /\ x \in Number /\ b.popular \in Seq(Number) /\ L \in Nat
      /\ b.details \in [Number -> Details] /\ Listed(b)
  BY KnownIsNumber, BookParts DEF Sound
<1>2. /\ c.size = b.size /\ c.d = b.d /\ c.parents = b.parents
      /\ c.directory = b.directory /\ c.keys = b.keys /\ c.broken = b.broken
      /\ c.popular = Append(b.popular, n)
  BY <1>1 DEF Book, SetPosition
<1>3. c.details = Reindexed(b.details, x, L + 1)
  BY <1>1 DEF Book, SetPosition, Reindexed
<1>4. c.details \in [Number -> Details] /\ c.popular \in Seq(Number)
  <2>1. c.details \in [Number -> Details]
    <3>1. L + 1 \in Nat
      BY <1>1
    <3>. HIDE DEF c, L, x
    <3>. QED
      BY <1>1, <1>3, <3>1, IndexWritten
  <2>2. c.popular \in Seq(Number)
    <3>. HIDE DEF c
    <3>. QED
      BY <1>1, <1>2
  <2>. QED
    BY <2>1, <2>2
<1>5. c \in Book
  BY <1>1, <1>2, <1>4, BookParts DEF Book, SetPosition
<1>. HIDE DEF c, L, x
<1>6. \A e \in Number : /\ c.details[e].account = b.details[e].account
                        /\ c.details[e].popularity =
                             IF e = x THEN L + 1 ELSE b.details[e].popularity
  BY <1>1, <1>3, IndexWritten
<1>7. /\ DOMAIN c.popular = 1 .. L + 1 /\ DOMAIN b.popular = 1 .. L
      /\ c.popular[L + 1] = n /\ \A i \in 1 .. L : c.popular[i] = b.popular[i]
  BY <1>1, <1>2 DEF L
<1>8. Listed(c)
  BY <1>1, <1>2, <1>7 DEF Listed, Known
<1>9. ASSUME Alone(b), Placed(b) PROVE Placed(c)
  <2>1. x = n /\ b.details[n].popularity = 0
    BY <1>9 DEF Alone, x, Position, Of
  <2>2. \A i \in 1 .. L : b.popular[i] # n /\ b.popular[i] \in Number /\ b.details[b.popular[i]].popularity = i
    BY <1>1, <1>7, <1>9, <2>1 DEF Placed
  <2>3. \A i \in DOMAIN c.popular : c.details[c.popular[i]].popularity = i
    BY <1>1, <1>6, <1>7, <2>1, <2>2
  <2>4. \A m \in Known(c) : c.details[m].popularity = 0 \/ \E i \in DOMAIN c.popular : c.popular[i] = m
    <3>. TAKE m \in Known(c)
    <3>1. m \in Number /\ m \in Known(b)
      BY <1>1, <1>2, KnownIsNumber DEF Known
    <3>2. CASE m = n
      BY <1>1, <1>7, <3>2, L + 1 \in 1 .. L + 1
    <3>3. CASE m # n
      <4>1. c.details[m].popularity = b.details[m].popularity
        BY <1>6, <2>1, <3>1, <3>3
      <4>2. b.details[m].popularity = 0 \/ \E i \in 1 .. L : b.popular[i] = m
        BY <1>7, <1>9, <3>1 DEF Placed
      <4>3. \A i \in 1 .. L : i \in 1 .. L + 1
        BY <1>1
      <4>. QED
        BY <1>7, <4>1, <4>2, <4>3
    <3>. QED
      BY <3>2, <3>3
  <2>. QED
    BY <2>3, <2>4 DEF Placed
<1>10. Told(b, c)
  BY <1>2, <1>5, <1>6, <1>8, <1>9, Reranked
<1>. QED
  BY <1>10 DEF c, L

\* A number that takes the last place of the full list.
LEMMA TakeLastPlaceTells ==
  ASSUME NEW b, Sound(b), NEW n \in Known(b), Position(b, n) = 0,
         Len(b.popular) >= MaxPopular
  PROVE  Told(b, TakeLastPlace(b, n))
<1>. DEFINE last == b.popular[MaxPopular]
            c == TakeLastPlace(b, n)
            x == b.d[n]
            y == b.d[last]
            ds == Reindexed(b.details, y, 0)
<1>1. /\ b \in Book /\ n \in Number /\ x \in Number /\ b.popular \in Seq(Number)
      /\ b.details \in [Number -> Details] /\ Listed(b)
      /\ MaxPopular \in DOMAIN b.popular /\ DOMAIN b.popular = 1 .. Len(b.popular)
      /\ MaxPopular \in Nat
  BY KnownIsNumber, BookParts, DirectoryAssumption DEF Sound
<1>2. last \in Known(b) /\ last \in Number /\ y \in Number
  BY <1>1, KnownIsNumber DEF Listed
<1>3. /\ c.size = b.size /\ c.d = b.d /\ c.parents = b.parents
      /\ c.directory = b.directory /\ c.keys = b.keys /\ c.broken = b.broken
      /\ c.popular = [b.popular EXCEPT ![MaxPopular] = n]
  BY <1>1 DEF Book, SetPosition, TakeLastPlace
<1>4. c.details = Reindexed(ds, x, MaxPopular)
  BY <1>1 DEF Book, SetPosition, TakeLastPlace, Reindexed
<1>5. /\ ds \in [Number -> Details]
      /\ \A e \in Number : /\ ds[e].account = b.details[e].account
                           /\ ds[e].popularity = IF e = y THEN 0 ELSE b.details[e].popularity
  <2>. HIDE DEF y, last
  <2>1. 0 \in Nat /\ y \in Number /\ b.details \in [Number -> Details]
    BY <1>1, <1>2
  <2>2. ds = Reindexed(b.details, y, 0)
    OBVIOUS
  <2>. HIDE DEF ds
  <2>. QED
    BY <2>1, <2>2, IndexWritten
<1>. HIDE DEF ds, y, last
<1>6. /\ c.details \in [Number -> Details]
      /\ \A e \in Number : /\ c.details[e].account = ds[e].account
                           /\ c.details[e].popularity =
                                IF e = x THEN MaxPopular ELSE ds[e].popularity
  <2>. HIDE DEF c, x
  <2>. QED
    BY <1>1, <1>4, <1>5, IndexWritten
<1>7. c.popular \in Seq(Number)
  BY <1>1, <1>3
<1>8. c \in Book
  BY <1>1, <1>3, <1>6, <1>7, BookParts DEF Book, SetPosition, TakeLastPlace
<1>. HIDE DEF c, x
<1>9. /\ DOMAIN c.popular = DOMAIN b.popular
      /\ \A i \in DOMAIN b.popular :
           c.popular[i] = IF i = MaxPopular THEN n ELSE b.popular[i]
  BY <1>1, <1>3
<1>10. Listed(c)
  BY <1>1, <1>3, <1>9 DEF Listed, Known
<1>11. ASSUME Alone(b), Placed(b) PROVE Placed(c)
  <2>1. x = n /\ y = last /\ b.details[n].popularity = 0
    BY <1>2, <1>11 DEF Alone, x, y, Position, Of
  <2>2. \A i \in DOMAIN b.popular :
          b.popular[i] # n /\ b.popular[i] \in Number /\ b.details[b.popular[i]].popularity = i
    BY <1>1, <1>11, <2>1 DEF Placed
  <2>3. \A i \in DOMAIN c.popular : c.details[c.popular[i]].popularity = i
    <3>. TAKE i \in DOMAIN c.popular
    <3>1. CASE i = MaxPopular
      BY <1>1, <1>6, <1>9, <2>1, <3>1
    <3>2. CASE i # MaxPopular
      <4>1. b.popular[i] # last
        BY <1>1, <1>9, <2>2, <3>2 DEF last
      <4>. QED
        BY <1>5, <1>6, <1>9, <2>1, <2>2, <3>2, <4>1
    <3>. QED
      BY <3>1, <3>2
  <2>4. ASSUME NEW m \in Known(c)
        PROVE  c.details[m].popularity = 0 \/ \E i \in DOMAIN c.popular : c.popular[i] = m
    <3>1. m \in Number /\ m \in Known(b)
      BY <1>1, <1>3, KnownIsNumber DEF Known
    <3>2. CASE m = n
      BY <1>1, <1>9, <3>2
    <3>3. CASE m = last /\ m # n
      BY <1>5, <1>6, <2>1, <3>1, <3>3
    <3>4. CASE m # last /\ m # n
      <4>1. c.details[m].popularity = b.details[m].popularity
        BY <1>5, <1>6, <2>1, <3>1, <3>4
      <4>2. b.details[m].popularity = 0 \/ \E i \in DOMAIN b.popular : b.popular[i] = m
        BY <1>11, <3>1 DEF Placed
      <4>. QED
        BY <1>9, <3>4, <4>1, <4>2 DEF last
    <3>. QED
      BY <3>2, <3>3, <3>4
  <2>. QED
    BY <2>3, <2>4 DEF Placed
<1>12. Told(b, c)
  <2>1. \A e \in Number : c.details[e].account = b.details[e].account
    BY <1>5, <1>6
  <2>. QED
    BY <1>3, <1>8, <1>10, <1>11, <2>1, Reranked
<1>. QED
  BY <1>12 DEF c

LEMMA MaxIsGreatest ==
  ASSUME NEW k \in Nat, NEW I \in SUBSET (1 .. k), I # {}
  PROVE  Max(I) \in I
<1>1. Filling!Top(I) \in I
  BY Filling!TopIsGreatest
<1>. QED
  BY <1>1, Zenon DEF Filling!Top, Max

\* The loop of slotCallAdded(): one number goes up, those it passes go down.
LEMMA RiseTells ==
  ASSUME NEW b, Sound(b), NEW n \in Known(b), NEW i, i = Position(b, n),
         i <= Len(b.popular), Passes(b, n, i)
  PROVE  Told(b, Rise(b, n, i))
<1>. DEFINE L == Len(b.popular)
            j == Landing(b, n, i)
            c == Rise(b, n, i)
            x == b.d[n]
            Down(d) == Cardinality(Passed(b, n, i, d))
<1>1. /\ b \in Book /\ n \in Number /\ x \in Number /\ b.popular \in Seq(Number) /\ L \in Nat
      /\ b.details \in [Number -> Details] /\ Listed(b) /\ DOMAIN b.popular = 1 .. L
  BY KnownIsNumber, BookParts DEF Sound
<1>2. i \in 2 .. L
  <2>1. b.details[x] \in Details /\ i = b.details[x].popularity
    BY <1>1 DEF Position, Of
  <2>. QED
    BY <1>1, <2>1 DEF Details, Passes
<1>3. j \in 1 .. i - 1
  <2>. DEFINE I == {k \in 1 .. i - 1 : ~Passes(b, n, k)}
  <2>1. i - 1 \in Nat /\ I \in SUBSET (1 .. i - 1) /\ 1 \in 1 .. i - 1
    BY <1>2
  <2>2. ~Passes(b, n, 1)
    BY DEF Passes
  <2>3. I # {}
    BY <2>1, <2>2
  <2>. HIDE DEF I
  <2>4. Max(I) \in I
    BY <2>1, <2>3, MaxIsGreatest
  <2>. QED
    BY <2>1, <2>4 DEF Landing, I
<1>4. \A d \in Number : Down(d) \in Nat
  <2>. TAKE d \in Number
  <2>1. IsFiniteSet(j .. i - 1) /\ Passed(b, n, i, d) \subseteq j .. i - 1
    BY <1>2, <1>3, FS_Interval DEF Passed
  <2>. QED
    BY <2>1, FS_Subset, FS_CardinalityType
<1>5. c = [b EXCEPT
             !.popular = [k \in DOMAIN b.popular |->
               IF k = j THEN n ELSE IF k \in j + 1 .. i THEN b.popular[k - 1] ELSE b.popular[k]],
             !.details = [d \in Number |->
               [b.details[d] EXCEPT !.popularity = IF d = x THEN j ELSE b.details[d].popularity + Down(d)]]]
  <2>1. ~(i > Len(b.popular))
    BY <1>1, <1>2
  <2>. QED
    BY <2>1 DEF Rise
<1>. HIDE DEF c, L, j, x, Down
<1>6. /\ c.size = b.size /\ c.d = b.d /\ c.parents = b.parents
      /\ c.directory = b.directory /\ c.keys = b.keys /\ c.broken = b.broken
  BY <1>1, <1>5 DEF Book
<1>7. c.popular = [k \in DOMAIN b.popular |->
        IF k = j THEN n ELSE IF k \in j + 1 .. i THEN b.popular[k - 1] ELSE b.popular[k]]
  BY <1>1, <1>5 DEF Book
<1>8. c.details = [d \in Number |->
        [b.details[d] EXCEPT !.popularity = IF d = x THEN j ELSE b.details[d].popularity + Down(d)]]
  BY <1>1, <1>5 DEF Book
<1>9. ASSUME NEW e \in Number
      PROVE  /\ c.details[e] \in Details
             /\ c.details[e].account = b.details[e].account
             /\ c.details[e].popularity =
                  IF e = x THEN j ELSE b.details[e].popularity + Down(e)
  <2>. DEFINE p == IF e = x THEN j ELSE b.details[e].popularity + Down(e)
  <2>1. b.details[e] \in Details /\ b.details[e].popularity \in Nat
    BY <1>1 DEF Details
  <2>2. p \in Nat
    BY <1>2, <1>3, <1>4, <2>1
  <2>3. c.details[e] = [b.details[e] EXCEPT !.popularity = p]
    BY <1>8
  <2>. HIDE DEF p
  <2>4. /\ c.details[e] \in Details /\ c.details[e].account = b.details[e].account
        /\ c.details[e].popularity = p
    BY <2>1, <2>2, <2>3 DEF Details
  <2>. QED
    BY <2>4 DEF p
<1>10. \A k \in 1 .. L :
         /\ c.popular[k] = IF k = j THEN n
                           ELSE IF k \in j + 1 .. i THEN b.popular[k - 1] ELSE b.popular[k]
         /\ k \in j + 1 .. i => k - 1 \in 1 .. L
  BY <1>1, <1>2, <1>3, <1>7
<1>11. DOMAIN c.popular = 1 .. L /\ c.popular \in Seq(Number)
  <2>1. c.popular \in [1 .. L -> Number]
    <3>1. \A k \in 1 .. L : c.popular[k] \in Number
      BY <1>1, <1>10
    <3>. QED
      BY <1>1, <1>7, <3>1
  <2>. QED
    BY <1>1, <2>1
<1>12. c \in Book
  <2>1. c.details \in [Number -> Details]
    BY <1>8, <1>9
  <2>. QED
    BY <1>1, <1>5, <1>6, <1>11, <2>1, BookParts DEF Book
<1>13. Listed(c)
  BY <1>1, <1>6, <1>10, <1>11 DEF Listed, Known
<1>14. ASSUME Alone(b), Placed(b) PROVE Placed(c)
  <2>1. x = n /\ b.details[n].popularity = i
    BY <1>14 DEF Alone, x, Position, Of
  <2>2. \A k \in 1 .. L : b.popular[k] \in Known(b) /\ b.popular[k] \in Number
                          /\ b.details[b.popular[k]].popularity = k
    BY <1>1, <1>14 DEF Placed, Listed
  <2>3. \A k \in 1 .. L : b.popular[k] = n <=> k = i
    <3>1. PICK l \in 1 .. L : b.popular[l] = n
      BY <1>1, <1>2, <1>14, <2>1 DEF Placed
    <3>2. l = i
      BY <2>1, <2>2, <3>1
    <3>. QED
      BY <2>1, <2>2, <3>1, <3>2
  <2>4. \A e \in Known(b) : Passed(b, n, i, e) = {k \in j .. i - 1 : b.popular[k] = e}
    <3>1. \A k \in j .. i - 1 : b.d[b.popular[k]] = b.popular[k]
      <4>1. \A l \in j .. i - 1 : l \in 1 .. L
        BY <1>1, <1>2, <1>3
      <4>. QED
        BY <1>14, <2>2, <4>1 DEF Alone
    <3>. QED
      BY <3>1 DEF Passed, j
  <2>5. ASSUME NEW k \in 1 .. L, k # i
        PROVE  /\ b.popular[k] # n
               /\ c.details[b.popular[k]].popularity = IF k \in j .. i - 1 THEN k + 1 ELSE k
    <3>. DEFINE e == b.popular[k]
    <3>1. e # n /\ e \in Known(b) /\ e \in Number
      BY <2>2, <2>3, <2>5
    <3>2. \A l \in j .. i - 1 : b.popular[l] = e => l = k
      <4>1. \A l \in j .. i - 1 : l \in 1 .. L
        BY <1>1, <1>2, <1>3
      <4>. QED
        BY <2>2, <4>1
    <3>3. CASE k \in j .. i - 1
      <4>1. Passed(b, n, i, e) = {k}
        BY <2>4, <3>1, <3>2, <3>3
      <4>2. Down(e) = 1
        BY <4>1, FS_Singleton DEF Down
      <4>. QED
        BY <1>9, <2>1, <2>2, <3>1, <3>3, <4>2
    <3>4. CASE k \notin j .. i - 1
      <4>1. Passed(b, n, i, e) = {}
        BY <2>4, <3>1, <3>2, <3>4
      <4>2. Down(e) = 0
        BY <4>1, FS_EmptySet DEF Down
      <4>. QED
        BY <1>9, <2>1, <2>2, <3>1, <3>4, <4>2
    <3>. QED
      BY <3>3, <3>4
  <2>6. ASSUME NEW k \in 1 .. L
        PROVE  c.details[c.popular[k]].popularity = k
    <3>1. CASE k = j
      BY <1>1, <1>9, <1>10, <2>1, <3>1
    <3>2. CASE k \in j + 1 .. i
      <4>1. k - 1 \in 1 .. L /\ k - 1 # i /\ k - 1 \in j .. i - 1 /\ (k - 1) + 1 = k
        BY <1>1, <1>2, <1>3, <3>2
      <4>2. c.popular[k] = b.popular[k - 1]
        BY <1>2, <1>3, <1>10, <3>2
      <4>. QED
        BY <2>5, <4>1, <4>2
    <3>3. CASE k # j /\ k \notin j + 1 .. i
      <4>1. k # i /\ k \notin j .. i - 1
        BY <1>2, <1>3, <3>3
      <4>. QED
        BY <1>10, <2>5, <3>3, <4>1
    <3>. QED
      BY <3>1, <3>2, <3>3
  <2>7. ASSUME NEW m \in Known(b)
        PROVE  c.details[m].popularity = 0 \/ \E k \in 1 .. L : c.popular[k] = m
    <3>1. m \in Number
      BY <1>1, KnownIsNumber
    <3>2. CASE m = n
      <4>1. j \in 1 .. L
        BY <1>1, <1>2, <1>3
      <4>. QED
        BY <1>10, <3>2, <4>1
    <3>3. CASE m # n /\ \E k \in 1 .. L : b.popular[k] = m
      <4>1. PICK k \in 1 .. L : b.popular[k] = m
        BY <3>3
      <4>2. k # i
        BY <2>3, <3>3, <4>1
      <4>3. CASE k \in j .. i - 1
        <5>1. k + 1 \in 1 .. L /\ k + 1 # j /\ k + 1 \in j + 1 .. i /\ (k + 1) - 1 = k
          BY <1>1, <1>2, <1>3, <4>3
        <5>. QED
          BY <1>10, <4>1, <5>1
      <4>4. CASE k \notin j .. i - 1
        <5>1. k # j /\ k \notin j + 1 .. i
          BY <1>2, <1>3, <4>2, <4>4
        <5>. QED
          BY <1>10, <4>1, <5>1
      <4>. QED
        BY <4>3, <4>4
    <3>4. CASE m # n /\ ~\E k \in 1 .. L : b.popular[k] = m
      <4>1. b.details[m].popularity = 0
        BY <1>1, <1>14, <3>4 DEF Placed
      <4>2. Passed(b, n, i, m) = {}
        <5>1. \A k \in j .. i - 1 : k \in 1 .. L
          BY <1>1, <1>2, <1>3
        <5>. QED
          BY <2>4, <3>4, <5>1
      <4>3. Down(m) = 0
        BY <4>2, FS_EmptySet DEF Down
      <4>. QED
        BY <1>9, <2>1, <3>1, <3>4, <4>1, <4>3
    <3>. QED
      BY <3>2, <3>3, <3>4
  <2>. QED
    BY <1>6, <1>11, <2>6, <2>7 DEF Placed, Known
<1>15. Told(b, c)
  BY <1>6, <1>9, <1>12, <1>13, <1>14, Reranked
<1>. QED
  BY <1>15 DEF c

LEMMA SlotCallAddedTells ==
  ASSUME NEW b, Sound(b), NEW n \in Known(b)
  PROVE  Told(b, slotCallAdded(b, n))
<1>. DEFINE i == Position(b, n)
            c == slotCallAdded(b, n)
            popular == [b EXCEPT !.broken = "popular"]
<1>. SUFFICES Told(b, c)
  OBVIOUS
<1>1. Told(b, b) /\ Told(b, popular)
  BY BreakingTells DEF Told, SameAccounts, DetailsKeep
<1>2. \/ c = b
      \/ c = popular
      \/ c = Rise(b, n, i) /\ Passes(b, n, i)
      \/ /\ c = SetPosition([b EXCEPT !.popular = Append(@, n)], n, Len(b.popular) + 1)
         /\ i = 0
      \/ c = TakeLastPlace(b, n) /\ i = 0 /\ Len(b.popular) >= MaxPopular
  BY DEF slotCallAdded
<1>. HIDE DEF c
<1>3. CASE c = Rise(b, n, i) /\ Passes(b, n, i)
  <2>1. CASE i <= Len(b.popular)
    <3>1. Told(b, Rise(b, n, i))
      BY <1>3, <2>1, RiseTells
    <3>. QED
      BY <1>3, <3>1
  <2>2. CASE ~(i <= Len(b.popular))
    <3>1. i \in Nat /\ Len(b.popular) \in Nat
      BY KnownIsNumber, BookParts DEF Sound, Position, Details
    <3>2. i > Len(b.popular)
      BY <2>2, <3>1
    <3>3. Rise(b, n, i) = popular
      BY <3>2, Zenon DEF Rise
    <3>. QED
      BY <1>1, <1>3, <3>3
  <2>. QED
    BY <2>1, <2>2
<1>4. CASE /\ c = SetPosition([b EXCEPT !.popular = Append(@, n)], n, Len(b.popular) + 1)
           /\ i = 0
  BY <1>4, AppendTells
<1>5. CASE c = TakeLastPlace(b, n) /\ i = 0 /\ Len(b.popular) >= MaxPopular
  BY <1>5, TakeLastPlaceTells
<1>. QED
  BY <1>1, <1>2, <1>3, <1>4, <1>5

LEMMA TellParentsTells ==
  ASSUME NEW b, Sound(b), NEW m \in Known(b)
  PROVE  Told(b, TellParents(b, m))
<1>. DEFINE X == {c \in Book : Told(b, c)}
            s == b.parents[b.d[m]]
<1>1. s \in Seq(Number) /\ \A i \in DOMAIN s : s[i] \in Known(b)
  BY KnownIsNumber, BookParts DEF Sound, Proxies
<1>2. b \in X
  BY DEF Told, Sound, SameAccounts, DetailsKeep
<1>3. ASSUME NEW c \in X, NEW i \in DOMAIN s
      PROVE  slotCallAdded(c, s[i]) \in X
  <2>1. Told(b, c) /\ Sound(c) /\ s[i] \in Known(c)
    BY <1>1 DEF Told, Known
  <2>2. Told(c, slotCallAdded(c, s[i]))
    BY <2>1, SlotCallAddedTells
  <2>. QED
    BY <2>1, <2>2, ToldOn DEF Told, Sound
<1>4. TellParents(b, m) \in X
  <2>. HIDE DEF X
  <2>. QED
    BY <1>1, <1>2, <1>3, TellingStays
<1>. QED
  BY <1>4

LEMMA CallAddedTells ==
  ASSUME NEW b, Sound(b), NEW m \in Known(b), NEW seconds \in Int, NEW failed \in BOOLEAN
  PROVE  Told(b, CallAdded(b, m, seconds, failed))
<1>. DEFINE c == addCall(b, m, seconds)
<1>1. Told(b, c) /\ Sound(c) /\ m \in Known(c)
  BY AddCallFollows DEF Told, SameBut, Known
<1>. HIDE DEF c
<1>2. Told(c, TellParents(c, m))
  BY <1>1, TellParentsTells
<1>3. Told(b, TellParents(c, m))
  BY <1>1, <1>2, ToldOn
<1>. QED
  BY <1>1, <1>3 DEF CallAdded, c

-----------------------------------------------------------------------------
(* The first number of a wrapper.                                           *)

\* A wrapper is emptied.
LEMMA ForgottenFollows ==
  ASSUME NEW b, Sound(b), NEW uri \in Uri
  PROVE  LET c == [b EXCEPT !.directory[uri] = <<>>]
         IN Sound(c) /\ c.size = b.size /\ SameAccounts(b, c)
<1>. DEFINE c == [b EXCEPT !.directory[uri] = <<>>]
<1>1. b \in Book
  BY DEF Sound
<1>2. /\ c.size = b.size /\ c.d = b.d /\ c.parents = b.parents /\ c.details = b.details
      /\ c.popular = b.popular /\ c.broken = b.broken /\ c.keys = b.keys
      /\ c.directory = [b.directory EXCEPT ![uri] = <<>>]
  BY <1>1 DEF Book
<1>3. c.directory \in [Uri -> Seq(Number)]
  BY <1>1, <1>2, BookParts
<1>4. c \in Book
  BY <1>1, <1>2, <1>3 DEF Book
<1>. HIDE DEF c
<1>5. Filed(c)
  <2>. SUFFICES ASSUME NEW w \in Uri, NEW i \in DOMAIN c.directory[w]
                PROVE  c.directory[w][i] \in Known(c)
    BY DEF Filed
  <2>1. c.directory[w] = IF w = uri THEN <<>> ELSE b.directory[w]
    BY <1>1, <1>2, BookParts
  <2>. QED
    BY <1>2, <2>1 DEF Sound, Filed, Known
<1>6. Sound(c) /\ SameAccounts(b, c)
  BY <1>2, <1>4, <1>5, Refiled
<1>. QED
  BY <1>2, <1>6 DEF c

LEMMA GetFirstNumberSound ==
  ASSUME NEW b, Sound(b), b.size + (IF HistoryBackend THEN 2 ELSE 1) <= MaxNumbers,
         NEW uri \in Uri, NEW ring \in BOOLEAN
  PROVE  LET f == getFirstNumber(b, uri, ring)
         IN Sound(f.book) /\ LosesAccounts(b, f.book)
<1>. DEFINE m == b.size + 1
            created == New(b, uri, ring, None, None)
            fake == getNumber(created, uri, FALSE, None, None)
            called == CallAdded(fake.book, fake.number, 0, FALSE)
            withHistory == WithFakeCall(fake, uri)
            kept == IF HistoryBackend THEN withHistory ELSE created
            f == getFirstNumber(b, uri, ring)
<1>1. b.size \in Nat /\ b.size < MaxNumbers /\ (HistoryBackend => b.size + 1 < MaxNumbers)
  BY BookParts, ContactMethodAssumption DEF Sound
<1>0. /\ None \in Accounts \cup {None} /\ None \in Persons \cup {None}
      /\ FALSE \in BOOLEAN /\ 0 \in Int
  OBVIOUS
<1>2. CASE b.directory[uri] # <<>>
  <2>1. f.book = b
    BY <1>2 DEF getFirstNumber
  <2>. QED
    BY <2>1 DEF LosesAccounts, DetailsKeep
<1>3. CASE b.directory[uri] = <<>>
  <2>1. f.book = File(kept, uri, m)
    BY <1>3 DEF getFirstNumber
  <2>. HIDE DEF f, kept, withHistory, called, fake
  <2>2. Sound(created) /\ created.size = m /\ SameAccounts(b, created)
    BY <1>0, <1>1, NewFollows
  <2>. HIDE DEF created
  <2>3. Known(b) \subseteq Known(created) /\ m \in Known(created)
    BY <1>1, <2>2 DEF Known
  <2>4. ASSUME HistoryBackend
        PROVE  /\ Sound(withHistory) /\ withHistory.size \in {m, m + 1}
               /\ LosesAccounts(created, withHistory)
    <3>1. /\ Sound(fake.book) /\ fake.book.size \in {m, m + 1}
          /\ LosesAccounts(created, fake.book) /\ fake.number \in Known(fake.book)
      BY <1>0, <1>1, <2>2, <2>4, GetNumberSound DEF fake
    <3>2. Told(fake.book, called)
      BY <1>0, <3>1, CallAddedTells DEF called
    <3>3. /\ Sound(withHistory) /\ withHistory.size = called.size
          /\ SameAccounts(called, withHistory)
      BY <3>2, ForgottenFollows DEF Told, WithFakeCall, called, withHistory
    <3>4. Known(created) \subseteq Known(fake.book) /\ Known(called) = Known(fake.book)
      BY <1>1, <2>2, <3>1, <3>2 DEF Known, Told
    <3>. QED
      BY <3>1, <3>2, <3>3, <3>4 DEF Told, SameAccounts, LosesAccounts, DetailsKeep
  <2>5. /\ Sound(kept) /\ kept.size \in {m, m + 1} /\ LosesAccounts(b, kept)
    BY <2>2, <2>3, <2>4 DEF SameAccounts, LosesAccounts, kept, DetailsKeep
  <2>6. Known(b) \subseteq Known(kept) /\ m \in Known(kept)
    BY <1>1, <2>5 DEF Known
  <2>7. Sound(File(kept, uri, m)) /\ SameAccounts(kept, File(kept, uri, m))
    BY <2>5, <2>6, FileFollows
  <2>8. LosesAccounts(b, File(kept, uri, m))
    BY <2>5, <2>6, <2>7 DEF SameAccounts, LosesAccounts, DetailsKeep
  <2>. QED
    BY <2>1, <2>7, <2>8 DEF f
<1>. QED
  BY <1>2, <1>3

-----------------------------------------------------------------------------
(* The other handlers.                                                      *)

\* The numbers of a name are merged into one of the same account.
LEMMA MergeNamedFollows ==
  ASSUME NEW b, Sound(b), NEW cm \in Known(b),
         NEW wrap \in Seq(Number), \A i \in DOMAIN wrap : wrap[i] \in Known(b)
  PROVE  /\ Follows(b, MergeNamed(b, cm, wrap))
         /\ MergeNamed(b, cm, wrap).directory = b.directory
<1>. DEFINE X == {c \in Book : Follows(b, c) /\ c.directory = b.directory}
<1>1. b \in X
  BY DEF Sound, Follows, KeepsAccounts, DetailsKeep
<1>2. ASSUME NEW c \in X, NEW i \in DOMAIN wrap
      PROVE  MergeInto(cm, c, wrap[i]) \in X
  <2>. DEFINE n == wrap[i]
              e == merge(c, n, cm)
              Joins == \/ Of(c, n).account # None /\ Of(c, n).account = Of(c, cm).account
                       \/ Of(c, n).account = None
  <2>1. Sound(c) /\ Known(c) = Known(b) /\ Follows(b, c) /\ n \in Known(c)
    BY DEF Follows, Known
  <2>2. MergeInto(cm, c, n) = c \/ (MergeInto(cm, c, n) = e /\ Joins)
    BY Zenon DEF MergeInto
  <2>. HIDE DEF n
  <2>3. CASE MergeInto(cm, c, n) = e /\ Joins
    <3>1. Sound(e) /\ e.size = c.size /\ e.directory = c.directory /\ KeepsAccounts(c, e)
      BY <2>1, <2>3, MergeFollows
    <3>. HIDE DEF e
    <3>2. Follows(c, e)
      BY <3>1 DEF Follows
    <3>3. Follows(b, e) /\ e \in Book /\ e.directory = b.directory
      BY <2>1, <3>1, <3>2, FollowsOn DEF Sound
    <3>. QED
      BY <2>3, <3>3 DEF n
  <2>. QED
    BY <2>2, <2>3 DEF n
<1>3. MergeNamed(b, cm, wrap) \in X
  <2>. HIDE DEF X
  <2>. QED
    BY <1>1, <1>2, JoiningStays
<1>. QED
  BY <1>3

LEMMA NameOneFollows ==
  ASSUME NEW b, Sound(b), NEW cm \in Known(b), NEW account, NEW name \in Names
  PROVE  Follows(b, NameOne(b, cm, account, name))
<1>. DEFINE u == <<name>>
            named == setRegisteredName(b, cm, name)
            merged == MergeNamed(named, cm, b.directory[u])
            filed == IF u \in b.keys THEN merged ELSE File(named, u, cm)
            c == NameOne(b, cm, account, name)
            nobody == [named EXCEPT !.broken = "directory"]
<1>1. name \in Users /\ u \in Uri
  BY DirectoryAssumption DEF Uri
<1>2. c \in {b, nobody, File(filed, u, cm), filed}
  BY Zenon DEF NameOne
<1>. SUFFICES Follows(b, c)
  OBVIOUS
<1>3. Follows(b, b)
  BY DEF Follows, KeepsAccounts, DetailsKeep
<1>4. Follows(b, named) /\ Sound(named) /\ Known(named) = Known(b)
  BY <1>1, SetRegisteredNameFollows, SameAccountsKept DEF Follows, SameBut, Known
<1>. HIDE DEF c, named, filed
<1>5. Follows(b, nobody)
  <2>1. Told(named, nobody)
    BY <1>4, BreakingTells
  <2>. HIDE DEF nobody
  <2>2. Follows(named, nobody)
    BY <2>1, SameAccountsKept DEF Told, Follows
  <2>. QED
    BY <1>4, <2>2, FollowsOn
<1>6. ASSUME NEW e, Follows(b, e)
      PROVE  Follows(b, File(e, u, cm))
  <2>1. Sound(e) /\ cm \in Known(e)
    BY <1>6 DEF Follows, Known
  <2>2. Follows(e, File(e, u, cm))
    BY <1>1, <2>1, FileFollows, SameAccountsKept DEF Follows, SameNumbers
  <2>. QED
    BY <1>6, <2>2, FollowsOn
<1>7. Follows(b, merged)
  <2>1. /\ b.directory[u] \in Seq(Number)
        /\ \A i \in DOMAIN b.directory[u] : b.directory[u][i] \in Known(named)
    BY <1>1, <1>4, WrapperIsKnown
  <2>2. Follows(named, merged)
    BY <1>4, <2>1, MergeNamedFollows
  <2>. QED
    BY <1>4, <2>2, FollowsOn
<1>. HIDE DEF merged, u, nobody
<1>8. Follows(b, filed)
  BY <1>4, <1>6, <1>7 DEF filed
<1>. QED
  BY <1>2, <1>3, <1>5, <1>6, <1>8

LEMMA NameFoundFollows ==
  ASSUME NEW b, Sound(b), NEW account, NEW address \in Users, NEW name \in Names
  PROVE  Follows(b, slotRegisteredNameFound(b, account, address, name))
<1>. DEFINE X == {c \in Book : Follows(b, c)}
            s == b.directory[<<address>>]
<1>1. s \in Seq(Number) /\ \A i \in DOMAIN s : s[i] \in Known(b)
  BY WrapperIsKnown DEF Uri
<1>2. b \in X
  BY DEF Sound, Follows, KeepsAccounts, DetailsKeep
<1>3. ASSUME NEW c \in X, NEW i \in DOMAIN s
      PROVE  NameOne(c, s[i], account, name) \in X
  <2>1. Follows(b, c) /\ Sound(c) /\ s[i] \in Known(c)
    BY <1>1 DEF Follows, Known
  <2>2. Follows(c, NameOne(c, s[i], account, name))
    BY <2>1, NameOneFollows
  <2>. QED
    BY <2>1, <2>2, FollowsOn DEF Follows, Sound
<1>4. slotRegisteredNameFound(b, account, address, name) \in X
  <2>. HIDE DEF X
  <2>. QED
    BY <1>1, <1>2, <1>3, NamingStays
<1>. QED
  BY <1>4

\* The Person of some details is taken away.
Orphaned(b, S) ==
  [b EXCEPT !.details = [d \in Number |-> [b.details[d] EXCEPT !.person =
     IF \E m \in S : b.d[m] = d THEN None ELSE b.details[d].person]]]

LEMMA OrphanedTells ==
  ASSUME NEW b, Sound(b), NEW S
  PROVE  Told(b, Orphaned(b, S))
<1>. DEFINE c == Orphaned(b, S)
            p(d) == IF \E m \in S : b.d[m] = d THEN None ELSE b.details[d].person
<1>1. b \in Book /\ b.details \in [Number -> Details]
  BY BookParts DEF Sound
<1>2. /\ c.size = b.size /\ c.d = b.d /\ c.parents = b.parents /\ c.directory = b.directory
      /\ c.keys = b.keys /\ c.popular = b.popular /\ c.broken = b.broken
      /\ c.details = [d \in Number |-> [b.details[d] EXCEPT !.person = p(d)]]
  BY <1>1 DEF Book, Orphaned
<1>3. ASSUME NEW d \in Number
      PROVE  /\ c.details[d] \in Details /\ c.details[d].account = b.details[d].account
             /\ c.details[d].popularity = b.details[d].popularity
  <2>1. b.details[d] \in Details /\ c.details[d] = [b.details[d] EXCEPT !.person = p(d)]
    BY <1>1, <1>2
  <2>2. p(d) \in Persons \cup {None}
    BY <2>1 DEF Details
  <2>. HIDE DEF p, c
  <2>. QED
    BY <2>1, <2>2 DEF Details
<1>4. c \in Book
  <2>1. c.details \in [Number -> Details]
    BY <1>2, <1>3
  <2>. QED
    BY <1>1, <1>2, <2>1 DEF Book, Orphaned
<1>. HIDE DEF c
<1>5. Listed(c)
  BY <1>2 DEF Sound, Listed, Known
<1>6. Placed(b) => Placed(c)
  <2>1. \A m \in Known(b) : m \in Number
    BY <1>1, KnownIsNumber
  <2>2. \A i \in DOMAIN b.popular : b.popular[i] \in Number
    BY <2>1 DEF Sound, Listed
  <2>. QED
    BY <1>2, <1>3, <2>1, <2>2 DEF Placed, Known
<1>7. Told(b, c)
  BY <1>2, <1>3, <1>4, <1>5, <1>6, Reranked
<1>. QED
  BY <1>7 DEF c

-----------------------------------------------------------------------------
(* The specification.                                                       *)

IInv == Sound(book) /\ calls \in 0 .. MaxCalls

LEMMA InitSound == Init => IInv
<1>. SUFFICES ASSUME Init PROVE IInv
  OBVIOUS
<1>. DEFINE u == CHOOSE w \in Uri : TRUE
            v == [account |-> None, person |-> None, uri |-> u, ring |-> FALSE,
                  name |-> None, popularity |-> 0, seconds |-> 0]
<1>1. u \in Uri
  <2>1. PICK x \in Users : TRUE
    BY ContactMethodAssumption
  <2>2. <<x>> \in Uri
    BY <2>1 DEF Uri
  <2>. QED
    BY <2>2, Zenon
<1>2. 0 \in -Half .. Half - 1
  BY ContactMethodAssumption DEF Half
<1>3. v \in Details
  <2>. HIDE DEF u
  <2>. QED
    BY <1>1, <1>2 DEF Details
<1>4. book = [size |-> 0, d |-> [m \in Number |-> m], parents |-> [m \in Number |-> <<>>],
              details |-> [m \in Number |-> v], directory |-> [w \in Uri |-> <<>>],
              keys |-> {}, popular |-> <<>>, broken |-> "no"]
  BY DEF Init, Empty
<1>. HIDE DEF v
<1>5. book \in Book
  BY <1>3, <1>4, ContactMethodAssumption DEF Book
<1>6. Known(book) = {}
  BY <1>4 DEF Known
<1>7. Proxies(book)
  BY <1>4, <1>6 DEF Proxies
<1>8. Filed(book) /\ Listed(book) /\ Alone(book) /\ Placed(book)
  BY <1>4, <1>6 DEF Filed, Listed, Alone, Placed
<1>. QED
  BY <1>5, <1>7, <1>8, DirectoryAssumption DEF Init, IInv, Sound, Ranked

\* Each action leaves a sound book, and who has an account keeps or loses it.
Moves == Sound(book') /\ LosesAccounts(book, book')

LEMMA ToldMoves ==
  ASSUME NEW b, NEW c, Follows(b, c) \/ Told(b, c)
  PROVE  Sound(c) /\ LosesAccounts(b, c)
BY DEF Follows, Told, KeepsAccounts, SameAccounts, LosesAccounts

LEMMA LookUpMoves == ASSUME Sound(book), LookUp PROVE Moves
<1>1. PICK r \in Requests, a \in Accounts \cup {None}, p \in Persons \cup {None} :
        book' = getNumber(book, r.uri, r.ring, a, p).book
  BY DEF LookUp
<1>2. r.uri \in Uri /\ r.ring \in BOOLEAN
  BY DirectoryAssumption
<1>3. book.size < MaxNumbers
  BY BookParts, ContactMethodAssumption DEF Sound, LookUp, Room
<1>. QED
  BY <1>1, <1>2, <1>3, GetNumberSound DEF Moves

LEMMA LookUpFirstMoves == ASSUME Sound(book), LookUpFirst PROVE Moves
<1>1. PICK r \in Requests : book' = getFirstNumber(book, r.uri, r.ring).book
  BY DEF LookUpFirst
<1>2. r.uri \in Uri /\ r.ring \in BOOLEAN
  BY DirectoryAssumption
<1>3. book.size + (IF HistoryBackend THEN 2 ELSE 1) <= MaxNumbers
  BY DEF LookUpFirst, Room
<1>. QED
  BY <1>1, <1>2, <1>3, GetFirstNumberSound DEF Moves

LEMMA TakeProfileMoves == ASSUME Sound(book), TakeProfile PROVE Moves
<1>1. PICK m \in Known(book), p \in Persons : book' = setPerson(book, m, p)
  BY DEF TakeProfile
<1>2. Sound(book') /\ SameAccounts(book, book')
  BY <1>1, SetPersonFollows
<1>. QED
  BY <1>2, SameAccountsKept DEF Moves

LEMMA RemovePersonMoves == ASSUME Sound(book), RemovePerson PROVE Moves
<1>1. \E S : book' = Orphaned(book, S)
  BY DEF RemovePerson, Orphaned
<1>2. Told(book, book')
  BY <1>1, OrphanedTells
<1>. QED
  BY <1>2, ToldMoves DEF Moves

LEMMA NameFoundMoves == ASSUME Sound(book), NameFound PROVE Moves
<1>1. PICK a \in Accounts \cup {None}, address \in Users \ Names, name \in Names :
        book' = slotRegisteredNameFound(book, a, address, name)
  BY DEF NameFound
<1>2. Follows(book, book')
  BY <1>1, NameFoundFollows
<1>. QED
  BY <1>2, ToldMoves DEF Moves

LEMMA CallMoves == ASSUME Sound(book), Call PROVE Moves
<1>1. PICK m \in Known(book), k \in Kinds : book' = CallAdded(book, m, k.seconds, k.failed)
  BY DEF Call
<1>2. k.seconds \in Int /\ k.failed \in BOOLEAN
  BY DirectoryAssumption
<1>3. Told(book, book')
  BY <1>1, <1>2, CallAddedTells
<1>. QED
  BY <1>3, ToldMoves DEF Moves

LEMMA NextMoves == IInv /\ [Next]_vars => IInv' /\ LosesAccounts(book, book')
<1>. SUFFICES ASSUME IInv, [Next]_vars PROVE IInv' /\ LosesAccounts(book, book')
  OBVIOUS
<1>1. Sound(book) /\ calls \in 0 .. MaxCalls
  BY DEF IInv
<1>2. CASE Next
  <2>1. Moves
    BY <1>1, <1>2, LookUpMoves, LookUpFirstMoves, TakeProfileMoves, RemovePersonMoves,
       NameFoundMoves, CallMoves DEF Next
  <2>2. calls' \in 0 .. MaxCalls
    BY <1>1, <1>2, DirectoryAssumption
       DEF Next, LookUp, LookUpFirst, TakeProfile, RemovePerson, NameFound, Call
  <2>. QED
    BY <2>1, <2>2 DEF Moves, IInv
<1>3. CASE UNCHANGED vars
  BY <1>1, <1>3 DEF vars, IInv, LosesAccounts, DetailsKeep
<1>. QED
  BY <1>2, <1>3

\* The book is always sound: what the theorems below are read from.
THEOREM BookIsSound == Spec => []IInv
BY InitSound, NextMoves, PTL DEF Spec

\* Every handler leaves a book of the types contactmethod.cpp and
\* phonedirectorymodel.cpp declare; the seconds stay within an int, whatever
\* calls are counted.
THEOREM TypeCorrect == Spec => []TypeOK
<1>1. IInv => TypeOK
  BY DEF IInv, Sound, TypeOK
<1>. QED
  BY <1>1, BookIsSound, PTL

\* Whatever is merged, filed, named and created in whatever order, an object
\* is listed once by the details it points to and by no other
\* (ContactMethod::merge()).
THEOREM ProxiesAgree == Spec => []SharingAgrees
<1>1. IInv => SharingAgrees
  <2>. SUFFICES ASSUME IInv, NEW m \in Number, NEW d \in Number
                PROVE  Cardinality({i \in 1 .. Len(book.parents[d]) : book.parents[d][i] = m})
                         = IF m \in Known(book) /\ book.d[m] = d THEN 1 ELSE 0
    BY DEF SharingAgrees
  <2>. DEFINE s == book.parents[d]
  <2>1. Proxies(book) /\ s \in Seq(Number)
    BY BookParts DEF IInv, Sound
  <2>2. Once(s)
    BY <2>1 DEF Proxies, Once
  <2>3. (\E i \in DOMAIN s : s[i] = m) <=> (m \in Known(book) /\ book.d[m] = d)
    BY <2>1 DEF Proxies
  <2>4. Cardinality({i \in 1 .. Len(s) : s[i] = m}) = IF \E i \in DOMAIN s : s[i] = m THEN 1 ELSE 0
    BY <2>1, <2>2, CountOnce
  <2>. QED
    BY <2>3, <2>4
<1>. QED
  BY <1>1, BookIsSound, PTL

\* As long as nothing is merged, the index of a number is its place in the list
\* of popular numbers, so slotCallAdded() reads and writes where it means to.
THEOREM PopularAgrees == Spec => []PositionIsRight
<1>1. IInv => PositionIsRight
  <2>. SUFFICES ASSUME IInv, NobodyMerged, NEW m \in Known(book)
                PROVE  /\ Position(book, m) = SelectInSeq(book.popular, LAMBDA n : n = m)
                       /\ Cardinality({i \in 1 .. Len(book.popular) : book.popular[i] = m}) <= 1
    BY DEF PositionIsRight
  <2>. DEFINE s == book.popular
              I == {i \in 1 .. Len(s) : s[i] = m}
              place == SelectInSeq(s, LAMBDA n : n = m)
  <2>1. Alone(book) /\ Placed(book)
    BY DEF IInv, Sound, Ranked, NobodyMerged, Alone, Abandoned
  <2>2. s \in Seq(Number) /\ DOMAIN s = 1 .. Len(s) /\ Len(s) \in Nat
    BY BookParts DEF IInv, Sound
  <2>3. Once(s)
    BY <2>1 DEF Placed, Once
  <2>4. book.details[m] \in Details /\ Position(book, m) = book.details[m].popularity
    <3>1. m \in Number /\ book.d[m] = m
      BY <2>1, KnownIsNumber DEF Alone, IInv, Sound
    <3>. QED
      BY <3>1, BookParts DEF Position, Of, IInv, Sound
  <2>5. place = IF I # {} THEN Min(I) ELSE 0
    BY Zenon DEF SelectInSeq
  <2>. HIDE DEF place
  <2>6. ASSUME I = {} PROVE Position(book, m) = place
    BY <2>1, <2>2, <2>4, <2>5, <2>6 DEF Placed
  <2>7. ASSUME I # {} PROVE Position(book, m) = place
    <3>1. PICK i \in 1 .. Len(s) : s[i] = m
      BY <2>7
    <3>2. I = {i} /\ i \in Nat
      BY <2>2, <2>3, <3>1 DEF Once
    <3>. HIDE DEF I
    <3>3. Min(I) = i
      BY <3>2, MinIsLeast
    <3>4. book.details[m].popularity = i
      BY <2>1, <2>2, <3>1 DEF Placed
    <3>. QED
      BY <2>4, <2>5, <3>2, <3>3, <3>4
  <2>8. Cardinality(I) <= 1
    <3>1. Cardinality(I) = IF \E i \in DOMAIN s : s[i] = m THEN 1 ELSE 0
      BY <2>2, <2>3, CountOnce
    <3>. HIDE DEF I
    <3>. QED
      BY <3>1
  <2>. QED
    BY <2>6, <2>7, <2>8 DEF place
<1>. QED
  BY <1>1, BookIsSound, PTL

\* Details that have an account keep it, and an object gets other details only
\* by a merge, which at most loses its account (fillDetails(), getNumber(),
\* slotRegisteredNameFound()).
THEOREM AccountKept == Spec => AccountLostByMergeOnly
<1>1. ASSUME IInv, [Next]_vars, NEW m \in Known(book), Of(book, m).account # None
      PROVE  /\ book'.details[book.d[m]].account = Of(book, m).account
             /\ Of(book', m).account \in {None, Of(book, m).account}
  <2>1. LosesAccounts(book, book')
    BY <1>1, NextMoves
  <2>2. book.d[m] \in Known(book)
    BY <1>1 DEF IInv, Sound, Proxies
  <2>. QED
    BY <1>1, <2>1, <2>2 DEF LosesAccounts, DetailsKeep, Of
<1>2. IInv /\ [Next]_vars =>
        [\A m \in Known(book) : Of(book, m).account # None =>
           /\ book'.details[book.d[m]].account = Of(book, m).account
           /\ book'.d[m] # book.d[m] =>
                Of(book', m).account \in {None, Of(book, m).account}]_vars
  BY <1>1
<1>. QED
  BY <1>2, BookIsSound, PTL DEF Spec, AccountLostByMergeOnly

-----------------------------------------------------------------------------
(* A lookup made twice.  What the first one did to the numbers it visited    *)
(* leaves the second one nothing to do to them: the loop over a wrapper      *)
(* stops where it stopped, and what is found, given, merged or created is    *)
(* found again.                                                              *)

\* fillDetails(), with what holds after each visit.
LEMMA FillingReaches ==
  ASSUME NEW E, NEW s \in Seq(E), NEW bk, NEW uri, NEW account, NEW person,
         NEW Y, [book |-> bk, number |-> 0] \in Y[0],
         \A i \in 1 .. Len(s) : \A c \in Y[i - 1] : Visit(uri, account, person, c, s[i]) \in Y[i]
  PROVE  fillDetails(bk, s, uri, account, person) \in Y[Len(s)]
<1>. DEFINE f == CHOOSE f : f = [t \in SUBSET DOMAIN s |->
                 IF t = {} THEN [book |-> bk, number |-> 0]
                 ELSE Visit(uri, account, person, f[t \ {Max(t)}], s[Max(t)])]
<1>1. fillDetails(bk, s, uri, account, person) = f[DOMAIN s]
  BY DEF fillDetails, FoldLeft, MapThenFoldSet
<1>2. \E h : Filling!IsFold(h, uri, account, person, [book |-> bk, number |-> 0], s)
  BY Filling!FoldExists
<1>3. \E h : h = [t \in SUBSET DOMAIN s |->
                 IF t = {} THEN [book |-> bk, number |-> 0]
                 ELSE Visit(uri, account, person, h[t \ {Max(t)}], s[Max(t)])]
  BY <1>2, Zenon DEF Filling!IsFold, Filling!Top, Max
<1>4. f = [t \in SUBSET DOMAIN s |->
                 IF t = {} THEN [book |-> bk, number |-> 0]
                 ELSE Visit(uri, account, person, f[t \ {Max(t)}], s[Max(t)])]
  BY <1>3, Zenon
<1>. HIDE DEF f
<1>5. Filling!IsFold(f, uri, account, person, [book |-> bk, number |-> 0], s)
  BY <1>4, Zenon DEF Filling!IsFold, Filling!Top, Max
<1>6. f[DOMAIN s] \in Y[Len(s)]
  BY <1>5, Filling!FoldStays
<1>. QED
  BY <1>1, <1>6

\* A number that a request has nothing to give to, and one that answers it.
Unmoved(b, m, uri, account, person) ==
  ~TakesPerson(b, m, uri, account, person) /\ ~TakesAccount(b, m, account, person)
Confirmed(b, m, account, person) ==
  (account = None \/ account # Of(b, m).account) /\ person # None /\ Of(b, m).person = person

\* A visit that finds nothing to give.
LEMMA FillUnmoved ==
  ASSUME NEW b, NEW m, NEW uri, NEW account, NEW person, Unmoved(b, m, uri, account, person)
  PROVE  FillOne(b, m, uri, account, person)
           = [book |-> b, number |-> IF Confirmed(b, m, account, person) THEN m ELSE 0]
BY DEF Unmoved, Confirmed, FillOne

\* A loop of fillDetails() over numbers that take nothing stops at the first one
\* that is confirmed.
LEMMA FillAgain ==
  ASSUME NEW b, NEW wrap \in Seq(Nat \ {0}), NEW uri, NEW account, NEW person,
         NEW n \in 0 .. Len(wrap),
         \A i \in 1 .. n : Unmoved(b, wrap[i], uri, account, person),
         n = Len(wrap) \/ (n # 0 /\ Confirmed(b, wrap[n], account, person))
  PROVE  LET f == fillDetails(b, wrap, uri, account, person)
         IN /\ f.book = b
            /\ \/ f.number = 0 /\ \A i \in 1 .. n : ~Confirmed(b, wrap[i], account, person)
               \/ \E i \in 1 .. n : f.number = wrap[i] /\ Confirmed(b, wrap[i], account, person)
<1>. DEFINE C(i) == Confirmed(b, wrap[i], account, person)
            Going == [book |-> b, number |-> 0]
            Stop(i) == [book |-> b, number |-> wrap[i]]
            Open(k) == \A i \in 1 .. n : i <= k => ~C(i)
            Stopped(f) == \E i \in 1 .. n : f = Stop(i) /\ C(i)
            Y == [k \in 0 .. Len(wrap) |->
                   {f \in {Going} \cup {Stop(i) : i \in 1 .. n} : (f = Going /\ Open(k)) \/ Stopped(f)}]
<1>0. Len(wrap) \in Nat /\ n \in Nat /\ \A i \in 1 .. Len(wrap) : wrap[i] \in Nat \ {0}
  OBVIOUS
<1>1. Going \in Y[0]
  BY <1>0
<1>2. ASSUME NEW k \in 1 .. Len(wrap), NEW f \in Y[k - 1]
      PROVE  Visit(uri, account, person, f, wrap[k]) \in Y[k]
  <2>1. k - 1 \in 0 .. Len(wrap) /\ k \in 0 .. Len(wrap)
    BY <1>0
  <2>2. CASE Stopped(f)
    <3>1. f.number # 0
      BY <1>0, <2>2
    <3>2. Visit(uri, account, person, f, wrap[k]) = f
      BY <3>1 DEF Visit
    <3>. QED
      BY <2>1, <2>2, <3>2
  <2>3. CASE f = Going /\ Open(k - 1)
    <3>1. Visit(uri, account, person, f, wrap[k]) = FillOne(b, wrap[k], uri, account, person)
      BY <2>3 DEF Visit
    <3>2. k <= n
      <4>. SUFFICES ASSUME k > n PROVE FALSE
        BY <1>0
      <4>1. n # Len(wrap) /\ n <= k - 1
        BY <1>0
      <4>. QED
        BY <1>0, <2>3, <4>1
    <3>3. Visit(uri, account, person, f, wrap[k]) = IF C(k) THEN Stop(k) ELSE Going
      BY <1>0, <3>1, <3>2, FillUnmoved
    <3>4. CASE C(k)
      <4>1. k \in 1 .. n
        BY <1>0, <3>2
      <4>. HIDE DEF C
      <4>2. Stopped(Stop(k)) /\ Stop(k) \in {Stop(i) : i \in 1 .. n}
        BY <3>4, <4>1
      <4>. QED
        BY <2>1, <3>3, <3>4, <4>2
    <3>5. CASE ~C(k)
      <4>1. Open(k)
        BY <1>0, <2>3, <3>5
      <4>. QED
        BY <2>1, <3>3, <3>5, <4>1
    <3>. QED
      BY <3>4, <3>5
  <2>. QED
    BY <2>1, <2>2, <2>3
<1>. HIDE DEF Y
<1>3. fillDetails(b, wrap, uri, account, person) \in Y[Len(wrap)]
  BY <1>1, <1>2, FillingReaches
<1>4. \A f \in Y[Len(wrap)] :
        /\ f.book = b
        /\ \/ f.number = 0 /\ \A i \in 1 .. n : ~C(i)
           \/ \E i \in 1 .. n : f.number = wrap[i] /\ C(i)
  BY <1>0 DEF Y
<1>. QED
  BY <1>3, <1>4

\* What a request takes from a number is in the details of the number.
LEMMA TakesOn ==
  ASSUME NEW b, NEW c, NEW m, NEW n, Of(b, m) = Of(c, n),
         NEW uri, NEW account, NEW person
  PROVE  /\ TakesPerson(b, m, uri, account, person) <=> TakesPerson(c, n, uri, account, person)
         /\ TakesAccount(b, m, account, person) <=> TakesAccount(c, n, account, person)
         /\ Confirmed(b, m, account, person) <=> Confirmed(c, n, account, person)
BY DEF TakesPerson, UriCompatible, TakesAccount, Confirmed

\* The numbers that the loop has passed.
Done(b, m, uri, account, person) ==
  ~TakesPerson(b, m, uri, account, person) /\ ~Confirmed(b, m, account, person)

\* A request with a person only gives it to details that take it.
Painted(b, c, wrap, uri, account, person) ==
  /\ Sound(c) /\ SameBut(b, c)
  /\ \A m \in Known(b) :
       \/ Of(c, m) = Of(b, m)
       \/ /\ Of(c, m) = [Of(b, m) EXCEPT !.person = person]
          /\ TakesPerson(b, m, uri, account, person)
          /\ \E i \in DOMAIN wrap : b.d[wrap[i]] = b.d[m]

\* setPerson(), for every number that shares the details.
LEMMA GivenPerson ==
  ASSUME NEW b, Sound(b), NEW m \in Known(b), NEW p \in Persons \cup {None}
  PROVE  \A x \in Known(b) :
           Of(setPerson(b, m, p), x) = IF b.d[x] = b.d[m] THEN [Of(b, x) EXCEPT !.person = p] ELSE Of(b, x)
<1>. DEFINE v == [Of(b, m) EXCEPT !.person = p]
            c == setPerson(b, m, p)
<1>1. Of(b, m) \in Details /\ b.d[m] \in Number
  BY KnownIsNumber DEF Sound
<1>2. v \in Details /\ v.popularity = Of(b, m).popularity
  BY <1>1 DEF Details
<1>3. c = Written(b, b.d[m], v)
  BY DEF setPerson, Of, Written
<1>. HIDE DEF v, c
<1>4. \A x \in Known(b) : Of(c, x) = IF b.d[x] = b.d[m] THEN v ELSE Of(b, x)
  BY <1>1, <1>2, <1>3, Retouched DEF Of
<1>5. \A x \in Known(b) : b.d[x] = b.d[m] => Of(b, x) = Of(b, m)
  BY DEF Of
<1>. QED
  BY <1>4, <1>5 DEF c, v

\* One visit of a request with a person.
LEMMA FillOneGives ==
  ASSUME NEW c, Sound(c), NEW m \in Known(c), NEW uri, NEW account,
         NEW person \in Persons \cup {None}, person # None
  PROVE  LET g == FillOne(c, m, uri, account, person)
             takes == TakesPerson(c, m, uri, account, person)
         IN /\ Sound(g.book) /\ SameBut(c, g.book)
            /\ \A x \in Known(c) :
                 Of(g.book, x) = IF takes /\ c.d[x] = c.d[m]
                                 THEN [Of(c, x) EXCEPT !.person = person] ELSE Of(c, x)
            /\ ~TakesPerson(g.book, m, uri, account, person)
            /\ g.number = IF Confirmed(g.book, m, account, person) THEN m ELSE 0
            /\ g = [book |-> g.book, number |-> g.number]
<1>. DEFINE g == FillOne(c, m, uri, account, person)
<1>1. ~TakesAccount(c, m, account, person)
  BY DEF TakesAccount
<1>2. CASE TakesPerson(c, m, uri, account, person)
  <2>. DEFINE e == setPerson(c, m, person)
  <2>1. g = [book |-> e, number |-> IF (account = None \/ account # Of(c, m).account)
                                        /\ person # None /\ Of(e, m).person = person THEN m ELSE 0]
    BY <1>1, <1>2 DEF FillOne
  <2>2. Sound(e) /\ SameBut(c, e)
    BY SetPersonFollows
  <2>3. \A x \in Known(c) :
          Of(e, x) = IF c.d[x] = c.d[m] THEN [Of(c, x) EXCEPT !.person = person] ELSE Of(c, x)
    BY GivenPerson
  <2>4. Of(c, m) \in Details
    BY KnownIsNumber DEF Sound
  <2>. HIDE DEF e
  <2>5. Of(e, m) = [Of(c, m) EXCEPT !.person = person]
    BY <2>3
  <2>6. Of(e, m).person = person /\ Of(e, m).account = Of(c, m).account
    BY <2>4, <2>5 DEF Details
  <2>7. ~TakesPerson(e, m, uri, account, person)
    BY <2>6 DEF TakesPerson
  <2>8. g.book = e /\ g.number = IF Confirmed(e, m, account, person) THEN m ELSE 0
    BY <2>1, <2>6 DEF Confirmed
  <2>9. g = [book |-> g.book, number |-> g.number]
    BY <2>1
  <2>. HIDE DEF g
  <2>. QED
    BY <1>2, <2>2, <2>3, <2>7, <2>8, <2>9 DEF g
<1>3. CASE ~TakesPerson(c, m, uri, account, person)
  <2>1. g = [book |-> c, number |-> IF Confirmed(c, m, account, person) THEN m ELSE 0]
    BY <1>1, <1>3, FillUnmoved DEF Unmoved
  <2>2. SameBut(c, c)
    BY DEF SameBut
  <2>3. g.book = c /\ g.number = (IF Confirmed(c, m, account, person) THEN m ELSE 0)
        /\ g = [book |-> g.book, number |-> g.number]
    BY <2>1
  <2>. HIDE DEF g
  <2>. QED
    BY <1>3, <2>2, <2>3 DEF g
<1>. QED
  BY <1>2, <1>3

\* Painting once more.
LEMMA PaintedOn ==
  ASSUME NEW b, Sound(b), NEW wrap, NEW uri, NEW account, NEW person, person # None,
         NEW c, Painted(b, c, wrap, uri, account, person),
         NEW i \in DOMAIN wrap, wrap[i] \in Known(b),
         NEW e, Sound(e), SameBut(c, e),
         \A x \in Known(c) :
           Of(e, x) = IF TakesPerson(c, wrap[i], uri, account, person) /\ c.d[x] = c.d[wrap[i]]
                      THEN [Of(c, x) EXCEPT !.person = person] ELSE Of(c, x)
  PROVE  Painted(b, e, wrap, uri, account, person)
<1>1. SameBut(b, e) /\ Known(c) = Known(b) /\ c.d = b.d
  BY DEF Painted, SameBut, Known
<1>. SUFFICES ASSUME NEW x \in Known(b)
              PROVE  \/ Of(e, x) = Of(b, x)
                     \/ /\ Of(e, x) = [Of(b, x) EXCEPT !.person = person]
                        /\ TakesPerson(b, x, uri, account, person)
                        /\ \E j \in DOMAIN wrap : b.d[wrap[j]] = b.d[x]
  BY <1>1 DEF Painted
<1>2. CASE TakesPerson(c, wrap[i], uri, account, person) /\ c.d[x] = c.d[wrap[i]]
  <2>1. Of(e, x) = [Of(c, x) EXCEPT !.person = person]
    BY <1>1, <1>2
  <2>2. Of(c, x) = Of(c, wrap[i])
    BY <1>2 DEF Of
  <2>3. Of(c, x).person = None
    BY <1>2, <2>2 DEF TakesPerson
  <2>4. Of(c, x) = Of(b, x)
    <3>1. Of(b, x) \in Details
      BY KnownIsNumber DEF Sound
    <3>2. Of(c, x) # [Of(b, x) EXCEPT !.person = person]
      BY <2>3, <3>1 DEF Details
    <3>. QED
      BY <3>2 DEF Painted
  <2>5. TakesPerson(b, x, uri, account, person)
    BY <1>2, <2>2, <2>4, TakesOn
  <2>6. b.d[wrap[i]] = b.d[x]
    BY <1>1, <1>2
  <2>. QED
    BY <2>1, <2>4, <2>5, <2>6
<1>3. CASE ~(TakesPerson(c, wrap[i], uri, account, person) /\ c.d[x] = c.d[wrap[i]])
  <2>1. Of(e, x) = Of(c, x)
    BY <1>1, <1>3
  <2>. QED
    BY <2>1 DEF Painted
<1>. QED
  BY <1>2, <1>3

\* What has been passed stays passed.
LEMMA DoneOn ==
  ASSUME NEW c, NEW m \in Known(c), NEW n \in Known(c), NEW uri, NEW account, NEW person, NEW e,
         \A x \in Known(c) :
           Of(e, x) = IF TakesPerson(c, m, uri, account, person) /\ c.d[x] = c.d[m]
                      THEN [Of(c, x) EXCEPT !.person = person] ELSE Of(c, x),
         Done(c, n, uri, account, person)
  PROVE  Done(e, n, uri, account, person)
<1>1. Of(e, n) = Of(c, n)
  <2>. SUFFICES ASSUME TakesPerson(c, m, uri, account, person), c.d[n] = c.d[m] PROVE FALSE
    OBVIOUS
  <2>1. Of(c, n) = Of(c, m)
    BY DEF Of
  <2>. QED
    BY <2>1, TakesOn DEF Done
<1>. QED
  BY <1>1, TakesOn DEF Done

\* fillDetails() for a request with a person: it stops at the first number that is
\* confirmed, and those before it have nothing to take any more.
Answered(c, wrap, n, uri, account, person) ==
  /\ ~TakesPerson(c, wrap[n], uri, account, person) /\ Confirmed(c, wrap[n], account, person)
  /\ \A i \in 1 .. Len(wrap) : i < n => Done(c, wrap[i], uri, account, person)

LEMMA FillPaints ==
  ASSUME NEW b, Sound(b), NEW wrap \in Seq(Number), \A i \in DOMAIN wrap : wrap[i] \in Known(b),
         NEW uri, NEW account, NEW person \in Persons \cup {None}, person # None
  PROVE  LET f == fillDetails(b, wrap, uri, account, person)
         IN /\ Painted(b, f.book, wrap, uri, account, person)
            /\ \/ /\ f.number = 0
                  /\ \A i \in DOMAIN wrap : Done(f.book, wrap[i], uri, account, person)
               \/ \E n \in DOMAIN wrap :
                    f.number = wrap[n] /\ Answered(f.book, wrap, n, uri, account, person)
<1>. DEFINE Open(f, k) == f.number = 0 /\ \A i \in 1 .. Len(wrap) : i <= k =>
                             Done(f.book, wrap[i], uri, account, person)
            Stopped(f) == \E n \in 1 .. Len(wrap) :
                             f.number = wrap[n] /\ Answered(f.book, wrap, n, uri, account, person)
            Good(f) == Painted(b, f.book, wrap, uri, account, person)
            Y == [k \in 0 .. Len(wrap) |->
                   {f \in [book : Book, number : Nat] : Good(f) /\ (Open(f, k) \/ Stopped(f))}]
<1>0. /\ Len(wrap) \in Nat /\ DOMAIN wrap = 1 .. Len(wrap)
      /\ \A i \in 1 .. Len(wrap) : wrap[i] \in Nat \ {0}
  BY ContactMethodAssumption DEF Number
<1>1. [book |-> b, number |-> 0] \in Y[0]
  <2>1. SameBut(b, b) /\ b \in Book
    BY DEF SameBut, Sound
  <2>2. Painted(b, b, wrap, uri, account, person)
    BY <2>1 DEF Painted
  <2>. QED
    BY <1>0, <2>1, <2>2
<1>2. ASSUME NEW k \in 1 .. Len(wrap), NEW f \in Y[k - 1]
      PROVE  Visit(uri, account, person, f, wrap[k]) \in Y[k]
  <2>1. k - 1 \in 0 .. Len(wrap) /\ k \in 0 .. Len(wrap)
    BY <1>0
  <2>2. f \in [book : Book, number : Nat] /\ Good(f) /\ (Open(f, k - 1) \/ Stopped(f))
    BY <2>1
  <2>. HIDE DEF Y, Good
  <2>3. CASE f.number # 0
    <3>1. Visit(uri, account, person, f, wrap[k]) = f
      BY <2>3 DEF Visit
    <3>. QED
      BY <2>1, <2>2, <2>3, <3>1 DEF Y
  <2>4. CASE f.number = 0
    <3>. DEFINE c == f.book
                m == wrap[k]
                g == FillOne(c, m, uri, account, person)
                e == g.book
    <3>1. Open(f, k - 1)
      BY <1>0, <2>2, <2>4
    <3>. HIDE DEF Open
    <3>2. Sound(c) /\ Known(c) = Known(b) /\ m \in Known(c) /\ c.size = b.size
      BY <1>0, <2>2 DEF Good, Painted, SameBut, Known
    <3>3. /\ Sound(e) /\ SameBut(c, e)
          /\ \A x \in Known(c) :
               Of(e, x) = IF TakesPerson(c, m, uri, account, person) /\ c.d[x] = c.d[m]
                          THEN [Of(c, x) EXCEPT !.person = person] ELSE Of(c, x)
          /\ ~TakesPerson(e, m, uri, account, person)
          /\ g.number = IF Confirmed(e, m, account, person) THEN m ELSE 0
          /\ g = [book |-> e, number |-> g.number]
      BY <3>2, FillOneGives
    <3>. HIDE DEF g
    <3>4. Painted(b, e, wrap, uri, account, person)
      BY <1>0, <2>2, <3>2, <3>3, PaintedOn DEF Good
    <3>5. ASSUME NEW i \in 1 .. Len(wrap), i <= k - 1
          PROVE  Done(e, wrap[i], uri, account, person)
      <4>1. Done(c, wrap[i], uri, account, person)
        BY <3>1, <3>5 DEF Open
      <4>2. wrap[i] \in Known(c)
        BY <1>0, <3>2
      <4>. QED
        BY <3>2, <3>3, <4>1, <4>2, DoneOn
    <3>6. m \in Nat \ {0} /\ e \in Book
      BY <1>0, <3>3 DEF Sound
    <3>7. g \in [book : Book, number : Nat] /\ Good(g)
      BY <3>3, <3>4, <3>6 DEF Good
    <3>8. CASE Confirmed(e, m, account, person)
      <4>1. g.number = m
        BY <3>3, <3>8
      <4>2. Answered(e, wrap, k, uri, account, person)
        <5>1. \A i \in 1 .. Len(wrap) : i < k => i <= k - 1
          BY <1>0
        <5>. QED
          BY <3>3, <3>5, <3>8, <5>1 DEF Answered
      <4>3. Stopped(g)
        BY <4>1, <4>2
      <4>. HIDE DEF Stopped
      <4>. QED
        BY <2>1, <2>4, <3>7, <4>3 DEF Y, Visit, g
    <3>9. CASE ~Confirmed(e, m, account, person)
      <4>1. g.number = 0
        BY <3>3, <3>9
      <4>2. Open(g, k)
        <5>1. \A i \in 1 .. Len(wrap) : i <= k => i <= k - 1 \/ i = k
          BY <1>0
        <5>2. Done(e, m, uri, account, person)
          BY <3>3, <3>9 DEF Done
        <5>. QED
          BY <3>5, <4>1, <5>1, <5>2 DEF Open
      <4>. HIDE DEF Stopped
      <4>. QED
        BY <2>1, <2>4, <3>7, <4>2 DEF Y, Visit, g
    <3>. QED
      BY <3>8, <3>9
  <2>. QED
    BY <2>3, <2>4
<1>. HIDE DEF Y
<1>3. fillDetails(b, wrap, uri, account, person) \in Y[Len(wrap)]
  BY <1>1, <1>2, FillingReaches
<1>. DEFINE F == fillDetails(b, wrap, uri, account, person)
<1>4. \A f \in Y[Len(wrap)] : Good(f) /\ (Open(f, Len(wrap)) \/ Stopped(f))
  BY <1>0 DEF Y
<1>. HIDE DEF F
<1>5. Good(F) /\ (Open(F, Len(wrap)) \/ Stopped(F))
  BY <1>3, <1>4 DEF F
<1>. QED
  BY <1>0, <1>5 DEF F

\* setAccount(): the number has the account, and is the only one that is filed.
LEMMA DuplicatesStayFiled ==
  ASSUME NEW b, Sound(b), NEW m \in Known(b), NEW account \in Accounts, account # None,
         NEW wrap \in Seq(Number), \A i \in DOMAIN wrap : wrap[i] \in Known(b)
  PROVE  MergeDuplicates(b, m, account, wrap).directory = b.directory
<1>. DEFINE X == {c \in Book : Sound(c) /\ c.size = b.size /\ c.directory = b.directory}
<1>1. b \in X
  BY DEF Sound
<1>2. ASSUME NEW c \in X, NEW i \in DOMAIN wrap
      PROVE  MergeWith(m, account, c, wrap[i]) \in X
  <2>1. Sound(c) /\ Known(c) = Known(b)
    BY DEF Known
  <2>. DEFINE e == merge(c, m, wrap[i])
  <2>2. Sound(e) /\ e.size = c.size /\ e.directory = c.directory
    BY <2>1, MergeFollows
  <2>3. e \in X
    BY <2>2 DEF Sound
  <2>. HIDE DEF e
  <2>4. MergeWith(m, account, c, wrap[i]) \in {c, e}
    BY DEF MergeWith, e
  <2>. QED
    BY <2>3, <2>4
<1>. HIDE DEF X
<1>3. MergeDuplicates(b, m, account, wrap) \in X
  BY <1>1, <1>2, MergingStays
<1>. QED
  BY <1>3 DEF X

OnlyAdds(b, c, m) ==
  \A u \in Uri : \A i \in DOMAIN c.directory[u] :
    c.directory[u][i] = m \/ \E j \in DOMAIN b.directory[u] : b.directory[u][j] = c.directory[u][i]

\* Filing a number adds nothing else to any wrapper.
LEMMA FileAdds ==
  ASSUME NEW b, NEW c, Sound(c), NEW m \in Known(c), OnlyAdds(b, c, m), NEW u \in Uri
  PROVE  OnlyAdds(b, File(c, u, m), m)
<1>. DEFINE e == File(c, u, m)
<1>1. e.directory = [c.directory EXCEPT ![u] = Append(@, m)]
  BY FileFollows
<1>. HIDE DEF e
<1>2. c.directory \in [Uri -> Seq(Number)] /\ m \in Number
  BY BookParts, KnownIsNumber DEF Sound
<1>3. ASSUME NEW w \in Uri, NEW i \in DOMAIN e.directory[w]
      PROVE  e.directory[w][i] = m \/ \E j \in DOMAIN c.directory[w] : c.directory[w][j] = e.directory[w][i]
  <2>. DEFINE s == c.directory[u]
  <2>1. CASE w = u
    <3>1. e.directory[w] = Append(s, m) /\ s \in Seq(Number) /\ s = c.directory[w]
      BY <1>1, <1>2, <2>1
    <3>. HIDE DEF s
    <3>2. i \in 1 .. Len(s) + 1 /\ Len(s) \in Nat /\ DOMAIN s = 1 .. Len(s)
      BY <1>2, <3>1
    <3>3. i = Len(s) + 1 \/ (i \in DOMAIN s /\ Append(s, m)[i] = s[i])
      BY <1>2, <3>1, <3>2
    <3>4. Append(s, m)[Len(s) + 1] = m
      BY <1>2, <3>1, <3>2
    <3>. QED
      BY <3>1, <3>3, <3>4
  <2>2. CASE w # u
    <3>1. e.directory[w] = c.directory[w]
      BY <1>1, <1>2, <2>2
    <3>. QED
      BY <3>1
  <2>. QED
    BY <2>1, <2>2
<1>. QED
  BY <1>3 DEF OnlyAdds, e

LEMMA SetAccountFiles ==
  ASSUME NEW b, Sound(b), NEW m \in Known(b), NEW account \in Accounts, account # None,
         Of(b, m).account = None
  PROVE  LET c == directorySetAccount(b, m, account)
         IN Of(c, m).account = account /\ OnlyAdds(b, c, m)
<1>. DEFINE set == setAccount(b, m, account)
            extended == Extended(Of(b, m).uri, account)
            c == directorySetAccount(b, m, account)
            Fine(e) == Follows(b, e) /\ Of(e, m).account = account /\ OnlyAdds(b, e, m)
<1>0. Of(b, m) \in Details /\ b.d[m] \in Number /\ b \in Book
  BY KnownIsNumber DEF Sound
<1>1. Fine(set) /\ set.directory = b.directory
  <2>1. Follows(b, set) /\ SameBut(b, set)
    BY SetAccountFollows
  <2>2. OnlyAdds(b, set, m)
    BY <2>1 DEF SameBut, OnlyAdds
  <2>3. Of(set, m).account = account
    BY <1>0, BookParts DEF setAccount, Of, Book, Details
  <2>. QED
    BY <2>1, <2>2, <2>3 DEF SameBut
<1>2. CASE hasHostname(Of(b, m).uri)
  BY <1>1, <1>2 DEF directorySetAccount
<1>3. CASE ~hasHostname(Of(b, m).uri)
  <2>1. Of(b, m).uri \in Uri
    BY <1>0 DEF Details
  <2>2. extended \in Uri
    BY <1>3, <2>1, UriShapes
  <2>. HIDE DEF set, extended
  <2>3. ASSUME NEW e, Fine(e)
        PROVE  Fine(File(e, extended, m))
    <3>1. Sound(e) /\ Known(e) = Known(b) /\ m \in Known(e)
      BY <2>3 DEF Follows, Known
    <3>. DEFINE h == File(e, extended, m)
    <3>2. OnlyAdds(b, h, m)
      BY <2>2, <2>3, <3>1, FileAdds
    <3>3. Sound(h) /\ SameAccounts(e, h) /\ SameNumbers(e, h)
      BY <2>2, <3>1, FileFollows
    <3>. HIDE DEF h
    <3>4. Follows(e, h)
      BY <3>3, SameAccountsKept DEF Follows, SameNumbers
    <3>5. Follows(b, h)
      BY <2>3, <3>4, FollowsOn
    <3>6. Of(h, m).account = account
      BY <2>3, <3>1, <3>3 DEF SameAccounts
    <3>. QED
      BY <3>2, <3>5, <3>6 DEF h
  <2>4. CASE b.directory[extended] = <<>>
    <3>1. Fine(File(File(set, extended, m), extended, m))
      BY <1>1, <2>3
    <3>2. c = File(File(set, extended, m), extended, m)
      BY <1>3, <2>4 DEF directorySetAccount, set, extended
    <3>. QED
      BY <3>1, <3>2
  <2>5. CASE b.directory[extended] # <<>>
    <3>. DEFINE merged == MergeDuplicates(set, m, account, b.directory[extended])
    <3>0. Sound(set) /\ Known(set) = Known(b)
      BY <1>1 DEF Follows, Known
    <3>1. /\ b.directory[extended] \in Seq(Number)
          /\ \A i \in DOMAIN b.directory[extended] : b.directory[extended][i] \in Known(b)
      BY <2>2, WrapperIsKnown
    <3>2. Follows(set, merged) /\ merged.directory = set.directory
      BY <3>0, <3>1, MergeDuplicatesFollows, DuplicatesStayFiled
    <3>3. c = File(merged, extended, m)
      BY <1>3, <2>5 DEF directorySetAccount, set, extended
    <3>. HIDE DEF merged
    <3>4. Follows(b, merged) /\ OnlyAdds(b, merged, m)
      BY <1>1, <3>2, FollowsOn DEF OnlyAdds
    <3>5. Of(merged, m).account = account
      BY <1>1, <3>0, <3>2 DEF Follows, KeepsAccounts
    <3>6. Fine(merged)
      BY <3>4, <3>5
    <3>. HIDE DEF Fine
    <3>7. Fine(File(merged, extended, m))
      BY <2>3, <3>6
    <3>. QED
      BY <3>3, <3>7 DEF Fine
  <2>. QED
    BY <2>4, <2>5
<1>. QED
  BY <1>2, <1>3

\* One visit of a request without a person.
LEMMA FillOneFiles ==
  ASSUME NEW c, Sound(c), NEW m \in Known(c), NEW uri, NEW account \in Accounts \cup {None}
  PROVE  LET g == FillOne(c, m, uri, account, None)
         IN /\ g.number = 0 /\ Follows(c, g.book) /\ OnlyAdds(c, g.book, m)
            /\ account # None => Of(g.book, m).account # None
            /\ g = [book |-> g.book, number |-> g.number]
<1>. DEFINE g == FillOne(c, m, uri, account, None)
<1>1. ~TakesPerson(c, m, uri, account, None)
  BY DEF TakesPerson
<1>2. CASE TakesAccount(c, m, account, None)
  <2>. DEFINE e == directorySetAccount(c, m, account)
  <2>1. g = [book |-> e, number |-> 0]
    BY <1>1, <1>2 DEF FillOne
  <2>2. account \in Accounts /\ account # None /\ Of(c, m).account = None
    BY <1>2 DEF TakesAccount
  <2>3. Follows(c, e) /\ OnlyAdds(c, e, m) /\ Of(e, m).account = account
    BY <2>2, SetAccountInDirectory, SetAccountFiles
  <2>. HIDE DEF e
  <2>. QED
    BY <2>1, <2>2, <2>3
<1>3. CASE ~TakesAccount(c, m, account, None)
  <2>1. g = [book |-> c, number |-> 0]
    BY <1>1, <1>3 DEF FillOne
  <2>2. Follows(c, c) /\ OnlyAdds(c, c, m)
    BY DEF Follows, KeepsAccounts, OnlyAdds, DetailsKeep
  <2>3. account # None => Of(c, m).account # None
    BY <1>3 DEF TakesAccount
  <2>. QED
    BY <2>1, <2>2, <2>3
<1>. QED
  BY <1>2, <1>3

\* fillDetails() for a request without a person confirms nothing, and leaves the
\* numbers of the wrapper with nothing to take.
LEMMA FillNobody ==
  ASSUME NEW b, Sound(b), NEW uri \in Uri, NEW account \in Accounts \cup {None}
  PROVE  LET f == fillDetails(b, b.directory[uri], uri, account, None)
         IN /\ f.number = 0 /\ Follows(b, f.book)
            /\ \A i \in DOMAIN f.book.directory[uri] :
                 Unmoved(f.book, f.book.directory[uri][i], uri, account, None)
<1>. DEFINE wrap == b.directory[uri]
            Open(c, x, k) == Of(c, x).account # None \/ \E j \in 1 .. Len(wrap) : j > k /\ wrap[j] = x
            Filled(c, k) == account # None =>
                              \A i \in DOMAIN c.directory[uri] : Open(c, c.directory[uri][i], k)
            Good(f) == f.number = 0 /\ Follows(b, f.book)
            Y == [k \in 0 .. Len(wrap) |->
                   {f \in [book : Book, number : Nat] : Good(f) /\ Filled(f.book, k)}]
<1>0. /\ wrap \in Seq(Number) /\ Len(wrap) \in Nat /\ DOMAIN wrap = 1 .. Len(wrap)
      /\ \A i \in 1 .. Len(wrap) : wrap[i] \in Known(b)
  BY WrapperIsKnown
<1>1. [book |-> b, number |-> 0] \in Y[0]
  <2>1. Follows(b, b) /\ b \in Book
    BY DEF Follows, KeepsAccounts, Sound, DetailsKeep
  <2>2. \A i \in DOMAIN b.directory[uri] : Open(b, b.directory[uri][i], 0)
    BY <1>0
  <2>. QED
    BY <1>0, <2>1, <2>2
<1>2. ASSUME NEW k \in 1 .. Len(wrap), NEW f \in Y[k - 1]
      PROVE  Visit(uri, account, None, f, wrap[k]) \in Y[k]
  <2>1. k - 1 \in 0 .. Len(wrap) /\ k \in 0 .. Len(wrap)
    BY <1>0
  <2>2. f \in [book : Book, number : Nat] /\ Good(f) /\ Filled(f.book, k - 1)
    BY <2>1
  <2>. HIDE DEF Y, Filled
  <2>. DEFINE c == f.book
              m == wrap[k]
              g == FillOne(c, m, uri, account, None)
              e == g.book
  <2>3. Sound(c) /\ Known(c) = Known(b) /\ m \in Known(c)
    BY <1>0, <2>2 DEF Follows, Known
  <2>4. Visit(uri, account, None, f, m) = g
    BY <2>2 DEF Visit
  <2>5. /\ g.number = 0 /\ Follows(c, e) /\ OnlyAdds(c, e, m)
        /\ account # None => Of(e, m).account # None
        /\ g = [book |-> e, number |-> g.number]
    BY <2>3, FillOneFiles
  <2>. HIDE DEF g
  <2>6. Follows(b, e)
    BY <2>2, <2>5, FollowsOn
  <2>7. ASSUME account # None, NEW i \in DOMAIN e.directory[uri]
        PROVE  Open(e, e.directory[uri][i], k)
    <3>. DEFINE x == e.directory[uri][i]
    <3>1. CASE x = m
      BY <2>5, <2>7, <3>1
    <3>2. CASE x # m
      <4>1. PICK j \in DOMAIN c.directory[uri] : c.directory[uri][j] = x
        BY <2>5, <3>2 DEF OnlyAdds
      <4>2. Open(c, x, k - 1)
        BY <2>2, <2>7, <4>1 DEF Filled
      <4>3. x \in Known(c)
        BY <2>3, <4>1, WrapperIsKnown
      <4>4. CASE Of(c, x).account # None
        BY <2>5, <4>3, <4>4 DEF Follows, KeepsAccounts
      <4>5. CASE Of(c, x).account = None
        <5>1. PICK l \in 1 .. Len(wrap) : l > k - 1 /\ wrap[l] = x
          BY <4>2, <4>5
        <5>2. l # k
          BY <3>2, <5>1
        <5>. QED
          BY <1>0, <5>1, <5>2
      <4>. QED
        BY <4>4, <4>5
    <3>. QED
      BY <3>1, <3>2
  <2>8. Filled(e, k)
    BY <2>7 DEF Filled
  <2>9. g \in [book : Book, number : Nat]
    BY <2>5, <2>6 DEF Follows, Sound
  <2>. QED
    BY <2>1, <2>4, <2>5, <2>6, <2>8, <2>9 DEF Y
<1>. HIDE DEF Y
<1>3. fillDetails(b, wrap, uri, account, None) \in Y[Len(wrap)]
  BY <1>0, <1>1, <1>2, FillingReaches
<1>. DEFINE F == fillDetails(b, wrap, uri, account, None)
<1>4. \A f \in Y[Len(wrap)] : Good(f) /\ Filled(f.book, Len(wrap))
  BY <1>0 DEF Y
<1>. HIDE DEF F
<1>5. Good(F) /\ Filled(F.book, Len(wrap))
  BY <1>3, <1>4 DEF F
<1>6. ASSUME NEW i \in DOMAIN F.book.directory[uri]
      PROVE  Unmoved(F.book, F.book.directory[uri][i], uri, account, None)
  <2>1. account # None => Of(F.book, F.book.directory[uri][i]).account # None
    BY <1>0, <1>5
  <2>. QED
    BY <2>1 DEF Unmoved, TakesPerson, TakesAccount
<1>. QED
  BY <1>5, <1>6 DEF F

\* The wrapper of the short URI, and of the extended one.
ShortWrapper(b, uri, account) ==
  IF hasHostname(uri) /\ account # None /\ uri[2] = Host[account]
  THEN b.directory[WithoutHostname(uri)] ELSE <<>>
LongWrapper(b, uri, account) ==
  IF ~hasHostname(uri) /\ account # None THEN b.directory[Extended(uri, account)] ELSE <<>>

\* What the search of the short URI finds.
LEMMA ShortIs ==
  ASSUME NEW b, NEW uri, NEW account, NEW person,
         ShortWrapper(b, uri, account) \in Seq(Nat \ {0})
  PROVE  LET w == ShortWrapper(b, uri, account)
             f == ShortCandidate(b, uri, account, person)
         IN \/ /\ f = [book |-> b, number |-> 0]
               /\ \A i \in DOMAIN w : Of(b, w[i]).account # account
            \/ \E i \in DOMAIN w :
                 /\ Of(b, w[i]).account = account
                 /\ f = [book |-> IF person # None /\ Of(b, w[i]).person \in {None, person}
                                  THEN setPerson(b, w[i], person) ELSE b,
                         number |-> w[i]]
<1>. DEFINE w == ShortWrapper(b, uri, account)
            I == {i \in 1 .. Len(w) : Of(b, w[i]).account = account}
            i == IF I # {} THEN Min(I) ELSE 0
            f == ShortCandidate(b, uri, account, person)
<1>1. f = IF i = 0 THEN [book |-> b, number |-> 0]
          ELSE [book |-> IF person # None /\ Of(b, w[i]).person \in {None, person}
                         THEN setPerson(b, w[i], person) ELSE b,
                number |-> w[i]]
  BY DEF ShortCandidate, SelectInSeq, ShortWrapper
<1>2. w \in Seq(Nat \ {0}) /\ DOMAIN w = 1 .. Len(w)
  OBVIOUS
<1>. HIDE DEF w, f
<1>3. CASE I = {}
  BY <1>1, <1>2, <1>3 DEF f, w
<1>4. CASE I # {}
  <2>1. I \in SUBSET Nat /\ 0 \notin I
    BY <1>2
  <2>. HIDE DEF I
  <2>2. i \in I /\ i # 0
    BY <1>4, <2>1, MinIsLeast
  <2>. HIDE DEF i
  <2>3. i \in DOMAIN w /\ Of(b, w[i]).account = account
    BY <1>2, <2>2 DEF I
  <2>. QED
    BY <1>1, <2>2, <2>3 DEF f, w
<1>. QED
  BY <1>3, <1>4

\* It depends on the accounts only.
LEMMA ShortAgain ==
  ASSUME NEW b, NEW c, NEW uri, NEW account, NEW person,
         ShortWrapper(c, uri, account) = ShortWrapper(b, uri, account),
         \A i \in 1 .. Len(ShortWrapper(b, uri, account)) :
           Of(c, ShortWrapper(b, uri, account)[i]).account
             = Of(b, ShortWrapper(b, uri, account)[i]).account
  PROVE  ShortCandidate(c, uri, account, person).number
           = ShortCandidate(b, uri, account, person).number
<1>. DEFINE w == ShortWrapper(b, uri, account)
            I(e) == {i \in 1 .. Len(w) : Of(e, w[i]).account = account}
            i(e) == IF I(e) # {} THEN Min(I(e)) ELSE 0
            f(e) == ShortCandidate(e, uri, account, person)
<1>1. ASSUME NEW e, ShortWrapper(e, uri, account) = w
      PROVE  f(e).number = IF i(e) = 0 THEN 0 ELSE w[i(e)]
  <2>1. f(e) = IF i(e) = 0 THEN [book |-> e, number |-> 0]
               ELSE [book |-> IF person # None /\ Of(e, w[i(e)]).person \in {None, person}
                              THEN setPerson(e, w[i(e)], person) ELSE e,
                     number |-> w[i(e)]]
    BY <1>1 DEF ShortCandidate, SelectInSeq, ShortWrapper
  <2>. HIDE DEF f, i, w
  <2>. QED
    BY <2>1
<1>2. I(b) = I(c)
  OBVIOUS
<1>. HIDE DEF f, I
<1>3. i(b) = i(c)
  BY <1>2
<1>. HIDE DEF i, w
<1>4. f(b).number = f(c).number
  BY <1>1, <1>3 DEF w
<1>. QED
  BY <1>4 DEF f

\* The numbers that getNumber() accepts when none was confirmed.
Fitting(b, m, account, person) ==
  /\ account = None \/ Of(b, m).account = account
  /\ person = None \/ Of(b, m).person \in {None, person}

FirstFitting(b, uri, n, account, person) ==
  /\ n \in DOMAIN b.directory[uri] /\ Fitting(b, b.directory[uri][n], account, person)
  /\ \A i \in DOMAIN b.directory[uri] : i < n => ~Fitting(b, b.directory[uri][i], account, person)

\* The search for a number that fits, or the number that is created.
LEMMA FindIs ==
  ASSUME NEW b, NEW uri, NEW ring, NEW account, NEW person, b.directory[uri] \in Seq(Number)
  PROVE  LET f == FindOrCreate(b, uri, ring, account, person)
         IN \/ /\ \A i \in DOMAIN b.directory[uri] : ~Fitting(b, b.directory[uri][i], account, person)
               /\ f = Create(b, uri, ring, account, person)
            \/ \E n : /\ FirstFitting(b, uri, n, account, person)
                      /\ f = [book |-> IF person = None THEN b
                                       ELSE setPerson(b, b.directory[uri][n], person),
                              number |-> b.directory[uri][n]]
<1>. DEFINE w == b.directory[uri]
            Fits(m) == /\ account = None \/ Of(b, m).account = account
                       /\ person = None \/ Of(b, m).person \in {None, person}
            I == {j \in 1 .. Len(w) : Fits(w[j])}
            i == IF I # {} THEN Min(I) ELSE 0
            f == FindOrCreate(b, uri, ring, account, person)
<1>1. f = IF i = 0 THEN Create(b, uri, ring, account, person)
          ELSE [book |-> IF person = None THEN b ELSE setPerson(b, w[i], person), number |-> w[i]]
  BY DEF FindOrCreate, SelectInSeq
<1>2. w \in Seq(Number) /\ DOMAIN w = 1 .. Len(w) /\ Len(w) \in Nat
  OBVIOUS
<1>3. \A m : Fits(m) <=> Fitting(b, m, account, person)
  BY DEF Fitting
<1>. HIDE DEF w, f, Fits
<1>4. CASE I = {}
  BY <1>1, <1>2, <1>3, <1>4 DEF f, w
<1>5. CASE I # {}
  <2>1. I \in SUBSET Nat /\ 0 \notin I
    BY <1>2
  <2>2. \A j \in DOMAIN w : Fitting(b, w[j], account, person) <=> j \in I
    BY <1>2, <1>3
  <2>3. \A j \in I : j \in DOMAIN w /\ j \in Nat
    BY <1>2
  <2>. HIDE DEF I
  <2>4. i \in I /\ i # 0 /\ \A j \in I : i <= j
    BY <1>5, <2>1, MinIsLeast
  <2>. HIDE DEF i
  <2>5. ASSUME NEW j \in DOMAIN w, j < i PROVE ~Fitting(b, w[j], account, person)
    <3>. SUFFICES ASSUME j \in I PROVE FALSE
      BY <2>2
    <3>. QED
      BY <2>3, <2>4, <2>5
  <2>6. FirstFitting(b, uri, i, account, person)
    BY <2>2, <2>3, <2>4, <2>5 DEF FirstFitting, w
  <2>. QED
    BY <1>1, <2>4, <2>6 DEF f, w
<1>. QED
  BY <1>4, <1>5

\* The first number that fits is found.
LEMMA FindFirst ==
  ASSUME NEW b, NEW uri, NEW ring, NEW account, NEW person, b.directory[uri] \in Seq(Number),
         NEW n, FirstFitting(b, uri, n, account, person)
  PROVE  FindOrCreate(b, uri, ring, account, person).number = b.directory[uri][n]
<1>. DEFINE f == FindOrCreate(b, uri, ring, account, person)
            w == b.directory[uri]
<1>0. w \in Seq(Number) /\ DOMAIN w = 1 .. Len(w) /\ Len(w) \in Nat
  OBVIOUS
<1>1. \E k : FirstFitting(b, uri, k, account, person) /\ f.number = w[k]
  BY FindIs DEF FirstFitting
<1>2. PICK k : FirstFitting(b, uri, k, account, person) /\ f.number = w[k]
  BY <1>1
<1>. HIDE DEF f
<1>3. k \in Nat /\ n \in Nat
  BY <1>0, <1>2 DEF FirstFitting
<1>4. ~(k < n) /\ ~(n < k)
  BY <1>2 DEF FirstFitting
<1>. QED
  BY <1>2, <1>3, <1>4 DEF f

\* The three ways in which getNumber() comes to its answer.
LEMMA AnswerUnconfirmed ==
  ASSUME NEW b, NEW uri, NEW ring, NEW account, NEW person,
         fillDetails(b, b.directory[uri], uri, account, person) \in [book : Book, number : Nat],
         fillDetails(b, b.directory[uri], uri, account, person).number = 0
  PROVE  LET f1 == fillDetails(b, b.directory[uri], uri, account, person)
             f3 == ShortCandidate(f1.book, uri, account, person)
             looked == Mention(f3.book, LookedUp(uri, account))
         IN getNumber(b, uri, ring, account, person)
              = IF f3.number # 0 THEN [book |-> looked, number |-> f3.number]
                ELSE FindOrCreate(looked, uri, ring, account, person)
<1>. DEFINE wrap2 == IF ~hasHostname(uri) /\ account # None
                     THEN b.directory[Extended(uri, account)] ELSE <<>>
            f1 == fillDetails(b, b.directory[uri], uri, account, person)
            f2 == IF f1.number # 0 /\ Of(f1.book, f1.number).person # None
                  THEN fillDetails(f1.book, wrap2, uri, account, person)
                  ELSE [f1 EXCEPT !.number = 0]
            f3 == ShortCandidate(f2.book, uri, account, person)
            merged == MergeCandidates(f3.book, f1.number, f2.number, f3.number)
            looked == Mention(merged, LookedUp(uri, account))
            found == IF f2.number # 0 THEN f2.number
                     ELSE IF f1.number # 0 THEN f1.number ELSE f3.number
            f == getNumber(b, uri, ring, account, person)
<1>1. f = IF found # 0 THEN [book |-> looked, number |-> found]
          ELSE FindOrCreate(looked, uri, ring, account, person)
  BY DEF getNumber
<1>. HIDE DEF f, f1
<1>2. f1.number = 0 /\ f1 \in [book : Book, number : Nat]
  BY DEF f1
<1>3. f2.book = f1.book /\ f2.number = 0
  BY <1>2
<1>. HIDE DEF f2
<1>4. f3 = ShortCandidate(f1.book, uri, account, person)
  BY <1>3
<1>. HIDE DEF f3
<1>5. merged = f3.book
  BY <1>2, <1>3 DEF MergeCandidates
<1>. QED
  BY <1>1, <1>2, <1>3, <1>4, <1>5 DEF f, f1

\* The three candidates, when the first is confirmed and has a Person.
Candidates(b, uri, account, person, f1, f2, f3) ==
  /\ f1 = fillDetails(b, b.directory[uri], uri, account, person)
  /\ f1.number # 0 /\ Of(f1.book, f1.number).person # None
  /\ f2 = fillDetails(f1.book, LongWrapper(b, uri, account), uri, account, person)
  /\ f3 = ShortCandidate(f2.book, uri, account, person)

LEMMA AnswerConfirmed ==
  ASSUME NEW b, NEW uri, NEW ring, NEW account, NEW person, NEW f1, NEW f2, NEW f3,
         Candidates(b, uri, account, person, f1, f2, f3)
  PROVE  LET f == getNumber(b, uri, ring, account, person)
         IN /\ f3.number = 0
               /\ (f2.number # 0 => /\ Of(f3.book, f1.number).person # None
                                    /\ Of(f3.book, f2.number).person # None)
                 => f = [book |-> Mention(f3.book, LookedUp(uri, account)),
                         number |-> IF f2.number # 0 THEN f2.number ELSE f1.number]
            /\ f3.number # 0 /\ f2.number = 0
                 => f = [book |-> Mention(merge(f3.book, f3.number, f1.number), LookedUp(uri, account)),
                         number |-> f1.number]
<1>0. /\ f1 = fillDetails(b, b.directory[uri], uri, account, person)
      /\ f1.number # 0 /\ Of(f1.book, f1.number).person # None
      /\ f2 = fillDetails(f1.book, LongWrapper(b, uri, account), uri, account, person)
      /\ f3 = ShortCandidate(f2.book, uri, account, person)
  BY DEF Candidates
<1>. DEFINE merged == MergeCandidates(f3.book, f1.number, f2.number, f3.number)
            looked == Mention(merged, LookedUp(uri, account))
            found == IF f2.number # 0 THEN f2.number
                     ELSE IF f1.number # 0 THEN f1.number ELSE f3.number
            f == getNumber(b, uri, ring, account, person)
<1>1. f = IF found # 0 THEN [book |-> looked, number |-> found]
          ELSE FindOrCreate(looked, uri, ring, account, person)
  BY <1>0 DEF getNumber, LongWrapper
<1>. HIDE DEF f
<1>2. f = [book |-> looked, number |-> IF f2.number # 0 THEN f2.number ELSE f1.number]
  BY <1>0, <1>1
<1>3. ASSUME f3.number = 0,
             f2.number # 0 => Of(f3.book, f1.number).person # None /\ Of(f3.book, f2.number).person # None
      PROVE  merged = f3.book
  BY <1>0, <1>3 DEF MergeCandidates
<1>4. ASSUME f3.number # 0, f2.number = 0
      PROVE  merged = merge(f3.book, f3.number, f1.number)
  BY <1>0, <1>4 DEF MergeCandidates
<1>. HIDE DEF merged
<1>. QED
  BY <1>2, <1>3, <1>4 DEF f

\* The same, by whether there is a number of the short URI.
LEMMA AnswerOfLong ==
  ASSUME NEW b, NEW uri, NEW ring, NEW account, NEW person, NEW f1, NEW f2, NEW f3,
         Candidates(b, uri, account, person, f1, f2, f3), f3.number = 0,
         f2.number # 0 => /\ Of(f3.book, f1.number).person # None
                          /\ Of(f3.book, f2.number).person # None
  PROVE  getNumber(b, uri, ring, account, person)
           = [book |-> Mention(f3.book, LookedUp(uri, account)),
              number |-> IF f2.number # 0 THEN f2.number ELSE f1.number]
BY AnswerConfirmed

LEMMA AnswerOfShort ==
  ASSUME NEW b, NEW uri, NEW ring, NEW account, NEW person, NEW f1, NEW f2, NEW f3,
         Candidates(b, uri, account, person, f1, f2, f3), f3.number # 0, f2.number = 0
  PROVE  getNumber(b, uri, ring, account, person)
           = [book |-> Mention(merge(f3.book, f3.number, f1.number), LookedUp(uri, account)),
              number |-> f1.number]
BY AnswerConfirmed

\* Where a loop of fillDetails() that finds nothing to change stops; 0 is the end.
Stops(c, wrap, n, uri, account, person) ==
  \/ n = 0 /\ \A i \in DOMAIN wrap : Done(c, wrap[i], uri, account, person)
  \/ n \in DOMAIN wrap /\ Answered(c, wrap, n, uri, account, person)

\* Such a loop changes nothing.
LEMMA FillStops ==
  ASSUME NEW c, NEW wrap \in Seq(Nat \ {0}), NEW n, NEW uri, NEW account, NEW person,
         person # None, Stops(c, wrap, n, uri, account, person)
  PROVE  LET f == fillDetails(c, wrap, uri, account, person)
         IN f.book = c /\ f.number = IF n = 0 THEN 0 ELSE wrap[n]
<1>. DEFINE f == fillDetails(c, wrap, uri, account, person)
            k == IF n = 0 THEN Len(wrap) ELSE n
<1>0. Len(wrap) \in Nat /\ DOMAIN wrap = 1 .. Len(wrap)
  OBVIOUS
<1>1. \A x : ~TakesPerson(c, x, uri, account, person) => Unmoved(c, x, uri, account, person)
  BY DEF Unmoved, TakesAccount
<1>2. CASE n = 0
  <2>1. \A i \in 1 .. Len(wrap) : /\ Unmoved(c, wrap[i], uri, account, person)
                                  /\ ~Confirmed(c, wrap[i], account, person)
    BY <1>0, <1>1, <1>2 DEF Stops, Done
  <2>2. /\ f.book = c
        /\ \/ f.number = 0 /\ \A i \in 1 .. Len(wrap) : ~Confirmed(c, wrap[i], account, person)
           \/ \E i \in 1 .. Len(wrap) : f.number = wrap[i] /\ Confirmed(c, wrap[i], account, person)
    BY <1>0, <2>1, FillAgain
  <2>. QED
    BY <1>2, <2>1, <2>2
<1>3. CASE n # 0
  <2>1. n \in 1 .. Len(wrap) /\ Answered(c, wrap, n, uri, account, person)
    BY <1>0, <1>3 DEF Stops
  <2>2. \A i \in 1 .. n : i \in 1 .. Len(wrap) /\ (i < n \/ i = n)
    BY <1>0, <2>1
  <2>3. \A i \in 1 .. n : Unmoved(c, wrap[i], uri, account, person)
    BY <1>1, <2>1, <2>2 DEF Answered, Done
  <2>4. \A i \in 1 .. n : Confirmed(c, wrap[i], account, person) => i = n
    BY <2>1, <2>2 DEF Answered, Done
  <2>5. Confirmed(c, wrap[n], account, person) /\ n \in 0 .. Len(wrap) /\ n \in 1 .. n
    BY <2>1, <1>0 DEF Answered
  <2>6. /\ f.book = c
        /\ \/ f.number = 0 /\ \A i \in 1 .. n : ~Confirmed(c, wrap[i], account, person)
           \/ \E i \in 1 .. n : f.number = wrap[i] /\ Confirmed(c, wrap[i], account, person)
    BY <1>3, <2>3, <2>5, FillAgain
  <2>. QED
    BY <1>3, <2>4, <2>5, <2>6
<1>. QED
  BY <1>2, <1>3

\* fillDetails() for a request with a person, and the same loop once more.
LEMMA PaintsAndStops ==
  ASSUME NEW b, Sound(b), NEW wrap \in Seq(Number), \A i \in DOMAIN wrap : wrap[i] \in Known(b),
         NEW uri, NEW account, NEW person \in Persons \cup {None}, person # None
  PROVE  LET f == fillDetails(b, wrap, uri, account, person)
         IN /\ Painted(b, f.book, wrap, uri, account, person)
            /\ \E n : /\ Stops(f.book, wrap, n, uri, account, person)
                      /\ f.number = IF n = 0 THEN 0 ELSE wrap[n]
<1>. DEFINE f == fillDetails(b, wrap, uri, account, person)
<1>1. /\ Painted(b, f.book, wrap, uri, account, person)
      /\ \/ /\ f.number = 0
            /\ \A i \in DOMAIN wrap : Done(f.book, wrap[i], uri, account, person)
         \/ \E n \in DOMAIN wrap :
              f.number = wrap[n] /\ Answered(f.book, wrap, n, uri, account, person)
  BY FillPaints
<1>. HIDE DEF f
<1>2. CASE f.number = 0 /\ \A i \in DOMAIN wrap : Done(f.book, wrap[i], uri, account, person)
  <2>1. Stops(f.book, wrap, 0, uri, account, person)
    BY <1>2 DEF Stops
  <2>. QED
    BY <1>1, <1>2, <2>1 DEF f
<1>3. CASE \E n \in DOMAIN wrap :
             f.number = wrap[n] /\ Answered(f.book, wrap, n, uri, account, person)
  <2>1. PICK n \in DOMAIN wrap :
          f.number = wrap[n] /\ Answered(f.book, wrap, n, uri, account, person)
    BY <1>3
  <2>2. Stops(f.book, wrap, n, uri, account, person) /\ n # 0
    BY <2>1 DEF Stops
  <2>. QED
    BY <1>1, <2>1, <2>2 DEF f
<1>. QED
  BY <1>1, <1>2, <1>3

\* What the three wrappers hold.
LEMMA WrappersAreKnown ==
  ASSUME NEW b, Sound(b), NEW uri \in Uri, NEW account \in Accounts \cup {None}
  PROVE  /\ b.directory[uri] \in Seq(Nat \ {0})
         /\ ShortWrapper(b, uri, account) \in Seq(Nat \ {0})
         /\ LongWrapper(b, uri, account) \in Seq(Nat \ {0})
         /\ LongWrapper(b, uri, account) \in Seq(Number)
         /\ \A i \in DOMAIN ShortWrapper(b, uri, account) :
              ShortWrapper(b, uri, account)[i] \in Known(b)
         /\ \A i \in DOMAIN LongWrapper(b, uri, account) :
              LongWrapper(b, uri, account)[i] \in Known(b)
<1>1. \A s \in Seq(Number) : s \in Seq(Nat \ {0})
  BY ContactMethodAssumption DEF Number
<1>2. \A u \in Uri : /\ b.directory[u] \in Seq(Number)
                     /\ \A i \in DOMAIN b.directory[u] : b.directory[u][i] \in Known(b)
  BY WrapperIsKnown
<1>3. /\ ShortWrapper(b, uri, account) \in Seq(Number)
      /\ \A i \in DOMAIN ShortWrapper(b, uri, account) :
           ShortWrapper(b, uri, account)[i] \in Known(b)
  BY <1>2, UriShapes DEF ShortWrapper
<1>4. /\ LongWrapper(b, uri, account) \in Seq(Number)
      /\ \A i \in DOMAIN LongWrapper(b, uri, account) :
           LongWrapper(b, uri, account)[i] \in Known(b)
  BY <1>2, UriShapes DEF LongWrapper
<1>. QED
  BY <1>1, <1>2, <1>3, <1>4

\* Noting what was looked up changes no number.
LEMMA MentionSame ==
  ASSUME NEW b, Sound(b), NEW uri \in Uri, NEW account \in Accounts \cup {None}
  PROVE  LET c == Mention(b, LookedUp(uri, account))
         IN /\ Sound(c) /\ c.size = b.size /\ c.d = b.d /\ c.details = b.details
            /\ c.directory = b.directory /\ \A m : Of(c, m) = Of(b, m)
<1>. DEFINE c == Mention(b, LookedUp(uri, account))
<1>1. LookedUp(uri, account) \in SUBSET Uri
  BY LookedUpInUri
<1>2. Sound(c) /\ SameNumbers(b, c) /\ c.directory = b.directory
  BY <1>1, MentionFollows
<1>. HIDE DEF c
<1>. QED
  BY <1>2 DEF SameNumbers, Of, c

\* The answer to a request that no number has anything to take from, nor confirms.
LEMMA AgainUnconfirmed ==
  ASSUME NEW c, Sound(c), NEW uri \in Uri, NEW ring,
         NEW account \in Accounts \cup {None}, NEW person \in Persons \cup {None},
         \A i \in DOMAIN c.directory[uri] :
           /\ Unmoved(c, c.directory[uri][i], uri, account, person)
           /\ ~Confirmed(c, c.directory[uri][i], account, person)
  PROVE  LET f == getNumber(c, uri, ring, account, person)
             s == ShortCandidate(c, uri, account, person).number
         IN /\ s # 0 => f.number = s
            /\ s = 0 => \A n : FirstFitting(c, uri, n, account, person)
                                 => f.number = c.directory[uri][n]
<1>. DEFINE w == c.directory[uri]
            f == getNumber(c, uri, ring, account, person)
            f1 == fillDetails(c, w, uri, account, person)
            f3 == ShortCandidate(c, uri, account, person)
            looked == Mention(c, LookedUp(uri, account))
<1>1. /\ w \in Seq(Number) /\ w \in Seq(Nat \ {0}) /\ \A i \in DOMAIN w : w[i] \in Known(c)
      /\ ShortWrapper(c, uri, account) \in Seq(Nat \ {0})
  BY WrapperIsKnown, WrappersAreKnown
<1>2. f1 \in [book : Book, number : Nat]
  BY <1>1, FillDetailsFollows
<1>3. f1.book = c /\ f1.number = 0
  <2>1. \A i \in 1 .. Len(w) : /\ Unmoved(c, w[i], uri, account, person)
                               /\ ~Confirmed(c, w[i], account, person)
    BY <1>1
  <2>. HIDE DEF w, f1
  <2>2. Len(w) \in 0 .. Len(w)
    BY <1>1
  <2>3. /\ f1.book = c
        /\ \/ f1.number = 0 /\ \A i \in 1 .. Len(w) : ~Confirmed(c, w[i], account, person)
           \/ \E i \in 1 .. Len(w) : f1.number = w[i] /\ Confirmed(c, w[i], account, person)
    BY <1>1, <2>1, <2>2, FillAgain DEF f1
  <2>. QED
    BY <2>1, <2>3
<1>4. f = IF f3.number # 0
          THEN [book |-> Mention(f3.book, LookedUp(uri, account)), number |-> f3.number]
          ELSE FindOrCreate(Mention(f3.book, LookedUp(uri, account)), uri, ring, account, person)
  BY <1>2, <1>3, AnswerUnconfirmed
<1>. HIDE DEF f, f1, f3, looked
<1>5. CASE f3.number # 0
  BY <1>4, <1>5 DEF f, f3
<1>6. CASE f3.number = 0
  <2>1. f3.book = c
    <3>1. \A i \in DOMAIN ShortWrapper(c, uri, account) : ShortWrapper(c, uri, account)[i] # 0
      BY <1>1
    <3>. QED
      BY <1>1, <1>6, <3>1, ShortIs DEF f3
  <2>2. f = FindOrCreate(looked, uri, ring, account, person)
    BY <1>4, <1>6, <2>1 DEF looked
  <2>3. looked.directory = c.directory /\ \A m : Of(looked, m) = Of(c, m)
    BY MentionSame DEF looked
  <2>4. ASSUME NEW n, FirstFitting(c, uri, n, account, person)
        PROVE  f.number = w[n]
    <3>1. FirstFitting(looked, uri, n, account, person)
      BY <2>3, <2>4 DEF FirstFitting, Fitting
    <3>. QED
      BY <1>1, <2>2, <2>3, <3>1, FindFirst
  <2>. QED
    BY <1>6, <2>4 DEF f, f3
<1>. QED
  BY <1>5, <1>6 DEF f, f3

\* Where both loops stop, the first of them at a number that is confirmed.
StopAt(c, n1, n2, uri, account, person) ==
  /\ n1 # 0 /\ Stops(c, c.directory[uri], n1, uri, account, person)
  /\ Stops(c, LongWrapper(c, uri, account), n2, uri, account, person)

\* The answer to a request that a number confirms without taking anything.
LEMMA AgainConfirmed ==
  ASSUME NEW c, Sound(c), NEW uri \in Uri, NEW ring,
         NEW account \in Accounts \cup {None}, NEW person \in Persons \cup {None}, person # None,
         NEW n1, NEW n2, StopAt(c, n1, n2, uri, account, person),
         NEW s, s = ShortCandidate(c, uri, account, person)
  PROVE  /\ s.number = 0 =>
              getNumber(c, uri, ring, account, person)
                = [book |-> Mention(c, LookedUp(uri, account)),
                   number |-> IF n2 = 0 THEN c.directory[uri][n1] ELSE LongWrapper(c, uri, account)[n2]]
         /\ s.number # 0 /\ n2 = 0 =>
              getNumber(c, uri, ring, account, person)
                = [book |-> Mention(merge(s.book, s.number, c.directory[uri][n1]), LookedUp(uri, account)),
                   number |-> c.directory[uri][n1]]
<1>. DEFINE w == c.directory[uri]
            v == LongWrapper(c, uri, account)
            f == getNumber(c, uri, ring, account, person)
            f1 == fillDetails(c, w, uri, account, person)
            f2 == fillDetails(f1.book, v, uri, account, person)
            f3 == ShortCandidate(f2.book, uri, account, person)
<1>0. n1 # 0 /\ Stops(c, w, n1, uri, account, person) /\ Stops(c, v, n2, uri, account, person)
  BY DEF StopAt
<1>1. /\ w \in Seq(Nat \ {0}) /\ v \in Seq(Nat \ {0})
      /\ ShortWrapper(c, uri, account) \in Seq(Nat \ {0})
  BY WrappersAreKnown
<1>2. f1.book = c /\ f1.number = w[n1]
  BY <1>0, <1>1, FillStops
<1>3. n1 \in DOMAIN w /\ Answered(c, w, n1, uri, account, person)
  BY <1>0 DEF Stops
<1>4. w[n1] # 0
  BY <1>1, <1>3
<1>5. Of(f1.book, f1.number).person = person
  BY <1>2, <1>3 DEF Answered, Confirmed
<1>6. f2.book = c /\ f2.number = IF n2 = 0 THEN 0 ELSE v[n2]
  BY <1>0, <1>1, <1>2, FillStops
<1>7. f3 = s
  BY <1>6
<1>8. n2 # 0 => f2.number # 0 /\ Of(c, f2.number).person = person
  <2>1. n2 # 0 => n2 \in DOMAIN v /\ Answered(c, v, n2, uri, account, person)
    BY <1>0 DEF Stops
  <2>. HIDE DEF v, f2
  <2>. QED
    BY <1>1, <1>6, <2>1 DEF Answered, Confirmed
<1>9. s.number = 0 => s.book = c
  <2>1. \A i \in DOMAIN ShortWrapper(c, uri, account) : ShortWrapper(c, uri, account)[i] # 0
    BY <1>1
  <2>. QED
    BY <1>1, <2>1, ShortIs
<1>10. Candidates(c, uri, account, person, f1, f2, f3)
  BY <1>2, <1>4, <1>5 DEF Candidates
<1>. HIDE DEF f1, f2, f3, w, v
<1>11. ASSUME s.number = 0
       PROVE  f = [book |-> Mention(c, LookedUp(uri, account)),
                   number |-> IF n2 = 0 THEN w[n1] ELSE v[n2]]
  <2>1. f3.number = 0 /\ f3.book = c
    BY <1>7, <1>9, <1>11
  <2>2. Of(f3.book, f1.number).person # None
    BY <1>2, <1>5, <2>1
  <2>3. f2.number # 0 => Of(f3.book, f2.number).person # None
    BY <1>6, <1>8, <2>1
  <2>4. f = [book |-> Mention(f3.book, LookedUp(uri, account)),
             number |-> IF f2.number # 0 THEN f2.number ELSE f1.number]
    BY <1>10, <2>1, <2>2, <2>3, AnswerOfLong
  <2>. HIDE DEF f
  <2>. QED
    BY <1>2, <1>6, <1>8, <2>1, <2>4
<1>12. ASSUME s.number # 0, n2 = 0
       PROVE  f = [book |-> Mention(merge(s.book, s.number, w[n1]), LookedUp(uri, account)),
                   number |-> w[n1]]
  <2>1. f = [book |-> Mention(merge(f3.book, f3.number, f1.number), LookedUp(uri, account)),
             number |-> f1.number]
    BY <1>6, <1>7, <1>10, <1>12, AnswerOfShort
  <2>. HIDE DEF f
  <2>. QED
    BY <1>2, <1>7, <2>1
<1>. QED
  BY <1>11, <1>12 DEF w, v

\* The same, by the candidates there are: none, or one, with the short URI.
LEMMA AgainLong ==
  ASSUME NEW c, Sound(c), NEW uri \in Uri, NEW ring,
         NEW account \in Accounts \cup {None}, NEW person \in Persons \cup {None}, person # None,
         NEW n1, NEW n2, StopAt(c, n1, n2, uri, account, person),
         ShortCandidate(c, uri, account, person).number = 0
  PROVE  getNumber(c, uri, ring, account, person)
           = [book |-> Mention(c, LookedUp(uri, account)),
              number |-> IF n2 = 0 THEN c.directory[uri][n1] ELSE LongWrapper(c, uri, account)[n2]]
BY AgainConfirmed

LEMMA AgainMerged ==
  ASSUME NEW c, Sound(c), NEW uri \in Uri, NEW ring,
         NEW account \in Accounts \cup {None}, NEW person \in Persons \cup {None}, person # None,
         NEW n, StopAt(c, n, 0, uri, account, person),
         NEW s, s = ShortCandidate(c, uri, account, person), s.number # 0
  PROVE  getNumber(c, uri, ring, account, person)
           = [book |-> Mention(merge(s.book, s.number, c.directory[uri][n]), LookedUp(uri, account)),
              number |-> c.directory[uri][n]]
BY AgainConfirmed

LEMMA AgainAlone ==
  ASSUME NEW c, Sound(c), NEW uri \in Uri, NEW ring,
         NEW account \in Accounts \cup {None}, NEW person \in Persons \cup {None}, person # None,
         NEW n, StopAt(c, n, 0, uri, account, person),
         ShortCandidate(c, uri, account, person).number = 0
  PROVE  getNumber(c, uri, ring, account, person)
           = [book |-> Mention(c, LookedUp(uri, account)), number |-> c.directory[uri][n]]
BY AgainLong

\* A number that has nothing to take from a request, and does not answer it.
Idle(b, m, uri, account, person) ==
  Unmoved(b, m, uri, account, person) /\ ~Confirmed(b, m, account, person)

Settled(b, uri, account, person) ==
  \A i \in DOMAIN b.directory[uri] : Idle(b, b.directory[uri][i], uri, account, person)

\* It is a matter of its details.
LEMMA IdleOn ==
  ASSUME NEW b, NEW c, NEW m, Of(c, m) = Of(b, m), NEW uri, NEW account, NEW person,
         Idle(b, m, uri, account, person)
  PROVE  Idle(c, m, uri, account, person)
BY TakesOn DEF Idle, Unmoved

LEMMA GivenStaysIdle ==
  ASSUME NEW c, Sound(c), NEW m \in Known(c), NEW x \in Known(c), NEW uri, NEW account,
         NEW person \in Persons \cup {None}, person # None,
         account # None, Of(c, m).account = account, Idle(c, x, uri, account, person)
  PROVE  Idle(setPerson(c, m, person), x, uri, account, person)
<1>. DEFINE e == setPerson(c, m, person)
<1>1. Of(e, x) = IF c.d[x] = c.d[m] THEN [Of(c, x) EXCEPT !.person = person] ELSE Of(c, x)
  BY GivenPerson
<1>. HIDE DEF e
<1>2. CASE c.d[x] = c.d[m]
  <2>1. Of(c, x) \in Details /\ Of(c, x).account = account
    BY <1>2, KnownIsNumber DEF Sound, Of
  <2>2. Of(e, x).person = person /\ Of(e, x).account = account
    BY <1>1, <1>2, <2>1 DEF Details
  <2>. QED
    BY <2>2 DEF Idle, Unmoved, TakesPerson, TakesAccount, Confirmed, e
<1>3. CASE c.d[x] # c.d[m]
  BY <1>1, <1>3, IdleOn DEF e
<1>. QED
  BY <1>2, <1>3

\* The short number is found again.
LEMMA ShortFoundAgain ==
  ASSUME NEW c, Sound(c), NEW uri \in Uri, NEW ring,
         NEW account \in Accounts \cup {None}, NEW person \in Persons \cup {None},
         Settled(c, uri, account, person),
         NEW f3, f3 = ShortCandidate(c, uri, account, person), f3.number # 0
  PROVE  getNumber(Mention(f3.book, LookedUp(uri, account)), uri, ring, account, person).number
           = f3.number
<1>. DEFINE w == c.directory[uri]
            v == ShortWrapper(c, uri, account)
            g == f3.book
            e == Mention(g, LookedUp(uri, account))
<1>1. /\ w \in Seq(Number) /\ \A i \in DOMAIN w : w[i] \in Known(c)
      /\ v \in Seq(Nat \ {0}) /\ \A i \in DOMAIN v : v[i] \in Known(c)
  BY WrapperIsKnown, WrappersAreKnown
<1>2. PICK j \in DOMAIN v :
        /\ Of(c, v[j]).account = account
        /\ f3 = [book |-> IF person # None /\ Of(c, v[j]).person \in {None, person}
                          THEN setPerson(c, v[j], person) ELSE c,
                 number |-> v[j]]
  BY <1>1, ShortIs
<1>3. account # None
  BY <1>2 DEF ShortWrapper
<1>4. g = c \/ (person # None /\ g = setPerson(c, v[j], person))
  BY <1>2
<1>5. /\ Sound(g) /\ SameBut(c, g) /\ \A x \in Known(c) : Of(g, x).account = Of(c, x).account
      /\ \A i \in DOMAIN w : Idle(g, w[i], uri, account, person)
  <2>1. CASE g = c
    BY <2>1 DEF SameBut, Settled
  <2>2. CASE person # None /\ g = setPerson(c, v[j], person)
    <3>1. v[j] \in Known(c)
      BY <1>1
    <3>2. Sound(g) /\ SameBut(c, g) /\ SameAccounts(c, g)
      BY <2>2, <3>1, SetPersonFollows
    <3>3. \A i \in DOMAIN w : Idle(g, w[i], uri, account, person)
      BY <1>1, <1>2, <1>3, <2>2, <3>1, GivenStaysIdle DEF Settled
    <3>. QED
      BY <3>2, <3>3 DEF SameAccounts
  <2>. QED
    BY <1>4, <2>1, <2>2
<1>. HIDE DEF g
<1>6. /\ Sound(e) /\ e.size = g.size /\ e.d = g.d /\ e.details = g.details
      /\ e.directory = g.directory /\ \A m : Of(e, m) = Of(g, m)
  BY <1>5, MentionSame
<1>. HIDE DEF e
<1>7. e.directory = c.directory
  BY <1>5, <1>6 DEF SameBut
<1>8. \A i \in DOMAIN e.directory[uri] : Idle(e, e.directory[uri][i], uri, account, person)
  BY <1>5, <1>6, <1>7, IdleOn
<1>9. ShortCandidate(e, uri, account, person).number = f3.number
  <2>1. ShortWrapper(e, uri, account) = ShortWrapper(c, uri, account)
    BY <1>7 DEF ShortWrapper
  <2>2. \A i \in 1 .. Len(v) : Of(e, v[i]).account = Of(c, v[i]).account
    BY <1>1, <1>5, <1>6
  <2>. QED
    BY <2>1, <2>2, ShortAgain
<1>10. getNumber(e, uri, ring, account, person).number = f3.number
  BY <1>6, <1>8, <1>9, AgainUnconfirmed DEF Idle
<1>. QED
  BY <1>10 DEF e, g

\* A number taken as it is, or given the Person, is found again.
LEMMA FoundAgain ==
  ASSUME NEW c, Sound(c), NEW uri \in Uri, NEW ring,
         NEW account \in Accounts \cup {None}, NEW person \in Persons \cup {None},
         \A i \in DOMAIN c.directory[uri] : Idle(c, c.directory[uri][i], uri, account, person),
         ShortCandidate(c, uri, account, person).number = 0,
         NEW n, FirstFitting(c, uri, n, account, person),
         NEW e, e = IF person = None THEN c ELSE setPerson(c, c.directory[uri][n], person)
  PROVE  getNumber(e, uri, ring, account, person).number = c.directory[uri][n]
<1>. DEFINE w == c.directory[uri]
            m == w[n]
            v == ShortWrapper(c, uri, account)
<1>1. /\ w \in Seq(Number) /\ \A i \in DOMAIN w : w[i] \in Known(c)
      /\ v \in Seq(Nat \ {0}) /\ \A i \in DOMAIN v : v[i] \in Known(c)
  BY WrapperIsKnown, WrappersAreKnown
<1>2. n \in DOMAIN w /\ Fitting(c, m, account, person)
  BY DEF FirstFitting
<1>3. CASE person = None
  <2>1. e = c
    BY <1>3
  <2>. QED
    BY <2>1, AgainUnconfirmed DEF Idle
<1>4. CASE person # None
  <2>1. m \in Known(c) /\ e = setPerson(c, m, person)
    BY <1>1, <1>2, <1>4
  <2>2. Sound(e) /\ SameBut(c, e) /\ SameAccounts(c, e)
    BY <2>1, SetPersonFollows
  <2>3. e.directory = c.directory
    BY <2>2 DEF SameBut
  <2>4. \A x \in Known(c) :
          Of(e, x) = IF c.d[x] = c.d[m] THEN [Of(c, x) EXCEPT !.person = person] ELSE Of(c, x)
    BY <2>1, GivenPerson
  <2>5. Of(e, m).person = person /\ Of(e, m).account = Of(c, m).account
    <3>1. Of(c, m) \in Details
      BY <2>1, KnownIsNumber DEF Sound
    <3>. QED
      BY <2>1, <2>4, <3>1 DEF Details
  <2>6. ASSUME NEW i \in DOMAIN w, i < n
        PROVE  Of(e, w[i]) = Of(c, w[i])
    <3>1. ~Fitting(c, w[i], account, person)
      BY <2>6 DEF FirstFitting
    <3>2. c.d[w[i]] # c.d[m]
      BY <1>2, <3>1 DEF Fitting, Of
    <3>. QED
      BY <1>1, <2>4, <3>2
  <2>7. ShortCandidate(e, uri, account, person).number = 0
    <3>1. ShortWrapper(e, uri, account) = v
      BY <2>3 DEF ShortWrapper
    <3>2. \A i \in 1 .. Len(v) : Of(e, v[i]).account = Of(c, v[i]).account
      BY <1>1, <2>2 DEF SameAccounts
    <3>. QED
      BY <3>1, <3>2, ShortAgain
  <2>. HIDE DEF w, m
  <2>8. CASE account # None
    <3>1. \A i \in DOMAIN w : Idle(e, w[i], uri, account, person)
      BY <1>1, <1>2, <1>4, <2>1, <2>8, GivenStaysIdle DEF Fitting, w
    <3>2. FirstFitting(e, uri, n, account, person)
      <4>1. Fitting(e, m, account, person)
        BY <1>2, <2>5 DEF Fitting
      <4>2. \A i \in DOMAIN w : i < n => ~Fitting(e, w[i], account, person)
        BY <2>6 DEF FirstFitting, Fitting, w
      <4>. QED
        BY <1>2, <2>3, <4>1, <4>2 DEF FirstFitting, w, m
    <3>3. getNumber(e, uri, ring, account, person).number = e.directory[uri][n]
      BY <2>2, <2>3, <2>7, <3>1, <3>2, AgainUnconfirmed DEF Idle, w
    <3>. QED
      BY <2>3, <3>3
  <2>9. CASE account = None
    <3>1. /\ ~TakesPerson(e, m, uri, account, person)
          /\ Confirmed(e, m, account, person)
      BY <1>4, <2>5, <2>9 DEF TakesPerson, Confirmed
    <3>2. \A i \in DOMAIN w : i < n => Done(e, w[i], uri, account, person)
      <4>1. \A i \in DOMAIN w : Done(c, w[i], uri, account, person)
        BY DEF Idle, Unmoved, Done, w
      <4>. QED
        BY <2>6, <4>1, TakesOn DEF Done
    <3>3. DOMAIN w = 1 .. Len(w)
      BY <1>1
    <3>4. Stops(e, w, n, uri, account, person)
      BY <1>2, <3>1, <3>2, <3>3 DEF Stops, Answered, m
    <3>5. Stops(e, LongWrapper(e, uri, account), 0, uri, account, person)
      BY <2>9 DEF Stops, LongWrapper
    <3>6. n # 0
      BY <1>1, <1>2
    <3>7. e.directory[uri] = w
      BY <2>3 DEF w
    <3>8. getNumber(e, uri, ring, account, person)
            = [book |-> Mention(e, LookedUp(uri, account)), number |-> e.directory[uri][n]]
      <4>1. StopAt(e, n, 0, uri, account, person)
        BY <3>4, <3>5, <3>6, <3>7 DEF StopAt
      <4>. QED
        BY <1>4, <2>2, <2>7, <4>1, AgainAlone
    <3>. QED
      BY <3>7, <3>8 DEF w
  <2>. QED
    BY <2>8, <2>9
<1>. QED
  BY <1>3, <1>4

\* The constructor leaves the other numbers alone.
LEMMA NewIs ==
  ASSUME NEW b, Sound(b), b.size < MaxNumbers, NEW uri, NEW ring, NEW account, NEW person,
         NEW c, c = New(b, uri, ring, account, person)
  PROVE  /\ c.directory = b.directory /\ c.size = b.size + 1
         /\ \A x \in Known(b) : Of(c, x) = Of(b, x)
         /\ Of(c, b.size + 1).account = account /\ Of(c, b.size + 1).person = person
<1>. DEFINE m == b.size + 1
            v == [account |-> account, person |-> person, uri |-> uri, ring |-> ring,
                  name |-> None, popularity |-> 0, seconds |-> 0]
<1>1. b \in Book /\ Proxies(b)
  BY DEF Sound
<1>2. m \in Number /\ m \notin Known(b) /\ \A x \in Known(b) : x \in Number /\ b.d[x] \in Known(b)
  BY <1>1, BookParts, ContactMethodAssumption DEF Number, Known, Proxies
<1>3. b.d[m] = m
  BY <1>1, <1>2 DEF Proxies
<1>4. c = [b EXCEPT !.size = m, !.parents[m] = <<m>>, !.details[m] = v]
  BY DEF New
<1>. HIDE DEF v, m
<1>5. c.size = m /\ c.d = b.d /\ c.directory = b.directory /\ c.details = [b.details EXCEPT ![m] = v]
  BY <1>1, <1>4 DEF Book
<1>6. \A x \in Known(b) : Of(c, x) = Of(b, x)
  BY <1>1, <1>2, <1>5, BookParts DEF Of
<1>7. Of(c, m) = v
  BY <1>1, <1>2, <1>3, <1>5, BookParts DEF Of
<1>. QED
  BY <1>5, <1>6, <1>7 DEF v, m

\* A URI with a hostname and one without differ.
LEMMA UriLengths ==
  ASSUME NEW u \in Uri
  PROVE  /\ hasHostname(u) => WithoutHostname(u) # u
         /\ ~hasHostname(u) => \A a \in Accounts : Extended(u, a) # u
<1>1. CASE u \in {<<x>> : x \in Users}
  <2>1. PICK x \in Users : u = <<x>>
    BY <1>1
  <2>2. \A a \in Accounts : Extended(u, a) = <<x, Host[a]>>
    BY <2>1, PairOfSingles DEF Extended
  <2>3. \A a \in Accounts : Len(<<x, Host[a]>>) = 2
    OBVIOUS
  <2>4. Len(u) = 1
    BY <2>1
  <2>. QED
    BY <2>2, <2>3, <2>4 DEF hasHostname
<1>2. CASE u \in {<<x, Host[a]>> : x \in Users, a \in Accounts}
  <2>1. PICK x \in Users, a \in Accounts : u = <<x, Host[a]>>
    BY <1>2
  <2>2. Len(u) = 2 /\ Len(<<u[1]>>) = 1
    BY <2>1
  <2>. QED
    BY <2>2 DEF hasHostname, WithoutHostname
<1>. QED
  BY <1>1, <1>2 DEF Uri

\* A number that is created comes last in the wrapper of its URI.
LEMMA CreateIs ==
  ASSUME NEW b, Sound(b), b.size < MaxNumbers,
         NEW uri \in Uri, NEW ring \in BOOLEAN,
         NEW account \in Accounts \cup {None}, NEW person \in Persons \cup {None},
         NEW f, f = Create(b, uri, ring, account, person)
  PROVE  /\ f.number = b.size + 1
         /\ f.book.directory[uri] = Append(b.directory[uri], b.size + 1)
         /\ ShortWrapper(f.book, uri, account) = ShortWrapper(b, uri, account)
         /\ \A x \in Known(b) : Of(f.book, x) = Of(b, x)
         /\ Of(f.book, b.size + 1).account = account
         /\ Of(f.book, b.size + 1).person = person
<1>. DEFINE m == b.size + 1
            created == New(b, uri, ring, account, person)
            Like(c) == /\ Sound(c) /\ c.size = m
                       /\ \A x \in Known(created) : Of(c, x) = Of(created, x)
            e == f.book
<1>1. Sound(created) /\ created.size = m /\ created.directory = b.directory
  BY NewFollows
<1>2. /\ \A x \in Known(b) : Of(created, x) = Of(b, x)
      /\ Of(created, m).account = account /\ Of(created, m).person = person
  BY NewIs
<1>3. /\ f.number = m
      /\ \/ e = File(created, uri, m)
         \/ /\ ~hasHostname(uri) /\ account # None
            /\ e = File(File(created, Extended(uri, account), m), uri, m)
  BY DEF Create
<1>4. b.size \in Nat /\ b.directory \in [Uri -> Seq(Number)]
  BY BookParts DEF Sound
<1>5. m \in Known(created) /\ \A x \in Known(b) : x \in Known(created)
  BY <1>1, <1>4 DEF Known
<1>. HIDE DEF m, created, e
<1>6. ASSUME NEW c, Like(c), NEW u \in Uri
      PROVE  Like(File(c, u, m)) /\ File(c, u, m).directory = [c.directory EXCEPT ![u] = Append(@, m)]
  <2>. DEFINE h == File(c, u, m)
  <2>1. m \in Known(c)
    BY <1>1, <1>5, <1>6 DEF Known
  <2>2. Sound(h) /\ SameNumbers(c, h) /\ h.directory = [c.directory EXCEPT ![u] = Append(@, m)]
    BY <1>6, <2>1, FileFollows
  <2>. HIDE DEF h
  <2>3. \A x : Of(h, x) = Of(c, x)
    BY <2>2 DEF SameNumbers, Of
  <2>. QED
    BY <1>6, <2>2, <2>3 DEF SameNumbers, h
<1>7. /\ Like(e) /\ e.directory[uri] = Append(b.directory[uri], m)
      /\ hasHostname(uri) => e.directory[WithoutHostname(uri)] = b.directory[WithoutHostname(uri)]
  <2>0. Like(created)
    BY <1>1
  <2>1. CASE e = File(created, uri, m)
    <3>. HIDE DEF Like
    <3>0. Like(e) /\ e.directory = [created.directory EXCEPT ![uri] = Append(@, m)]
      BY <1>6, <2>0, <2>1
    <3>1. e.directory = [b.directory EXCEPT ![uri] = Append(@, m)]
      BY <1>1, <3>0
    <3>. QED
      BY <1>4, <3>0, <3>1, UriShapes, UriLengths
  <2>2. CASE /\ ~hasHostname(uri) /\ account # None
             /\ e = File(File(created, Extended(uri, account), m), uri, m)
    <3>. DEFINE u == Extended(uri, account)
                c == File(created, u, m)
    <3>1. u \in Uri /\ u # uri
      BY <2>2, UriShapes, UriLengths
    <3>. HIDE DEF u, Like
    <3>2. Like(c) /\ c.directory = [created.directory EXCEPT ![u] = Append(@, m)]
      BY <1>6, <2>0, <3>1
    <3>3. e = File(c, uri, m)
      BY <2>2 DEF u
    <3>. HIDE DEF c
    <3>4. Like(e) /\ e.directory = [c.directory EXCEPT ![uri] = Append(@, m)]
      BY <1>6, <3>2, <3>3
    <3>5. c.directory \in [Uri -> Seq(Number)] /\ c.directory[uri] = b.directory[uri]
      <4>1. Sound(c)
        BY <3>2 DEF Like
      <4>. QED
        BY <1>1, <1>4, <3>1, <3>2, <4>1, BookParts DEF Sound
    <3>. QED
      BY <2>2, <3>4, <3>5
  <2>. HIDE DEF Like
  <2>. QED
    BY <1>3, <2>1, <2>2
<1>8. ShortWrapper(e, uri, account) = ShortWrapper(b, uri, account)
  BY <1>7 DEF ShortWrapper
<1>. QED
  BY <1>2, <1>3, <1>5, <1>7, <1>8 DEF e, m

\* A number that was created is found again.
LEMMA CreatedAgain ==
  ASSUME NEW c, Sound(c), c.size < MaxNumbers, NEW uri \in Uri, NEW ring \in BOOLEAN,
         NEW account \in Accounts \cup {None}, NEW person \in Persons \cup {None},
         \A i \in DOMAIN c.directory[uri] : Idle(c, c.directory[uri][i], uri, account, person),
         ShortCandidate(c, uri, account, person).number = 0,
         \A i \in DOMAIN c.directory[uri] : ~Fitting(c, c.directory[uri][i], account, person),
         NEW f, f = Create(c, uri, ring, account, person)
  PROVE  getNumber(f.book, uri, ring, account, person).number = f.number
<1>. DEFINE w == c.directory[uri]
            v == ShortWrapper(c, uri, account)
            m == f.number
            e == f.book
            s == e.directory[uri]
            k == Len(w) + 1
<1>1. /\ w \in Seq(Number) /\ \A i \in DOMAIN w : w[i] \in Known(c)
      /\ v \in Seq(Nat \ {0}) /\ \A i \in DOMAIN v : v[i] \in Known(c)
  BY WrapperIsKnown, WrappersAreKnown
<1>2. /\ s = Append(w, m) /\ ShortWrapper(e, uri, account) = v
      /\ \A x \in Known(c) : Of(e, x) = Of(c, x)
      /\ Of(e, m).account = account /\ Of(e, m).person = person
  <2>. DEFINE n == c.size + 1
  <2>1. /\ m = n /\ s = Append(w, n) /\ ShortWrapper(e, uri, account) = v
        /\ \A x \in Known(c) : Of(e, x) = Of(c, x)
        /\ Of(e, n).account = account /\ Of(e, n).person = person
    BY CreateIs
  <2>. HIDE DEF m, n, e, s, v, w
  <2>. QED
    BY <2>1
<1>3. Sound(e)
  BY CreateGrows DEF Grows
<1>. HIDE DEF s, w, v, e, m
<1>4. m \in Number /\ s \in Seq(Number)
  <2>1. m \in Known(e)
    BY CreateGrows DEF Grows, e, m
  <2>. QED
    BY <1>3, <2>1, KnownIsNumber, WrapperIsKnown DEF Sound, s
<1>5. /\ Len(w) \in Nat /\ DOMAIN w = 1 .. Len(w) /\ DOMAIN s = 1 .. k /\ Len(s) = k /\ k # 0
      /\ s[k] = m /\ \A i \in 1 .. k : i # k => i \in DOMAIN w /\ s[i] = w[i]
  BY <1>1, <1>2, <1>4
<1>6. \A i \in 1 .. k : i # k => Idle(e, s[i], uri, account, person)
  BY <1>1, <1>2, <1>5, IdleOn DEF w
<1>7. ShortCandidate(e, uri, account, person).number = 0
  <2>1. \A i \in 1 .. Len(v) : Of(e, v[i]).account = Of(c, v[i]).account
    BY <1>1, <1>2
  <2>. QED
    BY <1>2, <2>1, ShortAgain DEF v
<1>8. CASE person # None /\ account = None
  <2>1. ~TakesPerson(e, m, uri, account, person) /\ Confirmed(e, m, account, person)
    BY <1>2, <1>8 DEF TakesPerson, Confirmed
  <2>2. \A i \in 1 .. k : i < k => Done(e, s[i], uri, account, person)
    BY <1>5, <1>6 DEF Idle, Unmoved, Done
  <2>. HIDE DEF k
  <2>3. k \in DOMAIN s
    BY <1>5 DEF k
  <2>4. Stops(e, s, k, uri, account, person)
    BY <1>5, <2>1, <2>2, <2>3 DEF Stops, Answered
  <2>5. Stops(e, LongWrapper(e, uri, account), 0, uri, account, person)
    BY <1>8 DEF Stops, LongWrapper
  <2>6. k # 0
    BY <1>5
  <2>7. getNumber(e, uri, ring, account, person)
          = [book |-> Mention(e, LookedUp(uri, account)), number |-> s[k]]
    <3>1. StopAt(e, k, 0, uri, account, person)
      BY <2>4, <2>5, <2>6 DEF StopAt, s
    <3>. QED
      BY <1>3, <1>7, <1>8, <3>1, AgainAlone DEF s
  <2>. QED
    BY <1>5, <2>7 DEF e, m
<1>9. CASE person = None \/ account # None
  <2>1. Idle(e, m, uri, account, person)
    BY <1>2, <1>9 DEF Idle, Unmoved, TakesPerson, TakesAccount, Confirmed
  <2>2. \A i \in DOMAIN s : Idle(e, s[i], uri, account, person)
    BY <1>5, <1>6, <2>1
  <2>3. FirstFitting(e, uri, k, account, person)
    <3>1. Fitting(e, s[k], account, person)
      BY <1>2, <1>5 DEF Fitting
    <3>2. \A i \in DOMAIN s : i < k => ~Fitting(e, s[i], account, person)
      <4>1. \A i \in DOMAIN s : i < k => i # k
        BY <1>5
      <4>. QED
        BY <1>1, <1>2, <1>5, <4>1 DEF Fitting, w
    <3>. QED
      BY <1>5, <3>1, <3>2 DEF FirstFitting, s
  <2>4. getNumber(e, uri, ring, account, person).number = s[k]
    BY <1>3, <1>7, <2>2, <2>3, AgainUnconfirmed DEF Idle, s
  <2>. QED
    BY <1>5, <2>4 DEF e, m
<1>. QED
  BY <1>8, <1>9

\* A lookup that no number confirms, followed by the same lookup.
LEMMA UnconfirmedAgain ==
  ASSUME NEW b, NEW uri \in Uri, NEW ring \in BOOLEAN,
         NEW account \in Accounts \cup {None}, NEW person \in Persons \cup {None},
         NEW f1, f1 = fillDetails(b, b.directory[uri], uri, account, person),
         f1 \in [book : Book, number : Nat], f1.number = 0,
         NEW c, c = f1.book, Sound(c), c.size < MaxNumbers,
         Settled(c, uri, account, person),
         NEW once, once = getNumber(b, uri, ring, account, person)
  PROVE  getNumber(once.book, uri, ring, account, person).number = once.number
<1>. DEFINE f3 == ShortCandidate(c, uri, account, person)
            q == Mention(c, LookedUp(uri, account))
            w == c.directory[uri]
            v == ShortWrapper(c, uri, account)
<1>1. once = IF f3.number # 0
             THEN [book |-> Mention(f3.book, LookedUp(uri, account)), number |-> f3.number]
             ELSE FindOrCreate(Mention(f3.book, LookedUp(uri, account)), uri, ring, account, person)
  BY AnswerUnconfirmed
<1>. HIDE DEF f3
<1>2. CASE f3.number # 0
  <2>0. f3 = ShortCandidate(c, uri, account, person)
    BY DEF f3
  <2>1. getNumber(Mention(f3.book, LookedUp(uri, account)), uri, ring, account, person).number
          = f3.number
    BY <1>2, <2>0, ShortFoundAgain
  <2>. QED
    BY <1>1, <1>2, <2>1
<1>3. CASE f3.number = 0
  <2>1. /\ w \in Seq(Number) /\ v \in Seq(Nat \ {0})
    BY WrapperIsKnown, WrappersAreKnown
  <2>2. f3.book = c
    <3>1. \A i \in DOMAIN v : v[i] # 0
      BY <2>1
    <3>. QED
      BY <1>3, <2>1, <3>1, ShortIs DEF f3
  <2>3. once = FindOrCreate(q, uri, ring, account, person)
    BY <1>1, <1>3, <2>2
  <2>4. /\ Sound(q) /\ q.size = c.size /\ q.directory = c.directory
        /\ \A m : Of(q, m) = Of(c, m)
    BY MentionSame
  <2>. HIDE DEF q
  <2>5. \A i \in DOMAIN w : Idle(q, w[i], uri, account, person)
    BY <2>4, IdleOn DEF w, Settled
  <2>6. ShortCandidate(q, uri, account, person).number = 0
    <3>1. ShortWrapper(q, uri, account) = v
      BY <2>4 DEF ShortWrapper
    <3>2. \A i \in 1 .. Len(v) : Of(q, v[i]).account = Of(c, v[i]).account
      BY <2>4
    <3>. QED
      BY <1>3, <3>1, <3>2, ShortAgain DEF f3
  <2>7. q.directory[uri] = w
    BY <2>4
  <2>. HIDE DEF w
  <2>8. \/ /\ \A i \in DOMAIN w : ~Fitting(q, w[i], account, person)
           /\ once = Create(q, uri, ring, account, person)
        \/ \E n : /\ FirstFitting(q, uri, n, account, person)
                  /\ once = [book |-> IF person = None THEN q ELSE setPerson(q, w[n], person),
                             number |-> w[n]]
    BY <2>1, <2>3, <2>7, FindIs
  <2>9. CASE /\ \A i \in DOMAIN w : ~Fitting(q, w[i], account, person)
             /\ once = Create(q, uri, ring, account, person)
    BY <2>4, <2>5, <2>6, <2>7, <2>9, CreatedAgain
  <2>10. CASE \E n : /\ FirstFitting(q, uri, n, account, person)
                     /\ once = [book |-> IF person = None THEN q ELSE setPerson(q, w[n], person),
                                number |-> w[n]]
    <3>1. PICK n : /\ FirstFitting(q, uri, n, account, person)
                   /\ once = [book |-> IF person = None THEN q ELSE setPerson(q, w[n], person),
                              number |-> w[n]]
      BY <2>10
    <3>2. once.book = IF person = None THEN q ELSE setPerson(q, w[n], person)
      BY <3>1
    <3>3. getNumber(once.book, uri, ring, account, person).number = w[n]
      BY <2>4, <2>5, <2>6, <2>7, <3>1, <3>2, FoundAgain
    <3>. QED
      BY <3>1, <3>3
  <2>. QED
    BY <2>8, <2>9, <2>10
<1>. QED
  BY <1>2, <1>3

\* A loop stops where it stopped, when the numbers up to there have not changed.
LEMMA StopsOn ==
  ASSUME NEW b, NEW c, NEW wrap \in Seq(Number), NEW uri, NEW account, NEW person,
         NEW n, Stops(b, wrap, n, uri, account, person),
         \A i \in DOMAIN wrap : n = 0 \/ i <= n => Of(c, wrap[i]) = Of(b, wrap[i])
  PROVE  Stops(c, wrap, n, uri, account, person)
<1>0. DOMAIN wrap = 1 .. Len(wrap) /\ Len(wrap) \in Nat
  OBVIOUS
<1>1. CASE n = 0
  <2>1. \A i \in DOMAIN wrap : Done(b, wrap[i], uri, account, person)
    BY <1>0, <1>1 DEF Stops
  <2>2. \A i \in DOMAIN wrap : Done(c, wrap[i], uri, account, person)
    BY <1>1, <2>1, TakesOn DEF Done
  <2>. QED
    BY <1>1, <2>2 DEF Stops
<1>2. CASE n # 0
  <2>1. n \in DOMAIN wrap /\ Answered(b, wrap, n, uri, account, person)
    BY <1>2 DEF Stops
  <2>2. Of(c, wrap[n]) = Of(b, wrap[n])
    BY <1>0, <2>1
  <2>3. ~TakesPerson(c, wrap[n], uri, account, person) /\ Confirmed(c, wrap[n], account, person)
    BY <2>1, <2>2, TakesOn DEF Answered
  <2>4. ASSUME NEW i \in 1 .. Len(wrap), i < n
        PROVE  Done(c, wrap[i], uri, account, person)
    <3>1. Of(c, wrap[i]) = Of(b, wrap[i])
      BY <1>0, <2>1, <2>4
    <3>2. Done(b, wrap[i], uri, account, person)
      BY <2>1, <2>4 DEF Answered
    <3>. QED
      BY <3>1, <3>2, TakesOn DEF Done
  <2>. QED
    BY <2>1, <2>3, <2>4 DEF Stops, Answered
<1>. QED
  BY <1>1, <1>2

\* A lookup that a number confirms, followed by the same lookup: the numbers of the
\* extended URI may have taken the Person.
PaintedTo(c, e, n1, n2, uri, account, person) ==
  /\ n1 # 0 /\ Stops(c, c.directory[uri], n1, uri, account, person)
  /\ Painted(c, e, LongWrapper(c, uri, account), uri, account, person)
  /\ Stops(e, LongWrapper(c, uri, account), n2, uri, account, person)

LEMMA ConfirmedAgain ==
  ASSUME NEW c, Sound(c), NEW uri \in Uri, NEW ring,
         NEW account \in Accounts \cup {None}, NEW person \in Persons \cup {None}, person # None,
         NEW n1, NEW n2, NEW e, PaintedTo(c, e, n1, n2, uri, account, person),
         ShortCandidate(e, uri, account, person).number = 0
  PROVE  getNumber(Mention(e, LookedUp(uri, account)), uri, ring, account, person).number
           = IF n2 = 0 THEN c.directory[uri][n1] ELSE LongWrapper(c, uri, account)[n2]
<1>. DEFINE w == c.directory[uri]
            l == LongWrapper(c, uri, account)
            v == ShortWrapper(e, uri, account)
            q == Mention(e, LookedUp(uri, account))
<1>1. /\ w \in Seq(Number) /\ \A i \in DOMAIN w : w[i] \in Known(c)
      /\ l \in Seq(Number)
  BY WrapperIsKnown, WrappersAreKnown
<1>2. Sound(e) /\ e.directory = c.directory
  BY DEF PaintedTo, Painted, SameBut
<1>3. /\ Sound(q) /\ q.directory = c.directory /\ \A m : Of(q, m) = Of(e, m)
  BY <1>2, MentionSame
<1>4. /\ LongWrapper(q, uri, account) = l /\ q.directory[uri] = w
      /\ ShortWrapper(q, uri, account) = v
  BY <1>2, <1>3 DEF LongWrapper, ShortWrapper
<1>5. n1 # 0 /\ n1 \in DOMAIN w /\ Answered(c, w, n1, uri, account, person)
  BY DEF PaintedTo, Stops
<1>6. Painted(c, e, l, uri, account, person) /\ Stops(c, w, n1, uri, account, person)
      /\ Stops(e, l, n2, uri, account, person)
  BY DEF PaintedTo
<1>7. ShortCandidate(q, uri, account, person).number = 0
  <2>1. \A i \in 1 .. Len(v) : Of(q, v[i]).account = Of(e, v[i]).account
    BY <1>3
  <2>. QED
    BY <1>4, <2>1, ShortAgain
<1>. HIDE DEF q, w, l, v
<1>8. ASSUME NEW i \in DOMAIN w, i <= n1
      PROVE  Of(q, w[i]) = Of(c, w[i])
  <2>1. DOMAIN w = 1 .. Len(w) /\ (i < n1 \/ i = n1)
    BY <1>1, <1>5, <1>8
  <2>2. ~TakesPerson(c, w[i], uri, account, person)
    BY <1>5, <1>8, <2>1 DEF Answered, Done
  <2>. QED
    BY <1>1, <1>3, <1>6, <2>2 DEF Painted
<1>9. Stops(q, w, n1, uri, account, person)
  BY <1>1, <1>5, <1>6, <1>8, StopsOn
<1>10. Stops(q, l, n2, uri, account, person)
  BY <1>1, <1>3, <1>6, StopsOn
<1>11. getNumber(q, uri, ring, account, person).number = IF n2 = 0 THEN w[n1] ELSE l[n2]
  <2>1. getNumber(q, uri, ring, account, person)
          = [book |-> Mention(q, LookedUp(uri, account)),
             number |-> IF n2 = 0 THEN q.directory[uri][n1] ELSE LongWrapper(q, uri, account)[n2]]
    <3>1. StopAt(q, n1, n2, uri, account, person)
      BY <1>4, <1>5, <1>9, <1>10 DEF StopAt
    <3>. QED
      BY <1>3, <1>7, <3>1, AgainLong
  <2>. QED
    BY <1>4, <2>1
<1>. QED
  BY <1>11 DEF q, w, l

\* A merge moves one number, and leaves the account and the Person of the other.
LEMMA MergeIs ==
  ASSUME NEW c, Sound(c), NEW m \in Known(c), NEW o \in Known(c), Of(c, o).person # None,
         NEW k, k = merge(c, m, o)
  PROVE  /\ Sound(k) /\ k.size = c.size /\ k.directory = c.directory
         /\ Of(k, o).person = Of(c, o).person /\ Of(k, o).account = Of(c, o).account
         /\ \A x \in Known(c) : k.d[x] # k.d[o] => Of(k, x) = Of(c, x)
         /\ \A x \in Known(c) : x # m => k.d[x] = c.d[x]
<1>1. Sound(k) /\ k.size = c.size /\ k.directory = c.directory
  BY MergeFollows
<1>2. CASE ~MayMerge(c, m, o)
  <2>1. k = c
    BY <1>2 DEF merge
  <2>. QED
    BY <2>1
<1>3. CASE MayMerge(c, m, o)
  <2>. DEFINE y == c.d[o]
              mine == Of(c, m)
              other == Of(c, o)
  <2>1. k.d = [c.d EXCEPT ![m] = y] /\ k.details = [c.details EXCEPT ![y] = MergedDetails(mine, other)]
    BY <1>3, MergeParts
  <2>2. /\ c \in Book /\ c.d \in [Number -> Number] /\ c.details \in [Number -> Details]
        /\ m \in Number /\ o \in Number /\ y \in Number /\ mine \in Details /\ other \in Details
        /\ \A x \in Known(c) : x \in Number /\ c.d[x] \in Number
    BY BookParts, KnownIsNumber DEF Sound
  <2>3. \A x \in Number : k.d[x] = IF x = m THEN y ELSE c.d[x]
    BY <2>1, <2>2
  <2>4. \A e \in Number : k.details[e] = IF e = y THEN MergedDetails(mine, other) ELSE c.details[e]
    BY <2>1, <2>2
  <2>5. k.d[o] = y
    BY <2>2, <2>3
  <2>6. MergedDetails(mine, other).account = other.account
    BY <2>2, MergedDetailsType
  <2>7. MergedDetails(mine, other).person = other.person
    BY <2>2 DEF MergedDetails, Details
  <2>. HIDE DEF y, mine, other
  <2>8. Of(k, o) = MergedDetails(mine, other)
    BY <2>2, <2>4, <2>5 DEF Of
  <2>9. ASSUME NEW x \in Known(c), k.d[x] # k.d[o]
        PROVE  Of(k, x) = Of(c, x)
    BY <2>2, <2>3, <2>4, <2>5, <2>9 DEF Of
  <2>. QED
    BY <1>1, <2>2, <2>3, <2>6, <2>7, <2>8, <2>9 DEF other
<1>. QED
  BY <1>2, <1>3

\* The first of the numbers with the details of the one that is confirmed.
FirstSharing(k, w, n, j) ==
  /\ j \in DOMAIN w /\ j <= n /\ k.d[w[j]] = k.d[w[n]]
  /\ \A i \in DOMAIN w : i < j => k.d[w[i]] # k.d[w[n]]

\* There is one.
LEMMA SharingStarts ==
  ASSUME NEW k, NEW w \in Seq(Number), NEW n \in DOMAIN w
  PROVE  \E j : FirstSharing(k, w, n, j)
<1>. DEFINE I == {i \in DOMAIN w : k.d[w[i]] = k.d[w[n]]}
<1>1. I \in SUBSET Nat /\ n \in I /\ \A i \in DOMAIN w : i \in Nat
  OBVIOUS
<1>2. \A i \in I : i \in DOMAIN w /\ k.d[w[i]] = k.d[w[n]]
  OBVIOUS
<1>3. \A i \in DOMAIN w : k.d[w[i]] = k.d[w[n]] => i \in I
  OBVIOUS
<1>. HIDE DEF I
<1>. DEFINE j == Min(I)
<1>4. j \in I /\ \A i \in I : j <= i
  BY <1>1, MinIsLeast
<1>. HIDE DEF j
<1>5. j \in Nat
  BY <1>1, <1>4
<1>6. \A i \in DOMAIN w : i < j => i \notin I
  BY <1>1, <1>4, <1>5
<1>. QED
  BY <1>1, <1>2, <1>3, <1>4, <1>6 DEF FirstSharing

\* The number of the short URI has been merged with the one that was confirmed:
\* whichever of the two answers now, they have the same details.
StopsAlike(k, w, n, uri, account, person) ==
  \E j \in DOMAIN w :
    j # 0 /\ Stops(k, w, j, uri, account, person) /\ k.d[w[j]] = k.d[w[n]]

LEMMA MergedStops ==
  ASSUME NEW c, Sound(c), NEW uri \in Uri,
         NEW account \in Accounts \cup {None}, NEW person \in Persons \cup {None},
         person # None, account # None,
         NEW n, n # 0, Stops(c, c.directory[uri], n, uri, account, person),
         NEW m \in Known(c), Of(c, m).account = account,
         NEW g \in {c, setPerson(c, m, person)},
         NEW k, k = merge(g, m, c.directory[uri][n])
  PROVE  /\ Sound(k) /\ k.directory = c.directory
         /\ Of(k, c.directory[uri][n]).account # account
         /\ StopsAlike(k, c.directory[uri], n, uri, account, person)
<1>. DEFINE w == c.directory[uri]
            o == w[n]
<1>1. w \in Seq(Number) /\ \A i \in DOMAIN w : w[i] \in Known(c)
  BY WrapperIsKnown
<1>2. n \in DOMAIN w /\ Answered(c, w, n, uri, account, person)
  BY DEF Stops
<1>3. DOMAIN w = 1 .. Len(w) /\ Len(w) \in Nat
  BY <1>1
<1>. HIDE DEF w
<1>4. o \in Known(c)
  BY <1>1, <1>2
<1>. HIDE DEF o
<1>5. Of(c, o).account # account /\ Of(c, o).person = person
  BY <1>2 DEF Answered, Confirmed, o
<1>6. c.d[o] # c.d[m]
  BY <1>5 DEF Of
<1>7. /\ Sound(g) /\ SameBut(c, g) /\ Of(g, o) = Of(c, o)
      /\ \A x \in Known(c) : Done(c, x, uri, account, person) => Done(g, x, uri, account, person)
  <2>1. CASE g = c
    BY <2>1 DEF SameBut
  <2>2. CASE g = setPerson(c, m, person)
    <3>1. Sound(g) /\ SameBut(c, g)
      BY <2>2, SetPersonFollows
    <3>2. Of(g, o) = Of(c, o)
      BY <1>4, <1>6, <2>2, GivenPerson
    <3>3. ASSUME NEW x \in Known(c), Done(c, x, uri, account, person)
          PROVE  Done(g, x, uri, account, person)
      <4>1. Idle(c, x, uri, account, person)
        BY <3>3 DEF Done, Idle, Unmoved, TakesAccount
      <4>2. Idle(g, x, uri, account, person)
        BY <2>2, <4>1, GivenStaysIdle
      <4>. QED
        BY <4>2 DEF Done, Idle, Unmoved
    <3>. QED
      BY <3>1, <3>2, <3>3
  <2>. QED
    BY <2>1, <2>2
<1>8. Known(g) = Known(c) /\ g.directory = c.directory
  BY <1>7 DEF SameBut, Known
<1>9. k = merge(g, m, o)
  BY DEF o, w
<1>10. /\ Sound(k) /\ k.directory = c.directory
       /\ Of(k, o).person = person /\ Of(k, o).account = Of(c, o).account
       /\ \A x \in Known(c) : k.d[x] # k.d[o] => Of(k, x) = Of(g, x)
  BY <1>4, <1>5, <1>7, <1>8, <1>9, MergeIs
<1>11. PICK j : FirstSharing(k, w, n, j)
  BY <1>1, <1>2, SharingStarts
<1>12. /\ j \in DOMAIN w /\ j <= n /\ k.d[w[j]] = k.d[o]
       /\ \A i \in DOMAIN w : i < j => k.d[w[i]] # k.d[o]
  BY <1>11 DEF o, FirstSharing
<1>13. Of(k, w[j]).person = person /\ Of(k, w[j]).account # account
  BY <1>5, <1>10, <1>12 DEF Of
<1>14. ~TakesPerson(k, w[j], uri, account, person) /\ Confirmed(k, w[j], account, person)
  BY <1>13 DEF TakesPerson, Confirmed
<1>15. ASSUME NEW i \in 1 .. Len(w), i < j
       PROVE  Done(k, w[i], uri, account, person)
  <2>1. i < n /\ w[i] \in Known(c) /\ k.d[w[i]] # k.d[o]
    BY <1>1, <1>2, <1>3, <1>12, <1>15
  <2>2. Done(c, w[i], uri, account, person)
    BY <1>2, <2>1 DEF Answered
  <2>3. Done(g, w[i], uri, account, person) /\ Of(k, w[i]) = Of(g, w[i])
    BY <1>7, <1>10, <2>1, <2>2
  <2>. QED
    BY <2>3, TakesOn DEF Done
<1>16. Stops(k, w, j, uri, account, person) /\ j # 0
  BY <1>3, <1>12, <1>14, <1>15 DEF Stops, Answered
<1>17. StopsAlike(k, w, n, uri, account, person)
  BY <1>12, <1>16 DEF StopsAlike, o
<1>. QED
  BY <1>5, <1>10, <1>17 DEF w, o

MergedTo(c, h, n, uri, account, person) ==
  LET f3 == ShortCandidate(c, uri, account, person)
  IN /\ n # 0 /\ Stops(c, c.directory[uri], n, uri, account, person) /\ f3.number # 0
     /\ h = Mention(merge(f3.book, f3.number, c.directory[uri][n]), LookedUp(uri, account))

\* The same lookup after that merge: the number of the short URI that it finds now is
\* another one, and merging it moves neither of the two.
LEMMA MergedAgain ==
  ASSUME NEW c, Sound(c), NEW uri \in Uri, NEW ring,
         NEW account \in Accounts \cup {None}, NEW person \in Persons \cup {None}, person # None,
         NEW n, NEW h, MergedTo(c, h, n, uri, account, person),
         NEW again, again = getNumber(h, uri, ring, account, person)
  PROVE  again.book.d[again.number] = again.book.d[c.directory[uri][n]]
<1>. DEFINE w == c.directory[uri]
            f3 == ShortCandidate(c, uri, account, person)
            v == ShortWrapper(c, uri, account)
            g == f3.book
            m == f3.number
            k == merge(g, m, w[n])
            s == ShortCandidate(h, uri, account, person)
<1>1. /\ n # 0 /\ Stops(c, w, n, uri, account, person) /\ f3.number # 0
       /\ f3 = ShortCandidate(c, uri, account, person)
       /\ h = Mention(merge(f3.book, f3.number, c.directory[uri][n]), LookedUp(uri, account))
  BY DEF MergedTo
<1>. HIDE DEF f3
<1>2. /\ w \in Seq(Number) /\ \A i \in DOMAIN w : w[i] \in Known(c)
      /\ v \in Seq(Nat \ {0}) /\ \A i \in DOMAIN v : v[i] \in Known(c)
  BY WrapperIsKnown, WrappersAreKnown
<1>3. PICK i \in DOMAIN v :
        /\ Of(c, v[i]).account = account
        /\ f3 = [book |-> IF person # None /\ Of(c, v[i]).person \in {None, person}
                          THEN setPerson(c, v[i], person) ELSE c,
                 number |-> v[i]]
  BY <1>2, <1>1, ShortIs
<1>4. /\ m \in Known(c) /\ Of(c, m).account = account
      /\ g \in {c, setPerson(c, m, person)}
  BY <1>2, <1>3
<1>5. account # None /\ hasHostname(uri)
  BY <1>3 DEF ShortWrapper
<1>. HIDE DEF g, m
<1>6. k = merge(g, m, c.directory[uri][n])
  OBVIOUS
<1>7. h = Mention(k, LookedUp(uri, account))
  BY <1>1 DEF g, m
<1>. HIDE DEF k
<1>8. /\ Sound(k) /\ k.directory = c.directory
      /\ Of(k, w[n]).account # account
      /\ StopsAlike(k, w, n, uri, account, person)
  BY <1>6, <1>1, <1>4, <1>5, MergedStops
<1>9. /\ Sound(h) /\ h.size = k.size /\ h.d = k.d /\ h.directory = c.directory
      /\ \A x : Of(h, x) = Of(k, x)
  BY <1>8, <1>7, MentionSame
<1>10. PICK j : /\ j # 0 /\ Stops(k, w, j, uri, account, person) /\ j \in DOMAIN w
               /\ k.d[w[j]] = k.d[w[n]]
  BY <1>8 DEF StopsAlike
<1>11. Stops(h, w, j, uri, account, person)
  BY <1>2, <1>9, <1>10, StopsOn
<1>12. Stops(h, LongWrapper(h, uri, account), 0, uri, account, person)
  BY <1>5 DEF Stops, LongWrapper
<1>13. StopAt(h, j, 0, uri, account, person) /\ h.directory[uri] = w
  BY <1>9, <1>10, <1>11, <1>12 DEF StopAt
<1>14. h.d[w[j]] = h.d[w[n]]
  BY <1>9, <1>10
<1>. HIDE DEF w, s
<1>15. CASE s.number = 0
  <2>1. again = [book |-> Mention(h, LookedUp(uri, account)), number |-> w[j]]
    BY <1>9, <1>13, <1>15, AgainAlone DEF s
  <2>2. Mention(h, LookedUp(uri, account)).d = h.d
    BY <1>9, MentionSame
  <2>. QED
    BY <1>14, <2>1, <2>2 DEF w
<1>16. CASE s.number # 0
  <2>. DEFINE x == s.number
              l == merge(s.book, x, w[j])
  <2>1. s = ShortCandidate(h, uri, account, person)
    BY DEF s
  <2>2. again = [book |-> Mention(l, LookedUp(uri, account)), number |-> w[j]]
    BY <1>9, <1>13, <1>16, <2>1, AgainMerged
  <2>3. /\ x \in Known(h) /\ Of(h, x).account = account
        /\ s.book = h \/ s.book = setPerson(h, x, person)
    <3>. DEFINE z == ShortWrapper(h, uri, account)
    <3>1. z \in Seq(Nat \ {0}) /\ \A i1 \in DOMAIN z : z[i1] \in Known(h)
      BY <1>9, WrappersAreKnown
    <3>2. PICK i1 \in DOMAIN z :
            /\ Of(h, z[i1]).account = account
            /\ s = [book |-> IF person # None /\ Of(h, z[i1]).person \in {None, person}
                             THEN setPerson(h, z[i1], person) ELSE h,
                    number |-> z[i1]]
      BY <1>16, <2>1, <3>1, ShortIs
    <3>. QED
      BY <3>1, <3>2
  <2>. HIDE DEF x
  <2>4. w[j] \in Known(h) /\ w[n] \in Known(h)
    <3>1. n \in DOMAIN w
      BY <1>1 DEF Stops
    <3>. QED
      BY <1>9, <1>10, <1>13, <3>1, WrapperIsKnown
  <2>5. /\ Of(h, w[j]).account # account /\ Of(h, w[n]).account # account
        /\ Of(h, w[j]).person = person
    BY <1>8, <1>9, <1>10, <1>11, <1>14 DEF Of, Stops, Answered, Confirmed
  <2>6. x # w[j] /\ x # w[n] /\ h.d[x] # h.d[w[j]]
    BY <2>3, <2>5 DEF Of
  <2>7. /\ Sound(s.book) /\ SameBut(h, s.book) /\ Of(s.book, w[j]).person = person
    <3>1. CASE s.book = h
      BY <1>9, <2>5, <3>1 DEF SameBut
    <3>2. CASE s.book = setPerson(h, x, person)
      BY <1>9, <2>3, <2>4, <2>5, <2>6, <3>2, SetPersonFollows, GivenPerson
    <3>. QED
      BY <2>3, <3>1, <3>2
  <2>8. Known(s.book) = Known(h) /\ s.book.d = h.d
    BY <2>7 DEF SameBut, Known
  <2>9. Sound(l) /\ \A y \in Known(h) : y # x => l.d[y] = h.d[y]
    BY <2>3, <2>4, <2>7, <2>8, MergeIs
  <2>. HIDE DEF l
  <2>10. l.d[w[j]] = l.d[w[n]]
    BY <1>14, <2>4, <2>6, <2>9
  <2>11. Mention(l, LookedUp(uri, account)).d = l.d
    BY <2>9, MentionSame
  <2>. QED
    BY <2>2, <2>10, <2>11 DEF w
<1>. QED
  BY <1>15, <1>16

\* A lookup with a Person that a number confirms, followed by the same lookup.
LEMMA ConfirmedIsStable ==
  ASSUME NEW b, Sound(b), NEW uri \in Uri, NEW ring,
         NEW account \in Accounts \cup {None}, NEW person \in Persons \cup {None}, person # None,
         NEW f1, f1 = fillDetails(b, b.directory[uri], uri, account, person), f1.number # 0,
         NEW once, once = getNumber(b, uri, ring, account, person)
  PROVE  SameDetails(once, getNumber(once.book, uri, ring, account, person))
<1>. DEFINE w == b.directory[uri]
            c == f1.book
            l == LongWrapper(b, uri, account)
            f2 == fillDetails(c, l, uri, account, person)
            e == f2.book
            f3 == ShortCandidate(e, uri, account, person)
            again == getNumber(once.book, uri, ring, account, person)
<1>1. w \in Seq(Number) /\ \A i \in DOMAIN w : w[i] \in Known(b)
  BY WrapperIsKnown
<1>2. /\ Painted(b, c, w, uri, account, person)
      /\ \E n : /\ Stops(c, w, n, uri, account, person)
                /\ f1.number = IF n = 0 THEN 0 ELSE w[n]
  BY <1>1, PaintsAndStops
<1>3. PICK n1 : /\ Stops(c, w, n1, uri, account, person)
                /\ f1.number = IF n1 = 0 THEN 0 ELSE w[n1]
  BY <1>2
<1>4. n1 # 0 /\ f1.number = w[n1]
  BY <1>3
<1>. HIDE DEF c
<1>5. /\ Sound(c) /\ c.directory = b.directory /\ Known(c) = Known(b)
  BY <1>2 DEF Painted, SameBut, Known
<1>6. l = LongWrapper(c, uri, account) /\ c.directory[uri] = w
  BY <1>5 DEF LongWrapper
<1>7. n1 \in DOMAIN w /\ Confirmed(c, w[n1], account, person)
  BY <1>3, <1>4 DEF Stops, Answered
<1>8. w[n1] \in Known(c) /\ Of(c, w[n1]).person = person
  BY <1>1, <1>5, <1>7 DEF Confirmed
<1>9. l \in Seq(Number) /\ l \in Seq(Nat \ {0}) /\ \A i \in DOMAIN l : l[i] \in Known(c)
  BY <1>5, <1>6, WrappersAreKnown
<1>. HIDE DEF w, l
<1>10. /\ Painted(c, e, l, uri, account, person)
       /\ \E n : /\ Stops(e, l, n, uri, account, person)
                 /\ f2.number = IF n = 0 THEN 0 ELSE l[n]
  BY <1>5, <1>9, PaintsAndStops
<1>11. PICK n2 : /\ Stops(e, l, n2, uri, account, person)
                 /\ f2.number = IF n2 = 0 THEN 0 ELSE l[n2]
  BY <1>10
<1>12. f2 = fillDetails(f1.book, LongWrapper(b, uri, account), uri, account, person)
  BY DEF c, l
<1>13. f3 = ShortCandidate(f2.book, uri, account, person)
  OBVIOUS
<1>. HIDE DEF f2, f3, again
<1>14. Candidates(b, uri, account, person, f1, f2, f3)
  <2>1. Of(f1.book, f1.number).person # None
    BY <1>4, <1>8 DEF c
  <2>. QED
    BY <1>12, <1>13, <2>1 DEF Candidates
<1>15. Sound(e) /\ e.directory = c.directory
  BY <1>10 DEF Painted, SameBut
<1>16. ShortWrapper(e, uri, account) \in Seq(Nat \ {0})
  BY <1>15, WrappersAreKnown
<1>17. n2 # 0 => f2.number # 0 /\ Of(e, f2.number).person = person
  BY <1>9, <1>11 DEF Stops, Answered, Confirmed
<1>18. CASE f3.number = 0
  <2>1. f3.book = e
    <3>1. \A i \in DOMAIN ShortWrapper(e, uri, account) : ShortWrapper(e, uri, account)[i] # 0
      BY <1>16
    <3>. QED
      BY <1>13, <1>16, <1>18, <3>1, ShortIs
  <2>2. Of(e, w[n1]).person = person
    <3>1. Of(c, w[n1]) \in Details
      BY <1>5, <1>8, KnownIsNumber DEF Sound
    <3>. QED
      BY <1>8, <1>10, <3>1 DEF Painted, Details
  <2>3. once = [book |-> Mention(e, LookedUp(uri, account)),
                number |-> IF f2.number # 0 THEN f2.number ELSE f1.number]
    <3>1. Of(f3.book, f1.number).person # None
      BY <1>4, <2>1, <2>2
    <3>2. f2.number # 0 => Of(f3.book, f2.number).person # None
      BY <1>11, <1>17, <2>1
    <3>3. once = [book |-> Mention(f3.book, LookedUp(uri, account)),
                  number |-> IF f2.number # 0 THEN f2.number ELSE f1.number]
      BY <1>14, <1>18, <3>1, <3>2, AnswerOfLong
    <3>. QED
      BY <2>1, <3>3
  <2>4. once.number = IF n2 = 0 THEN w[n1] ELSE l[n2]
    BY <1>4, <1>11, <1>17, <2>3
  <2>5. getNumber(Mention(e, LookedUp(uri, account)), uri, ring, account, person).number
          = IF n2 = 0 THEN c.directory[uri][n1] ELSE LongWrapper(c, uri, account)[n2]
    <3>1. PaintedTo(c, e, n1, n2, uri, account, person)
      BY <1>3, <1>4, <1>6, <1>10, <1>11 DEF PaintedTo
    <3>4. ShortCandidate(e, uri, account, person).number = 0
      BY <1>13, <1>18
    <3>. HIDE DEF e
    <3>. QED
      BY <1>5, <3>1, <3>4, ConfirmedAgain
  <2>6. again.number = once.number
    BY <1>6, <2>3, <2>4, <2>5 DEF again
  <2>. QED
    BY <2>6 DEF SameDetails, again
<1>19. CASE f3.number # 0
  <2>1. hasHostname(uri)
    BY <1>13, <1>16, <1>19, ShortIs DEF ShortWrapper
  <2>2. l = <<>>
    BY <2>1 DEF l, LongWrapper
  <2>3. e = c /\ f2.number = 0
    <3>1. Stops(c, l, 0, uri, account, person)
      BY <2>2 DEF Stops
    <3>2. f2 = fillDetails(c, l, uri, account, person)
      BY DEF f2
    <3>. QED
      BY <1>9, <3>1, <3>2, FillStops
  <2>. DEFINE h == Mention(merge(f3.book, f3.number, w[n1]), LookedUp(uri, account))
  <2>4. once = [book |-> h, number |-> w[n1]]
    <3>1. once = [book |-> Mention(merge(f3.book, f3.number, f1.number), LookedUp(uri, account)),
                  number |-> f1.number]
      BY <1>14, <1>19, <2>3, AnswerOfShort
    <3>. QED
      BY <1>4, <3>1
  <2>5. h = Mention(merge(f3.book, f3.number, c.directory[uri][n1]), LookedUp(uri, account))
    BY <1>6
  <2>. HIDE DEF h, e
  <2>6. again = getNumber(h, uri, ring, account, person)
    BY <2>4 DEF again
  <2>7. f3 = ShortCandidate(c, uri, account, person)
    BY <1>13, <2>3 DEF e
  <2>8. MergedTo(c, h, n1, uri, account, person)
    BY <1>3, <1>4, <1>6, <1>19, <2>5, <2>7 DEF MergedTo
  <2>9. again.book.d[again.number] = again.book.d[c.directory[uri][n1]]
    BY <1>5, <2>6, <2>8, MergedAgain
  <2>10. again.book.d[again.number] = again.book.d[once.number]
    BY <1>6, <2>4, <2>9
  <2>. QED
    BY <2>10 DEF SameDetails, again
<1>. QED
  BY <1>18, <1>19

\* Every lookup, followed by the same lookup.
LEMMA GetNumberIsStable ==
  ASSUME NEW b, Sound(b), b.size < MaxNumbers, NEW uri \in Uri, NEW ring \in BOOLEAN,
         NEW account \in Accounts \cup {None}, NEW person \in Persons \cup {None},
         NEW once, once = getNumber(b, uri, ring, account, person)
  PROVE  SameDetails(once, getNumber(once.book, uri, ring, account, person))
<1>. DEFINE w == b.directory[uri]
            f1 == fillDetails(b, w, uri, account, person)
            c == f1.book
<1>1. w \in Seq(Number) /\ w \in Seq(Nat \ {0}) /\ \A i \in DOMAIN w : w[i] \in Known(b)
  BY WrapperIsKnown, WrappersAreKnown
<1>2. f1 \in [book : Book, number : Nat]
  BY <1>1, FillDetailsFollows
<1>3. f1 = fillDetails(b, b.directory[uri], uri, account, person)
  OBVIOUS
<1>4. ASSUME f1.number = 0, Sound(c), c.size = b.size, Settled(c, uri, account, person)
      PROVE  SameDetails(once, getNumber(once.book, uri, ring, account, person))
  <2>. HIDE DEF f1
  <2>1. getNumber(once.book, uri, ring, account, person).number = once.number
    BY <1>2, <1>3, <1>4, UnconfirmedAgain
  <2>. QED
    BY <2>1 DEF SameDetails
<1>5. CASE person = None
  <2>1. /\ f1.number = 0 /\ Follows(b, c)
        /\ \A i \in DOMAIN c.directory[uri] : Unmoved(c, c.directory[uri][i], uri, account, person)
    BY <1>5, FillNobody
  <2>. HIDE DEF f1
  <2>2. Settled(c, uri, account, person)
    BY <1>5, <2>1 DEF Settled, Idle, Confirmed
  <2>. QED
    BY <1>4, <2>1, <2>2 DEF Follows
<1>6. CASE person # None
  <2>1. /\ Painted(b, c, w, uri, account, person)
        /\ \E n : /\ Stops(c, w, n, uri, account, person)
                  /\ f1.number = IF n = 0 THEN 0 ELSE w[n]
    BY <1>1, <1>6, PaintsAndStops
  <2>2. CASE f1.number # 0
    <3>. HIDE DEF f1
    <3>. QED
      BY <1>3, <1>6, <2>2, ConfirmedIsStable
  <2>3. CASE f1.number = 0
    <3>1. PICK n : /\ Stops(c, w, n, uri, account, person)
                   /\ f1.number = IF n = 0 THEN 0 ELSE w[n]
      BY <2>1
    <3>. HIDE DEF f1, w
    <3>2. n = 0
      BY <1>1, <2>3, <3>1 DEF Stops
    <3>3. Sound(c) /\ c.size = b.size /\ c.directory[uri] = w
      BY <2>1 DEF Painted, SameBut, w
    <3>4. \A i \in DOMAIN w : Done(c, w[i], uri, account, person)
      BY <1>1, <3>1, <3>2 DEF Stops
    <3>5. Settled(c, uri, account, person)
      BY <1>6, <3>3, <3>4 DEF Settled, Idle, Unmoved, Done, TakesAccount
    <3>. QED
      BY <1>4, <2>3, <3>3, <3>5
  <2>. QED
    BY <2>2, <2>3
<1>. QED
  BY <1>5, <1>6

\* Asking again for what was asked finds the same details, whatever was asked and
\* however the book came to be (getNumber, with all it fills in, gives, merges and
\* creates).
THEOREM LookupsAgree == Spec => []LookupIsStable
<1>1. IInv => LookupIsStable
  <2>. SUFFICES ASSUME Sound(book), Room, NEW r \in Requests,
                       NEW a \in Accounts \cup {None}, NEW p \in Persons \cup {None},
                       NEW once, once = getNumber(book, r.uri, r.ring, a, p)
                PROVE  SameDetails(once, getNumber(once.book, r.uri, r.ring, a, p))
    BY DEF IInv, LookupIsStable
  <2>1. r.uri \in Uri /\ r.ring \in BOOLEAN
    BY DirectoryAssumption
  <2>2. book.size < MaxNumbers
    BY BookParts, ContactMethodAssumption DEF Room, Sound
  <2>. QED
    BY <2>1, <2>2, GetNumberIsStable
<1>. QED
  BY <1>1, BookIsSound, PTL

=============================================================================
