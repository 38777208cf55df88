--------------------------- MODULE PhoneDirectory ---------------------------
(***************************************************************************)
(* PhoneDirectoryModel: every contact method of the client, the directory   *)
(* that finds them by URI, the merging of the duplicates it discovers and   *)
(* the list of the most popular ones.                                       *)
(*                                                                          *)
(* directory[u] is the list of the wrapper of u; <<>> is a null wrapper,    *)
(* which m_hDirectory[u] leaves behind (u is then in keys) when the lookup  *)
(* is not followed by a creation.                                           *)
(***************************************************************************)
EXTENDS ContactMethod

CONSTANTS
  Ip2ip,          \* the accounts without a registrar
  HistoryBackend, \* TRUE: a minimal history collection is there
  Names,          \* the users that are names registered with a name server
  MaxFiled,       \* bound: the length a wrapper may reach by name lookups
  Requests,       \* the [uri, ring] pairs callers ask for
  Kinds,          \* the [seconds, failed] of the calls: stop minus start, FAILURE or not
  MaxPopular,     \* the length of the list of popular numbers (10 in the code)
  MaxCalls        \* bound: the calls of a behaviour

ASSUME DirectoryAssumption ==
  /\ Requests \subseteq [uri : Uri, ring : BOOLEAN]
  /\ Kinds \subseteq [seconds : Int, failed : BOOLEAN]
  /\ Names \subseteq Users
  /\ MaxPopular \in Nat \ {0}
  /\ MaxCalls \in Nat

VARIABLES book, calls
vars == <<book, calls>>

Book == [size : 0 .. MaxNumbers, d : [Number -> Number], parents : [Number -> Seq(Number)],
         details : [Number -> Details], directory : [Uri -> Seq(Number)], keys : SUBSET Uri,
         popular : Seq(Number), broken : {"no", "popular", "directory"}]

Empty == [size |-> 0,
          d |-> [m \in Number |-> m],
          parents |-> [m \in Number |-> <<>>],
          details |-> [m \in Number |->
            [account |-> None, person |-> None, uri |-> CHOOSE u \in Uri : TRUE, ring |-> FALSE,
             name |-> None, popularity |-> 0, seconds |-> 0]],
          directory |-> [u \in Uri |-> <<>>],
          keys |-> {},
          popular |-> <<>>,
          broken |-> "no"]

File(b, u, m) ==
  [b EXCEPT !.directory[u] = Append(@, m), !.keys = @ \cup {u}]
Mention(b, us) == [b EXCEPT !.keys = @ \cup us]

\* PhoneDirectoryModelPrivate::setAccount(): a wrapper that did not exist gets
\* the number twice, one that did shows the duplicates to merge with.
MergeWith(m, account, c, n) ==
  IF n # m /\ Of(c, n).account = account THEN merge(c, m, n) ELSE c
MergeDuplicates(b, m, account, wrap) ==
  FoldLeft(LAMBDA c, n : MergeWith(m, account, c, n), b, wrap)
directorySetAccount(b, m, account) ==
  LET set == setAccount(b, m, account)
      extended == Extended(Of(b, m).uri, account)
  IN IF hasHostname(Of(b, m).uri) THEN set
     ELSE IF b.directory[extended] = <<>> THEN File(File(set, extended, m), extended, m)
     ELSE File(MergeDuplicates(set, m, account, b.directory[extended]), extended, m)

-----------------------------------------------------------------------------
(* Looking a number up.  A lookup returns the book and the number found,    *)
(* or 0 for the null pointer.                                               *)

\* What fillDetails() lets a request change in one number of a wrapper.
UriCompatible(b, m, uri, account) ==
  LET mine == Of(b, m)
  IN IF hasHostname(mine.uri) THEN uri = mine.uri \/ account \in Ip2ip
     ELSE mine.account # None /\ Extended(mine.uri, mine.account) = uri
TakesPerson(b, m, uri, account, person) ==
  /\ person # None /\ Of(b, m).person = None
  /\ UriCompatible(b, m, uri, account)
  /\ \/ account = None \/ Of(b, m).account \in {None, account}
     \/ account \in Ip2ip /\ hasHostname(uri)
TakesAccount(b, m, account, person) ==
  account # None /\ person = None /\ Of(b, m).account = None

FillOne(b, m, uri, account, person) ==
  LET withPerson == IF TakesPerson(b, m, uri, account, person) THEN setPerson(b, m, person) ELSE b
      confirmed == /\ account = None \/ account # Of(b, m).account
                   /\ person # None /\ Of(withPerson, m).person = person
  IN [book |-> IF TakesAccount(b, m, account, person) THEN directorySetAccount(b, m, account)
               ELSE withPerson,
      number |-> IF confirmed THEN m ELSE 0]
Visit(uri, account, person, found, m) ==
  IF found.number # 0 THEN found ELSE FillOne(found.book, m, uri, account, person)
fillDetails(b, wrap, uri, account, person) ==
  FoldLeft(LAMBDA found, m : Visit(uri, account, person, found, m),
           [book |-> b, number |-> 0], wrap)

\* The number a short URI has with the account of a long one (wrap3).
ShortCandidate(b, uri, account, person) ==
  LET wrap == IF hasHostname(uri) /\ account # None /\ uri[2] = Host[account]
              THEN b.directory[WithoutHostname(uri)] ELSE <<>>
      i == SelectInSeq(wrap, LAMBDA m : Of(b, m).account = account)
  IN IF i = 0 THEN [book |-> b, number |-> 0]
     ELSE [book |-> IF person # None /\ Of(b, wrap[i]).person \in {None, person}
                    THEN setPerson(b, wrap[i], person) ELSE b,
           number |-> wrap[i]]

MergeCandidates(b, c1, c2, c3) ==
  LET HasPerson(c) == Of(b, c).person # None
  IN CASE c3 # 0 /\ (c1 # 0 \/ c2 # 0) -> merge(b, c3, IF c1 # 0 THEN c1 ELSE c2)
       [] c3 = 0 /\ c1 # 0 /\ c2 # 0 ->
            IF HasPerson(c1) /\ ~HasPerson(c2) THEN merge(b, c2, c1)
            ELSE IF HasPerson(c2) /\ ~HasPerson(c1) THEN merge(b, c1, c2) ELSE b
       [] OTHER -> b

\* Fault: the number is not added to a wrapper that exists.
Create_OnlyNewWrapper(b, uri, ring, account, person) ==
  LET created == New(b, uri, ring, account, person)
  IN [book |-> IF b.directory[uri] = <<>> THEN File(created, uri, b.size + 1) ELSE created,
      number |-> b.size + 1]

\* The new number is also filed under its extended URI, when its own is new.
Create(b, uri, ring, account, person) ==
  LET m == b.size + 1
      created == New(b, uri, ring, account, person)
  IN [book |-> IF b.directory[uri] = <<>> /\ ~hasHostname(uri) /\ account # None
               THEN File(File(created, Extended(uri, account), m), uri, m)
               ELSE File(created, uri, m),
      number |-> m]

\* getNumber() with the account and person, when no candidate was confirmed.
FindOrCreate(b, uri, ring, account, person) ==
  LET Fits(m) == /\ account = None \/ Of(b, m).account = account
                 /\ person = None \/ Of(b, m).person \in {None, person}
      i == SelectInSeq(b.directory[uri], Fits)
  IN IF i = 0 THEN Create(b, uri, ring, account, person)
     ELSE LET m == b.directory[uri][i]
          IN [book |-> IF person = None THEN b ELSE setPerson(b, m, person), number |-> m]

LookedUp(uri, account) ==
  {uri} \cup (IF account = None THEN {}
              ELSE IF ~hasHostname(uri) THEN {Extended(uri, account)}
              ELSE IF uri[2] = Host[account] THEN {WithoutHostname(uri)} ELSE {})

getNumber(b, uri, ring, account, person) ==
  LET wrap2 == IF ~hasHostname(uri) /\ account # None
               THEN b.directory[Extended(uri, account)] ELSE <<>>
      Answer(looked, found) ==
        IF found # 0 THEN [book |-> looked, number |-> found]
        ELSE FindOrCreate(looked, uri, ring, account, person)
      Third(f1, f2, f3) ==
        Answer(Mention(MergeCandidates(f3.book, f1.number, f2.number, f3.number),
                       LookedUp(uri, account)),
               IF f2.number # 0 THEN f2.number ELSE IF f1.number # 0 THEN f1.number ELSE f3.number)
      Second(f1, f2) == Third(f1, f2, ShortCandidate(f2.book, uri, account, person))
      First(f1) ==
        Second(f1, IF f1.number # 0 /\ Of(f1.book, f1.number).person # None
                   THEN fillDetails(f1.book, wrap2, uri, account, person)
                   ELSE [f1 EXCEPT !.number = 0])
  IN First(fillDetails(b, b.directory[uri], uri, account, person))

-----------------------------------------------------------------------------
(* The popular numbers.  Positions count from 1; 0 is "not in the list".    *)

Position(b, n) == Of(b, n).popularity
SetPosition(b, n, i) == [b EXCEPT !.details[b.d[n]].popularity = i]
Passes(b, n, i) == i > 1 /\ callCount(b, b.popular[i - 1]) < callCount(b, n)

\* The do-while loop of slotCallAdded(): n, which should be at i, goes up one
\* place at a time for as long as it passes the number above, and every number
\* it passes goes down one.  Landing is where it stops.  Writing past the end
\* of the list breaks the program.
Landing(b, n, i) == Max({k \in 1 .. i - 1 : ~Passes(b, n, k)})
Passed(b, n, i, d) == {k \in Landing(b, n, i) .. i - 1 : b.d[b.popular[k]] = d}
Rise(b, n, i) ==
  IF i > Len(b.popular) THEN [b EXCEPT !.broken = "popular"]
  ELSE [b EXCEPT
    !.popular = [k \in DOMAIN @ |->
      IF k = Landing(b, n, i) THEN n
      ELSE IF k \in Landing(b, n, i) + 1 .. i THEN @[k - 1] ELSE @[k]],
    !.details = [d \in Number |-> [b.details[d] EXCEPT !.popularity =
      IF d = b.d[n] THEN Landing(b, n, i)
      ELSE b.details[d].popularity + Cardinality(Passed(b, n, i, d))]]]

\* Fault: the number that leaves the full list keeps its index.
TakeLastPlace_KeepsIndex(b, n) == SetPosition([b EXCEPT !.popular[MaxPopular] = n], n, MaxPopular)

\* The list is full, and n has passed its last number.
TakeLastPlace(b, n) ==
  SetPosition([SetPosition(b, b.popular[MaxPopular], 0) EXCEPT !.popular[MaxPopular] = n], n, MaxPopular)

slotCallAdded(b, n) ==
  LET i == Position(b, n)
      last == b.popular[MaxPopular]
      full == Len(b.popular) >= MaxPopular
  IN IF b.broken # "no" THEN b ELSE
     CASE i > Len(b.popular) + 1 -> [b EXCEPT !.broken = "popular"]
       [] i <= Len(b.popular) + 1 /\ Passes(b, n, i) -> Rise(b, n, i)
       [] i = 0 /\ ~full -> SetPosition([b EXCEPT !.popular = Append(@, n)], n, Len(b.popular) + 1)
       [] i = 0 /\ full /\ last # n /\ callCount(b, last) < callCount(b, n) ->
            TakeLastPlace(b, n)
       [] OTHER -> b

\* addCall() tells every object that shares the details; a failed call counts
\* but does not move the number.
TellParents(b, m) == FoldLeft(slotCallAdded, b, b.parents[b.d[m]])
CallAdded(b, m, seconds, failed) ==
  IF failed THEN addCall(b, m, seconds) ELSE TellParents(addCall(b, m, seconds), m)

\* getNumber() without account nor person: the first number of the wrapper.
\* For a new one a history collection is given a fake call of no duration,
\* and building that call looks the URI up before the number is filed: the
\* number created there is put out of the directory.
WithFakeCall(fake, uri) ==
  [CallAdded(fake.book, fake.number, 0, FALSE) EXCEPT !.directory[uri] = <<>>]
getFirstNumber(b, uri, ring) ==
  LET m == b.size + 1
      created == New(b, uri, ring, None, None)
      withHistory == WithFakeCall(getNumber(created, uri, FALSE, None, None), uri)
  IN IF b.directory[uri] # <<>> THEN [book |-> b, number |-> b.directory[uri][1]]
     ELSE [book |-> File(IF HistoryBackend THEN withHistory ELSE created, uri, m), number |-> m]

\* slotRegisteredNameFound(): the numbers of the address get the name, and the
\* numbers already filed under the name are merged into them.
MergeInto(cm, c, n) ==
  IF /\ n # cm
     /\ \/ Of(c, n).account # None /\ Of(c, n).account = Of(c, cm).account
        \/ Of(c, n).account = None /\ Of(c, n).person # None /\ Of(c, n).ring
  THEN merge(c, n, cm) ELSE c
MergeNamed(b, cm, wrap) == FoldLeft(LAMBDA c, n : MergeInto(cm, c, n), b, wrap)
NameOne(b, cm, account, name) ==
  LET named == setRegisteredName(b, cm, name)
      merged == MergeNamed(named, cm, b.directory[<<name>>])
      filed == IF <<name>> \in b.keys THEN merged ELSE File(named, <<name>>, cm)
      first == IF filed.directory[<<name>>] = <<>> THEN 0 ELSE filed.directory[<<name>>][1]
  IN CASE b.broken # "no" \/ Of(b, cm).account # account -> b
       [] b.broken = "no" /\ Of(b, cm).account = account /\ first = 0 ->
            [named EXCEPT !.broken = "directory"]
       [] OTHER -> IF first = cm THEN File(filed, <<name>>, cm) ELSE filed

slotRegisteredNameFound(b, account, address, name) ==
  FoldLeft(LAMBDA c, cm : NameOne(c, cm, account, name),
           b, b.directory[<<address>>])

-----------------------------------------------------------------------------
Init == book = Empty /\ calls = 0

\* Bounds: a lookup is made when there is room for what it may create.
Running == book.broken = "no"
Room == book.size + (IF HistoryBackend THEN 2 ELSE 1) <= MaxNumbers

LookUp ==
  /\ Room
  /\ \E r \in Requests, a \in Accounts \cup {None}, p \in Persons \cup {None} :
       book' = getNumber(book, r.uri, r.ring, a, p).book
  /\ UNCHANGED calls

LookUpFirst ==
  /\ Room
  /\ \E r \in Requests : book' = getFirstNumber(book, r.uri, r.ring).book
  /\ UNCHANGED calls

\* A profile received from a number without a Person makes one.
TakeProfile ==
  /\ \E m \in Known(book), p \in Persons :
       Of(book, m).person = None /\ book' = setPerson(book, m, p)
  /\ UNCHANGED calls

\* PersonModel::removeItemCallback(), for the numbers the Person lists: some of
\* those that have it.
RemovePerson ==
  /\ \E p \in Persons : \E ms \in SUBSET {m \in Known(book) : Of(book, m).person = p} :
       book' = [book EXCEPT !.details = [d \in Number |-> [book.details[d] EXCEPT !.person =
         IF \E m \in ms : book.d[m] = d THEN None ELSE book.details[d].person]]]
  /\ UNCHANGED calls

NameFound ==
  /\ \E a \in Accounts \cup {None}, address \in Users \ Names, name \in Names :
       /\ Len(book.directory[<<name>>]) < MaxFiled
       /\ book' = slotRegisteredNameFound(book, a, address, name)
  /\ UNCHANGED calls

Call ==
  /\ calls < MaxCalls
  /\ \E m \in Known(book), k \in Kinds : book' = CallAdded(book, m, k.seconds, k.failed)
  /\ calls' = calls + 1

Next == Running /\ (LookUp \/ LookUpFirst \/ TakeProfile \/ RemovePerson \/ NameFound \/ Call)
Spec == Init /\ [][Next]_vars

-----------------------------------------------------------------------------
(* Properties.                                                              *)

TypeOK ==
  /\ book \in Book
  /\ calls \in 0 .. MaxCalls

\* The details an object points to list that object once, and nothing else
\* does (ContactMethod::merge): changed() and callAdded() reach every proxy of
\* a number exactly once, and no details are deleted while an object uses them.
SharingAgrees ==
  \A m, d \in Number :
    Cardinality({i \in 1 .. Len(book.parents[d]) : book.parents[d][i] = m})
      = IF m \in Known(book) /\ book.d[m] = d THEN 1 ELSE 0

\* Asking again at once for what was just asked finds the same details
\* (getNumber): whatever the first lookup filled in, merged, filed or created,
\* it has left a book in which the second one ends at the same number, so that
\* nothing is created twice for one question.  (After other lookups the same
\* question may have another answer: a merge can lose the account it was
\* answered by.)
SameDetails(once, again) == again.book.d[again.number] = again.book.d[once.number]
LookupIsStable ==
  Running /\ Room => \A r \in Requests, a \in Accounts \cup {None}, p \in Persons \cup {None} :
    LET FoundAgain(once) ==
          once.book.size + 1 <= MaxNumbers =>
            SameDetails(once, getNumber(once.book, r.uri, r.ring, a, p))
    IN FoundAgain(getNumber(book, r.uri, r.ring, a, p))

\* Details that have an account keep it, so that a step can change the account
\* of an object only by merging it into other details, and then at most lose
\* it, whichever of fillDetails(), getNumber() and slotRegisteredNameFound()
\* merges.  (It can be lost: merge() refuses two different accounts, but not an
\* account and none, and does not pass the account on.  The details the object
\* then shares may be given another account later, so that after several steps
\* the object may be one of an account it was not created for.)
AccountLostByMergeOnly ==
  [][\A m \in Known(book) : Of(book, m).account # None =>
       /\ book'.details[book.d[m]].account = Of(book, m).account
       /\ book'.d[m] # book.d[m] => Of(book', m).account \in {None, Of(book, m).account}]_vars

\* The popularity index of a number is its place in the list, and no number is
\* there twice (slotCallAdded), as long as none was merged: the index is used
\* unchecked to read and write the list.
NobodyMerged == \A m \in Known(book) : book.d[m] = m
PositionIsRight ==
  NobodyMerged => \A m \in Known(book) :
    /\ Position(book, m) = SelectInSeq(book.popular, LAMBDA n : n = m)
    /\ Cardinality({i \in 1 .. Len(book.popular) : book.popular[i] = m}) <= 1

\* A name that is in the directory has a wrapper: the comment of
\* slotRegisteredNameFound() says when "the wrapper can exist already", and the
\* code dereferences it.
NameHasWrapper == book.broken # "directory"
=============================================================================
