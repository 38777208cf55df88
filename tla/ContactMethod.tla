---------------------------- MODULE ContactMethod ----------------------------
(***************************************************************************)
(* The contact methods (contactmethod.cpp).  An object is a proxy: what is  *)
(* known about the number is in its ContactMethodPrivate, which several     *)
(* objects share once they were merged.  The module has no state of its     *)
(* own: a "book" is a record with the objects created so far and one field  *)
(* per attribute, and every operation returns the book it leaves.           *)
(*                                                                          *)
(* An object and the details it was created with have the same number.  A   *)
(* Person stands for every Person object with its uid, placeholders         *)
(* included.                                                                *)
(***************************************************************************)
EXTENDS SequencesExt, Integers

CONSTANTS
  Accounts,
  Persons,
  None,        \* the null Account or Person, the empty registered name
  Users,       \* the user part of a URI: a number, a Ring hash or a name
  Host,        \* Host[a]: the hostname of account a
  UriSize,     \* UriSize[u]: the length of the text of u
  MaxNumbers,  \* bound: the contact methods a behaviour may create
  Width        \* the number of values of the counter of seconds, an unsigned

ASSUME ContactMethodAssumption ==
  /\ Users # {}
  /\ MaxNumbers \in Nat
  /\ Width \in Nat \ {0} /\ Width % 2 = 0

\* A URI without its scheme: <<user>> or <<user, hostname>>.
Uri == {<<u>> : u \in Users} \cup {<<u, Host[a]>> : u \in Users, a \in Accounts}
hasHostname(u) == Len(u) = 2
WithoutHostname(u) == <<u[1]>>
Extended(u, a) == u \o <<Host[a]>>

Number == 1 .. MaxNumbers
Half == Width \div 2

\* A book, as far as contact methods go.  parents[d] = <<>>: d is deleted, or
\* not created yet.  popularity is the code's index plus one.
Details == [account: Accounts \cup {None}, person: Persons \cup {None}, uri: Uri,
            ring: BOOLEAN, name: Users \cup {None}, popularity: Nat,
            seconds: -Half .. Half - 1]

Known(b) == 1 .. b.size
Of(b, m) == b.details[b.d[m]]
isDuplicate(b, m) == Head(b.parents[b.d[m]]) # m

\* The constructor, for a number that goes in the directory.
New(b, uri, ring, account, person) ==
  LET m == b.size + 1
  IN [b EXCEPT !.size = m, !.parents[m] = <<m>>,
        !.details[m] = [account |-> account, person |-> person, uri |-> uri, ring |-> ring,
                        name |-> None, popularity |-> 0, seconds |-> 0]]

setAccount(b, m, account) == [b EXCEPT !.details[b.d[m]].account = account]
setPerson(b, m, person) == [b EXCEPT !.details[b.d[m]].person = person]
setRegisteredName(b, m, name) ==
  [b EXCEPT !.details[b.d[m]].name = IF @ = None THEN name ELSE @]

\* Fault: contact methods of two accounts may be merged.
MayMerge_AnyAccount(b, m, o) == b.d[m] # b.d[o]

\* merge(): m becomes a proxy for the details of o.  Only m moves: the other
\* objects that shared m's details keep them.
MayMerge(b, m, o) ==
  /\ b.d[m] # b.d[o]
  /\ Of(b, m).account = None \/ Of(b, o).account = None \/ Of(b, m).account = Of(b, o).account
MergedDetails(mine, other) ==
  LET longer == IF UriSize[mine.uri] > UriSize[other.uri] THEN mine ELSE other
  IN [other EXCEPT !.person = IF @ = None THEN mine.person ELSE @,
                   !.name = IF @ = None THEN mine.name ELSE @,
                   !.uri = longer.uri, !.ring = longer.ring]
\* Fault: the old details still list the object that left them.
merge_StaysListed(b, m, o) ==
  IF ~MayMerge(b, m, o) THEN b
  ELSE [b EXCEPT !.d[m] = b.d[o],
                 !.parents[b.d[o]] = Append(@, m),
                 !.details[b.d[o]] = MergedDetails(Of(b, m), Of(b, o))]

\* QVector::removeAll()
Without(s, m) == FoldLeft(LAMBDA kept, x : IF x = m THEN kept ELSE Append(kept, x), <<>>, s)

merge(b, m, o) ==
  IF ~MayMerge(b, m, o) THEN b
  ELSE [b EXCEPT !.d[m] = b.d[o],
                 !.parents[b.d[o]] = Append(@, m),
                 !.parents[b.d[m]] = Without(@, m),
                 !.details[b.d[o]] = MergedDetails(Of(b, m), Of(b, o))]

\* Fault: the seconds do not wrap.
addCall_Exact(b, m, seconds) == [b EXCEPT !.details[b.d[m]].seconds = @ + seconds]

\* addCall(): the statistics of a call that lasted (stop minus start) seconds.
\* m_TotalSeconds is unsigned and callCount() returns it as an int.
addCall(b, m, seconds) ==
  [b EXCEPT !.details[b.d[m]].seconds = ((@ + seconds + Half) % Width) - Half]
callCount(b, m) == Of(b, m).seconds
=============================================================================
