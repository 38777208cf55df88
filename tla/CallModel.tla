------------------------------ MODULE CallModel ------------------------------
(***************************************************************************)
(* The tree of calls (callmodel.cpp): standalone calls and conferences on  *)
(* the top level, participants below their conference.  Its calls move     *)
(* with the tables of CallStates; what a call does besides is in Call.     *)
(*                                                                         *)
(* Every slot runs from a queued signal but asks the daemon synchronously  *)
(* for details, participants and call list: it combines an old signal with *)
(* newer answers.                                                          *)
(***************************************************************************)
EXTENDS CallStates, SequencesExt

CONSTANTS
  Calls, Confs,   \* identifiers the daemon gives to calls and to conferences
  None,           \* a null pointer
  AutoAnswer,     \* whether the account answers by itself: subset of BOOLEAN
  CanFail,        \* calls may fail, and stay in the list
  MaxSignals      \* bound: signals in flight

ASSUME ConstantsAssumption ==
  /\ Calls \cap Confs = {} /\ None \notin Calls \cup Confs
  /\ IsFiniteSet(Calls) /\ IsFiniteSet(Confs)
  /\ AutoAnswer \subseteq BOOLEAN /\ CanFail \in BOOLEAN /\ MaxSignals \in Nat

Item == Calls \cup Confs

VARIABLES
  model,    \* CallModelPrivate and the Call objects it tracks
  daemon,   \* its calls, and the participants of its conferences
  signals   \* the queue from the daemon to the client
vars == <<model, daemon, signals>>

Models ==
  [state: [Item -> State \cup {"absent"}],  \* Call::state()
   kids: [Item -> Seq(Calls)],              \* m_lChildren
   parent: [Item -> Confs \cup {None}],     \* m_pParent
   top: Seq(Item),                          \* m_lInternalModel
   ids: SUBSET Item,                        \* m_shDringId
   watched: SUBSET Item,                    \* `changed' is connected
   history: SUBSET Calls]                   \* has a collection

DaemonCall == {"none", "connecting", "ringing", "incoming", "current", "failed", "over"}
Known == {c \in Calls : daemon.call[c] \notin {"none", "over"}}
ConferencesOf(c) == {k \in Confs : Contains(daemon.members[k], c)}

ConferenceSignal == {"conferenceCreated", "conferenceChanged", "conferenceRemoved"}
Message == [about: Item, name: DaemonState \cup {"HUNGUP", "INCOMING", "incomingCall"} \cup ConferenceSignal]
Say(x, name) == <<[about |-> x, name |-> name]>>

-----------------------------------------------------------------------------
(* Rows.                                                                    *)

\* The elements of a list that are in a set.
Only(set, list) == FoldLeft(LAMBDA kept, c : IF c \in set THEN Append(kept, c) ELSE kept, <<>>, list)

Conference(x) == x \in Confs
Finished(m, c) == LifeCycle(m.state[c]) = "FINISHED"

\* What the views see: QModelIndex of x is valid.
Shown(m, x) == \E y \in ToSet(m.top) : x = y \/ (Conference(y) /\ Contains(m.kids[y], x))

removeInternal(m, x) == [m EXCEPT !.top = RemoveFirst(@, x)]

\* Fault: the pointers swapped.
AdoptSwapped(m, c, k) ==
  [removeInternal(m, c) EXCEPT !.parent[k] = c, !.kids[k] = IF Contains(@, c) THEN @ ELSE Append(@, c)]

\* What addConference() and slotChangingConference() do to each participant.
Adopt(m, c, k) ==
  LET old == m.parent[c]
      left == IF old \in {None, k} THEN m ELSE [m EXCEPT !.kids[old] = Only(Calls \ {c}, @)]
  IN [removeInternal(left, c) EXCEPT
        !.parent[c] = k, !.kids[k] = IF Contains(@, c) THEN @ ELSE Append(@, c)]

AdoptAll(m, k, participants) ==
  FoldLeft(LAMBDA n, c : IF c \in n.ids THEN Adopt(n, c, k) ELSE n, m, participants)

\* Fault: the condition inverted.
ReallyOver(m, x) == Only({c \in Calls : m.state[c] \in {"OVER", "ERROR"}}, m.kids[x])

NotReallyOver(m, x) == Only({c \in Calls : m.state[c] \notin {"OVER", "ERROR"}}, m.kids[x])

Empty(m, k) == m.kids[k] = <<>>
Broken(m, k) ==
  /\ m.kids[k] # <<>>
  /\ "ERROR" \in {m.state[Head(m.kids[k])], m.state[Last(m.kids[k])]}

\* changed() is direct: removing a conference changes its state, which removes it
\* once more, and each removal looks for further conferences to remove.  What
\* removes a row is therefore a function, given to all that may need it.

\* Fault: an error leaves the row where it is.
ToldOfTheEnd(remove, m, x) ==
  IF x \in m.watched /\ m.state[x] \in {"ABORTED", "OVER"} THEN remove[m][x] ELSE m

\* The slot of changed().
Told(remove, m, x) ==
  IF x \in m.watched /\ m.state[x] \in {"ERROR", "ABORTED", "OVER"} THEN remove[m][x] ELSE m

ChangedTo(remove, m, x, s) ==
  IF s = m.state[x] THEN m ELSE Told(remove, [m EXCEPT !.state[x] = s], x)

\* "The daemon often fail to emit the right signal, cleanup manually"
CleanOne(remove, alsoBroken, m, x) ==
  IF Conference(x) /\ (Empty(m, x) \/ (alsoBroken /\ Broken(m, x)))
  THEN ChangedTo(remove, remove[m][x], x, "OVER") ELSE m

Cleanup(remove, m, alsoBroken) ==
  FoldLeft(LAMBDA n, x : CleanOne(remove, alsoBroken, n, x), m, m.top)

RowsWithout(m, x) ==
  LET out == removeInternal(m, x)
  IN [out EXCEPT !.top = @ \o NotReallyOver(out, x)]

\* removeCall() as a function, given the one it comes back to.
Reentering(remove) == [m \in Models |-> [x \in Item |-> Cleanup(remove, RowsWithout(m, x), TRUE)]]

\* It may be entered d more times before it returns: a conference that is being
\* removed has no row, so that their number is deep enough.
Depth == Cardinality(Confs)
Removal[d \in 0 .. Depth] ==
  IF d = 0 THEN [m \in Models |-> [x \in Item |-> RowsWithout(m, x)]] ELSE Reentering(Removal[d - 1])

removeCall(m, x) == Removal[Depth][m][x]

changeCurrentState(m, x, s) == ChangedTo(Removal[Depth], m, x, s)

slotCallChanged(m, x) == Told(Removal[Depth], m, x)

removeConference(m, k) == changeCurrentState(removeCall(m, k), k, "OVER")

-----------------------------------------------------------------------------
(* Adding.                                                                  *)

addCall2(m, c, s, registered) ==
  LET live == LifeCycle(s) # "FINISHED"
  IN [m EXCEPT !.state[c] = s,
               !.top = IF live THEN Append(@, c) ELSE @,
               !.watched = IF live THEN @ \cup {c} ELSE @,
               !.ids = IF registered THEN @ \cup {c} ELSE @]

StartState(d) ==
  CASE d \in {"connecting", "ringing"} -> "RINGING"
    [] d = "incoming" -> "INCOMING"
    [] d = "current" -> "CURRENT"
    [] OTHER -> "FAILURE"

\* Of a call the daemon has forgotten nothing can be built.
addExistingCall(m, c) ==
  IF c \in Known THEN addCall2(m, c, StartState(daemon.call[c]), TRUE) ELSE m

addConference(m, k) ==
  LET participants == daemon.members[k]
  IN IF participants = <<>> \/ Head(participants) \notin m.ids THEN m
     ELSE AdoptAll([m EXCEPT !.state[k] = "CONFERENCE", !.top = Append(@, k),
                             !.ids = @ \cup {k}, !.watched = @ \cup {k}],
                   k, participants)

-----------------------------------------------------------------------------
(* The slots: the model after signal s.                                     *)

CallStateChanged(m, c, name) ==
  LET old == m.state[c]
      sig == ToDaemonState(name)
      moved == changeCurrentState(m, c, StateAfterSignal(old, sig))
      told == IF CallbackOfSignal(old, sig) = "error"
              THEN changeCurrentState(moved, c, "ERROR") ELSE slotCallChanged(moved, c)
      removed == IF \/ name = "HUNGUP"
                    \/ told.state[c] = "OVER" /\ (old = "OVER" \/ LifeCycle(old) # "FINISHED")
                 THEN removeCall(told, c) ELSE told
  IN [removed EXCEPT !.history = IF Finished(removed, c) THEN @ \cup {c} ELSE @]

\* Fault: a call that is over hears nothing any more.
slotCallStateChangedUntilOver(m, c, name) ==
  CASE c \in m.ids -> IF Finished(m, c) THEN m ELSE CallStateChanged(m, c, name)
    [] c \notin m.ids /\ name # "CONNECTING" -> addExistingCall(m, c)
    [] OTHER -> m

slotCallStateChanged(m, c, name) ==
  CASE c \in m.ids -> CallStateChanged(m, c, name)
    [] c \notin m.ids /\ name # "CONNECTING" -> addExistingCall(m, c)
    [] OTHER -> m

slotIncomingConference(m, k) == IF k \in m.ids THEN m ELSE addConference(m, k)

\* Fault: a conference with participants is not removed.
slotConferenceRemovedIfEmpty(m, k) ==
  IF k \in m.ids /\ Empty(m, k) THEN removeConference(m, k) ELSE m

slotConferenceRemoved(m, k) == IF k \in m.ids THEN removeConference(m, k) ELSE m

\* The list of calls is compared with the parents and conferences known here.
Reconciled(m, c) ==
  LET actual == ConferencesOf(c)
      known == actual \cap m.ids
  IN CASE c \in m.ids /\ m.parent[c] # None /\ actual = {} -> [m EXCEPT !.parent[c] = None]
       [] c \in m.ids /\ m.parent[c] = None /\ known # {} ->
            LET k == CHOOSE k \in known : TRUE
            IN [removeInternal(m, c) EXCEPT !.kids[k] = IF Contains(@, c) THEN @ ELSE Append(@, c)]
       [] OTHER -> m

slotChangingConference(m, k, callList) ==
  IF k \notin m.ids \/ ~Shown(m, k) THEN m
  ELSE LET participants == daemon.members[k]
           gone == Only({c \in Calls : ~Contains(participants, c) /\ ~Finished(m, c)}, m.kids[k])
           freed == [m EXCEPT !.state[k] = "CONFERENCE", !.top = @ \o gone, !.kids[k] = <<>>,
                       !.parent = [x \in Item |-> IF Contains(gone, x) THEN None ELSE @[x]]]
       IN FoldLeft(Reconciled, Cleanup(Removal[Depth], AdoptAll(freed, k, participants), FALSE), callList)

-----------------------------------------------------------------------------
(* The daemon (external).                                                   *)

\* It changes its calls and conferences, and adds q to what it had to say.
Daemon(calls, members, pending, q) ==
  /\ Len(pending) + Len(q) <= MaxSignals
  /\ daemon' = [daemon EXCEPT !.call = calls, !.members = members,
                  !.used = @ \cup {k \in Confs : members[k] # <<>>}]
  /\ signals' = pending \o q

Become(c, d, pending, q) == Daemon([daemon.call EXCEPT ![c] = d], daemon.members, pending, q)
Silent(pending) == signals' = pending /\ UNCHANGED daemon

\* The two orders in which two changes of one moment may be announced.
EitherOrder(p, q) == {p \o q, q \o p}

\* A participant leaves: the last one leaves with it, and the conference ends.
\* "The daemon often fail to emit the right signal".
Without(c) ==
  [k \in Confs |-> LET rest == Only(Calls \ {c}, daemon.members[k])
                   IN IF Contains(daemon.members[k], c) /\ Len(rest) < 2 THEN <<>> ELSE rest]
EndOfConference(k) ==
  {Say(k, "conferenceRemoved"), Say(k, "conferenceChanged"),
   Say(k, "conferenceChanged") \o Say(k, "conferenceRemoved")}
Leaving(c) ==
  IF ConferencesOf(c) = {} THEN {<<>>}
  ELSE UNION {IF Without(c)[k] = <<>> THEN EndOfConference(k) ELSE {Say(k, "conferenceChanged")} :
                k \in ConferencesOf(c)}

Ends(c, d, name) ==
  \E q \in Leaving(c) : \E r \in EitherOrder(q, Say(c, name)) :
    Daemon([daemon.call EXCEPT ![c] = d], Without(c), signals, r)

\* A peer calls.  "Since november 2015, calls are alowed to be declared with a
\* state change"; another client of the daemon may place a call too.
NewIncomingCall(c) ==
  /\ daemon.call[c] = "none" /\ model.state[c] = "absent"
  /\ \E q \in {<<>>, Say(c, "INCOMING")} : Become(c, "incoming", signals, q \o Say(c, "incomingCall"))
NewForeignCall(c) ==
  /\ daemon.call[c] = "none" /\ model.state[c] = "absent"
  /\ Become(c, "connecting", signals, Say(c, "CONNECTING"))

Progress(c) ==
  \/ daemon.call[c] = "connecting" /\ Become(c, "ringing", signals, Say(c, "RINGING"))
  \/ /\ daemon.call[c] \in {"connecting", "ringing", "incoming"}
     /\ Become(c, "current", signals, Say(c, "CURRENT"))

Closes(c) ==
  \/ c \in Known /\ Ends(c, "over", "HUNGUP")
  \/ CanFail /\ c \in Known /\ daemon.call[c] # "failed" /\ Ends(c, "failed", "FAILURE")

DaemonStep(c) ==
  /\ NewIncomingCall(c) \/ NewForeignCall(c) \/ Progress(c) \/ Closes(c)
  /\ UNCHANGED model

DaemonHangUp(x) ==
  CASE x \in Known -> Ends(x, "over", "HUNGUP")
    [] x \in Confs /\ daemon.members[x] # <<>> ->
         LET all == daemon.members[x]
             said == [i \in 1 .. Len(all) |-> [about |-> all[i], name |-> "HUNGUP"]]
         IN \E i \in 1 .. Len(said) + 1 :
              Daemon([c \in Calls |-> IF Contains(all, c) THEN "over" ELSE daemon.call[c]],
                     [daemon.members EXCEPT ![x] = <<>>],
                     signals, InsertAt(said, i, [about |-> x, name |-> "conferenceRemoved"]))
    [] OTHER -> Silent(signals)

DaemonAnswer(c, pending) ==
  IF daemon.call[c] = "incoming" THEN Become(c, "current", pending, Say(c, "CURRENT"))
  ELSE Silent(pending)

-----------------------------------------------------------------------------
(* The event loop delivers the next signal.                                 *)

\* An automatic answer acts on the call whatever state it is in by now.
slotIncomingCall(m, c, pending) ==
  LET added == IF c \in m.ids \/ c \notin Known THEN m ELSE addCall2(m, c, "INCOMING", TRUE)
  IN \E auto \in AutoAnswer :
     IF auto /\ c \in added.ids
     THEN /\ model' = changeCurrentState(added, c, StateAfterAction(added.state[c], "ACCEPT"))
          /\ IF added.state[c] = "INCOMING" THEN DaemonAnswer(c, pending) ELSE Silent(pending)
     ELSE model' = added /\ Silent(pending)

Deliver ==
  /\ signals # <<>>
  /\ LET x == Head(signals).about   name == Head(signals).name
     IN IF name = "incomingCall" THEN slotIncomingCall(model, x, Tail(signals))
        ELSE /\ CASE name = "conferenceCreated" -> model' = slotIncomingConference(model, x)
               [] name = "conferenceChanged" ->
                    \E callList \in SetToSeqs(Known) : model' = slotChangingConference(model, x, callList)
               [] name = "conferenceRemoved" -> model' = slotConferenceRemoved(model, x)
               [] OTHER -> model' = slotCallStateChanged(model, x, name)
             /\ Silent(Tail(signals))

-----------------------------------------------------------------------------
(* What the user does to the rows.                                          *)

Creating(m) == {c \in Calls : Shown(m, c) /\ LifeCycle(m.state[c]) = "CREATION"}

\* dialingCall() gives back the call being dialled, if there is one.
dialingCall(c) ==
  /\ model.state[c] = "absent" /\ daemon.call[c] = "none" /\ Creating(model) = {}
  /\ model' = addCall2(model, c, "NEW", FALSE) /\ Silent(signals)

\* The number is typed and ACCEPT pressed: the call is placed and registered,
\* or there is no account, or the daemon cannot create it.
placeCall(c) ==
  /\ c \in Creating(model)
  /\ LET placed == changeCurrentState(model, c, StateAfterAction("DIALING", "ACCEPT"))
     IN \/ /\ model' = [placed EXCEPT !.ids = @ \cup {c}]
           /\ Become(c, "connecting", signals, <<>>)
        \/ model' = changeCurrentState(placed, c, "ERROR") /\ Silent(signals)
        \/ CanFail /\ model' = changeCurrentState(placed, c, "FAILURE") /\ Silent(signals)

pickUp(c) ==
  /\ Shown(model, c) /\ model.state[c] = "INCOMING"
  /\ UNCHANGED model /\ DaemonAnswer(c, signals)

\* REFUSE on a row, as UserActionModel offers it.
hangUp(x) ==
  /\ Shown(model, x) /\ "REFUSE" \in Offered(model.state[x])
  /\ LET s == model.state[x]
         f == CallbackOfAction(s, "REFUSE")
         m == changeCurrentState(model, x, StateAfterAction(s, "REFUSE"))
         there == x \in Known \/ (x \in Confs /\ daemon.members[x] # <<>>)
     IN IF f = "nothing" THEN model' = m /\ Silent(signals)
        ELSE /\ model' = CASE f = "remove" -> slotCallChanged(m, x)
                           [] f # "remove" /\ there -> m
                           [] OTHER -> changeCurrentState(m, x, IF f = "refuse" THEN "ERROR" ELSE "OVER")
             /\ DaemonHangUp(x)

\* Both calls end in the client at once, and in the daemon when it has done it.
attendedTransfer(c, d) ==
  /\ c # d /\ Shown(model, c) /\ Shown(model, d)
  /\ model' = changeCurrentState(changeCurrentState(model, c, "OVER"), d, "OVER")
  /\ Silent(signals)

\* The same to a number: TRANSFER and ACCEPT, without waiting for the outcome.
transfer(c) ==
  /\ Shown(model, c) /\ "TRANSFER" \in Offered(model.state[c])
  /\ model' = changeCurrentState(changeCurrentState(model, c, "TRANSFERRED"), c, "OVER")
  /\ Silent(signals)

Talks(c) == daemon.call[c] = "current"
Ask(c, members, q) == UNCHANGED model /\ Daemon(daemon.call, members, signals, q)

\* joinParticipant
createJoinOrMergeConferenceFromCall(c, d) ==
  /\ c # d /\ Shown(model, c) /\ Shown(model, d) /\ Talks(c) /\ Talks(d)
  /\ ConferencesOf(c) = {} /\ ConferencesOf(d) = {}
  /\ \E k \in Confs \ daemon.used :
        Ask(c, [daemon.members EXCEPT ![k] = <<c, d>>], Say(k, "conferenceCreated"))

\* A call leaves the conference it was in for another one.
addParticipant(c, k) ==
  /\ Shown(model, c) /\ Shown(model, k) /\ Talks(c) /\ daemon.members[k] # <<>>
  /\ k \notin ConferencesOf(c)
  /\ \E q \in Leaving(c) :
        Ask(c, [Without(c) EXCEPT ![k] = Append(@, c)], q \o Say(k, "conferenceChanged"))

detachParticipant(c) ==
  /\ Shown(model, c) /\ ConferencesOf(c) # {}
  /\ \E q \in Leaving(c) : Ask(c, Without(c), q)

mergeConferences(k, l) ==
  /\ k # l /\ Shown(model, k) /\ Shown(model, l)
  /\ daemon.members[k] # <<>> /\ daemon.members[l] # <<>>
  /\ \E p \in EndOfConference(k) : \E q \in EitherOrder(p, Say(l, "conferenceChanged")) :
        Ask(k, [daemon.members EXCEPT ![k] = <<>>, ![l] = @ \o daemon.members[k]], q)

UserStep ==
  \/ \E c \in Calls : dialingCall(c) \/ placeCall(c) \/ pickUp(c) \/ transfer(c) \/ detachParticipant(c)
  \/ \E x \in Item : hangUp(x)
  \/ \E c, d \in Calls : attendedTransfer(c, d) \/ createJoinOrMergeConferenceFromCall(c, d)
  \/ \E c \in Calls, k \in Confs : addParticipant(c, k)
  \/ \E k, l \in Confs : mergeConferences(k, l)

-----------------------------------------------------------------------------
(* The client starts on a daemon that already has some calls, two or more   *)
(* of them in a conference or not.                                          *)
Blank ==
  [state |-> [x \in Item |-> "absent"], kids |-> [x \in Item |-> <<>>],
   parent |-> [x \in Item |-> None], top |-> <<>>, ids |-> {}, watched |-> {}, history |-> {}]

Init ==
  \E talking \in SUBSET Calls, k \in Confs, together \in BOOLEAN :
    \E there \in SetToSeqs(talking) :
    LET met == together /\ Len(there) > 1
    IN /\ together => met
       /\ daemon = [call |-> [c \in Calls |-> IF c \in talking THEN "current" ELSE "none"],
                    members |-> [l \in Confs |-> IF met /\ l = k THEN there ELSE <<>>],
                    used |-> IF met THEN {k} ELSE {}]
       /\ signals = <<>>
       /\ LET loaded == FoldLeft(addExistingCall, Blank, there)
          IN model = IF met THEN addConference(loaded, k) ELSE loaded

Next == UserStep \/ Deliver \/ \E c \in Calls : DaemonStep(c)

Spec == Init /\ [][Next]_vars

-----------------------------------------------------------------------------
(* Properties.                                                              *)

\* Every field stays in its domain.
TypeOK ==
  /\ model \in Models
  /\ daemon \in [call: [Calls -> DaemonCall], members: [Confs -> Seq(Calls)], used: SUBSET Confs]
  /\ signals \in Seq(Message)

Settled == signals = <<>>
Places(x) == {i \in 1 .. Len(model.top) : model.top[i] = x}

Live(m, c) == m.state[c] # "absent" /\ ~Finished(m, c)

\* The tree shows what is alive: a call that is not over never drops out of it,
\* whatever conference it was in and in which order the daemon's signals came.
\* (With two conferences slotChangingConference() may file an orphan under one
\* that has no row any more.)
LiveAreShown == \A c \in Calls : Live(model, c) => Shown(model, c)

\* Once the client has heard everything, what is over has no row: the ends that
\* the daemon, the user and failed operations bring about take all of them away.
EndedLeave ==
  Settled => \A x \in Item \ Known :
    model.state[x] \in {"OVER", "ERROR", "ABORTED"} => ~Shown(model, x)

\* Once the client has heard everything its conferences are the daemon's, and
\* each participant points back to its conference: parent() and index() agree.
ConferencesAgree ==
  Settled => \A k \in Confs :
    /\ Shown(model, k) <=> daemon.members[k] # <<>>
    /\ Shown(model, k) => /\ ToSet(model.kids[k]) = ToSet(daemon.members[k])
                          /\ \A c \in ToSet(model.kids[k]) : model.parent[c] = k

\* Every call the client knew and the daemon has closed is in the history, and
\* a call in the history never comes back to life.
HistoryAgrees ==
  \A c \in Calls :
    /\ c \in model.history => Finished(model, c)
    /\ Settled /\ model.state[c] # "absent" /\ daemon.call[c] = "over" => c \in model.history

\* The top level has one row per call and conference: rowCount() is "the number
\* of conference and stand alone calls".
ShownOnce == \A x \in Item : Cardinality(Places(x)) <= 1
=============================================================================
