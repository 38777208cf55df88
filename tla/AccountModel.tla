---------------------------- MODULE AccountModel ----------------------------
(***************************************************************************)
(* The list of accounts (accountmodel.cpp) against the daemon's: edited    *)
(* locally, saved on request, and reconciled when a queued signal says     *)
(* that something changed.  Rows are a set: their order, the protocol      *)
(* filters and the registration status are left out.                       *)
(***************************************************************************)
EXTENDS Account

CONSTANT
  Objects       \* bound: Account objects in memory at one time

VARIABLES
  account,            \* the Account objects
  m_lAccounts,        \* those in the list
  drafts,             \* unsaved ones the list lost and whose maker keeps the pointer
  m_lDeletedAccounts, \* identifiers removed from the list and not yet applied
  daemon,             \* what getAccountDetails() answers
  signals,            \* queued: "accountsChanged", or the account of a
                      \* registrationStateChanged; one or more copies of each
  takenBack           \* history: the user has performed CANCEL on a REMOVED account
vars == <<account, m_lAccounts, drafts, m_lDeletedAccounts, daemon, signals, takenBack>>

Blank == [id |-> NoId, state |-> "READY", details |-> "none"]
Free == Objects \ (m_lAccounts \cup drafts)

InDaemon == {i \in Ids : daemon[i] \in Details}
Remote(o) == IF isNew(account[o]) THEN "unborn" ELSE daemon[account[o].id]

\* The accounts getById() finds.
Listed == {account[o].id : o \in m_lAccounts} \ {NoId}

Tell(s) == signals' = signals \cup {s}

\* An object for each of the identifiers, from those available.
Builds(available, missing) ==
  {f \in [available -> missing \cup {NoId}] :
     \A i \in missing : \E o \in available :
       f[o] = i /\ \A p \in available \ {o} : f[p] # i}

\* buildExistingAccountFromId(): the blank account is reloaded.
Built(i) == [id |-> i, state |-> "READY", details |-> daemon[i]]

-----------------------------------------------------------------------------
(* Slots.                                                                   *)

\* Fault: accounts are built for all identifiers, known or not.
Everything == InDaemon

\* The identifiers of the daemon for which getById() is null.
Unlisted == InDaemon \ Listed

\* The rows `gone' leave, accounts are built for `missing', and the others
\* become Kept.  The maker of an unsaved account may still hold it.
Relist(gone, missing, Kept(_)) ==
  \E built \in Builds(Free, missing), held \in SUBSET {o \in gone : isNew(account[o])} :
    LET added == {o \in Free : built[o] # NoId} IN
    /\ m_lAccounts' = (m_lAccounts \ gone) \cup added
    /\ drafts' = drafts \cup held
    /\ account' = [o \in Objects |->
         IF o \in added THEN Built(built[o])
         ELSE IF o \in gone \ held THEN Blank
         ELSE IF o \in m_lAccounts \ gone THEN Kept(o)
         ELSE account[o]]

\* Fault: unsaved work is not removed.
VanishedUnmodified ==
  {o \in m_lAccounts : account[o].id \notin InDaemon /\ account[o].state \notin Modified}

\* "Detect removed accounts": new ones have no identifier in the daemon either.
Vanished == {o \in m_lAccounts : account[o].id \notin InDaemon}

\* Fault: the state machine is bypassed.
ReloadedAnyhow(o) == reload(account[o], Remote(o))

Reloaded(o) == performAction(account[o], "RELOAD", Remote(o))

updateAccounts ==
  /\ Relist(Vanished, Unlisted, Reloaded)
  /\ m_lDeletedAccounts' = m_lDeletedAccounts \cup ({account[o].id : o \in Vanished} \ {NoId})

\* Fault: an account marked REMOVED leaves, in the daemon or not.
OrphansOrRemoved ==
  {o \in m_lAccounts : \/ account[o].id \notin InDaemon /\ account[o].state = "READY"
                       \/ account[o].state = "REMOVED"}

\* "remove any accounts that are not found in the daemon"
Orphans ==
  {o \in m_lAccounts : account[o].id \notin InDaemon /\ account[o].state \in {"READY", "REMOVED"}}

Untouched(o) == account[o]

\* Fault: the accounts removed but not applied are built too.
MissingAtAll == Unlisted

Missing == Unlisted \ m_lDeletedAccounts

\* The list changes only if the account is not in it.
slotDaemonAccountChanged(i) ==
  /\ IF i \in Listed THEN UNCHANGED <<account, m_lAccounts, drafts>>
     ELSE Relist(Orphans, Missing, Untouched)
  /\ UNCHANGED m_lDeletedAccounts

\* Other copies of the signal may be queued behind this one.
Deliver(s) ==
  /\ s \in signals
  /\ signals' \in {signals, signals \ {s}}
  /\ UNCHANGED <<daemon, takenBack>>
  /\ IF s = "accountsChanged" THEN updateAccounts ELSE slotDaemonAccountChanged(s)

-----------------------------------------------------------------------------
(* Saving.                                                                  *)

Saves(o) == stateMachineActionsOnState(account[o].state, "SAVE") = "save"

\* The answers of addAccount() to new accounts: fresh identifiers, or an
\* empty one if it fails.
Answers(new) ==
  {f \in [new -> {i \in Ids : daemon[i] = "unborn"} \cup {NoId}] :
     \A o, p \in new : f[o] = f[p] => o = p \/ f[o] = NoId}

\* AccountPrivate::save() for each of `saved'; the daemon is then told to
\* remove `dropped'.  A saved account that was not in the list joins it.
save(saved, dropped) ==
  \E answer \in Answers({o \in saved : isNew(account[o])}) :
    LET Id(o) == IF isNew(account[o]) THEN answer[o] ELSE account[o].id
        accepted == {o \in saved : Id(o) # NoId}
        Writers(i) == {o \in accepted : Id(o) = i /\ daemon[i] # "gone"}
    IN /\ account' = [o \in Objects |->
            IF o \in accepted THEN [account[o] EXCEPT !.id = Id(o), !.state = "READY"]
            ELSE account[o]]
       /\ m_lAccounts' = m_lAccounts \cup accepted
       /\ drafts' = drafts \ accepted
       /\ daemon' = [i \in Ids |->
            IF i \in dropped THEN "gone"
            ELSE IF Writers(i) # {} THEN account[CHOOSE o \in Writers(i) : TRUE].details
            ELSE daemon[i]]
       /\ Tell("accountsChanged")

\* Saves every row, then removes from the daemon what has no row.
saveAll ==
  /\ save({o \in m_lAccounts : Saves(o)}, Unlisted)
  /\ m_lDeletedAccounts' = {}
  /\ UNCHANGED takenBack

-----------------------------------------------------------------------------
(* The user.                                                                *)

Become(o, a) ==
  /\ account' = [account EXCEPT ![o] = a]
  /\ UNCHANGED <<m_lAccounts, drafts, m_lDeletedAccounts, daemon, signals>>

\* buildNewAccountFromAlias() sets the protocol and the alias, so that modify()
\* has run on the template: the NEW state is never entered.
add(o, d) ==
  /\ o \in Free
  /\ m_lAccounts' = m_lAccounts \cup {o}
  /\ account' = [account EXCEPT ![o] = modify([Blank EXCEPT !.details = d])]
  /\ UNCHANGED <<drafts, m_lDeletedAccounts, daemon, signals, takenBack>>

remove(o) ==
  /\ o \in m_lAccounts
  /\ m_lAccounts' = m_lAccounts \ {o}
  /\ m_lDeletedAccounts' = m_lDeletedAccounts \cup ({account[o].id} \ {NoId})
  /\ account' = [account EXCEPT ![o] = Blank]
  /\ UNCHANGED <<drafts, daemon, signals, takenBack>>

Edit(o, act) ==
  /\ takenBack' = (takenBack \/ (act = "CANCEL" /\ account[o].state = "REMOVED"))
  /\ IF act = "SAVE" /\ Saves(o)
       THEN save({o}, {}) /\ UNCHANGED m_lDeletedAccounts
       ELSE Become(o, performAction(account[o], act, Remote(o)))

Change(o, d) == Become(o, setAccountProperty(account[o], d, Remote(o))) /\ UNCHANGED takenBack

\* cancel(): RELOAD does nothing to an OUTDATED account.
Cancelled(o) ==
  LET s == account[o].state
      act == IF s \in Modified THEN "CANCEL" ELSE IF s = "OUTDATED" THEN "RELOAD" ELSE "NOTHING"
  IN performAction(account[o], act, Remote(o))

cancel ==
  LET new == {o \in m_lAccounts : isNew(account[o])} IN
  /\ m_lAccounts' = m_lAccounts \ new
  /\ account' = [o \in Objects |->
       IF o \in new THEN Blank ELSE IF o \in m_lAccounts THEN Cancelled(o) ELSE account[o]]
  /\ m_lDeletedAccounts' = {}
  /\ UNCHANGED <<drafts, daemon, signals, takenBack>>

UserStep ==
  \/ saveAll
  \/ cancel
  \/ \E o \in Objects, d \in Details : add(o, d)
  \/ \E o \in Objects : remove(o)
  \/ \E o \in m_lAccounts \cup drafts, act \in EditAction : Edit(o, act)
  \/ \E o \in m_lAccounts \cup drafts, d \in Details : Change(o, d)

-----------------------------------------------------------------------------
(* The daemon, on its own behalf or another client's.                       *)

DaemonSets(i, d) ==
  /\ daemon' = [daemon EXCEPT ![i] = d]
  /\ Tell("accountsChanged")
  /\ UNCHANGED <<account, m_lAccounts, drafts, m_lDeletedAccounts, takenBack>>

DaemonAdds(i, d) == daemon[i] = "unborn" /\ DaemonSets(i, d)
DaemonChanges(i, d) == daemon[i] \in Details \ {d} /\ DaemonSets(i, d)
DaemonRemoves(i) == daemon[i] \in Details /\ DaemonSets(i, "gone")
RegistrationChanges(i) ==
  /\ daemon[i] # "unborn"
  /\ Tell(i)
  /\ UNCHANGED <<account, m_lAccounts, drafts, m_lDeletedAccounts, daemon, takenBack>>

DaemonStep ==
  \E i \in Ids :
    \/ \E d \in Details : DaemonAdds(i, d)
    \/ \E d \in Details : DaemonChanges(i, d)
    \/ DaemonRemoves(i)
    \/ RegistrationChanges(i)

-----------------------------------------------------------------------------
\* init() has run updateAccounts() on an empty list.
Init ==
  /\ daemon \in [Ids -> Details \cup {"unborn"}]
  /\ \E built \in Builds(Objects, InDaemon) :
       /\ m_lAccounts = {o \in Objects : built[o] # NoId}
       /\ account = [o \in Objects |-> IF built[o] # NoId THEN Built(built[o]) ELSE Blank]
  /\ drafts = {} /\ m_lDeletedAccounts = {} /\ signals = {} /\ takenBack = FALSE

Next == UserStep \/ DaemonStep \/ \E s \in signals : Deliver(s)

Spec == Init /\ [][Next]_vars

-----------------------------------------------------------------------------
(* Properties.                                                              *)

\* The objects in use are accounts with details, the others are blank; what
\* left the list unsaved has no identifier.
ListOK ==
  /\ account \in [Objects -> Accounts \cup {Blank}]
  /\ m_lAccounts \subseteq Objects /\ drafts \subseteq Objects
  /\ \A o \in m_lAccounts \cup drafts : account[o] \in Accounts
  /\ m_lAccounts \cap drafts = {} /\ \A o \in drafts : isNew(account[o])
  /\ m_lDeletedAccounts \subseteq Ids
  /\ daemon \in [Ids -> Details \cup Nothing]
  /\ signals \subseteq Ids \cup {"accountsChanged"}
TypeOK == ListOK /\ takenBack \in BOOLEAN

\* Two rows never stand for one account of the daemon, although updateAccounts(),
\* slotDaemonAccountChanged() and save() all put accounts in the list.
UniqueIds ==
  \A o, p \in m_lAccounts : account[o].id = account[p].id => o = p \/ isNew(account[o])

\* "The account is synchronized" (EditState::READY): once no accountsChanged
\* is queued, a READY account, or one being looked at, has the daemon's details.
\* CANCEL on a REMOVED account is the exception: cancel() sets READY whatever
\* was changed before or after REMOVE, and does not reload.
Synchronised ==
  ~takenBack /\ "accountsChanged" \notin signals =>
    \A o \in m_lAccounts :
      account[o].id \in InDaemon /\ account[o].state \in {"READY", "EDITING"} =>
        account[o].details = daemon[account[o].id]

\* Once no accountsChanged is queued, the daemon knows every row that was saved.
RowsExist == "accountsChanged" \notin signals => Listed \subseteq InDaemon

\* What the daemon still has leaves the list only on the user's request, which
\* m_lDeletedAccounts remembers.
KeptAccountsStay ==
  [][ Listed \cap InDaemon \subseteq Listed' \cup m_lDeletedAccounts' ]_vars

\* registrationStateChanged takes away or overwrites nothing that the user has
\* entered, saved or not; accountsChanged nothing of an account that the daemon
\* has: MODIFIED accounts are left alone, EDITING ones keep their details and
\* may only become OUTDATED.  (updateAccounts() does drop the edited rows of
\* accounts that the daemon does not have, the new ones before all.)
EditsSurvive ==
  [][ \A s \in signals : Deliver(s) =>
        \A o \in m_lAccounts : account[o].id \in InDaemon \/ s # "accountsChanged" =>
          /\ account[o].state \in Modified =>
               o \in m_lAccounts' /\ account'[o] = account[o]
          /\ account[o].state = "EDITING" =>
               /\ o \in m_lAccounts' /\ account'[o].details = account[o].details
               /\ account'[o].state \in {"EDITING", "OUTDATED"} ]_vars

\* "The account may have been deleted by the user, but 'apply' have not been
\* pressed": the row of a removed account comes back by the delivery of
\* accountsChanged and by no other step of the user, the daemon or the queue.
\* (updateAccounts() does not look at m_lDeletedAccounts: it builds the account
\* again if the daemon still has it.)
DeletedStaysOut ==
  [][ \A i \in m_lDeletedAccounts \cap Listed' :
        i \in Listed \/ ("accountsChanged" \in signals /\ Deliver("accountsChanged")) ]_vars
=============================================================================
