---------------------------- MODULE AccountProofs ----------------------------
(***************************************************************************)
(* What TLAPS proves of AccountModel, for any identifiers, details and     *)
(* number of Account objects.                                              *)
(***************************************************************************)
EXTENDS AccountModel, TLAPS

\* The daemon has given every identifier the list holds.
RowsBorn == \A o \in m_lAccounts : isNew(account[o]) \/ daemon[account[o].id] # "unborn"

\* The strengthening: a fresh identifier is of no row, so that save() keeps
\* the rows distinct.
Rows == ListOK /\ UniqueIds /\ RowsBorn

-----------------------------------------------------------------------------
(* One account.                                                             *)

LEMMA ReloadType ==
  ASSUME NEW a \in Accounts, NEW remote
  PROVE  reload(a, remote) \in Accounts /\ reload(a, remote).id = a.id
BY DEF reload, changeState, isNew, Accounts, EditState

LEMMA ModifyType ==
  ASSUME NEW a \in Accounts
  PROVE  modify(a) \in Accounts /\ modify(a).id = a.id /\ modify(a).state \in Modified
BY DEF modify, changeState, Accounts, EditState, Modified

LEMMA TargetType ==
  /\ DOMAIN Target = {"edit", "outdate", "remove", "cancel"}
  /\ \A h \in DOMAIN Target : Target[h] \in EditState
  /\ Target["edit"] = "EDITING" /\ Target["outdate"] = "OUTDATED"
  /\ Target["remove"] = "REMOVED" /\ Target["cancel"] = "READY"
BY DEF Target, EditState

LEMMA ActionType ==
  ASSUME NEW a \in Accounts, NEW act \in EditAction, NEW remote
  PROVE  performAction(a, act, remote) \in Accounts /\ performAction(a, act, remote).id = a.id
<1>1. \A s \in EditState : changeState(a, s) \in Accounts /\ changeState(a, s).id = a.id
  BY DEF changeState, Accounts
<1>2. modify(reload(a, remote)) \in Accounts /\ modify(reload(a, remote)).id = a.id
  BY ReloadType, ModifyType
<1> DEFINE handler == stateMachineActionsOnState(a.state, act)
<1> HIDE DEF handler
<1> QED
  BY <1>1, <1>2, ReloadType, ModifyType, TargetType DEF performAction, handler

LEMMA SetType ==
  ASSUME NEW a \in Accounts, NEW d \in Details, NEW remote
  PROVE  /\ setAccountProperty(a, d, remote) \in Accounts
         /\ setAccountProperty(a, d, remote).id = a.id
<1>1. [a EXCEPT !.details = d] \in Accounts /\ [a EXCEPT !.details = d].id = a.id
  BY DEF Accounts
<1> QED BY <1>1, ActionType DEF setAccountProperty, EditAction

\* What an account that the daemon knows can be once it is READY or EDITING:
\* unchanged but for the lock, or reloaded.
LEMMA ActionSynchronises ==
  ASSUME NEW a \in Accounts, NEW act \in EditAction, NEW remote \in Details, ~isNew(a),
         a.state # "REMOVED" \/ act # "CANCEL",
         performAction(a, act, remote).state \in {"READY", "EDITING"}
  PROVE  \/ performAction(a, act, remote).details = remote
         \/ /\ a.state \in {"READY", "EDITING"}
            /\ performAction(a, act, remote).details = a.details
<1> DEFINE handler == stateMachineActionsOnState(a.state, act)
           b == performAction(a, act, remote)
<1>1. CASE handler = "reload"
  BY <1>1, TargetType DEF performAction, reload, changeState, Accounts
<1>2. CASE handler \in {"modify", "reloadMod"}
  <2>1. b = modify(a) \/ b = modify(reload(a, remote))
    BY <1>2, TargetType DEF performAction
  <2>2. b.state \in Modified
    BY <2>1, ReloadType, ModifyType
  <2> QED BY <2>2 DEF Modified
<1>3. CASE handler \in DOMAIN Target
  <2>1. b = changeState(a, Target[handler])
    BY <1>3 DEF performAction
  <2>2. b.state = Target[handler] /\ b.details = a.details
    BY <2>1 DEF changeState, Accounts
  <2>3. handler \in {"edit", "cancel"}
    BY <1>3, <2>2, TargetType
  <2>4. a.state \in {"READY", "EDITING"}
    BY <2>3 DEF stateMachineActionsOnState, Modified
  <2> QED BY <2>2, <2>4
<1>4. CASE handler \notin {"reload", "modify", "reloadMod"} \cup DOMAIN Target
  BY <1>4 DEF performAction
<1> QED BY <1>1, <1>2, <1>3, <1>4
-----------------------------------------------------------------------------
(* The rows.                                                                *)

Added(built) == {o \in Free : built[o] # NoId}

\* What Relist does, Kept(o) being kept[o].
Relisted(gone, missing, built, held, kept) ==
  /\ gone \subseteq m_lAccounts /\ missing \subseteq InDaemon \ Listed
  /\ built \in Builds(Free, missing)
  /\ held \subseteq {o \in gone : isNew(account[o])}
  /\ \A o \in m_lAccounts \ gone : kept[o] \in Accounts /\ kept[o].id = account[o].id
  /\ m_lAccounts' = (m_lAccounts \ gone) \cup Added(built)
  /\ drafts' = drafts \cup held
  /\ account' = [o \in Objects |->
       IF o \in Added(built) THEN Built(built[o])
       ELSE IF o \in gone \ held THEN Blank
       ELSE IF o \in m_lAccounts \ gone THEN kept[o]
       ELSE account[o]]

\* What the lists keep besides.
OthersTyped ==
  /\ m_lDeletedAccounts' \subseteq Ids /\ UNCHANGED daemon
  /\ signals' \subseteq Ids \cup {"accountsChanged"}

\* No identifier becomes fresh again, and those that join the list were fresh.
OnlyBirths ==
  /\ \A i \in Ids : daemon'[i] = "unborn" => daemon[i] = "unborn"
  /\ \A i \in Listed' : i \in Listed \/ daemon[i] = "unborn"

\* Account a was built from what the daemon has.
Fresh(a) == a.id \in InDaemon /\ a.state = "READY" /\ a.details = daemon[a.id]

LEMMA RelistKeepsRows ==
  ASSUME Rows, OthersTyped, NEW gone, NEW missing, NEW built, NEW held, NEW kept,
         Relisted(gone, missing, built, held, kept)
  PROVE  /\ Rows'
         /\ \A o \in Added(built) : Fresh(account'[o])
         /\ \A o \in m_lAccounts \ gone : account'[o] = kept[o]
         /\ missing \subseteq Listed' /\ Listed' \subseteq Listed \cup missing
<1> DEFINE added == Added(built)
<1> USE AccountAssumption
<1> USE DEF Relisted, OthersTyped
<1>1. \A o \in added : o \in Free /\ built[o] \in missing
  BY DEF Builds, Added
<1>2. \A o, q \in added : built[o] = built[q] => o = q
  BY <1>1 DEF Builds
<1>3. added \cap m_lAccounts = {} /\ added \cap drafts = {} /\ added \subseteq Objects
  BY <1>1 DEF Free
<1>4. \A o \in added : account'[o] = Built(built[o])
  BY <1>3
<1>5. \A o \in m_lAccounts \ gone : account'[o] = kept[o]
  BY <1>3 DEF Rows, ListOK
<1>6. \A o \in drafts' : account'[o] = account[o] /\ isNew(account[o]) /\ account[o] \in Accounts
  BY <1>3 DEF Rows, ListOK
<1>7. \A i \in missing : Built(i) \in Accounts /\ Built(i).id = i /\ i \in Ids /\ i # NoId
  BY DEF Built, Accounts, EditState, InDaemon
<1>8. \A o \in m_lAccounts' : account'[o] \in Accounts
  BY <1>1, <1>4, <1>5, <1>7
<1>9. ListOK'
  <2>1. account' \in [Objects -> Accounts \cup {Blank}]
    BY <1>1, <1>3, <1>7 DEF Rows, ListOK
  <2> QED BY <1>3, <1>6, <1>8, <2>1 DEF Rows, ListOK
<1>10. \A o \in m_lAccounts \ gone : account'[o].id = account[o].id
  BY <1>5
<1>11. \A o \in added : account'[o].id = built[o] /\ built[o] \notin Listed /\ built[o] # NoId
  BY <1>1, <1>4, <1>7
<1>12. \A o \in m_lAccounts : account[o].id \in Listed \cup {NoId}
  BY DEF Listed
<1>13. \A o \in m_lAccounts' : o \in added \/ o \in m_lAccounts \ gone
  OBVIOUS
<1>14. UniqueIds'
  <2> SUFFICES ASSUME NEW o \in m_lAccounts', NEW q \in m_lAccounts',
                      account'[o].id = account'[q].id
               PROVE  o = q \/ account'[o].id = NoId
    BY DEF UniqueIds, isNew
  <2>1. CASE o \in added /\ q \in added
    BY <1>2, <1>11, <2>1
  <2>2. CASE o \notin added /\ q \notin added
    BY <1>10, <1>13, <2>2 DEF Rows, UniqueIds, isNew
  <2>3. CASE o \in added /\ q \notin added
    BY <1>10, <1>11, <1>12, <1>13, <2>3
  <2>4. CASE o \notin added /\ q \in added
    BY <1>10, <1>11, <1>12, <1>13, <2>4
  <2> QED BY <2>1, <2>2, <2>3, <2>4
<1>15. RowsBorn'
  <2>1. \A i \in missing : daemon[i] # "unborn"
    BY DEF InDaemon, Nothing
  <2> QED BY <1>1, <1>10, <1>11, <2>1 DEF Rows, RowsBorn, isNew
<1>16. \A i \in missing : i \in Listed'
  <2> SUFFICES ASSUME NEW i \in missing PROVE i \in Listed'
    OBVIOUS
  <2>1. PICK o \in Free : built[o] = i
    BY DEF Builds
  <2>2. o \in added /\ i # NoId
    BY <1>7, <2>1 DEF Added
  <2> QED BY <1>11, <2>1, <2>2 DEF Listed
<1>17. \A i \in missing : Fresh(Built(i))
  BY DEF Built, Fresh
<1>18. Listed' \subseteq Listed \cup missing
  BY <1>1, <1>10, <1>11, <1>13 DEF Listed
<1> QED BY <1>1, <1>4, <1>5, <1>9, <1>14, <1>15, <1>16, <1>17, <1>18 DEF Rows

LEMMA UpdateKeepsRows ==
  ASSUME Rows, updateAccounts, UNCHANGED daemon, signals' \subseteq signals
  PROVE  /\ Rows'
         /\ \A o \in m_lAccounts \ Vanished : o \in m_lAccounts' /\ account'[o] = Reloaded(o)
         /\ \A o \in m_lAccounts' : o \in m_lAccounts \ Vanished \/ Fresh(account'[o])
         /\ InDaemon \subseteq Listed'
<1> DEFINE kept == [o \in m_lAccounts \ Vanished |-> Reloaded(o)]
<1>1. PICK built \in Builds(Free, Unlisted), held \in SUBSET {o \in Vanished : isNew(account[o])} :
        /\ m_lAccounts' = (m_lAccounts \ Vanished) \cup Added(built)
        /\ drafts' = drafts \cup held
        /\ account' = [o \in Objects |->
             IF o \in Added(built) THEN Built(built[o])
             ELSE IF o \in Vanished \ held THEN Blank
             ELSE IF o \in m_lAccounts \ Vanished THEN Reloaded(o)
             ELSE account[o]]
  BY DEF updateAccounts, Relist, Added
<1>2. \A o \in m_lAccounts \ Vanished : kept[o] \in Accounts /\ kept[o].id = account[o].id
  BY ActionType DEF Reloaded, EditAction, Rows, ListOK
<1>3. Vanished \subseteq m_lAccounts /\ Unlisted \subseteq InDaemon \ Listed
  BY DEF Vanished, Unlisted
<1>4. OthersTyped
  BY DEF updateAccounts, Rows, ListOK, Vanished, Accounts, OthersTyped
<1>5. Relisted(Vanished, Unlisted, built, held, kept)
  BY <1>1, <1>2, <1>3 DEF Relisted
<1> HIDE DEF kept
<1>6. /\ Rows'
      /\ \A o \in Added(built) : Fresh(account'[o])
      /\ \A o \in m_lAccounts \ Vanished : account'[o] = kept[o]
      /\ Unlisted \subseteq Listed'
  BY <1>4, <1>5, RelistKeepsRows
<1>7. \A o \in m_lAccounts \ Vanished : o \in m_lAccounts' /\ account'[o] = Reloaded(o)
  BY <1>1, <1>6 DEF kept
<1>8. InDaemon \subseteq Listed'
  <2> SUFFICES ASSUME NEW i \in InDaemon, i \in Listed PROVE i \in Listed'
    BY <1>6 DEF Unlisted
  <2>1. PICK o \in m_lAccounts : account[o].id = i /\ i # NoId
    BY DEF Listed
  <2>2. o \notin Vanished
    BY <2>1 DEF Vanished
  <2>3. o \in m_lAccounts' /\ account'[o].id = i
    BY <1>2, <1>6, <1>7, <2>1, <2>2
  <2> QED BY <2>1, <2>3 DEF Listed
<1> QED BY <1>1, <1>6, <1>7, <1>8

LEMMA RegistrationKeepsRows ==
  ASSUME Rows, NEW i \in Ids, slotDaemonAccountChanged(i), UNCHANGED daemon,
         signals' \subseteq signals
  PROVE  /\ Rows'
         /\ \A o \in m_lAccounts \ Orphans : o \in m_lAccounts' /\ account'[o] = account[o]
         /\ \A o \in m_lAccounts' :
              (o \in m_lAccounts /\ account'[o] = account[o]) \/ Fresh(account'[o])
         /\ Listed' \subseteq Listed \cup Missing
<1>1. CASE i \in Listed
  <2>1. UNCHANGED <<account, m_lAccounts, drafts, m_lDeletedAccounts>>
    BY <1>1 DEF slotDaemonAccountChanged
  <2> QED BY <2>1 DEF Rows, ListOK, UniqueIds, RowsBorn, Listed
<1>2. CASE i \notin Listed
  <2> DEFINE kept == [o \in m_lAccounts \ Orphans |-> account[o]]
  <2>1. PICK built \in Builds(Free, Missing), held \in SUBSET {o \in Orphans : isNew(account[o])} :
          /\ m_lAccounts' = (m_lAccounts \ Orphans) \cup Added(built)
          /\ drafts' = drafts \cup held
          /\ account' = [o \in Objects |->
               IF o \in Added(built) THEN Built(built[o])
               ELSE IF o \in Orphans \ held THEN Blank
               ELSE IF o \in m_lAccounts \ Orphans THEN Untouched(o)
               ELSE account[o]]
    BY <1>2 DEF slotDaemonAccountChanged, Relist, Added
  <2>2. \A o \in m_lAccounts \ Orphans : kept[o] \in Accounts /\ kept[o].id = account[o].id
    BY DEF Rows, ListOK
  <2>3. Orphans \subseteq m_lAccounts /\ Missing \subseteq InDaemon \ Listed
    BY DEF Orphans, Missing, Unlisted
  <2>4. OthersTyped
    BY DEF slotDaemonAccountChanged, Rows, ListOK, OthersTyped
  <2>5. Relisted(Orphans, Missing, built, held, kept)
    BY <2>1, <2>2, <2>3 DEF Relisted, Untouched
  <2> HIDE DEF kept
  <2>6. /\ Rows'
        /\ \A o \in Added(built) : Fresh(account'[o])
        /\ \A o \in m_lAccounts \ Orphans : account'[o] = kept[o]
        /\ Listed' \subseteq Listed \cup Missing
    BY <2>4, <2>5, RelistKeepsRows
  <2>7. \A o \in m_lAccounts \ Orphans : o \in m_lAccounts' /\ account'[o] = account[o]
    BY <2>1, <2>6 DEF kept
  <2> QED BY <2>1, <2>6, <2>7
<1> QED BY <1>1, <1>2

LEMMA SaveKeepsRows ==
  ASSUME Rows, NEW saved \in SUBSET (m_lAccounts \cup drafts), NEW dropped,
         save(saved, dropped), m_lDeletedAccounts' \subseteq Ids
  PROVE  /\ Rows' /\ "accountsChanged" \in signals'
         /\ \A o \in m_lAccounts : ~isNew(account[o]) =>
              o \in m_lAccounts' /\ account'[o].id = account[o].id
         /\ OnlyBirths
<1> USE AccountAssumption
<1> DEFINE new == {o \in saved : isNew(account[o])}
<1>1. PICK answer \in Answers(new) :
        LET Id(o) == IF isNew(account[o]) THEN answer[o] ELSE account[o].id
            accepted == {o \in saved : Id(o) # NoId}
            Writers(i) == {o \in accepted : Id(o) = i /\ daemon[i] # "gone"}
        IN /\ account' = [o \in Objects |->
                IF o \in accepted THEN [account[o] EXCEPT !.id = Id(o), !.state = "READY"]
                ELSE account[o]]
           /\ m_lAccounts' = m_lAccounts \cup accepted
           /\ drafts' = drafts \ accepted
           /\ daemon' = [i \in Ids |->
                IF i \in dropped THEN "gone"
                ELSE IF Writers(i) # {} THEN account[CHOOSE o \in Writers(i) : TRUE].details
                ELSE daemon[i]]
  BY DEF save
<1> DEFINE Id(o) == IF isNew(account[o]) THEN answer[o] ELSE account[o].id
           accepted == {o \in saved : Id(o) # NoId}
           Writers(i) == {o \in accepted : Id(o) = i /\ daemon[i] # "gone"}
<1>2. \A o \in new : answer[o] = NoId \/ (answer[o] \in Ids /\ daemon[answer[o]] = "unborn")
  BY DEF Answers
<1>3. \A o, q \in new : answer[o] = answer[q] => o = q \/ answer[o] = NoId
  BY DEF Answers
<1>4. \A o \in m_lAccounts \cup drafts : account[o] \in Accounts /\ o \in Objects
  BY DEF Rows, ListOK
<1>5. \A o \in saved : Id(o) \in Ids \cup {NoId}
  BY <1>2, <1>4 DEF Accounts
<1>6. /\ m_lAccounts' = m_lAccounts \cup accepted /\ drafts' = drafts \ accepted
      /\ \A o \in accepted : account'[o] = [account[o] EXCEPT !.id = Id(o), !.state = "READY"]
      /\ \A o \in Objects \ accepted : account'[o] = account[o]
      /\ DOMAIN account' = Objects /\ account' = [o \in Objects |-> account'[o]]
  BY <1>1, <1>4
<1>7. /\ daemon' = [i \in Ids |-> daemon'[i]]
      /\ \A i \in Ids \ dropped : Writers(i) = {} => daemon'[i] = daemon[i]
      /\ \A i \in dropped \cap Ids : daemon'[i] = "gone"
  <2> DEFINE written(i) == account[CHOOSE o \in Writers(i) : TRUE].details
  <2>1. daemon' = [i \in Ids |-> IF i \in dropped THEN "gone"
                                ELSE IF Writers(i) # {} THEN written(i) ELSE daemon[i]]
    BY <1>1
  <2> HIDE DEF Writers, written
  <2> QED BY <2>1
<1>8. \A i \in Ids \ dropped : Writers(i) # {} => daemon'[i] \in Details
  <2> SUFFICES ASSUME NEW i \in Ids \ dropped, Writers(i) # {} PROVE daemon'[i] \in Details
    OBVIOUS
  <2>1. (CHOOSE o \in Writers(i) : TRUE) \in Writers(i)
    OBVIOUS
  <2>2. \A o \in Writers(i) : account[o].details \in Details
    BY <1>4 DEF Accounts
  <2>3. daemon'[i] = account[CHOOSE o \in Writers(i) : TRUE].details
    BY <1>1
  <2> QED BY <2>1, <2>2, <2>3
<1>9. \A o \in accepted : Id(o) \in Ids /\ o \in m_lAccounts \cup drafts
                         /\ (isNew(account[o]) => o \in new) /\ Id(o) # NoId
  BY <1>5
<1>10. \A o \in new : Id(o) = answer[o]
  OBVIOUS
<1>11. \A o \in saved : ~isNew(account[o]) => Id(o) = account[o].id /\ o \in m_lAccounts /\ o \in accepted
  <2>1. \A o \in drafts : isNew(account[o])
    BY DEF Rows, ListOK
  <2>2. \A o \in saved : ~isNew(account[o]) => Id(o) = account[o].id /\ Id(o) # NoId
    BY DEF isNew
  <2> QED BY <2>1, <2>2
<1>12. \A o \in accepted : /\ account'[o] \in Accounts /\ account'[o].id = Id(o)
  <2> SUFFICES ASSUME NEW o \in accepted
               PROVE  account'[o] \in Accounts /\ account'[o].id = Id(o)
    OBVIOUS
  <2> HIDE DEF Id
  <2>1. account[o] \in Accounts /\ Id(o) \in Ids
    BY <1>4, <1>9
  <2> QED BY <1>6, <2>1 DEF Accounts, EditState
<1>13. \A i \in Ids : daemon'[i] = "unborn" =>
         daemon[i] = "unborn" /\ Writers(i) = {} /\ i \notin dropped
  BY <1>7, <1>8 DEF Nothing
<1> HIDE DEF Id, Writers, accepted, new
<1>14. ListOK'
  <2>1. account' \in [Objects -> Accounts \cup {Blank}]
    BY <1>6, <1>12 DEF Rows, ListOK
  <2>2. daemon' \in [Ids -> Details \cup Nothing]
    <3>1. \A i \in Ids : daemon'[i] \in Details \cup Nothing
      BY <1>7, <1>8 DEF Rows, ListOK, Nothing
    <3> QED BY <1>7, <3>1
  <2>3. signals' \subseteq Ids \cup {"accountsChanged"}
    BY DEF Rows, ListOK, save, Tell
  <2> QED BY <1>4, <1>6, <1>9, <1>12, <2>1, <2>2, <2>3 DEF Rows, ListOK
<1>15. \A o \in m_lAccounts \ accepted : account'[o] = account[o]
  BY <1>4, <1>6
<1>16. \A o \in m_lAccounts : account[o].id = NoId \/ daemon[account[o].id] # "unborn"
  BY DEF Rows, RowsBorn, isNew
<1>17. \A o \in accepted : o \in new \/ (o \in m_lAccounts /\ Id(o) = account[o].id)
  BY <1>9, <1>11 DEF accepted
<1>18. \A o \in m_lAccounts' :
         \/ o \in new /\ account'[o].id = answer[o] /\ daemon[account'[o].id] = "unborn"
         \/ o \in m_lAccounts /\ account'[o].id = account[o].id
  <2> SUFFICES ASSUME NEW o \in m_lAccounts'
               PROVE  \/ o \in new /\ account'[o].id = answer[o] /\ daemon[account'[o].id] = "unborn"
                      \/ o \in m_lAccounts /\ account'[o].id = account[o].id
    OBVIOUS
  <2>1. CASE o \notin accepted
    BY <1>6, <1>15, <2>1
  <2>2. CASE o \in accepted /\ o \in new
    BY <1>2, <1>9, <1>10, <1>12, <2>2
  <2>3. CASE o \in accepted /\ o \notin new
    BY <1>12, <1>17, <2>3
  <2> QED BY <2>1, <2>2, <2>3
<1>19. UniqueIds'
  <2> SUFFICES ASSUME NEW o \in m_lAccounts', NEW q \in m_lAccounts',
                      account'[o].id = account'[q].id, account'[o].id # NoId
               PROVE  o = q
    BY DEF UniqueIds, isNew
  <2> QED BY <1>3, <1>16, <1>18 DEF Rows, UniqueIds, isNew
<1>20. RowsBorn'
  <2> SUFFICES ASSUME NEW o \in m_lAccounts', account'[o].id # NoId,
                      daemon'[account'[o].id] = "unborn"
               PROVE  FALSE
    BY DEF RowsBorn, isNew
  <2>1. account'[o].id \in Ids
    BY <1>14 DEF ListOK, Accounts
  <2>2. daemon[account'[o].id] = "unborn" /\ Writers(account'[o].id) = {}
    BY <1>13, <2>1
  <2>3. o \in accepted
    BY <1>6, <1>15, <1>16, <2>2
  <2>4. o \in Writers(account'[o].id)
    BY <1>12, <2>2, <2>3 DEF Writers
  <2> QED BY <2>2, <2>4
<1>21. \A o \in m_lAccounts : ~isNew(account[o]) => o \in m_lAccounts' /\ account'[o].id = account[o].id
  BY <1>6, <1>12, <1>15, <1>17 DEF new
<1>22. "accountsChanged" \in signals'
  BY DEF save, Tell
<1>23. OnlyBirths
  <2>1. \A i \in Listed' : i \in Listed \/ daemon[i] = "unborn"
    BY <1>18 DEF Listed
  <2> QED BY <1>13, <2>1 DEF OnlyBirths
<1> QED BY <1>14, <1>19, <1>20, <1>21, <1>22, <1>23 DEF Rows

-----------------------------------------------------------------------------
(* The steps.                                                               *)

LEMMA BecomeKeepsRows ==
  ASSUME Rows, NEW o \in m_lAccounts \cup drafts, NEW a \in Accounts, a.id = account[o].id,
         Become(o, a)
  PROVE  Rows' /\ Listed' = Listed
<1>1. \A q \in m_lAccounts \cup drafts :
        account'[q] \in Accounts /\ account'[q].id = account[q].id
  BY DEF Become, Rows, ListOK
<1>2. ListOK'
  BY <1>1 DEF Become, Rows, ListOK, isNew
<1>3. UniqueIds' /\ RowsBorn' /\ Listed' = Listed
  BY <1>1 DEF Become, Rows, UniqueIds, RowsBorn, Listed, isNew
<1> QED BY <1>2, <1>3 DEF Rows

LEMMA EditKeepsRows ==
  ASSUME Rows, NEW o \in m_lAccounts \cup drafts, NEW act \in EditAction, Edit(o, act)
  PROVE  /\ Rows' /\ Listed \subseteq Listed' /\ OnlyBirths
         /\ "accountsChanged" \in signals' \/ Become(o, performAction(account[o], act, Remote(o)))
<1>1. account[o] \in Accounts
  BY DEF Rows, ListOK
<1>2. CASE act = "SAVE" /\ Saves(o)
  <2>1. save({o}, {}) /\ m_lDeletedAccounts' \subseteq Ids
    BY <1>2 DEF Edit, Rows, ListOK
  <2>2. /\ Rows' /\ "accountsChanged" \in signals'
        /\ \A q \in m_lAccounts : ~isNew(account[q]) =>
             q \in m_lAccounts' /\ account'[q].id = account[q].id
        /\ OnlyBirths
    BY <2>1, SaveKeepsRows
  <2> QED BY <2>2 DEF Listed, isNew
<1>3. CASE ~(act = "SAVE" /\ Saves(o))
  <2>1. Become(o, performAction(account[o], act, Remote(o)))
    BY <1>3 DEF Edit
  <2>2. Rows' /\ Listed' = Listed
    BY <1>1, <2>1, ActionType, BecomeKeepsRows
  <2> QED BY <2>1, <2>2 DEF OnlyBirths, Become
<1> QED BY <1>2, <1>3

LEMMA ChangeKeepsRows ==
  ASSUME Rows, NEW o \in m_lAccounts \cup drafts, NEW d \in Details, Change(o, d)
  PROVE  Rows' /\ Listed' = Listed
BY SetType, BecomeKeepsRows DEF Change, Rows, ListOK

LEMMA AddKeepsRows ==
  ASSUME Rows, NEW o \in Objects, NEW d \in Details, add(o, d)
  PROVE  /\ Rows' /\ Listed' = Listed
         /\ isNew(account'[o]) /\ \A q \in m_lAccounts : account'[q] = account[q]
<1> DEFINE a == modify([Blank EXCEPT !.details = d])
<1>1. [Blank EXCEPT !.details = d] \in Accounts /\ [Blank EXCEPT !.details = d].id = NoId
  BY DEF Blank, Accounts, EditState
<1>2. a \in Accounts /\ a.id = NoId
  BY <1>1, ModifyType
<1> HIDE DEF a
<1>3. /\ account' = [account EXCEPT ![o] = a] /\ m_lAccounts' = m_lAccounts \cup {o}
      /\ UNCHANGED <<drafts, m_lDeletedAccounts, daemon, signals>>
  BY DEF add, a
<1>4. o \notin m_lAccounts /\ o \notin drafts
  BY DEF add, Free
<1>5. account'[o] = a /\ \A q \in m_lAccounts \cup drafts : account'[q] = account[q]
  BY <1>3, <1>4 DEF Rows, ListOK
<1>6. ListOK'
  BY <1>2, <1>3, <1>4, <1>5 DEF Rows, ListOK, isNew
<1>7. UniqueIds' /\ RowsBorn'
  BY <1>2, <1>3, <1>4, <1>5 DEF Rows, UniqueIds, RowsBorn, isNew
<1>8. Listed' = Listed
  BY <1>2, <1>3, <1>5 DEF Listed
<1> QED BY <1>2, <1>5, <1>6, <1>7, <1>8 DEF Rows, isNew

LEMMA RemoveKeepsRows ==
  ASSUME Rows, NEW o \in Objects, remove(o)
  PROVE  /\ Rows' /\ Listed' \subseteq Listed /\ Listed \subseteq Listed' \cup m_lDeletedAccounts'
         /\ m_lAccounts' \subseteq m_lAccounts
         /\ \A q \in m_lAccounts' : account'[q] = account[q]
<1>1. /\ m_lAccounts' = m_lAccounts \ {o} /\ account' = [account EXCEPT ![o] = Blank]
      /\ UNCHANGED <<drafts, daemon, signals>>
      /\ m_lDeletedAccounts' = m_lDeletedAccounts \cup ({account[o].id} \ {NoId})
      /\ account[o] \in Accounts /\ o \notin drafts
  BY DEF remove, Rows, ListOK
<1>2. \A q \in m_lAccounts' \cup drafts : account'[q] = account[q]
  BY <1>1 DEF Rows, ListOK
<1>3. ListOK'
  BY <1>1, <1>2 DEF Rows, ListOK, Accounts
<1>4. UniqueIds' /\ RowsBorn'
  BY <1>1, <1>2 DEF Rows, UniqueIds, RowsBorn
<1>5. Listed' \subseteq Listed /\ Listed \subseteq Listed' \cup m_lDeletedAccounts'
  BY <1>1, <1>2 DEF Listed
<1> QED BY <1>1, <1>2, <1>3, <1>4, <1>5 DEF Rows

LEMMA CancelKeepsRows ==
  ASSUME Rows, cancel
  PROVE  /\ Rows' /\ Listed' = Listed
         /\ m_lAccounts' \subseteq m_lAccounts
         /\ \A q \in m_lAccounts' : account'[q] = Cancelled(q)
<1> DEFINE new == {o \in m_lAccounts : isNew(account[o])}
<1>1. /\ m_lAccounts' = m_lAccounts \ new /\ m_lDeletedAccounts' = {}
      /\ account' = [o \in Objects |->
           IF o \in new THEN Blank ELSE IF o \in m_lAccounts THEN Cancelled(o) ELSE account[o]]
      /\ UNCHANGED <<drafts, daemon, signals>>
  BY DEF cancel
<1>2. \A o \in m_lAccounts : Cancelled(o) \in Accounts /\ Cancelled(o).id = account[o].id
  BY ActionType DEF Rows, ListOK, Cancelled, EditAction
<1>3. \A o \in m_lAccounts' : account'[o] = Cancelled(o) /\ o \in m_lAccounts
  BY <1>1 DEF Rows, ListOK
<1>4. \A o \in drafts : account'[o] = account[o]
  BY <1>1 DEF Rows, ListOK
<1>5. ListOK'
  <2>1. account' \in [Objects -> Accounts \cup {Blank}]
    BY <1>1, <1>2 DEF Rows, ListOK
  <2> QED BY <1>1, <1>2, <1>3, <1>4, <2>1 DEF Rows, ListOK
<1>6. UniqueIds' /\ RowsBorn'
  BY <1>1, <1>2, <1>3 DEF Rows, UniqueIds, RowsBorn, isNew
<1>7. Listed' = Listed
  BY <1>1, <1>2, <1>3 DEF Listed, isNew
<1> QED BY <1>1, <1>3, <1>5, <1>6, <1>7 DEF Rows

LEMMA DaemonKeepsRows ==
  ASSUME Rows, DaemonStep
  PROVE  /\ Rows' /\ Listed' = Listed /\ UNCHANGED <<account, m_lAccounts, m_lDeletedAccounts>>
         /\ "accountsChanged" \in signals' \/ (UNCHANGED daemon /\ signals \subseteq signals')
<1>1. PICK i \in Ids :
        \/ \E d \in Details \cup {"gone"} : DaemonSets(i, d)
        \/ RegistrationChanges(i)
  BY DEF DaemonStep, DaemonAdds, DaemonChanges, DaemonRemoves
<1>2. CASE RegistrationChanges(i)
  BY <1>2 DEF RegistrationChanges, Tell, Rows, ListOK, UniqueIds, RowsBorn, Listed
<1>3. ASSUME NEW d \in Details \cup {"gone"}, DaemonSets(i, d)
      PROVE  /\ Rows' /\ Listed' = Listed
             /\ UNCHANGED <<account, m_lAccounts, m_lDeletedAccounts>>
             /\ "accountsChanged" \in signals'
  <2>1. d \in Details \cup Nothing /\ d # "unborn"
    BY AccountAssumption DEF Nothing
  <2>2. ListOK'
    BY <1>3, <2>1 DEF DaemonSets, Tell, Rows, ListOK
  <2>3. \A o \in m_lAccounts : account[o] \in Accounts
    BY DEF Rows, ListOK
  <2>4. UniqueIds' /\ RowsBorn'
    BY <1>3, <2>1, <2>3 DEF DaemonSets, Rows, ListOK, UniqueIds, RowsBorn, Accounts, isNew
  <2> QED BY <1>3, <2>2, <2>4 DEF DaemonSets, Tell, Rows, Listed
<1> QED BY <1>1, <1>2, <1>3

LEMMA SaveAllKeepsRows ==
  ASSUME Rows, saveAll
  PROVE  Rows' /\ "accountsChanged" \in signals' /\ Listed \subseteq Listed' /\ OnlyBirths
<1>1. /\ save({o \in m_lAccounts : Saves(o)}, Unlisted)
      /\ {o \in m_lAccounts : Saves(o)} \in SUBSET (m_lAccounts \cup drafts)
      /\ m_lDeletedAccounts' \subseteq Ids
  BY DEF saveAll
<1>2. /\ Rows' /\ "accountsChanged" \in signals'
      /\ \A q \in m_lAccounts : ~isNew(account[q]) =>
           q \in m_lAccounts' /\ account'[q].id = account[q].id
      /\ OnlyBirths
  BY <1>1, SaveKeepsRows
<1> QED BY <1>2 DEF Listed, isNew

\* A signal is a registration of an account or accountsChanged.
LEMMA DeliverCases ==
  ASSUME Rows, NEW s \in signals, Deliver(s)
  PROVE  /\ UNCHANGED daemon /\ signals' \subseteq signals
         /\ \/ updateAccounts
            \/ /\ s \in Ids /\ slotDaemonAccountChanged(s)
               /\ "accountsChanged" \in signals => "accountsChanged" \in signals'
BY DEF Deliver, Rows, ListOK

LEMMA NextKeepsRows == Rows /\ [Next]_vars => Rows'
<1> SUFFICES ASSUME Rows, [Next]_vars PROVE Rows'
  OBVIOUS
<1>1. CASE UserStep
  BY <1>1, SaveAllKeepsRows, CancelKeepsRows, AddKeepsRows, RemoveKeepsRows, EditKeepsRows,
     ChangeKeepsRows DEF UserStep
<1>2. CASE DaemonStep
  BY <1>2, DaemonKeepsRows
<1>3. CASE \E s \in signals : Deliver(s)
  BY <1>3, DeliverCases, UpdateKeepsRows, RegistrationKeepsRows
<1>4. CASE UNCHANGED vars
  BY <1>4 DEF vars, Rows, ListOK, UniqueIds, RowsBorn
<1> QED BY <1>1, <1>2, <1>3, <1>4 DEF Next

LEMMA InitHasRows == Init => Rows /\ Synchronised /\ RowsExist
<1> SUFFICES ASSUME Init PROVE Rows /\ Synchronised /\ RowsExist
  OBVIOUS
<1> USE AccountAssumption
<1>1. PICK built \in Builds(Objects, InDaemon) :
        /\ m_lAccounts = {o \in Objects : built[o] # NoId}
        /\ account = [o \in Objects |-> IF built[o] # NoId THEN Built(built[o]) ELSE Blank]
  BY DEF Init
<1>2. \A o \in m_lAccounts : o \in Objects /\ built[o] \in InDaemon /\ account[o] = Built(built[o])
  BY <1>1 DEF Builds
<1>3. \A i \in InDaemon : /\ Built(i) \in Accounts /\ Built(i).id = i /\ i \in Ids
                          /\ Built(i).details = daemon[i] /\ daemon[i] # "unborn"
  BY DEF Built, Accounts, EditState, InDaemon, Nothing
<1>4. drafts = {} /\ m_lDeletedAccounts = {} /\ signals = {}
  BY DEF Init
<1>5. daemon \in [Ids -> Details \cup Nothing]
  BY DEF Init, Nothing
<1>6. account \in [Objects -> Accounts \cup {Blank}]
  BY <1>1, <1>3 DEF Builds
<1>7. ListOK
  BY <1>2, <1>3, <1>4, <1>5, <1>6 DEF ListOK
<1>8. \A o, q \in m_lAccounts : built[o] = built[q] => o = q
  BY <1>1, <1>2 DEF Builds
<1>9. UniqueIds /\ RowsBorn
  BY <1>2, <1>3, <1>8 DEF UniqueIds, RowsBorn
<1>10. Synchronised /\ RowsExist
  BY <1>2, <1>3 DEF Synchronised, RowsExist, Listed
<1> QED BY <1>7, <1>9, <1>10 DEF Rows

LEMMA RowsInvariant == Spec => []Rows
<1>1. Init => Rows
  BY InitHasRows
<1> QED BY <1>1, NextKeepsRows, PTL DEF Spec

\* Accounts, rows, drafts and the daemon's answers keep their types; what the
\* list lost unsaved has no identifier.
THEOREM TypeCorrect == Spec => []TypeOK
<1>1. Init => takenBack \in BOOLEAN
  BY DEF Init
<1>2. takenBack \in BOOLEAN /\ [Next]_vars => (takenBack \in BOOLEAN)'
  BY DEF Next, UserStep, DaemonStep, saveAll, cancel, add, remove, Edit, Change, Deliver,
         DaemonAdds, DaemonChanges, DaemonRemoves, DaemonSets, RegistrationChanges, vars
<1>3. Rows /\ takenBack \in BOOLEAN => TypeOK
  BY DEF Rows, TypeOK
<1> QED BY <1>1, <1>2, <1>3, RowsInvariant, PTL DEF Spec

\* Whatever is saved, built, removed and signalled, and in whatever order, no
\* two rows stand for one account of the daemon.
THEOREM RowsAreUnique == Spec => []UniqueIds
<1>1. Rows => UniqueIds
  BY DEF Rows
<1> QED BY <1>1, RowsInvariant, PTL

-----------------------------------------------------------------------------
(* Agreement with the daemon.                                               *)

LEMMA NextKeepsRowsExist == Rows /\ RowsExist /\ [Next]_vars => RowsExist'
<1> SUFFICES ASSUME Rows, RowsExist, [Next]_vars, "accountsChanged" \notin signals'
             PROVE  Listed' \subseteq InDaemon'
  BY DEF RowsExist
<1>1. CASE UserStep
  <2>1. \/ cancel
        \/ \E o \in Objects, d \in Details : add(o, d)
        \/ \E o \in Objects : remove(o)
        \/ \E o \in m_lAccounts \cup drafts, act \in EditAction :
             Edit(o, act) /\ Become(o, performAction(account[o], act, Remote(o)))
        \/ \E o \in m_lAccounts \cup drafts, d \in Details : Change(o, d)
    BY <1>1, SaveAllKeepsRows, EditKeepsRows DEF UserStep
  <2>2. Listed' \subseteq Listed
    <3>1. ASSUME NEW o \in m_lAccounts \cup drafts, NEW act \in EditAction,
                 Become(o, performAction(account[o], act, Remote(o)))
          PROVE  Listed' = Listed
      BY <3>1, ActionType, BecomeKeepsRows DEF Rows, ListOK
    <3> QED BY <2>1, <3>1, CancelKeepsRows, AddKeepsRows, RemoveKeepsRows, ChangeKeepsRows
  <2>3. UNCHANGED <<daemon, signals>>
    BY <2>1 DEF cancel, add, remove, Become, Change
  <2> QED BY <2>2, <2>3 DEF RowsExist, InDaemon
<1>2. CASE DaemonStep
  BY <1>2, DaemonKeepsRows DEF RowsExist, InDaemon
<1>3. ASSUME NEW s \in signals, Deliver(s) PROVE Listed' \subseteq InDaemon'
  <2>1. UNCHANGED daemon /\ InDaemon' = InDaemon
    BY <1>3, DeliverCases DEF InDaemon
  <2>2. CASE updateAccounts
    <3>1. \A o \in m_lAccounts \ Vanished : account'[o].id = account[o].id /\ account[o].id \in InDaemon
      BY <1>3, <2>2, DeliverCases, UpdateKeepsRows, ActionType
         DEF Reloaded, EditAction, Rows, ListOK, Vanished
    <3>2. \A o \in m_lAccounts' : account'[o].id \in InDaemon
      BY <1>3, <2>2, <3>1, DeliverCases, UpdateKeepsRows DEF Fresh
    <3> QED BY <2>1, <3>2 DEF Listed
  <2>3. CASE s \in Ids /\ slotDaemonAccountChanged(s) /\ "accountsChanged" \notin signals
    <3>1. Listed \subseteq InDaemon
      BY <2>3 DEF RowsExist
    <3>2. \A o \in m_lAccounts' : account'[o].id \in InDaemon \cup Listed \cup {NoId}
      BY <1>3, <2>3, DeliverCases, RegistrationKeepsRows DEF Fresh, Listed
    <3> QED BY <2>1, <3>1, <3>2 DEF Listed
  <2> QED BY <1>3, <2>2, <2>3, DeliverCases
<1>4. CASE UNCHANGED vars
  BY <1>4 DEF vars, RowsExist, Listed, InDaemon
<1> QED BY <1>1, <1>2, <1>3, <1>4 DEF Next

\* Once the queue holds no accountsChanged, every row that was saved is an
\* account the daemon has.
THEOREM SettledRowsExist == Spec => []RowsExist
<1>1. Init => Rows /\ RowsExist
  BY InitHasRows
<1>2. (Rows /\ RowsExist) /\ [Next]_vars => (Rows /\ RowsExist)'
  BY NextKeepsRows, NextKeepsRowsExist
<1> QED BY <1>1, <1>2, PTL DEF Spec

\* One account agrees with the daemon, if it claims to.
Agrees(a) ==
  a.id \in InDaemon /\ a.state \in {"READY", "EDITING"} => a.details = daemon[a.id]

\* No edit action makes an account that agrees disagree; only CANCEL on a
\* REMOVED account could.
LEMMA ActionKeepsAgreement ==
  ASSUME Rows, NEW o \in m_lAccounts \cup drafts, NEW act \in EditAction, Agrees(account[o]),
         account[o].state # "REMOVED" \/ act # "CANCEL"
  PROVE  Agrees(performAction(account[o], act, Remote(o)))
<1> DEFINE a == account[o]
           b == performAction(a, act, Remote(o))
<1>1. a \in Accounts /\ b.id = a.id
  BY ActionType DEF Rows, ListOK
<1> SUFFICES ASSUME b.id \in InDaemon, b.state \in {"READY", "EDITING"}
             PROVE  b.details = daemon[a.id]
  BY <1>1 DEF Agrees
<1>2. ~isNew(a) /\ Remote(o) = daemon[a.id] /\ daemon[a.id] \in Details
  BY <1>1, AccountAssumption DEF InDaemon, isNew, Remote
<1>3. \/ b.details = Remote(o)
      \/ a.state \in {"READY", "EDITING"} /\ b.details = a.details
  BY <1>1, <1>2, ActionSynchronises
<1> QED BY <1>1, <1>2, <1>3 DEF Agrees

\* A changed detail leaves the account modified, or in a state that claims
\* nothing.
LEMMA ChangeKeepsAgreement ==
  ASSUME Rows, NEW o \in m_lAccounts \cup drafts, NEW d \in Details, Agrees(account[o])
  PROVE  Agrees(setAccountProperty(account[o], d, Remote(o)))
<1> DEFINE a == account[o]
           c == [a EXCEPT !.details = d]
           b == performAction(c, "MODIFY", Remote(o))
<1>1. a \in Accounts
  BY DEF Rows, ListOK
<1>2. c \in Accounts /\ c.state = a.state
  BY <1>1 DEF Accounts
<1>3. CASE d = a.details
  BY <1>3 DEF setAccountProperty
<1>4. CASE d # a.details
  <2>1. setAccountProperty(a, d, Remote(o)) = b
    BY <1>4 DEF setAccountProperty
  <2>2. b = modify(c) \/ b = modify(reload(c, Remote(o))) \/ (b = c /\ c.state \in {"NEW", "REMOVED"})
    <3>1. CASE c.state \in {"NEW", "REMOVED"}
      <4>1. stateMachineActionsOnState(c.state, "MODIFY") = "nothing"
        BY <3>1 DEF stateMachineActionsOnState, Modified
      <4> HIDE DEF c
      <4> QED BY <3>1, <4>1, TargetType DEF performAction
    <3>2. CASE c.state \notin {"NEW", "REMOVED"}
      <4>1. stateMachineActionsOnState(c.state, "MODIFY") \in {"modify", "reloadMod"}
        BY <1>2, <3>2 DEF stateMachineActionsOnState, Accounts, EditState
      <4> HIDE DEF c
      <4> QED BY <4>1, TargetType DEF performAction
    <3> QED BY <3>1, <3>2
  <2> HIDE DEF c, b
  <2>3. b.state \notin {"READY", "EDITING"}
    BY <1>2, <2>2, ReloadType, ModifyType DEF Modified
  <2> QED BY <2>1, <2>3 DEF Agrees, b
<1> QED BY <1>3, <1>4

\* RELOAD makes an account that does not claim to agree, or makes it agree.
LEMMA ReloadAgrees ==
  ASSUME Rows, NEW o \in m_lAccounts
  PROVE  Agrees(Reloaded(o))
<1> DEFINE a == account[o]
<1>1. a \in Accounts /\ Reloaded(o).id = a.id
  BY ActionType DEF Rows, ListOK, Reloaded, EditAction
<1> SUFFICES ASSUME Reloaded(o).id \in InDaemon, Reloaded(o).state \in {"READY", "EDITING"}
             PROVE  Reloaded(o).details = daemon[a.id]
  BY <1>1 DEF Agrees
<1>2. ~isNew(a) /\ Remote(o) = daemon[a.id] /\ daemon[a.id] \in Details
  BY <1>1, AccountAssumption DEF InDaemon, isNew, Remote
<1>3. CASE a.state = "READY"
  <2>1. stateMachineActionsOnState(a.state, "RELOAD") = "reload"
    BY <1>3 DEF stateMachineActionsOnState
  <2>2. Reloaded(o) = reload(a, Remote(o))
    BY <2>1, TargetType DEF Reloaded, performAction
  <2> QED BY <1>1, <1>2, <2>2 DEF reload, changeState, Accounts
<1>4. CASE a.state = "EDITING"
  <2>1. stateMachineActionsOnState(a.state, "RELOAD") = "outdate"
    BY <1>4 DEF stateMachineActionsOnState
  <2>2. Reloaded(o) = changeState(a, "OUTDATED")
    BY <2>1, TargetType DEF Reloaded, performAction
  <2> QED BY <1>1, <2>2 DEF changeState, Accounts
<1>5. CASE a.state \notin {"READY", "EDITING"}
  <2>1. stateMachineActionsOnState(a.state, "RELOAD") = "nothing"
    BY <1>5 DEF stateMachineActionsOnState
  <2>2. Reloaded(o) = a
    BY <2>1, TargetType DEF Reloaded, performAction
  <2> QED BY <1>5, <2>2
<1> QED BY <1>3, <1>4, <1>5

LEMMA NextSynchronised ==
  ASSUME Rows, Synchronised, [Next]_vars
  PROVE  Synchronised'
<1> SUFFICES ASSUME ~takenBack', "accountsChanged" \notin signals', NEW o \in m_lAccounts'
             PROVE  Agrees(account[o])'
  BY DEF Synchronised, Agrees
<1>0. ~takenBack
  BY DEF Next, UserStep, DaemonStep, saveAll, cancel, add, remove, Edit, Change, Deliver,
         DaemonAdds, DaemonChanges, DaemonRemoves, DaemonSets, RegistrationChanges, vars
<1>1. ASSUME "accountsChanged" \notin signals, NEW q \in m_lAccounts PROVE Agrees(account[q])
  BY <1>0, <1>1 DEF Synchronised, Agrees
<1>2. CASE UserStep
  <2>1. CASE saveAll
    BY <2>1, SaveAllKeepsRows
  <2>2. CASE cancel
    <3>1. UNCHANGED <<daemon, signals>> /\ o \in m_lAccounts /\ account'[o] = Cancelled(o)
      BY <2>2, CancelKeepsRows DEF cancel
    <3>2. Agrees(Cancelled(o))
      BY <1>1, <3>1, ActionKeepsAgreement DEF Cancelled, EditAction, Modified
    <3> QED BY <3>1, <3>2 DEF Agrees, InDaemon
  <2>3. ASSUME NEW q \in Objects, NEW d \in Details, add(q, d) PROVE Agrees(account[o])'
    <3>1. UNCHANGED <<daemon, signals>> /\ m_lAccounts' = m_lAccounts \cup {q} /\ q \notin m_lAccounts
      BY <2>3 DEF add, Free
    <3>2. isNew(account'[q]) /\ \A r \in m_lAccounts : account'[r] = account[r]
      BY <2>3, AddKeepsRows
    <3> QED BY <1>1, <3>1, <3>2, AccountAssumption DEF Agrees, InDaemon, isNew
  <2>4. ASSUME NEW q \in Objects, remove(q) PROVE Agrees(account[o])'
    <3>1. UNCHANGED <<daemon, signals>> /\ o \in m_lAccounts /\ account'[o] = account[o]
      BY <2>4, RemoveKeepsRows DEF remove
    <3> QED BY <1>1, <3>1 DEF Agrees, InDaemon
  <2>5. ASSUME NEW q \in m_lAccounts \cup drafts, NEW a, Become(q, a),
               q \in m_lAccounts => Agrees(a)
        PROVE  Agrees(account[o])'
    <3>1. UNCHANGED <<daemon, signals, m_lAccounts>> /\ account' = [account EXCEPT ![q] = a]
      BY <2>5 DEF Become
    <3>2. account'[o] = account[o] \/ (o = q /\ account'[o] = a)
      BY <3>1 DEF Rows, ListOK
    <3> QED BY <1>1, <2>5, <3>1, <3>2 DEF Agrees, InDaemon
  <2>6. ASSUME NEW q \in m_lAccounts \cup drafts, NEW act \in EditAction, Edit(q, act)
        PROVE  Agrees(account[o])'
    <3>1. Become(q, performAction(account[q], act, Remote(q)))
      BY <2>6, EditKeepsRows
    <3>2. account[q].state # "REMOVED" \/ act # "CANCEL"
      BY <2>6 DEF Edit
    <3>3. "accountsChanged" \notin signals
      BY <3>1 DEF Become
    <3> QED BY <1>1, <2>5, <3>1, <3>2, <3>3, ActionKeepsAgreement
  <2>7. ASSUME NEW q \in m_lAccounts \cup drafts, NEW d \in Details, Change(q, d)
        PROVE  Agrees(account[o])'
    <3>1. Become(q, setAccountProperty(account[q], d, Remote(q)))
      BY <2>7 DEF Change
    <3>2. "accountsChanged" \notin signals
      BY <3>1 DEF Become
    <3> QED BY <1>1, <2>5, <3>1, <3>2, ChangeKeepsAgreement
  <2> QED BY <1>2, <2>1, <2>2, <2>3, <2>4, <2>6, <2>7 DEF UserStep
<1>3. CASE DaemonStep
  BY <1>1, <1>3, DaemonKeepsRows DEF Agrees, InDaemon
<1>4. ASSUME NEW s \in signals, Deliver(s) PROVE Agrees(account[o])'
  <2>1. UNCHANGED daemon
    BY <1>4, DeliverCases
  <2>2. ASSUME Fresh(account'[o]) PROVE Agrees(account[o])'
    BY <2>1, <2>2 DEF Fresh, Agrees, InDaemon
  <2>3. CASE updateAccounts
    <3>1. (o \in m_lAccounts /\ account'[o] = Reloaded(o)) \/ Fresh(account'[o])
      BY <1>4, <2>3, DeliverCases, UpdateKeepsRows
    <3>2. o \in m_lAccounts => Agrees(Reloaded(o))
      BY ReloadAgrees
    <3> QED BY <2>1, <2>2, <3>1, <3>2 DEF Agrees, InDaemon
  <2>4. CASE s \in Ids /\ slotDaemonAccountChanged(s) /\ "accountsChanged" \notin signals
    <3>1. (o \in m_lAccounts /\ account'[o] = account[o]) \/ Fresh(account'[o])
      BY <1>4, <2>4, DeliverCases, RegistrationKeepsRows
    <3> QED BY <1>1, <2>1, <2>2, <2>4, <3>1 DEF Agrees, InDaemon
  <2> QED BY <1>4, <2>3, <2>4, DeliverCases
<1>5. CASE UNCHANGED vars
  BY <1>1, <1>5 DEF vars, Agrees, InDaemon
<1> QED BY <1>2, <1>3, <1>4, <1>5 DEF Next

\* Until a removal is taken back, an account that is READY, or locked for
\* reading, shows what the daemon has once no accountsChanged is queued.
THEOREM ReadyMeansSynchronised == Spec => []Synchronised
<1>1. Init => Rows /\ Synchronised
  BY InitHasRows
<1>2. (Rows /\ Synchronised) /\ [Next]_vars => (Rows /\ Synchronised)'
  BY NextKeepsRows, NextSynchronised
<1> QED BY <1>1, <1>2, PTL DEF Spec

-----------------------------------------------------------------------------
(* What a step may not do.                                                  *)

LEMMA NextKeepsAccounts ==
  ASSUME Rows, [Next]_vars
  PROVE  Listed \cap InDaemon \subseteq Listed' \cup m_lDeletedAccounts'
<1>1. CASE UserStep
  BY <1>1, SaveAllKeepsRows, CancelKeepsRows, AddKeepsRows, RemoveKeepsRows, EditKeepsRows,
     ChangeKeepsRows DEF UserStep
<1>2. CASE DaemonStep
  BY <1>2, DaemonKeepsRows
<1>3. ASSUME NEW s \in signals, Deliver(s)
      PROVE  Listed \cap InDaemon \subseteq Listed'
  <2>1. CASE updateAccounts
    BY <1>3, <2>1, DeliverCases, UpdateKeepsRows
  <2>2. CASE s \in Ids /\ slotDaemonAccountChanged(s)
    <3>1. \A o \in m_lAccounts \ Orphans : o \in m_lAccounts' /\ account'[o] = account[o]
      BY <1>3, <2>2, DeliverCases, RegistrationKeepsRows
    <3>2. \A o \in m_lAccounts : account[o].id \in InDaemon => o \notin Orphans
      BY DEF Orphans
    <3> QED BY <3>1, <3>2 DEF Listed
  <2> QED BY <1>3, <2>1, <2>2, DeliverCases
<1>4. CASE UNCHANGED vars
  BY <1>4 DEF vars, Listed
<1> QED BY <1>1, <1>2, <1>3, <1>4 DEF Next

\* An account the daemon keeps leaves the list only when the user removes it.
THEOREM OnlyTheUserRemoves == Spec => KeptAccountsStay
<1>1. Rows /\ [Next]_vars =>
        [Listed \cap InDaemon \subseteq Listed' \cup m_lDeletedAccounts']_vars
  BY NextKeepsAccounts
<1> QED BY <1>1, RowsInvariant, PTL DEF Spec, KeptAccountsStay

\* An edited row is no orphan for slotDaemonAccountChanged(), known to the daemon
\* or not; updateAccounts() keeps it if the daemon knows it, and reloads it.
LEMMA DeliverKeepsEdits ==
  ASSUME Rows, NEW s \in signals, Deliver(s), NEW o \in m_lAccounts,
         account[o].id \in InDaemon \/ s # "accountsChanged",
         account[o].state \in Modified \cup {"EDITING"}
  PROVE  /\ o \in m_lAccounts'
         /\ account[o].state \in Modified => account'[o] = account[o]
         /\ account[o].state = "EDITING" =>
              /\ account'[o].details = account[o].details
              /\ account'[o].state \in {"EDITING", "OUTDATED"}
<1>1. account[o] \in Accounts /\ o \notin Orphans
  BY DEF Rows, ListOK, Orphans, Modified
<1>2. CASE s = "accountsChanged"
  <2>1. o \in m_lAccounts' /\ account'[o] = Reloaded(o)
    <3>1. updateAccounts /\ o \notin Vanished
      BY <1>2 DEF Deliver, Vanished
    <3> QED BY <3>1, DeliverCases, UpdateKeepsRows
  <2>2. CASE account[o].state \in Modified
    <3>1. stateMachineActionsOnState(account[o].state, "RELOAD") = "nothing"
      BY <2>2 DEF stateMachineActionsOnState, Modified
    <3>2. Reloaded(o) = account[o]
      BY <3>1, TargetType DEF Reloaded, performAction
    <3> QED BY <2>1, <2>2, <3>2 DEF Modified
  <2>3. CASE account[o].state = "EDITING"
    <3>1. stateMachineActionsOnState(account[o].state, "RELOAD") = "outdate"
      BY <2>3 DEF stateMachineActionsOnState
    <3>2. Reloaded(o) = changeState(account[o], "OUTDATED")
      BY <3>1, TargetType DEF Reloaded, performAction
    <3> QED BY <1>1, <2>1, <2>3, <3>2 DEF changeState, Modified, Accounts
  <2> QED BY <2>1, <2>2, <2>3
<1>3. CASE s # "accountsChanged"
  <2>1. s \in Ids /\ slotDaemonAccountChanged(s)
    BY <1>3 DEF Deliver, Rows, ListOK
  <2>2. o \in m_lAccounts' /\ account'[o] = account[o]
    BY <1>1, <2>1, DeliverCases, RegistrationKeepsRows
  <2> QED BY <2>2
<1> QED BY <1>2, <1>3

\* registrationStateChanged spares whatever the user has entered, saved or not;
\* accountsChanged spares it in the accounts that the daemon has
\* (slotDaemonAccountChanged() and updateAccounts()).
THEOREM SignalsSpareEdits == Spec => EditsSurvive
<1> DEFINE Spared ==
      \A s \in signals : Deliver(s) =>
        \A o \in m_lAccounts : account[o].id \in InDaemon \/ s # "accountsChanged" =>
          /\ account[o].state \in Modified =>
               o \in m_lAccounts' /\ account'[o] = account[o]
          /\ account[o].state = "EDITING" =>
               /\ o \in m_lAccounts' /\ account'[o].details = account[o].details
               /\ account'[o].state \in {"EDITING", "OUTDATED"}
<1>1. Rows => Spared
  BY DeliverKeepsEdits
<1>2. Spec => [][Spared]_vars
  BY <1>1, RowsInvariant, PTL
<1> QED BY <1>2 DEF EditsSurvive

-----------------------------------------------------------------------------
(* What was removed stays out.                                              *)

\* The identifiers of removed rows are the daemon's: a new account, which save()
\* lists under a fresh identifier, is none of them.
DeletedBorn == \A i \in m_lDeletedAccounts : daemon[i] # "unborn"

LEMMA NextKeepsDeletedBorn == Rows /\ DeletedBorn /\ [Next]_vars => DeletedBorn'
<1> SUFFICES ASSUME Rows, DeletedBorn, [Next]_vars, NEW i \in m_lDeletedAccounts'
             PROVE  daemon'[i] # "unborn"
  BY DEF DeletedBorn
<1>1. m_lDeletedAccounts \subseteq Ids
  BY DEF Rows, ListOK
<1>2. \A o \in m_lAccounts : account[o].id # NoId => daemon[account[o].id] # "unborn"
  BY DEF Rows, RowsBorn, isNew
<1>3. CASE UserStep
  <2>1. CASE saveAll \/ cancel
    BY <2>1 DEF saveAll, cancel
  <2>2. ASSUME NEW o \in Objects, NEW d \in Details, add(o, d)
        PROVE  daemon'[i] # "unborn"
    BY <2>2 DEF add, DeletedBorn
  <2>3. ASSUME NEW o \in Objects, remove(o)
        PROVE  daemon'[i] # "unborn"
    BY <1>2, <2>3 DEF remove, DeletedBorn
  <2>4. ASSUME NEW o \in m_lAccounts \cup drafts, NEW act \in EditAction, Edit(o, act)
        PROVE  daemon'[i] # "unborn"
    <3>1. UNCHANGED m_lDeletedAccounts /\ OnlyBirths
      BY <2>4, EditKeepsRows DEF Edit, Become
    <3> QED BY <1>1, <3>1 DEF OnlyBirths, DeletedBorn
  <2>5. ASSUME NEW o \in m_lAccounts \cup drafts, NEW d \in Details, Change(o, d)
        PROVE  daemon'[i] # "unborn"
    BY <2>5 DEF Change, Become, DeletedBorn
  <2> QED BY <1>3, <2>1, <2>2, <2>3, <2>4, <2>5 DEF UserStep
<1>4. CASE DaemonStep
  <2>1. ASSUME NEW j \in Ids, NEW d \in Details \cup {"gone"}, DaemonSets(j, d)
        PROVE  daemon'[i] # "unborn"
    <3>1. d # "unborn"
      BY AccountAssumption DEF Nothing
    <3>2. daemon' = [daemon EXCEPT ![j] = d] /\ UNCHANGED m_lDeletedAccounts
      BY <2>1 DEF DaemonSets
    <3> QED BY <1>1, <3>1, <3>2 DEF DeletedBorn, Rows, ListOK
  <2>2. ASSUME NEW j \in Ids, RegistrationChanges(j)
        PROVE  daemon'[i] # "unborn"
    BY <2>2 DEF RegistrationChanges, DeletedBorn
  <2> QED BY <1>4, <2>1, <2>2 DEF DaemonStep, DaemonAdds, DaemonChanges, DaemonRemoves
<1>5. ASSUME NEW s \in signals, Deliver(s)
      PROVE  daemon'[i] # "unborn"
  <2>1. UNCHANGED daemon
    BY <1>5 DEF Deliver
  <2>2. CASE updateAccounts
    BY <1>2, <2>1, <2>2 DEF updateAccounts, Vanished, DeletedBorn
  <2>3. CASE s \in Ids /\ slotDaemonAccountChanged(s)
    BY <2>1, <2>3 DEF slotDaemonAccountChanged, DeletedBorn
  <2> QED BY <1>5, <2>2, <2>3, DeliverCases
<1>6. CASE UNCHANGED vars
  BY <1>6 DEF vars, DeletedBorn
<1> QED BY <1>3, <1>4, <1>5, <1>6 DEF Next

LEMMA NextKeepsDeletedOut ==
  ASSUME Rows, DeletedBorn, [Next]_vars, NEW i \in m_lDeletedAccounts, i \in Listed'
  PROVE  i \in Listed \/ ("accountsChanged" \in signals /\ Deliver("accountsChanged"))
<1>1. daemon[i] # "unborn"
  BY DEF DeletedBorn
<1>2. CASE UserStep
  <2>1. CASE saveAll
    BY <1>1, <2>1, SaveAllKeepsRows DEF OnlyBirths
  <2>2. ASSUME NEW o \in m_lAccounts \cup drafts, NEW act \in EditAction, Edit(o, act)
        PROVE  i \in Listed
    BY <1>1, <2>2, EditKeepsRows DEF OnlyBirths
  <2> QED BY <1>2, <2>1, <2>2, CancelKeepsRows, AddKeepsRows, RemoveKeepsRows, ChangeKeepsRows
         DEF UserStep
<1>3. CASE DaemonStep
  BY <1>3, DaemonKeepsRows
<1>4. ASSUME NEW s \in signals, Deliver(s), s # "accountsChanged"
      PROVE  i \in Listed
  <2>1. s \in Ids /\ slotDaemonAccountChanged(s) /\ UNCHANGED daemon /\ signals' \subseteq signals
    BY <1>4 DEF Deliver, Rows, ListOK
  <2> QED BY <2>1, RegistrationKeepsRows DEF Missing
<1>5. CASE UNCHANGED vars
  BY <1>5 DEF vars, Listed
<1> QED BY <1>2, <1>3, <1>4, <1>5 DEF Next

\* Of all steps only updateAccounts() brings back a row the user has removed: no
\* change of registration builds it again, and save() does not give its
\* identifier to another row.
THEOREM RemovedRowsStayOut == Spec => DeletedStaysOut
<1>1. Init => DeletedBorn
  BY DEF Init, DeletedBorn
<1>2. Spec => [](Rows /\ DeletedBorn)
  BY <1>1, InitHasRows, NextKeepsRows, NextKeepsDeletedBorn, PTL DEF Spec
<1>3. Rows /\ DeletedBorn /\ [Next]_vars =>
        [\A i \in m_lDeletedAccounts \cap Listed' :
           i \in Listed \/ ("accountsChanged" \in signals /\ Deliver("accountsChanged"))]_vars
  BY NextKeepsDeletedOut
<1> QED BY <1>2, <1>3, PTL DEF Spec, DeletedStaysOut
=============================================================================
