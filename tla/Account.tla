------------------------------- MODULE Account -------------------------------
(***************************************************************************)
(* The edit state machine of one account (account.cpp), as operators on a  *)
(* record: what each edit action does to the client's copy, given what the *)
(* daemon holds.  SAVE changes the daemon too and is in AccountModel.      *)
(*                                                                         *)
(* The detail table of an account is one value of Details; modify() needs  *)
(* only to know whether the mandatory fields are filled (Complete).        *)
(***************************************************************************)
CONSTANTS
  Ids, NoId,  \* identifiers given by the daemon; the empty one
  Details,    \* contents of the detail table
  Complete    \* those modify() finds complete

\* What the daemon answers for an identifier it has not given yet, or whose
\* account is removed: an empty detail table.  Identifiers are not reused.
Nothing == {"unborn", "gone"}

ASSUME AccountAssumption ==
  NoId \notin Ids /\ Complete \subseteq Details /\ Details \cap Nothing = {}

Modified == {"MODIFIED_INCOMPLETE", "MODIFIED_COMPLETE"}
EditState == {"READY", "EDITING", "OUTDATED", "NEW", "REMOVED"} \cup Modified
EditAction == {"NOTHING", "EDIT", "RELOAD", "SAVE", "REMOVE", "MODIFY", "CANCEL"}

Accounts == [id: Ids \cup {NoId}, state: EditState, details: Details]
isNew(a) == a.id = NoId

\* The handler in each cell of the table.
stateMachineActionsOnState(s, act) ==
  CASE act = "EDIT" /\ s = "READY" -> "edit"
    [] act = "RELOAD" /\ s = "READY" -> "reload"
    [] act = "RELOAD" /\ s = "EDITING" -> "outdate"
    [] act = "SAVE" /\ s \in Modified \cup {"NEW"} -> "save"
    [] act = "REMOVE" /\ s # "REMOVED" -> "remove"
    [] act = "MODIFY" /\ s \in Modified \cup {"READY", "EDITING"} -> "modify"
    [] act = "MODIFY" /\ s = "OUTDATED" -> "reloadMod"
    [] act = "CANCEL" /\ s \in Modified \cup {"OUTDATED"} -> "reload"
    [] act = "CANCEL" /\ s \in {"EDITING", "REMOVED"} -> "cancel"
    [] OTHER -> "nothing"

-----------------------------------------------------------------------------
changeState(a, s) == [a EXCEPT !.state = s]

modify(a) ==
  changeState(a, IF a.details \in Complete THEN "MODIFIED_COMPLETE" ELSE "MODIFIED_INCOMPLETE")

\* Fault: the empty answer of the daemon is stored.
ReloadNotFound(a, remote) ==
  IF isNew(a) THEN a ELSE changeState([a EXCEPT !.details = remote], "READY")

\* An account the daemon does not know keeps its details, and is READY.
reload(a, remote) ==
  IF isNew(a) THEN a
  ELSE changeState([a EXCEPT !.details = IF remote \in Details THEN remote ELSE @], "READY")

\* The state a handler that touches nothing else sets.
Target == [edit |-> "EDITING", outdate |-> "OUTDATED", remove |-> "REMOVED", cancel |-> "READY"]

\* Every action but SAVE.
performAction(a, act, remote) ==
  LET handler == stateMachineActionsOnState(a.state, act)
  IN IF handler \in DOMAIN Target THEN changeState(a, Target[handler])
     ELSE IF handler = "modify" THEN modify(a)
     ELSE IF handler = "reload" THEN reload(a, remote)
     ELSE IF handler = "reloadMod" THEN modify(reload(a, remote))
     ELSE a

\* Fault: the state machine is not told.
SetQuietly(a, d, remote) == [a EXCEPT !.details = d]

\* The value is stored whatever the state, and before the table is asked.
setAccountProperty(a, d, remote) ==
  IF d = a.details THEN a ELSE performAction([a EXCEPT !.details = d], "MODIFY", remote)
=============================================================================
