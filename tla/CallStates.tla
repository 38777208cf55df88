----------------------------- MODULE CallStates -----------------------------
(***************************************************************************)
(* The constant part of a call's automaton: the enumerations of call.h and *)
(* private/call_p.h and the seven tables at the top of call.cpp.  A table  *)
(* is written one column at a time, grouping the rows that share a cell.   *)
(***************************************************************************)
EXTENDS Naturals, FiniteSets

State == {"NEW", "INCOMING", "RINGING", "CURRENT", "DIALING", "HOLD",
          "FAILURE", "BUSY", "TRANSFERRED", "TRANSF_HOLD", "OVER", "ERROR",
          "CONFERENCE", "CONFERENCE_HOLD", "INITIALIZATION", "ABORTED",
          "CONNECTED"}

Action == {"ACCEPT", "REFUSE", "TRANSFER", "HOLD",
           "RECORD_AUDIO", "RECORD_VIDEO", "RECORD_TEXT"}

DaemonState == {"RINGING", "CONNECTING", "CURRENT", "BUSY", "HOLD",
                "HUNG_UP", "FAILURE", "OVER", "INACTIVE"}

Phase == {"CREATION", "INITIALIZATION", "PROGRESS", "FINISHED"}

\* Rows that behave alike in several tables.
Transferring == {"TRANSFERRED", "TRANSF_HOLD"}
Conferencing == {"CONFERENCE", "CONFERENCE_HOLD"}
Talking == {"CURRENT", "HOLD"} \cup Transferring \cup Conferencing
Ended == {"FAILURE", "BUSY", "OVER", "ERROR", "ABORTED"}

LifeCycle(s) ==
  CASE s \in {"NEW", "DIALING"} -> "CREATION"
    [] s \in {"INCOMING", "RINGING", "INITIALIZATION", "CONNECTED"} -> "INITIALIZATION"
    [] s \in Talking -> "PROGRESS"
    [] OTHER -> "FINISHED"

\* HOLD and RECORD_AUDIO bring a conference back to a plain call state.
PlainState(s) ==
  CASE s = "CONFERENCE" -> "CURRENT" [] s = "CONFERENCE_HOLD" -> "HOLD" [] OTHER -> s

\* The rows of actionPerformedStateMap have five cells for seven actions: the
\* last two columns are value-initialised, that is State(0), NEW.
StateAfterAction(s, a) ==
  CASE a = "ACCEPT" ->
         (CASE s = "NEW" -> "DIALING"
            [] s \in {"INCOMING"} \cup Transferring -> s
            [] s \in {"DIALING", "INITIALIZATION"} -> "INITIALIZATION"
            [] OTHER -> "ERROR")
    [] a = "REFUSE" ->
         (CASE s = "NEW" -> "ABORTED"
            [] s \in {"INCOMING", "RINGING", "BUSY"} \cup Talking -> PlainState(s)
            [] s \in {"OVER", "ERROR", "ABORTED"} -> "ERROR"
            [] OTHER -> "OVER")
    [] a = "TRANSFER" ->
         (CASE s \in {"CURRENT", "CONFERENCE"} -> "TRANSFERRED"
            [] s \in {"HOLD", "CONFERENCE_HOLD"} -> "TRANSF_HOLD"
            [] s = "TRANSFERRED" -> "CURRENT"
            [] s = "TRANSF_HOLD" -> "HOLD"
            [] OTHER -> "ERROR")
    [] a = "HOLD" ->
         IF s \in {"INCOMING"} \cup Talking THEN PlainState(s) ELSE "ERROR"
    [] a = "RECORD_AUDIO" ->
         IF s \in {"INCOMING", "RINGING"} \cup Talking THEN PlainState(s) ELSE "ERROR"
    [] OTHER -> "NEW"

CallbackOfAction(s, a) ==
  CASE a = "ACCEPT" ->
         (CASE s = "INCOMING" -> "accept"
            [] s \in {"DIALING", "INITIALIZATION"} -> "call"
            [] s \in Transferring -> "transfer"
            [] OTHER -> "nothing")
    [] a = "REFUSE" ->
         (CASE s = "INCOMING" -> "refuse"
            [] s \in {"RINGING", "BUSY"} \cup Talking -> "hangUp"
            [] s \in {"FAILURE", "ERROR"} -> "remove"
            [] s \in {"INITIALIZATION", "ABORTED", "CONNECTED"} -> "cancel"
            [] OTHER -> "nothing")       \* abort() is empty as well
    [] a = "TRANSFER" ->
         (CASE s = "INCOMING" -> "acceptTransf"
            [] s \in Transferring -> "transfer"
            [] OTHER -> "nothing")
    [] a = "HOLD" ->
         (CASE s = "INCOMING" -> "acceptHold"
            [] s \in {"CURRENT", "TRANSFERRED", "CONFERENCE"} -> "hold"
            [] s \in {"HOLD", "TRANSF_HOLD", "CONFERENCE_HOLD"} -> "unhold"
            [] OTHER -> "nothing")
    [] a \in {"RECORD_AUDIO", "RECORD_VIDEO"} /\ s \in {"INCOMING", "RINGING"} \cup Talking ->
         IF a = "RECORD_AUDIO" THEN "toggleAudioRecord" ELSE "toggleVideoRecord"
    [] OTHER -> "nothing"

StateAfterSignal(s, d) ==
  IF s = "NEW" THEN (IF d = "INACTIVE" THEN "INITIALIZATION" ELSE "ERROR")
  ELSE IF s \in {"ERROR", "ABORTED"} THEN "ERROR"
  ELSE IF s = "OVER" THEN (IF d = "INACTIVE" THEN "ERROR" ELSE "OVER")
  ELSE
  CASE d \in {"BUSY", "FAILURE"} -> d
    [] d = "HUNG_UP" -> "OVER"
    [] d = "OVER" -> IF s = "FAILURE" THEN s ELSE "OVER"
    [] d = "CURRENT" ->
         (CASE s \in Transferring -> "TRANSFERRED" [] s = "FAILURE" -> s [] OTHER -> "CURRENT")
    [] d = "HOLD" ->
         (CASE s \in Transferring -> "TRANSF_HOLD" [] s \in {"FAILURE", "BUSY"} -> s [] OTHER -> "HOLD")
    [] d = "RINGING" ->
         IF s \in {"DIALING", "INITIALIZATION", "CONNECTED"} THEN "RINGING" ELSE PlainState(s)
    [] d = "CONNECTING" ->
         (CASE s \in {"RINGING", "CONNECTED"} -> "CONNECTED"
            [] s = "INITIALIZATION" -> s
            [] OTHER -> "ERROR")
    [] d = "INACTIVE" -> IF LifeCycle(s) = "INITIALIZATION" THEN s ELSE "ERROR"

CallbackOfSignal(s, d) ==
  IF d = "INACTIVE" \/ s = "NEW" THEN "nothing"
  ELSE
  CASE s = "ABORTED" -> "error"
    [] s = "ERROR" -> IF d = "HUNG_UP" THEN "stop" ELSE "error"
    [] s = "INCOMING" ->
         (CASE d = "CURRENT" -> "start" [] d \in {"BUSY", "HOLD"} -> "startWeird"
            [] d = "HUNG_UP" -> "startStop" [] d = "FAILURE" -> "failure"
            [] OTHER -> "nothing")
    [] s = "RINGING" ->
         (CASE d \in {"CURRENT", "HOLD"} -> "start" [] d = "HUNG_UP" -> "startStop"
            [] d \in {"BUSY", "FAILURE"} -> "failure" [] OTHER -> "nothing")
    [] OTHER ->
         (CASE d = "HUNG_UP" \/ (d = "OVER" /\ s \notin {"OVER", "FAILURE"}) -> "stop"
            [] \/ d = "BUSY" /\ s # "BUSY"
               \/ d \in {"CURRENT", "HOLD"} /\ s \notin Talking /\ <<s, d>> # <<"BUSY", "CURRENT">>
               \/ d = "FAILURE" /\ s \in {"DIALING", "INITIALIZATION", "CONNECTED", "OVER"}
                 -> "warning"
            [] OTHER -> "nothing")

\* Fault: the row of PROGRESS forgets that a communication can fail.
ValidTransitionWithoutFailure(s, p) ==
  p = "PROGRESS" => s \in {"CURRENT", "HOLD", "OVER", "ERROR"} \cup Transferring

\* metaStateTransitionValidationMap: may a call of lifecycle p enter state s?
ValidTransition(s, p) ==
  CASE p = "CREATION" -> s \in {"NEW", "RINGING", "DIALING", "ERROR",
                                "INITIALIZATION", "ABORTED", "CONNECTED"}
    [] p = "INITIALIZATION" -> s \notin Transferring
    [] p = "PROGRESS" -> s \in {"CURRENT", "HOLD", "FAILURE", "OVER", "ERROR"} \cup Transferring
    [] OTHER -> s \in Ended

\* Fault: UNHOLD is not among the known names.
ToDaemonStateWithoutUnhold(name) ==
  CASE name = "HUNGUP" -> "HUNG_UP"
    [] name = "INCOMING" -> "RINGING"
    [] name \in DaemonState \ {"HUNG_UP"} -> name
    [] OTHER -> "FAILURE"

\* toDaemonCallState: INCOMING counts as ringing, UNHOLD as current.
ToDaemonState(name) ==
  CASE name = "HUNGUP" -> "HUNG_UP"
    [] name = "INCOMING" -> "RINGING"
    [] name = "UNHOLD" -> "CURRENT"
    [] name \in DaemonState \ {"HUNG_UP"} -> name
    [] OTHER -> "FAILURE"

\* confStatetoCallState, on the names of ConferenceStateChange.
ConferenceState(name) ==
  CASE name = "CONF_HOLD" -> "CONFERENCE_HOLD"
    [] name \in {"CONF_ACTIVE_ATTACHED", "CONF_ACTIVE_DETACHED"} -> "CONFERENCE"
    [] OTHER -> "ERROR"

\* What UserActionModel enables on a selected call (availableActionMap).
Offered(s) ==
  {a \in Action :
     \/ a = "ACCEPT" /\ s \in {"INCOMING", "DIALING"}
     \/ a = "REFUSE" /\ s \notin {"OVER", "ABORTED"}
     \/ a = "HOLD" /\ s \in {"CURRENT", "HOLD", "CONFERENCE"}
     \/ a = "TRANSFER" /\ s \in {"CURRENT", "HOLD"}
     \/ a = "RECORD_AUDIO" /\ s \in {"RINGING"} \cup Talking}
=============================================================================
