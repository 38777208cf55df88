-------------------------------- MODULE Call --------------------------------
(***************************************************************************)
(* One Call object (call.cpp) and the daemon's side of it.                 *)
(*                                                                         *)
(* The client runs on one thread, but every daemon signal reaches it       *)
(* through a queued connection (CallModelPrivate::init): the user may act  *)
(* any number of times between the moment the daemon changes state and the *)
(* moment the client hears of it.  Requests to the daemon are answered     *)
(* synchronously.  `call' is the object's state, `daemon' the external     *)
(* process, `signals' the queue between them.                              *)
(***************************************************************************)
EXTENDS CallStates, Sequences

CONSTANTS
  Origins,       \* how a call comes to exist: subset of the names in Origin
  Inputs,        \* what the user does: subset of Action \cup Edit
  UiOnly,        \* TRUE: actions only as UserActionModel offers them
  DaemonEvents,  \* beyond the ordinary sequence: subset of OptionalEvent
  Profiles,      \* whether a profile is selected when it should be sent
  Videos,        \* whether the daemon reports an outgoing video source
  RingAccount,   \* the call's account uses the RING protocol
  MaxSignals     \* bound: signals in flight

Origin == {"dialing", "incoming", "existing", "history", "conference"}
Edit == {"setDialNumber", "setPeerContactMethod", "appendText",
         "backspaceItemText", "reset", "setTransferNumber"}
OptionalEvent == {"restart", "peerHold", "unordered"}

ASSUME ConstantsAssumption ==
  /\ Origins \subseteq Origin
  /\ Inputs \subseteq Action \cup Edit
  /\ DaemonEvents \subseteq OptionalEvent
  /\ UiOnly \in BOOLEAN /\ RingAccount \in BOOLEAN
  /\ Profiles \subseteq BOOLEAN /\ Videos \subseteq BOOLEAN
  /\ MaxSignals \in Nat

VARIABLES call, daemon, signals
vars == <<call, daemon, signals>>

MediaKind == {"audioIn", "audioOut", "videoOut", "textOut"}
Number == {"null", "empty", "number"}   \* a contact method, by its URI

Calls == [type: {"CALL", "CONFERENCE"}, state: State,
          dial: Number, peer: Number, transfer: Number,
          holdOut: BOOLEAN, holdIn: BOOLEAN, media: [MediaKind -> Nat],
          timer: {"null", "running", "stopped"},
          stopped: BOOLEAN, missed: BOOLEAN, recording: SUBSET {"AUDIO", "VIDEO"},
          unexpected: BOOLEAN, \* an assertion of stateChanged() was false
          crashed: BOOLEAN]    \* a null pointer was dereferenced

-----------------------------------------------------------------------------
(* The daemon (external): its call, and the signals it sends about it.      *)

DaemonCall == {"none", "connecting", "ringing", "incoming", "current", "hold",
               "busy", "failed", "hungup", "over", "gone", "confActive", "confHold"}
Known == DaemonCall \ {"none", "hungup", "over", "gone"}
Communicating == {"current", "hold"}
InConference == {"confActive", "confHold"}

StateSignal == (DaemonState \ {"HUNG_UP"}) \cup
               {"HUNGUP", "HUNGUP_REFUSED", "INCOMING", "UNHOLD"}
ConferenceSignal == {"CONF_ACTIVE_ATTACHED", "CONF_ACTIVE_DETACHED",
                     "CONF_HOLD", "CONF_REMOVED"}
Signal == StateSignal \cup ConferenceSignal \cup
          {"PEER_HOLD", "PEER_UNHOLD", "RECORD_ON", "RECORD_OFF"}

\* The daemon moves to state d of its call and emits the signals q.
Become(d, q) ==
  /\ Len(signals) + Len(q) <= MaxSignals
  /\ daemon' = [daemon EXCEPT !.call = d]
  /\ signals' = signals \o q

Quiet == UNCHANGED <<daemon, signals>>

DaemonAnswer == IF daemon.call = "incoming" THEN Become("current", <<"CURRENT">>) ELSE Quiet

DaemonHold ==
  CASE daemon.call = "current" -> Become("hold", <<"HOLD">>)
    [] daemon.call = "confActive" -> Become("confHold", <<"CONF_HOLD">>)
    [] OTHER -> Quiet

DaemonUnhold ==
  CASE daemon.call = "hold" -> \E s \in {"CURRENT", "UNHOLD"} : Become("current", <<s>>)
    [] daemon.call = "confHold" -> Become("confActive", <<"CONF_ACTIVE_ATTACHED">>)
    [] OTHER -> Quiet

\* hangUp, hangUpConference and refuse succeed exactly on a call it knows.
DaemonHangUp ==
  CASE daemon.call \in InConference -> Become("over", <<"CONF_REMOVED">>)
    [] daemon.call \in Known \ InConference -> Become("hungup", <<"HUNGUP">>)
    [] OTHER -> Quiet

DaemonProgress ==
  \/ /\ daemon.call = "connecting"
     /\ \/ \E s \in {"INACTIVE", "CONNECTING"} : Become("connecting", <<s>>)
        \/ Become("ringing", <<"RINGING">>)
  \/ daemon.call = "ringing" /\ Become("connecting", <<"CONNECTING">>)
  \/ daemon.call \in {"connecting", "ringing"} /\ Become("current", <<"CURRENT">>)
  \/ daemon.call = "current" /\ Become("hold", <<"HOLD">>)
  \/ daemon.call = "hold" /\ Become("current", <<"CURRENT">>)
  \/ daemon.call = "confActive" /\
       \E s \in {"CONF_ACTIVE_ATTACHED", "CONF_ACTIVE_DETACHED"} : Become("confActive", <<s>>)

DaemonEnds ==
  \/ daemon.call \in {"connecting", "ringing"} /\ Become("busy", <<"BUSY">>)
  \/ daemon.call \in {"connecting", "ringing"} /\ Become("hungup", <<"HUNGUP_REFUSED">>)
  \/ daemon.call \in Known \ ({"busy", "failed"} \cup InConference) /\
       (Become("failed", <<"FAILURE">>) \/ Become("hungup", <<"HUNGUP">>))
  \/ daemon.call \in {"busy", "failed", "hungup"} /\ Become("over", <<"OVER">>)
  \/ daemon.call \in InConference /\ Become("over", <<"CONF_REMOVED">>)

PeerHolds ==
  /\ "peerHold" \in DaemonEvents /\ daemon.call \in Communicating
  /\ Len(signals) < MaxSignals
  /\ daemon' = [daemon EXCEPT !.peerHold = ~@]
  /\ signals' = Append(signals, IF daemon.peerHold THEN "PEER_UNHOLD" ELSE "PEER_HOLD")

\* It crashes and is started again: the call is gone, no signal says so.
DaemonRestarts ==
  /\ "restart" \in DaemonEvents /\ daemon.call \in Known
  /\ daemon' = [daemon EXCEPT !.call = "gone"]
  /\ UNCHANGED signals

\* A signal about the call in no particular order.
DaemonUnordered ==
  /\ "unordered" \in DaemonEvents
  /\ \E s \in IF call.type = "CALL" THEN StateSignal ELSE ConferenceSignal :
        Become(daemon.call, <<s>>)

DaemonStep == PeerHolds \/ DaemonRestarts \/ DaemonUnordered \/ DaemonProgress \/ DaemonEnds

-----------------------------------------------------------------------------
(* State changes of the client's object.                                    *)

\* Faults: one audio pair deleted instead of all media; the audio media created
\* again for every state of the communication.
MediaAfterDeletingOnePair(c, s) ==
  IF LifeCycle(s) = LifeCycle(c.state) THEN c.media
  ELSE
  CASE LifeCycle(s) = "PROGRESS" ->
         [c.media EXCEPT !["audioIn"] = @ + 1, !["audioOut"] = @ + 1]
    [] LifeCycle(s) = "FINISHED" ->
         [c.media EXCEPT !["audioIn"] = @ - 1, !["audioOut"] = @ - 1]
    [] OTHER -> c.media
MediaAfterEveryState(c, s) ==
  CASE LifeCycle(s) = "PROGRESS" ->
         [c.media EXCEPT !["audioIn"] = @ + 1, !["audioOut"] = @ + 1]
    [] LifeCycle(s) = "FINISHED" -> [k \in MediaKind |-> 0]
    [] OTHER -> c.media

\* Audio media are created on entering PROGRESS and all media deleted on
\* entering FINISHED (m_mLifeCycleStateChanges, initMedia, terminateMedia).
MediaAfter(c, s) ==
  IF LifeCycle(s) = LifeCycle(c.state) THEN c.media
  ELSE
  CASE LifeCycle(s) = "PROGRESS" ->
         [c.media EXCEPT !["audioIn"] = @ + 1, !["audioOut"] = @ + 1]
    [] LifeCycle(s) = "FINISHED" -> [k \in MediaKind |-> 0]
    [] OTHER -> c.media

TimerOf(s) == IF LifeCycle(s) \in {"INITIALIZATION", "PROGRESS"} THEN "running" ELSE "null"

\* Fault: the refresh timer is not looked at.
changeCurrentStateOnly(c, s) ==
  IF s = c.state THEN c ELSE [c EXCEPT !.state = s, !.media = MediaAfter(c, s)]

changeCurrentState(c, s) ==
  IF s = c.state THEN c
  ELSE [c EXCEPT !.state = s, !.media = MediaAfter(c, s), !.timer = TimerOf(s)]

DiscardDialNumber(c) ==
  IF c.dial = "null" THEN c
  ELSE [c EXCEPT !.peer = IF @ = "null" THEN c.dial ELSE @, !.dial = "null"]

sendProfile(c, profile) ==
  IF profile THEN [c EXCEPT !.media["textOut"] = @ + 1] ELSE c

\* Fault: start() sends the profile a second time.
startTwice(c, profile) ==
  LET d == DiscardDialNumber(c)
  IN sendProfile(sendProfile([d EXCEPT !.timer = TimerOf(d.state)], profile), profile)

start(c, profile) ==
  LET d == DiscardDialNumber(c)
  IN sendProfile([d EXCEPT !.timer = TimerOf(d.state)], profile)

\* The callbacks of stateChangedFunctionMap, but error().
SignalCallback(f, c, profile) ==
  CASE f = "start" -> start(c, profile)
    [] f = "failure" -> start([c EXCEPT !.missed = TRUE], profile)
    [] f = "startWeird" -> sendProfile(c, profile)
    [] f = "startStop" -> [c EXCEPT !.missed = TRUE, !.stopped = TRUE]
    [] f = "stop" -> [c EXCEPT !.stopped = TRUE]
    [] f = "warning" -> [c EXCEPT !.stopped = @ \/ c.state \in {"FAILURE", "ERROR"}]
    [] OTHER -> c

updateOutgoingMedia(c, video) ==
  [c EXCEPT !.media["videoOut"] = IF video /\ @ = 0 THEN 1 ELSE @]

\* stateChanged() for a plain call.
CallStateChanged(c, d, video, profile) ==
  LET s == StateAfterSignal(c.state, d)
      f == CallbackOfSignal(c.state, d)
      moved == changeCurrentState(c, s)
      held == updateOutgoingMedia(
                [moved EXCEPT !.holdOut = (s = "HOLD"),
                              !.unexpected = @ \/ ~ValidTransition(s, LifeCycle(c.state))],
                video)
      done == SignalCallback(f, held, profile)
  IN IF f = "error" THEN changeCurrentState(held, "ERROR")
     ELSE IF LifeCycle(done.state) = "CREATION" THEN done ELSE DiscardDialNumber(done)

\* stateChanged() for a conference: neither timer nor media follow.
ConferenceStateChanged(c, name) == DiscardDialNumber([c EXCEPT !.state = ConferenceState(name)])

-----------------------------------------------------------------------------
(* Call::performAction: the state table first, then the callback of the     *)
(* state the call was in, on the changed object c.                          *)

accept(c) == call' = c /\ DaemonAnswer

refuse(c) ==
  /\ call' = IF daemon.call \in Known THEN [c EXCEPT !.missed = TRUE]
             ELSE changeCurrentState([c EXCEPT !.missed = TRUE], "ERROR")
  /\ DaemonHangUp

acceptTransf(c) ==
  call' = c /\ IF c.transfer = "null" THEN Quiet ELSE DaemonAnswer

acceptHold(c) ==
  /\ call' = c
  /\ IF daemon.call = "incoming" THEN Become("hold", <<"CURRENT", "HOLD">>) ELSE DaemonHold

\* Faults: no stop timestamp; the daemon's refusal to hang up not looked at.
hangUpUnstamped(c) ==
  /\ call' = IF daemon.call \notin Known THEN changeCurrentState(c, "OVER") ELSE c
  /\ DaemonHangUp
hangUpIgnoringReply(c) ==
  call' = [c EXCEPT !.stopped = TRUE] /\ DaemonHangUp

hangUp(c) ==
  LET ended == [c EXCEPT !.stopped = TRUE]
  IN /\ call' = IF daemon.call \notin Known THEN changeCurrentState(ended, "OVER")
                ELSE [ended EXCEPT !.timer = IF @ = "null" THEN @ ELSE "stopped"]
     /\ DaemonHangUp

\* remove() hangs up to silence the daemon; abort() does nothing at all.
remove(c) ==
  /\ call' = IF LifeCycle(c.state) = "FINISHED" THEN c ELSE changeCurrentState(c, "ERROR")
  /\ DaemonHangUp

cancel(c) ==
  /\ call' = IF daemon.call \in Known THEN c ELSE changeCurrentState(c, "OVER")
  /\ DaemonHangUp

hold(c) == call' = [c EXCEPT !.holdOut = TRUE] /\ DaemonHold

unhold(c) == call' = [c EXCEPT !.holdOut = FALSE] /\ DaemonUnhold

\* The daemon answers with the fate of the transfer, later.
transfer(c) ==
  call' = (IF c.transfer = "null" THEN c ELSE [c EXCEPT !.stopped = TRUE]) /\ Quiet

toggleRecord(c, media) ==
  LET on == daemon.call \in Known /\ ~daemon.recording
  IN /\ call' = [c EXCEPT !.recording = IF on THEN @ \cup {media} ELSE @ \ {media}]
     /\ IF daemon.call \notin Known THEN Quiet
        ELSE /\ Len(signals) < MaxSignals
             /\ daemon' = [daemon EXCEPT !.recording = on]
             /\ signals' = Append(signals, IF on THEN "RECORD_ON" ELSE "RECORD_OFF")

Crash(c) == call' = [c EXCEPT !.crashed = TRUE] /\ Quiet

\* call(): m_pDialNumber is dereferenced without a check once an account is
\* found.  A call placed anew replaces the one the daemon had.
PlaceCall(c) ==
  LET uri == IF c.peer = "null" THEN c.dial ELSE c.peer
      ready == [c EXCEPT !.peer = uri, !.dial = "null"]
  IN CASE uri = "null" -> Crash(c)
       [] uri = "empty" ->
            call' = [changeCurrentState(c, "ABORTED") EXCEPT !.dial = "null"] /\ Quiet
       [] OTHER ->
            \/ call' = changeCurrentState(c, "ERROR") /\ Quiet     \* no account: throws
            \/ c.dial = "null" /\ Crash(c)
            \/ /\ c.dial # "null"
               /\ call' = changeCurrentState(ready, "FAILURE") /\ Quiet
            \/ /\ c.dial # "null"
               /\ call' = ready
               /\ daemon' = [call |-> "connecting", peerHold |-> FALSE, recording |-> FALSE]
               /\ UNCHANGED signals

ActionCallback(f, c) ==
  \/ f = "nothing" /\ call' = c /\ Quiet
  \/ f = "accept" /\ accept(c)
  \/ f = "refuse" /\ refuse(c)
  \/ f = "acceptTransf" /\ acceptTransf(c)
  \/ f = "acceptHold" /\ acceptHold(c)
  \/ f = "hangUp" /\ hangUp(c)
  \/ f = "remove" /\ remove(c)
  \/ f = "cancel" /\ cancel(c)
  \/ f = "hold" /\ hold(c)
  \/ f = "unhold" /\ unhold(c)
  \/ f = "transfer" /\ transfer(c)
  \/ f = "call" /\ PlaceCall(c)
  \/ f = "toggleAudioRecord" /\ toggleRecord(c, "AUDIO")
  \/ f = "toggleVideoRecord" /\ toggleRecord(c, "VIDEO")

performAction(a) ==
  /\ a \in Inputs /\ ~call.crashed
  /\ UiOnly => a \in Offered(call.state)
  /\ ActionCallback(CallbackOfAction(call.state, a),
                    changeCurrentState(call, StateAfterAction(call.state, a)))

-----------------------------------------------------------------------------
(* Keyboard handling.                                                       *)

Editing(e) == e \in Inputs /\ ~call.crashed /\ Quiet
Creating == LifeCycle(call.state) = "CREATION"

Dialed(c, n) ==
  IF c.dial = "null" THEN [c EXCEPT !.crashed = TRUE]
  ELSE CASE n = "number" /\ c.state = "NEW" -> changeCurrentState([c EXCEPT !.dial = n], "DIALING")
         [] n = "empty" /\ c.state = "DIALING" -> changeCurrentState([c EXCEPT !.dial = n], "NEW")
         [] OTHER -> [c EXCEPT !.dial = n]

setDialNumber ==
  Editing("setDialNumber") /\ Creating /\ \E n \in {"empty", "number"} : call' = Dialed(call, n)

setPeerContactMethod ==
  /\ Editing("setPeerContactMethod") /\ Creating
  /\ \E n \in {"empty", "number"} : call' = Dialed([call EXCEPT !.peer = n], n)

\* Of a non-empty text.
appendText ==
  /\ Editing("appendText")
  /\ \/ /\ Creating
        /\ call' = [changeCurrentState(call, "DIALING") EXCEPT
                      !.dial = IF @ = "null" THEN @ ELSE "number"]
     \/ /\ call.state \in Transferring /\ call.transfer # "null"
        /\ call' = [call EXCEPT !.transfer = "number"]

\* Removing from an empty number aborts the call.
backspaceItemText ==
  /\ Editing("backspaceItemText")
  /\ \/ Creating /\ call.dial = "null" /\ call' = [call EXCEPT !.crashed = TRUE]
     \/ /\ Creating /\ call.dial = "number"
        /\ \E n \in {"empty", "number"} :
              call' = [changeCurrentState(call, "DIALING") EXCEPT !.dial = n]
     \/ /\ call.state \in Transferring /\ call.transfer = "number"
        /\ \E n \in {"empty", "number"} : call' = [call EXCEPT !.transfer = n]
     \/ /\ \/ Creating /\ call.dial = "empty"
           \/ call.state \in Transferring /\ call.transfer = "empty"
        /\ call' = changeCurrentState(call, "ABORTED")

\* Fault: reset() whatever the life cycle.
resetAnyState ==
  /\ Editing("reset")
  /\ call' = [changeCurrentState(call, "NEW") EXCEPT !.dial = IF @ = "null" THEN @ ELSE "empty"]

reset ==
  /\ Editing("reset")
  /\ \/ Creating /\ call' = [changeCurrentState(call, "NEW") EXCEPT
                               !.dial = IF @ = "null" THEN @ ELSE "empty"]
     \/ /\ call.state \in Transferring /\ call.transfer # "null"
        /\ call' = [call EXCEPT !.transfer = "empty"]

setTransferNumber ==
  Editing("setTransferNumber") /\ \E n \in {"empty", "number"} : call' = [call EXCEPT !.transfer = n]

Edits == setDialNumber \/ setPeerContactMethod \/ appendText \/ backspaceItemText
         \/ reset \/ setTransferNumber

-----------------------------------------------------------------------------
(* The slots of CallModel that hand the next queued signal to the call.     *)

Dequeue == signals # <<>> /\ ~call.crashed /\ signals' = Tail(signals) /\ UNCHANGED daemon

\* slotCallStateChanged turns a refused RING call into a busy one.
StateName(sig) ==
  CASE sig = "HUNGUP_REFUSED" -> IF RingAccount THEN "BUSY" ELSE "HUNGUP" [] OTHER -> sig

\* Fault: the last signals of a call are dropped, its details being gone.
slotCallStateChangedUntilEnd ==
  /\ Dequeue /\ Head(signals) \in StateSignal
  /\ \E profile \in Profiles, video \in Videos :
       /\ video => daemon.call \in Communicating
       /\ call' = IF daemon.call \in Known
                  THEN CallStateChanged(call, ToDaemonState(StateName(Head(signals))), video, profile)
                  ELSE call

slotCallStateChanged ==
  /\ Dequeue /\ Head(signals) \in StateSignal
  /\ \E profile \in Profiles, video \in Videos :
       /\ video => daemon.call \in Communicating
       /\ call' = CallStateChanged(call, ToDaemonState(StateName(Head(signals))), video, profile)

\* A conference that left the tree (slotCallChanged) hears no change any more;
\* the identifier of a plain call never comes with a conference's signals.
slotChangingConference ==
  /\ Dequeue /\ Head(signals) \in ConferenceSignal \ {"CONF_REMOVED"}
  /\ call.type = "CONFERENCE"
  /\ call' = IF call.state \in {"ERROR", "ABORTED", "OVER"} THEN call
             ELSE ConferenceStateChanged(call, Head(signals))

slotConferenceRemoved ==
  /\ Dequeue /\ Head(signals) = "CONF_REMOVED"
  /\ call.type = "CONFERENCE"
  /\ call' = changeCurrentState(call, "OVER")

slotPeerHold ==
  /\ Dequeue /\ Head(signals) \in {"PEER_HOLD", "PEER_UNHOLD"}
  /\ call' = [call EXCEPT !.holdIn = (Head(signals) = "PEER_HOLD")]

slotRecordStateChanged ==
  /\ Dequeue /\ Head(signals) \in {"RECORD_ON", "RECORD_OFF"}
  /\ call' = [call EXCEPT !.recording = IF Head(signals) = "RECORD_ON" THEN {"AUDIO", "VIDEO"} ELSE {}]

DeliverSignal == slotCallStateChanged \/ slotChangingConference \/ slotConferenceRemoved
                 \/ slotPeerHold \/ slotRecordStateChanged

-----------------------------------------------------------------------------
NewCall == [type |-> "CALL", state |-> "NEW", dial |-> "empty", peer |-> "null",
            transfer |-> "null", holdOut |-> FALSE, holdIn |-> FALSE,
            media |-> [k \in MediaKind |-> 0], timer |-> "null",
            stopped |-> FALSE, missed |-> FALSE, recording |-> {},
            unexpected |-> FALSE, crashed |-> FALSE]

\* buildCall(): no callback of the state table runs.
BuiltCall(s, video, recorded) ==
  [NewCall EXCEPT !.state = s, !.peer = "number", !.timer = TimerOf(s),
                  !.media["videoOut"] = IF video THEN 1 ELSE 0,
                  !.recording = IF recorded THEN {"AUDIO", "VIDEO"} ELSE {}]

StartStates(d) ==
  CASE d = "connecting" -> {"RINGING", "INITIALIZATION"}
    [] d = "ringing" -> {"RINGING"}
    [] d = "incoming" -> {"INCOMING"}
    [] d = "current" -> {"CURRENT"}
    [] d = "hold" -> {"HOLD"}
    [] d = "busy" -> {"BUSY"}
    [] OTHER -> {"FAILURE"}

DaemonIn(d, recording) == [call |-> d, peerHold |-> FALSE, recording |-> recording]

InitDialing == call = NewCall /\ daemon = DaemonIn("none", FALSE) /\ signals = <<>>

\* The state change of an incoming call may follow the incomingCall signal.
InitIncoming ==
  /\ call = BuiltCall("INCOMING", FALSE, FALSE) /\ daemon = DaemonIn("incoming", FALSE)
  /\ signals \in {<<>>, <<"INCOMING">>}

\* A call the daemon already has when the client starts or hears of it.
InitExisting ==
  /\ \E d \in Known \ InConference, r \in BOOLEAN, v \in Videos :
       /\ (r \/ v) => d \in Communicating
       /\ daemon = DaemonIn(d, r)
       /\ \E s \in StartStates(d) : call = BuiltCall(s, v, r)
  /\ signals = <<>>

InitHistory ==
  /\ \E m \in BOOLEAN : call = [BuiltCall("OVER", FALSE, FALSE) EXCEPT !.stopped = TRUE, !.missed = m]
  /\ daemon = DaemonIn("none", FALSE) /\ signals = <<>>

InitConference ==
  /\ \E d \in InConference :
       /\ daemon = DaemonIn(d, FALSE)
       /\ call = [NewCall EXCEPT !.type = "CONFERENCE", !.timer = "running",
                    !.state = IF d = "confHold" THEN "CONFERENCE_HOLD" ELSE "CONFERENCE"]
  /\ signals = <<>>

Init ==
  \/ "dialing" \in Origins /\ InitDialing
  \/ "incoming" \in Origins /\ InitIncoming
  \/ "existing" \in Origins /\ InitExisting
  \/ "history" \in Origins /\ InitHistory
  \/ "conference" \in Origins /\ InitConference

UserStep == (\E a \in Action : performAction(a)) \/ Edits
Environment == DaemonStep /\ ~call.crashed /\ UNCHANGED call

Next == UserStep \/ DeliverSignal \/ Environment

Spec == Init /\ [][Next]_vars

\* The event loop runs: a queued signal is delivered.  The daemon closes a
\* call that ended.
FairSpec == Spec /\ WF_vars(DeliverSignal)

-----------------------------------------------------------------------------
(* Properties.                                                              *)

\* Every field stays in its domain.
TypeOK ==
  /\ call \in Calls
  /\ daemon \in [call: DaemonCall, peerHold: BOOLEAN, recording: BOOLEAN]
  /\ signals \in Seq(Signal)

Phase_(c) == LifeCycle(c.state)
Settled == signals = <<>> /\ ~call.crashed

\* Once the client has heard everything, it shows the daemon's call as the
\* daemon has it: its state, who holds it and whether it is recorded, whatever
\* the user did while signals were on their way.  performAction(), hold() and
\* toggleRecord() change the client before the daemon obeys, or refuses;
\* slotCallStateChanged(), slotPeerHold() and slotRecordStateChanged() correct it.
StateAgrees ==
  CASE daemon.call = "connecting" -> Phase_(call) = "INITIALIZATION"
    [] daemon.call = "ringing" -> call.state = "RINGING"
    [] daemon.call = "incoming" -> call.state = "INCOMING"
    [] daemon.call = "current" -> call.state \in {"CURRENT", "TRANSFERRED"}
    [] daemon.call = "hold" -> call.state \in {"HOLD", "TRANSF_HOLD"}
    [] daemon.call \in {"busy", "failed", "hungup", "over"} -> call.state \in Ended
    [] OTHER -> TRUE
HoldFlagsAgree ==
  daemon.call \in Communicating /\ Phase_(call) = "PROGRESS" =>
    call.holdOut = (daemon.call = "hold") /\ call.holdIn = daemon.peerHold
RecordingAgrees == daemon.call \in Communicating => (call.recording # {}) = daemon.recording
ClientAgrees ==
  Settled /\ call.type = "CALL" => StateAgrees /\ HoldFlagsAgree /\ RecordingAgrees

\* A daemon that keeps to the ordinary sequence never trips the life cycle
\* assertion of stateChanged(), however late its signals come, and no handler
\* dereferences a contact method or a dial number that is null.
NoFault == ~call.unexpected /\ ~call.crashed

\* At most one audio medium per direction, and none before or after the
\* communication, whatever the order of signals and actions.
AudioOnlyInProgress ==
  \A k \in {"audioIn", "audioOut"} :
    call.media[k] <= (IF Phase_(call) = "PROGRESS" THEN 1 ELSE 0)

\* The profile goes out at most once per call, on every path that starts one.
ProfileSentOnce == call.media["textOut"] <= 1

\* What a phase needs is there, on whatever path the call got there: the dial
\* number while it is being created, which setDialNumber() and
\* backspaceItemText() dereference without looking, and the once-a-second
\* refresh timer exactly while a plain call is live.
ObjectsFollowLife ==
  /\ Phase_(call) = "CREATION" => call.dial # "null"
  /\ call.type = "CALL" =>
       (call.timer # "null") = (Phase_(call) \in {"INITIALIZATION", "PROGRESS"})

\* ABORTED is for calls dropped before being sent to the daemon (call.h).
AbortedNeverSent == call.state = "ABORTED" => daemon.call \notin Known

\* A communication that ends normally gets the timestamp its duration is
\* computed from, in the very step that ends it.
EndIsStamped ==
  [][call.type = "CALL" /\ Phase_(call) = "PROGRESS" /\ call'.state = "OVER"
     => call'.stopped]_vars

\* The red button always ends the call: it is finished at once, or the
\* signal that will finish it is on its way.
HangUpEnds ==
  [][performAction("REFUSE") =>
       \/ Phase_(call') = "FINISHED"
       \/ \E i \in 1 .. Len(signals') : signals'[i] \in {"HUNGUP", "CONF_REMOVED"}]_vars

\* A call never goes backward in its lifecycle, and its audio follows.
LifeCycles == INSTANCE CallLifeCycle WITH
  phase <- LifeCycle(call.state), audio <- call.media["audioIn"] > 0
ForwardOnly == LifeCycles!Spec

\* Every call the daemon has closed is eventually closed in the client.
EndIsNoticed == (daemon.call = "over") ~> (call.crashed \/ Phase_(call) = "FINISHED")
=============================================================================
