----------------------------- MODULE CallProofs -----------------------------
(***************************************************************************)
(* What TLAPS proves of Call, for every choice of its constants.           *)
(***************************************************************************)
EXTENDS Call, TLAPS

\* The two actions whose columns are missing from actionPerformedStateMap; no
\* client of the library offers them.
Untabled == {"RECORD_VIDEO", "RECORD_TEXT"}

\* The call has been answered, or is over.
Begun(s) == LifeCycle(s) \in {"PROGRESS", "FINISHED"}

-----------------------------------------------------------------------------
(* The tables.                                                              *)

LEMMA Phases == \A s \in State : LifeCycle(s) \in Phase
BY DEF State, LifeCycle, Phase

\* Every cell of actionPerformedStateMap is a state.
LEMMA StateAfterActionType == \A s \in State, a \in Action : StateAfterAction(s, a) \in State
BY DEF State, Action, StateAfterAction, PlainState, Transferring, Conferencing, Talking

\* Every cell of stateChangedStateMap is a state.
LEMMA StateAfterSignalType ==
  \A s \in State, d \in DaemonState : StateAfterSignal(s, d) \in State
BY DEF State, DaemonState, StateAfterSignal, PlainState, LifeCycle, Transferring, Conferencing, Talking

\* No tabled action undoes an answer.
LEMMA ActionKeepsBegun ==
  \A s \in State, a \in Action \ Untabled : Begun(s) => Begun(StateAfterAction(s, a))
BY DEF State, Action, Untabled, Begun, StateAfterAction, PlainState, LifeCycle,
       Transferring, Conferencing, Talking

\* Nor does a signal.
LEMMA SignalKeepsBegun ==
  \A s \in State, d \in DaemonState : Begun(s) => Begun(StateAfterSignal(s, d))
<1> SUFFICES ASSUME NEW s \in State, NEW d \in DaemonState, Begun(s)
             PROVE  Begun(StateAfterSignal(s, d))
  OBVIOUS
<1>1. s \in Talking \cup Ended
  BY DEF Begun, LifeCycle, State, Talking, Ended, Transferring, Conferencing
<1>2. StateAfterSignal(s, d) \in Talking \cup Ended
  BY <1>1 DEF DaemonState, StateAfterSignal, PlainState, LifeCycle, Talking, Ended,
              Transferring, Conferencing
<1>3. \A t \in Talking \cup Ended : Begun(t)
  BY DEF Begun, LifeCycle, Talking, Ended, Transferring, Conferencing
<1> QED BY <1>2, <1>3

\* Only what was being created can go on being created.
LEMMA ActionLeavesCreation ==
  \A s \in State, a \in Action \ Untabled :
    LifeCycle(StateAfterAction(s, a)) = "CREATION" => LifeCycle(s) = "CREATION"
BY DEF State, Action, Untabled, StateAfterAction, PlainState, LifeCycle,
       Transferring, Conferencing, Talking

\* What the daemon has heard of is created.
LEMMA SignalEndsCreation ==
  \A s \in State, d \in DaemonState : LifeCycle(StateAfterSignal(s, d)) # "CREATION"
<1>1. ASSUME NEW s \in State, NEW d \in DaemonState
      PROVE  StateAfterSignal(s, d) \notin {"NEW", "DIALING"}
  <2>1. CASE s \in {"NEW", "DIALING"}
    BY <2>1 DEF DaemonState, StateAfterSignal, PlainState, LifeCycle, Transferring
  <2>2. CASE s \notin {"NEW", "DIALING"}
    BY <2>2 DEF DaemonState, StateAfterSignal, PlainState
  <2> QED BY <2>1, <2>2
<1>2. \A t \in State : t \notin {"NEW", "DIALING"} => LifeCycle(t) # "CREATION"
  BY DEF LifeCycle
<1> QED BY <1>1, <1>2, StateAfterSignalType

\* A profile is sent on the way out of the initialization only.
LEMMA SendingSignals ==
  \A s \in State, d \in DaemonState :
    CallbackOfSignal(s, d) \in {"start", "failure", "startWeird"} =>
      LifeCycle(s) = "INITIALIZATION" /\ Begun(StateAfterSignal(s, d))
<1> SUFFICES ASSUME NEW s \in State, NEW d \in DaemonState,
                    CallbackOfSignal(s, d) \in {"start", "failure", "startWeird"}
             PROVE  LifeCycle(s) = "INITIALIZATION" /\ Begun(StateAfterSignal(s, d))
  OBVIOUS
<1>1. s \in {"INCOMING", "RINGING"} /\ d \in {"CURRENT", "HOLD", "BUSY", "FAILURE"}
  BY DEF State, DaemonState, CallbackOfSignal
<1>2. StateAfterSignal(s, d) = d
  BY <1>1 DEF StateAfterSignal, Transferring
<1> QED BY <1>1, <1>2 DEF Begun, LifeCycle, Talking, Transferring, Conferencing

\* A call is placed in state INITIALIZATION.
LEMMA PlacedInInitialization ==
  \A s \in State, a \in Action :
    CallbackOfAction(s, a) = "call" => StateAfterAction(s, a) = "INITIALIZATION"
BY DEF State, Action, CallbackOfAction, StateAfterAction, Transferring, Conferencing, Talking

LEMMA ToDaemonStateType == \A name : ToDaemonState(name) \in DaemonState
BY DEF ToDaemonState, DaemonState

LEMMA ConferenceStateType ==
  \A name \in ConferenceSignal \ {"CONF_REMOVED"} : ConferenceState(name) \in Conferencing
BY DEF ConferenceSignal, ConferenceState, Conferencing

-----------------------------------------------------------------------------
(* One call object.  Good is inductive: the audio media follow the phase,   *)
(* the text medium carries at most one profile and none before the answer,  *)
(* the dial number outlives the creation, the timer runs with the call.     *)

AudioKind == {"audioIn", "audioOut"}

\* The call needs its refresh timer.
Ticks(s) == LifeCycle(s) \in {"INITIALIZATION", "PROGRESS"}

Good(c) ==
  /\ c \in Calls
  /\ \A k \in AudioKind :
       c.media[k] <= (IF LifeCycle(c.state) = "PROGRESS" THEN 1 ELSE 0)
  /\ c.media["textOut"] <= (IF Begun(c.state) THEN 1 ELSE 0)
  /\ LifeCycle(c.state) = "CREATION" => c.dial # "null"
  /\ c.type = "CALL" => ((c.timer # "null") <=> Ticks(c.state))

LEMMA ChangeIsGood ==
  ASSUME NEW c, Good(c), NEW s \in State,
         Begun(c.state) => Begun(s),
         LifeCycle(s) = "CREATION" => c.dial # "null"
  PROVE  /\ Good(changeCurrentState(c, s))
         /\ changeCurrentState(c, s).state = s
         /\ changeCurrentState(c, s).dial = c.dial
         /\ changeCurrentState(c, s).peer = c.peer
<1>1. c \in Calls
  BY DEF Good
<1>2. LifeCycle(c.state) \in Phase /\ LifeCycle(s) \in Phase
  BY <1>1, Phases DEF Calls
<1>3. MediaAfter(c, s) \in [MediaKind -> Nat]
  BY <1>1 DEF MediaAfter, Calls, MediaKind
<1>4. \A k \in AudioKind :
         MediaAfter(c, s)[k] <= (IF LifeCycle(s) = "PROGRESS" THEN 1 ELSE 0)
  <2> SUFFICES ASSUME NEW k \in AudioKind
               PROVE  MediaAfter(c, s)[k] <= (IF LifeCycle(s) = "PROGRESS" THEN 1 ELSE 0)
    OBVIOUS
  <2>1. c.media \in [MediaKind -> Nat] /\ k \in MediaKind
    BY <1>1 DEF Calls, MediaKind, AudioKind
  <2>2. c.media[k] <= (IF LifeCycle(c.state) = "PROGRESS" THEN 1 ELSE 0)
    BY DEF Good
  <2>3. CASE LifeCycle(s) = LifeCycle(c.state)
    BY <2>2, <2>3 DEF MediaAfter
  <2>4. CASE LifeCycle(s) # LifeCycle(c.state) /\ LifeCycle(s) = "PROGRESS"
    BY <2>1, <2>2, <2>4 DEF MediaAfter, AudioKind
  <2>5. CASE LifeCycle(s) # LifeCycle(c.state) /\ LifeCycle(s) = "FINISHED"
    BY <2>1, <2>5 DEF MediaAfter
  <2>6. CASE LifeCycle(s) # LifeCycle(c.state) /\ LifeCycle(s) \notin {"PROGRESS", "FINISHED"}
    BY <1>2, <2>1, <2>2, <2>6 DEF MediaAfter, Begun, Phase
  <2> QED BY <2>3, <2>4, <2>5, <2>6
<1>5. MediaAfter(c, s)["textOut"] <= (IF Begun(s) THEN 1 ELSE 0)
  BY <1>1, <1>2 DEF MediaAfter, Calls, MediaKind, Good, Begun, Phase
<1>6. CASE s = c.state
  BY <1>6 DEF changeCurrentState, Good
<1>7. CASE s # c.state
  <2>1. changeCurrentState(c, s) =
          [c EXCEPT !.state = s, !.media = MediaAfter(c, s), !.timer = TimerOf(s)]
    BY <1>7 DEF changeCurrentState
  <2>2. TimerOf(s) \in {"null", "running", "stopped"}
    BY DEF TimerOf
  <2>3. changeCurrentState(c, s) \in Calls
    BY <1>1, <1>3, <2>1, <2>2 DEF Calls
  <2>4. (TimerOf(s) # "null") <=> Ticks(s)
    BY DEF TimerOf, Ticks
  <2> QED BY <1>1, <1>4, <1>5, <2>1, <2>3, <2>4 DEF Calls, Good
<1> QED BY <1>6, <1>7

LEMMA DiscardIsGood ==
  ASSUME NEW c, Good(c), LifeCycle(c.state) # "CREATION"
  PROVE  Good(DiscardDialNumber(c)) /\ DiscardDialNumber(c).state = c.state
         /\ DiscardDialNumber(c).media = c.media
<1>1. DiscardDialNumber(c) \in Calls
  BY DEF Good, Calls, Number, DiscardDialNumber
<1> QED BY <1>1 DEF Good, Calls, DiscardDialNumber

LEMMA SendProfileIsGood ==
  ASSUME NEW c, Good(c), Begun(c.state), c.media["textOut"] = 0, NEW profile \in BOOLEAN
  PROVE  Good(sendProfile(c, profile)) /\ sendProfile(c, profile).state = c.state
<1> DEFINE sent == [c EXCEPT !.media["textOut"] = @ + 1]
<1>1. c \in Calls /\ "textOut" \in MediaKind
  BY DEF Good, MediaKind
<1>2. sent.media = [c.media EXCEPT !["textOut"] = 1] /\ sent.state = c.state /\ sent.dial = c.dial
  BY <1>1 DEF Calls
<1>3. [c.media EXCEPT !["textOut"] = 1] \in [MediaKind -> Nat]
  BY <1>1 DEF Calls
<1>4. sent \in Calls
  BY <1>1, <1>2, <1>3 DEF Calls
<1>5. Good(sent)
  BY <1>1, <1>2, <1>4 DEF Good, AudioKind, Calls, MediaKind
<1> QED BY <1>2, <1>5 DEF sendProfile

LEMMA StartIsGood ==
  ASSUME NEW c, Good(c), Begun(c.state), c.media["textOut"] = 0, NEW profile \in BOOLEAN
  PROVE  Good(start(c, profile)) /\ start(c, profile).state = c.state
<1> DEFINE d == DiscardDialNumber(c)
           e == [d EXCEPT !.timer = TimerOf(d.state)]
<1>1. Good(d) /\ d.state = c.state /\ d.media = c.media
  BY DiscardIsGood DEF Begun
<1>2. TimerOf(d.state) \in {"null", "running", "stopped"}
  BY DEF TimerOf
<1>3. (TimerOf(d.state) # "null") <=> Ticks(d.state)
  BY DEF TimerOf, Ticks
<1>4. Good(e) /\ e.state = c.state /\ e.media = c.media
  <2> HIDE DEF d
  <2> QED BY <1>1, <1>2, <1>3 DEF Good, Calls
<1> QED BY <1>4, SendProfileIsGood DEF start

LEMMA SignalCallbackIsGood ==
  ASSUME NEW c, Good(c), NEW f, NEW profile \in BOOLEAN,
         f \in {"start", "failure", "startWeird"} =>
           Begun(c.state) /\ c.media["textOut"] = 0
  PROVE  Good(SignalCallback(f, c, profile)) /\ SignalCallback(f, c, profile).state = c.state
<1>0. c \in Calls
  BY DEF Good
<1>1. CASE f = "start"
  BY <1>1, StartIsGood DEF SignalCallback
<1>2. CASE f = "failure"
  <2>1. Good([c EXCEPT !.missed = TRUE]) /\ [c EXCEPT !.missed = TRUE].state = c.state
        /\ [c EXCEPT !.missed = TRUE].media = c.media
    BY DEF Good, Calls
  <2> QED BY <1>2, <2>1, StartIsGood DEF SignalCallback
<1>3. CASE f = "startWeird"
  BY <1>3, SendProfileIsGood DEF SignalCallback
<1>4. CASE f = "startStop"
  BY <1>4 DEF SignalCallback, Good, Calls
<1>5. CASE f = "stop"
  BY <1>5 DEF SignalCallback, Good, Calls
<1>6. CASE f = "warning"
  BY <1>6 DEF SignalCallback, Good, Calls
<1>7. CASE f \notin {"start", "failure", "startWeird", "startStop", "stop", "warning"}
  BY <1>7 DEF SignalCallback
<1> QED BY <1>1, <1>2, <1>3, <1>4, <1>5, <1>6, <1>7

LEMMA ChangeKeepsText ==
  ASSUME NEW c \in Calls, NEW s \in State, c.media["textOut"] = 0
  PROVE  changeCurrentState(c, s).media["textOut"] = 0
<1>1. MediaAfter(c, s)["textOut"] = 0
  BY DEF MediaAfter, Calls, MediaKind
<1> QED BY <1>1 DEF changeCurrentState, Calls

LEMMA OutgoingMediaIsGood ==
  ASSUME NEW c, Good(c), NEW video
  PROVE  LET e == updateOutgoingMedia(c, video)
         IN Good(e) /\ e.state = c.state /\ e.media["textOut"] = c.media["textOut"]
<1> DEFINE v == IF video /\ c.media["videoOut"] = 0 THEN 1 ELSE c.media["videoOut"]
           e == [c EXCEPT !.media["videoOut"] = v]
<1>1. c \in Calls /\ v \in Nat
  BY DEF Good, Calls, MediaKind
<1>2. e.media = [c.media EXCEPT !["videoOut"] = v] /\ e.state = c.state /\ e.dial = c.dial
  BY <1>1 DEF Calls
<1>3. [c.media EXCEPT !["videoOut"] = v] \in [MediaKind -> Nat]
  BY <1>1 DEF Calls
<1>4. e \in Calls
  BY <1>1, <1>2, <1>3 DEF Calls
<1>5. Good(e)
  BY <1>1, <1>2, <1>4 DEF Good, AudioKind, Calls, MediaKind
<1>6. e = updateOutgoingMedia(c, video)
  BY <1>1 DEF updateOutgoingMedia, Calls
<1> QED BY <1>1, <1>2, <1>5, <1>6 DEF Calls, MediaKind

LEMMA CallStateChangedIsGood ==
  ASSUME NEW c, Good(c), NEW d \in DaemonState, NEW video, NEW profile \in BOOLEAN
  PROVE  Good(CallStateChanged(c, d, video, profile))
<1> DEFINE s == StateAfterSignal(c.state, d)
           f == CallbackOfSignal(c.state, d)
           moved == changeCurrentState(c, s)
           marked == [moved EXCEPT !.holdOut = (s = "HOLD"),
                        !.unexpected = @ \/ ~ValidTransition(s, LifeCycle(c.state))]
           held == updateOutgoingMedia(marked, video)
           done == SignalCallback(f, held, profile)
<1>1. c \in Calls /\ c.state \in State /\ s \in State
  BY StateAfterSignalType DEF Good, Calls
<1>2. LifeCycle(s) # "CREATION" /\ (Begun(c.state) => Begun(s))
  BY <1>1, SignalEndsCreation, SignalKeepsBegun
<1>3. Good(moved) /\ moved.state = s
  <2> HIDE DEF s
  <2> QED BY <1>1, <1>2, ChangeIsGood
<1>4. Good(marked) /\ marked.state = s /\ marked.media = moved.media
  <2> HIDE DEF s, moved
  <2> QED BY <1>3 DEF Good, Calls
<1>5. Good(held) /\ held.state = s /\ held.media["textOut"] = moved.media["textOut"]
  <2> HIDE DEF s, marked
  <2> QED BY <1>4, OutgoingMediaIsGood
<1>6. f \in {"start", "failure", "startWeird"} => Begun(held.state) /\ held.media["textOut"] = 0
  <2> SUFFICES ASSUME f \in {"start", "failure", "startWeird"}
               PROVE  Begun(s) /\ moved.media["textOut"] = 0
    BY <1>5
  <2>1. LifeCycle(c.state) = "INITIALIZATION" /\ Begun(s)
    BY <1>1, SendingSignals
  <2>2. c.media["textOut"] = 0
    BY <1>1, <2>1 DEF Good, Begun, Calls, MediaKind
  <2> QED BY <1>1, <2>1, <2>2, ChangeKeepsText
<1>7. Good(done) /\ done.state = s
  <2> HIDE DEF f, held
  <2> QED BY <1>5, <1>6, SignalCallbackIsGood
<1>8. Good(changeCurrentState(held, "ERROR"))
  <2>1. "ERROR" \in State /\ Begun("ERROR") /\ LifeCycle("ERROR") # "CREATION"
    BY DEF State, Begun, LifeCycle, Talking, Transferring, Conferencing
  <2> HIDE DEF held
  <2> QED BY <1>5, <2>1, ChangeIsGood
<1>9. Good(DiscardDialNumber(done))
  <2> HIDE DEF done
  <2> QED BY <1>2, <1>7, DiscardIsGood
<1>10. CallStateChanged(c, d, video, profile) =
         IF f = "error" THEN changeCurrentState(held, "ERROR")
         ELSE IF LifeCycle(done.state) = "CREATION" THEN done ELSE DiscardDialNumber(done)
  BY DEF CallStateChanged
<1> HIDE DEF f, held, done
<1> QED BY <1>7, <1>8, <1>9, <1>10

LEMMA ConferenceStateChangedIsGood ==
  ASSUME NEW c, Good(c), c.type = "CONFERENCE",
         NEW name \in ConferenceSignal \ {"CONF_REMOVED"}
  PROVE  Good(ConferenceStateChanged(c, name))
<1> DEFINE s == ConferenceState(name)
           e == [c EXCEPT !.state = s]
<1>1. s \in State /\ LifeCycle(s) = "PROGRESS" /\ Begun(s)
  BY ConferenceStateType DEF Conferencing, State, LifeCycle, Begun, Talking, Transferring
<1>2. Good(e) /\ e.state = s
  <2> HIDE DEF s
  <2>1. c \in Calls /\ LifeCycle(c.state) \in Phase
    BY Phases DEF Good, Calls
  <2> QED BY <1>1, <2>1 DEF Good, Calls, AudioKind, MediaKind
<1> QED BY <1>1, <1>2, DiscardIsGood DEF ConferenceStateChanged

-----------------------------------------------------------------------------
(* The daemon and the queue keep their types.                               *)

DaemonOK ==
  /\ daemon \in [call: DaemonCall, peerHold: BOOLEAN, recording: BOOLEAN]
  /\ signals \in Seq(Signal)

LEMMA SignalSequences ==
  /\ \A x \in Signal : <<x>> \in Seq(Signal)
  /\ \A x \in Signal, y \in Signal : <<x, y>> \in Seq(Signal)
OBVIOUS

LEMMA BecomeType ==
  ASSUME DaemonOK, NEW d \in DaemonCall, NEW q \in Seq(Signal), Become(d, q)
  PROVE  DaemonOK'
BY DEF DaemonOK, Become

LEMMA QuietType == ASSUME DaemonOK, Quiet PROVE DaemonOK'
BY DEF DaemonOK, Quiet

\* Answers to requests.
LEMMA RepliesType ==
  ASSUME DaemonOK, DaemonAnswer \/ DaemonHold \/ DaemonUnhold \/ DaemonHangUp
  PROVE  DaemonOK'
<1> USE SignalSequences, QuietType DEF Signal, StateSignal, ConferenceSignal, DaemonState
<1>1. {"current", "hold", "confActive", "confHold", "over", "hungup"} \subseteq DaemonCall
  BY DEF DaemonCall
<1>2. CASE DaemonAnswer
  BY <1>1, <1>2, BecomeType DEF DaemonAnswer
<1>3. CASE DaemonHold
  BY <1>1, <1>3, BecomeType DEF DaemonHold
<1>4. CASE DaemonUnhold
  BY <1>1, <1>4, BecomeType DEF DaemonUnhold
<1>5. CASE DaemonHangUp
  <2>1. CASE daemon.call \in InConference
    BY <1>1, <1>5, <2>1, BecomeType DEF DaemonHangUp, Known, InConference, DaemonCall
  <2>2. CASE daemon.call \in Known \ InConference
    BY <1>1, <1>5, <2>2, BecomeType DEF DaemonHangUp
  <2>3. CASE daemon.call \notin Known \cup InConference
    BY <1>5, <2>3 DEF DaemonHangUp
  <2> QED BY <2>1, <2>2, <2>3
<1> QED BY <1>2, <1>3, <1>4, <1>5

LEMMA DaemonStepType == ASSUME DaemonOK, DaemonStep PROVE DaemonOK'
<1> USE SignalSequences DEF Signal, StateSignal, ConferenceSignal, DaemonState
<1>1. {"connecting", "ringing", "current", "hold", "confActive", "busy", "hungup",
       "failed", "over", "gone"} \subseteq DaemonCall
  BY DEF DaemonCall
<1>2. CASE PeerHolds
  <2>1. daemon' \in [call: DaemonCall, peerHold: BOOLEAN, recording: BOOLEAN]
    BY <1>2 DEF DaemonOK, PeerHolds
  <2>2. signals' \in Seq(Signal)
    BY <1>2 DEF DaemonOK, PeerHolds
  <2> QED BY <2>1, <2>2 DEF DaemonOK
<1>3. CASE DaemonRestarts
  BY <1>1, <1>3 DEF DaemonOK, DaemonRestarts
<1>4. CASE DaemonUnordered
  <2>1. PICK x \in Signal : Become(daemon.call, <<x>>)
    BY <1>4 DEF DaemonUnordered
  <2>2. daemon.call \in DaemonCall
    BY DEF DaemonOK
  <2> QED BY <2>1, <2>2, BecomeType
<1>5. CASE DaemonProgress
  BY <1>1, <1>5, BecomeType DEF DaemonProgress
<1>6. CASE DaemonEnds
  BY <1>1, <1>6, BecomeType DEF DaemonEnds
<1> QED BY <1>2, <1>3, <1>4, <1>5, <1>6 DEF DaemonStep

-----------------------------------------------------------------------------
(* Every action keeps the call good.                                        *)

LEMMA EndIsGood ==
  ASSUME NEW c, Good(c), NEW s \in Ended
  PROVE  Good(changeCurrentState(c, s)) /\ changeCurrentState(c, s).state = s
<1>1. s \in State /\ Begun(s) /\ LifeCycle(s) # "CREATION"
  BY DEF Ended, State, Begun, LifeCycle, Talking, Transferring, Conferencing
<1> QED BY <1>1, ChangeIsGood

LEMMA PlaceCallIsGood ==
  ASSUME NEW c, Good(c), c.state = "INITIALIZATION", DaemonOK, PlaceCall(c)
  PROVE  Good(call') /\ DaemonOK'
<1> DEFINE uri == IF c.peer = "null" THEN c.dial ELSE c.peer
           ready == [c EXCEPT !.peer = uri, !.dial = "null"]
<1>1. LifeCycle("INITIALIZATION") = "INITIALIZATION" /\ LifeCycle("ABORTED") = "FINISHED"
  BY DEF LifeCycle, Talking, Transferring, Conferencing
<1>2. c \in Calls /\ {"ABORTED", "ERROR", "FAILURE"} \subseteq Ended
  BY DEF Good, Ended
<1>3. Good(ready) /\ ready.state = c.state
  BY <1>1, <1>2 DEF Good, Calls, Number
<1>4. CASE uri = "null"
  BY <1>2, <1>4, QuietType DEF PlaceCall, Crash, Good, Calls
<1>5. CASE uri = "empty"
  <2> DEFINE gone == changeCurrentState(c, "ABORTED")
  <2>1. Good(gone) /\ gone.state = "ABORTED"
    BY <1>2, EndIsGood
  <2>2. call' = [gone EXCEPT !.dial = "null"] /\ Quiet
    BY <1>5 DEF PlaceCall
  <2>3. Good([gone EXCEPT !.dial = "null"])
    <3> HIDE DEF gone
    <3> QED BY <1>1, <2>1 DEF Good, Calls, Number
  <2> QED BY <2>2, <2>3, QuietType
<1>6. CASE uri \notin {"null", "empty"}
  <2>1. Good(changeCurrentState(c, "ERROR")) /\ Good(changeCurrentState(ready, "FAILURE"))
    <3> HIDE DEF ready
    <3> QED BY <1>2, <1>3, EndIsGood
  <2>2. CASE call' = changeCurrentState(c, "ERROR") /\ Quiet
    BY <2>1, <2>2, QuietType
  <2>3. CASE Crash(c)
    BY <1>2, <2>3, QuietType DEF Crash, Good, Calls
  <2>4. CASE call' = changeCurrentState(ready, "FAILURE") /\ Quiet
    BY <2>1, <2>4, QuietType
  <2>5. CASE /\ call' = ready
             /\ daemon' = [call |-> "connecting", peerHold |-> FALSE, recording |-> FALSE]
             /\ UNCHANGED signals
    BY <1>3, <2>5 DEF DaemonOK, DaemonCall
  <2> QED BY <1>6, <2>2, <2>3, <2>4, <2>5 DEF PlaceCall
<1> QED BY <1>4, <1>5, <1>6

LEMMA ToggleRecordIsGood ==
  ASSUME NEW c, Good(c), NEW media \in {"AUDIO", "VIDEO"}, DaemonOK, toggleRecord(c, media)
  PROVE  Good(call') /\ DaemonOK'
<1> DEFINE on == daemon.call \in Known /\ ~daemon.recording
           after == IF on THEN c.recording \cup {media} ELSE c.recording \ {media}
<1>1. c \in Calls /\ after \in SUBSET {"AUDIO", "VIDEO"}
  BY DEF Good, Calls
<1>2. call' = [c EXCEPT !.recording = after]
  BY <1>1 DEF toggleRecord, Calls
<1>3. Good(call')
  BY <1>1, <1>2 DEF Good, Calls
<1>4. CASE daemon.call \notin Known
  BY <1>3, <1>4, QuietType DEF toggleRecord
<1>5. CASE daemon.call \in Known
  <2>1. daemon' = [daemon EXCEPT !.recording = on]
        /\ signals' = Append(signals, IF on THEN "RECORD_ON" ELSE "RECORD_OFF")
    BY <1>5 DEF toggleRecord
  <2>2. on \in BOOLEAN /\ (IF on THEN "RECORD_ON" ELSE "RECORD_OFF") \in Signal
    BY DEF Signal
  <2>3. signals' \in Seq(Signal)
    BY <2>1, <2>2 DEF DaemonOK
  <2>4. daemon' \in [call: DaemonCall, peerHold: BOOLEAN, recording: BOOLEAN]
    <3> HIDE DEF on
    <3> QED BY <2>1, <2>2 DEF DaemonOK
  <2> QED BY <1>3, <2>3, <2>4 DEF DaemonOK
<1> QED BY <1>4, <1>5

LEMMA CallbackIsGood ==
  ASSUME NEW c, Good(c), NEW f, f = "call" => c.state = "INITIALIZATION",
         DaemonOK, ActionCallback(f, c)
  PROVE  Good(call') /\ DaemonOK'
<1> USE QuietType, RepliesType
<1>1. c \in Calls /\ {"OVER", "ERROR"} \subseteq Ended
  BY DEF Good, Ended
<1>2. CASE call' = c /\ Quiet
  BY <1>2
<1>3. CASE accept(c)
  BY <1>3 DEF accept
<1>4. CASE refuse(c)
  <2>1. Good([c EXCEPT !.missed = TRUE])
    BY <1>1 DEF Good, Calls
  <2>2. Good(changeCurrentState([c EXCEPT !.missed = TRUE], "ERROR"))
    BY <1>1, <2>1, EndIsGood
  <2> QED BY <1>4, <2>1, <2>2 DEF refuse
<1>5. CASE acceptTransf(c)
  BY <1>5 DEF acceptTransf
<1>6. CASE acceptHold(c)
  <2>1. <<"CURRENT", "HOLD">> \in Seq(Signal) /\ "hold" \in DaemonCall
    BY SignalSequences DEF Signal, StateSignal, DaemonState, DaemonCall
  <2> QED BY <1>6, <2>1, BecomeType DEF acceptHold
<1>7. CASE hangUp(c)
  <2> DEFINE ended == [c EXCEPT !.stopped = TRUE]
  <2>1. Good(ended)
    BY <1>1 DEF Good, Calls
  <2>2. Good([ended EXCEPT !.timer = IF @ = "null" THEN @ ELSE "stopped"])
    BY <1>1 DEF Good, Calls
  <2>3. Good(changeCurrentState(ended, "OVER"))
    BY <1>1, <2>1, EndIsGood
  <2> QED BY <1>7, <2>2, <2>3 DEF hangUp
<1>8. CASE remove(c)
  BY <1>1, <1>8, EndIsGood DEF remove
<1>9. CASE cancel(c)
  BY <1>1, <1>9, EndIsGood DEF cancel
<1>10. CASE hold(c)
  BY <1>1, <1>10 DEF hold, Good, Calls
<1>11. CASE unhold(c)
  BY <1>1, <1>11 DEF unhold, Good, Calls
<1>12. CASE transfer(c)
  <2>1. Good([c EXCEPT !.stopped = TRUE])
    BY <1>1 DEF Good, Calls
  <2> QED BY <1>12, <2>1 DEF transfer
<1>13. CASE f = "call" /\ PlaceCall(c)
  BY <1>13, PlaceCallIsGood
<1>14. CASE toggleRecord(c, "AUDIO") \/ toggleRecord(c, "VIDEO")
  BY <1>14, ToggleRecordIsGood
<1> QED BY <1>2, <1>3, <1>4, <1>5, <1>6, <1>7, <1>8, <1>9, <1>10, <1>11, <1>12, <1>13, <1>14
        DEF ActionCallback

LEMMA PerformActionIsGood ==
  ASSUME Good(call), DaemonOK, NEW a \in Action \ Untabled, performAction(a)
  PROVE  Good(call') /\ DaemonOK'
<1> DEFINE s == StateAfterAction(call.state, a)
           f == CallbackOfAction(call.state, a)
           c == changeCurrentState(call, s)
<1>1. call \in Calls /\ call.state \in State /\ s \in State
  BY StateAfterActionType DEF Good, Calls
<1>2. Begun(call.state) => Begun(s)
  BY <1>1, ActionKeepsBegun
<1>3. LifeCycle(s) = "CREATION" => call.dial # "null"
  BY <1>1, ActionLeavesCreation DEF Good
<1>4. f = "call" => s = "INITIALIZATION"
  BY <1>1, PlacedInInitialization
<1>5. ActionCallback(f, c)
  BY DEF performAction
<1> HIDE DEF s, f
<1>6. Good(c) /\ c.state = s
  BY <1>1, <1>2, <1>3, ChangeIsGood
<1> HIDE DEF c
<1> QED BY <1>4, <1>5, <1>6, CallbackIsGood

\* Keyboard handling.  Every edit but two needs the call in CREATION.
LEMMA EditsAreGood ==
  ASSUME Good(call), DaemonOK, Edits
  PROVE  Good(call') /\ DaemonOK'
<1>1. call \in Calls
  BY DEF Good
<1>2. DaemonOK'
  BY QuietType DEF Edits, setDialNumber, setPeerContactMethod, appendText, backspaceItemText,
                   reset, setTransferNumber, Editing
<1>3. /\ {"NEW", "DIALING"} \subseteq State
      /\ \A s \in {"NEW", "DIALING"} : LifeCycle(s) = "CREATION"
  BY DEF State, LifeCycle, Talking, Transferring, Conferencing
<1>4. ASSUME NEW c, Good(c), LifeCycle(c.state) = "CREATION", NEW s \in {"NEW", "DIALING"}
      PROVE  Good(changeCurrentState(c, s)) /\ changeCurrentState(c, s).dial = c.dial
  BY <1>3, <1>4, ChangeIsGood DEF Begun, Good
<1>5. ASSUME NEW c, Good(c), NEW n \in {"empty", "number"}
      PROVE  Good([c EXCEPT !.dial = n]) /\ [c EXCEPT !.dial = n].state = c.state
  BY <1>5 DEF Good, Calls, Number
<1>6. ASSUME NEW c, Good(c), LifeCycle(c.state) = "CREATION", NEW n \in {"empty", "number"}
      PROVE  Good(Dialed(c, n))
  <2> DEFINE e == [c EXCEPT !.dial = n]
  <2>1. Good(e) /\ e.state = c.state
    BY <1>5, <1>6
  <2>2. Good([c EXCEPT !.crashed = TRUE])
    BY <1>6 DEF Good, Calls
  <2>3. Good(changeCurrentState(e, "DIALING")) /\ Good(changeCurrentState(e, "NEW"))
    <3> HIDE DEF e
    <3> QED BY <1>4, <1>6, <2>1
  <2> QED BY <2>1, <2>2, <2>3 DEF Dialed
<1>7. CASE setDialNumber
  BY <1>2, <1>6, <1>7 DEF setDialNumber, Creating
<1>8. CASE setPeerContactMethod
  <2>1. PICK n \in {"empty", "number"} : call' = Dialed([call EXCEPT !.peer = n], n)
    BY <1>8 DEF setPeerContactMethod
  <2>2. Good([call EXCEPT !.peer = n]) /\ [call EXCEPT !.peer = n].state = call.state
    BY <1>1 DEF Good, Calls, Number
  <2>3. LifeCycle(call.state) = "CREATION"
    BY <1>8 DEF setPeerContactMethod, Creating
  <2> QED BY <1>2, <1>6, <2>1, <2>2, <2>3
<1>9. ASSUME Creating, NEW s \in {"NEW", "DIALING"}, NEW n \in {"empty", "number"}
      PROVE  /\ Good([changeCurrentState(call, s) EXCEPT !.dial = IF @ = "null" THEN @ ELSE n])
             /\ Good([changeCurrentState(call, s) EXCEPT !.dial = n])
  <2> DEFINE c == changeCurrentState(call, s)
  <2>1. Good(c) /\ c.dial = call.dial
    BY <1>4, <1>9 DEF Creating
  <2> HIDE DEF c
  <2>2. Good([c EXCEPT !.dial = n])
    BY <1>5, <2>1
  <2>3. [c EXCEPT !.dial = IF @ = "null" THEN @ ELSE n] =
          IF c.dial = "null" THEN c ELSE [c EXCEPT !.dial = n]
    BY <2>1 DEF Good, Calls
  <2> QED BY <2>1, <2>2, <2>3 DEF c
<1>10. \A n \in {"empty", "number"} : Good([call EXCEPT !.transfer = n])
  BY <1>1 DEF Good, Calls, Number
<1>11. CASE appendText
  BY <1>2, <1>9, <1>10, <1>11 DEF appendText
<1>12. CASE backspaceItemText
  <2>1. Good([call EXCEPT !.crashed = TRUE])
    BY <1>1 DEF Good, Calls
  <2>2. Good(changeCurrentState(call, "ABORTED"))
    BY EndIsGood DEF Ended
  <2> QED BY <1>2, <1>9, <1>10, <1>12, <2>1, <2>2 DEF backspaceItemText
<1>13. CASE reset
  BY <1>2, <1>9, <1>10, <1>13 DEF reset
<1>14. CASE setTransferNumber
  BY <1>2, <1>10, <1>14 DEF setTransferNumber
<1> QED BY <1>7, <1>8, <1>11, <1>12, <1>13, <1>14 DEF Edits

LEMMA SlotsAreGood ==
  ASSUME Good(call), DaemonOK, DeliverSignal
  PROVE  Good(call') /\ DaemonOK'
<1>1. call \in Calls
  BY DEF Good
<1>2. DaemonOK' /\ signals # <<>> /\ Head(signals) \in Signal
  <2>1. Dequeue
    BY DEF DeliverSignal, slotCallStateChanged, slotChangingConference, slotConferenceRemoved,
           slotPeerHold, slotRecordStateChanged
  <2> QED BY <2>1 DEF Dequeue, DaemonOK
<1>3. CASE slotCallStateChanged
  BY <1>2, <1>3, ConstantsAssumption, ToDaemonStateType, CallStateChangedIsGood
     DEF slotCallStateChanged
<1>4. CASE slotChangingConference
  BY <1>2, <1>4, ConferenceStateChangedIsGood DEF slotChangingConference
<1>5. CASE slotConferenceRemoved
  BY <1>2, <1>5, EndIsGood DEF slotConferenceRemoved, Ended
<1>6. CASE slotPeerHold
  BY <1>1, <1>2, <1>6 DEF slotPeerHold, Good, Calls
<1>7. CASE slotRecordStateChanged
  BY <1>1, <1>2, <1>7 DEF slotRecordStateChanged, Good, Calls
<1> QED BY <1>3, <1>4, <1>5, <1>6, <1>7 DEF DeliverSignal

-----------------------------------------------------------------------------
(* The invariant, and what follows from it.                                 *)

IInv == Good(call) /\ DaemonOK

LEMMA NewCallIsGood == Good(NewCall)
<1>1. NewCall \in Calls
  BY DEF NewCall, Calls, State, Number, MediaKind
<1>2. ~Ticks("NEW")
  BY DEF Ticks, LifeCycle, Talking, Transferring, Conferencing
<1> QED BY <1>1, <1>2 DEF Good, NewCall, AudioKind, MediaKind

LEMMA BuiltCallIsGood ==
  ASSUME NEW s \in State, NEW video \in BOOLEAN, NEW recorded \in BOOLEAN
  PROVE  Good(BuiltCall(s, video, recorded))
<1> DEFINE b == BuiltCall(s, video, recorded)
           n == [NewCall.media EXCEPT !["videoOut"] = IF video THEN 1 ELSE 0]
<1>1. TimerOf(s) \in {"null", "running", "stopped"}
  BY DEF TimerOf
<1>2. n \in [MediaKind -> Nat] /\ \A k \in MediaKind : k # "videoOut" => n[k] = 0
  BY DEF NewCall, MediaKind
<1>3. NewCall \in Calls /\ NewCall.dial = "empty"
  BY NewCallIsGood DEF Good, NewCall
<1>4. b = [NewCall EXCEPT !.state = s, !.peer = "number", !.timer = TimerOf(s), !.media = n,
             !.recording = IF recorded THEN {"AUDIO", "VIDEO"} ELSE {}]
  BY <1>3 DEF BuiltCall, Calls
<1>5. b \in Calls /\ b.media = n /\ b.dial = "empty" /\ b.state = s /\ b.timer = TimerOf(s)
  <2> HIDE DEF n
  <2> QED BY <1>1, <1>2, <1>3, <1>4 DEF Calls, Number
<1>6. (TimerOf(s) # "null") <=> Ticks(s)
  BY DEF TimerOf, Ticks
<1> HIDE DEF n, b
<1>7. Good(b)
  BY <1>2, <1>5, <1>6 DEF Good, AudioKind, MediaKind
<1> QED BY <1>7 DEF b

LEMMA InitIsGood == Init => IInv
<1> USE DEF DaemonIn, DaemonOK, DaemonCall
<1>1. <<>> \in Seq(Signal) /\ <<"INCOMING">> \in Seq(Signal)
  BY SignalSequences DEF Signal, StateSignal
<1>2. CASE InitDialing
  BY <1>1, <1>2, NewCallIsGood DEF InitDialing, IInv
<1>3. CASE InitIncoming
  BY <1>1, <1>3, BuiltCallIsGood DEF InitIncoming, IInv, State
<1>4. CASE InitExisting
  <2>1. PICK d \in Known \ InConference, r \in BOOLEAN, v \in BOOLEAN :
          /\ daemon = DaemonIn(d, r)
          /\ \E s \in StartStates(d) : call = BuiltCall(s, v, r)
    BY <1>4, ConstantsAssumption DEF InitExisting
  <2>2. StartStates(d) \subseteq State
    BY DEF StartStates, State
  <2> QED BY <1>1, <1>4, <2>1, <2>2, BuiltCallIsGood DEF InitExisting, IInv, Known
<1>5. CASE InitHistory
  <2>1. PICK missed \in BOOLEAN :
          call = [BuiltCall("OVER", FALSE, FALSE) EXCEPT !.stopped = TRUE, !.missed = missed]
    BY <1>5 DEF InitHistory
  <2>2. Good(BuiltCall("OVER", FALSE, FALSE))
    BY BuiltCallIsGood DEF State
  <2>3. Good(call)
    BY <2>1, <2>2 DEF Good, Calls
  <2> QED BY <1>1, <1>5, <2>3 DEF InitHistory, IInv
<1>6. CASE InitConference
  <2>1. PICK d \in InConference :
          /\ daemon = DaemonIn(d, FALSE)
          /\ call = [NewCall EXCEPT !.type = "CONFERENCE", !.timer = "running",
                       !.state = IF d = "confHold" THEN "CONFERENCE_HOLD" ELSE "CONFERENCE"]
    BY <1>6 DEF InitConference
  <2>2. NewCall \in Calls /\ NewCall.media = [k \in MediaKind |-> 0]
    BY NewCallIsGood DEF Good, NewCall
  <2>3. call \in Calls /\ call.media = NewCall.media /\ call.state \in Conferencing
        /\ call.type = "CONFERENCE"
    BY <2>1, <2>2 DEF Calls, State, Conferencing
  <2>4. Good(call)
    BY <2>2, <2>3 DEF Good, AudioKind, MediaKind, Conferencing, LifeCycle, Begun, Talking,
                      Transferring
  <2> QED BY <1>1, <1>6, <2>1, <2>4 DEF InitConference, IInv, InConference
<1> QED BY <1>2, <1>3, <1>4, <1>5, <1>6 DEF Init

LEMMA NextIsGood ==
  ASSUME Inputs \cap Untabled = {}, IInv, [Next]_vars
  PROVE  IInv'
<1>1. Good(call) /\ DaemonOK
  BY DEF IInv
<1>2. CASE \E a \in Action : performAction(a)
  <2>1. PICK a \in Action : performAction(a)
    BY <1>2
  <2>2. a \notin Untabled
    BY <2>1 DEF performAction
  <2> QED BY <1>1, <2>1, <2>2, PerformActionIsGood DEF IInv
<1>3. CASE Edits
  BY <1>1, <1>3, EditsAreGood DEF IInv
<1>4. CASE DeliverSignal
  BY <1>1, <1>4, SlotsAreGood DEF IInv
<1>5. CASE Environment
  BY <1>1, <1>5, DaemonStepType DEF Environment, IInv
<1>6. CASE UNCHANGED vars
  BY <1>1, <1>6 DEF vars, IInv, DaemonOK
<1> QED BY <1>2, <1>3, <1>4, <1>5, <1>6 DEF Next, UserStep

LEMMA Invariance == ASSUME Inputs \cap Untabled = {} PROVE Spec => []IInv
<1>1. Init => IInv
  BY InitIsGood
<1>2. IInv /\ [Next]_vars => IInv'
  BY NextIsGood
<1> QED BY <1>1, <1>2, PTL DEF Spec

\* Every field of the call, of the daemon and of the queue keeps its type.
THEOREM TypeCorrect == ASSUME Inputs \cap Untabled = {} PROVE Spec => []TypeOK
<1>1. IInv => TypeOK
  BY DEF IInv, Good, DaemonOK, TypeOK
<1> QED BY <1>1, Invariance, PTL

\* Whatever the user does and in whatever order the daemon's signals come, a
\* call has at most one audio medium per direction, and none outside PROGRESS.
THEOREM AudioFollowsPhase ==
  ASSUME Inputs \cap Untabled = {} PROVE Spec => []AudioOnlyInProgress
<1>1. IInv => AudioOnlyInProgress
  BY DEF IInv, Good, AudioKind, AudioOnlyInProgress, Phase_
<1> QED BY <1>1, Invariance, PTL

\* No order of signals makes start(), startWeird() and failure() send the
\* profile twice.
THEOREM ProfileGoesOnce ==
  ASSUME Inputs \cap Untabled = {} PROVE Spec => []ProfileSentOnce
<1>1. IInv => ProfileSentOnce
  BY DEF IInv, Good, ProfileSentOnce, Calls, MediaKind
<1> QED BY <1>1, Invariance, PTL

\* The dial number is there as long as the call is being created, so that
\* setDialNumber() and backspaceItemText() never dereference null; and the refresh
\* timer of a plain call exists exactly from the initialization to the end of the
\* communication: none is left on a call that is over, and none is missing on a
\* live one, on whatever path it got there.
THEOREM LifeHasItsObjects ==
  ASSUME Inputs \cap Untabled = {} PROVE Spec => []ObjectsFollowLife
<1>1. IInv => ObjectsFollowLife
  BY DEF IInv, Good, Ticks, ObjectsFollowLife, Phase_
<1> QED BY <1>1, Invariance, PTL

-----------------------------------------------------------------------------
(* The end of a communication, and hanging up.                              *)

\* What a tabled action does to a communication.
LEMMA TalkingActions ==
  \A s \in State, a \in Action \ Untabled :
    LifeCycle(s) = "PROGRESS" =>
      /\ StateAfterAction(s, a) # "OVER"
      /\ CallbackOfAction(s, a) \in {"nothing", "hangUp", "transfer", "hold", "unhold",
                                     "toggleAudioRecord", "toggleVideoRecord"}
BY DEF State, Action, Untabled, StateAfterAction, CallbackOfAction, PlainState, LifeCycle,
       Talking, Transferring, Conferencing

\* A signal that takes a communication to OVER runs stop().
LEMMA TalkingSignals ==
  \A s \in State, d \in DaemonState :
    LifeCycle(s) = "PROGRESS" /\ StateAfterSignal(s, d) = "OVER" => CallbackOfSignal(s, d) = "stop"
<1> SUFFICES ASSUME NEW s \in State, NEW d \in DaemonState,
                    LifeCycle(s) = "PROGRESS", StateAfterSignal(s, d) = "OVER"
             PROVE  CallbackOfSignal(s, d) = "stop"
  OBVIOUS
<1>1. s \in Talking
  BY DEF LifeCycle
<1>2. s \notin {"NEW", "INCOMING", "RINGING", "FAILURE", "OVER", "ERROR", "ABORTED"}
  BY <1>1 DEF Talking, Transferring, Conferencing
<1>3. PlainState(s) # "OVER"
  BY <1>2 DEF PlainState
<1>4. d \in {"HUNG_UP", "OVER"}
  BY <1>2, <1>3 DEF StateAfterSignal, DaemonState
<1> QED BY <1>2, <1>4 DEF CallbackOfSignal

\* Whether the red button is refused, hangs up, removes or cancels, the state is
\* final or the daemon has just queued the end.
LEMMA RefusalCells ==
  \A s \in State :
    \/ LifeCycle(StateAfterAction(s, "REFUSE")) = "FINISHED"
    \/ CallbackOfAction(s, "REFUSE") \in {"refuse", "hangUp"}
BY DEF State, StateAfterAction, CallbackOfAction, PlainState, LifeCycle, Talking,
       Transferring, Conferencing

\* The state after a callback other than call() and those that end the call.
LEMMA CallbackStates ==
  ASSUME NEW c \in Calls, NEW f, ActionCallback(f, c), f # "call"
  PROVE  \/ call'.state = c.state
         \/ call'.state = "OVER" /\ f \in {"hangUp", "cancel"}
         \/ call'.state = "ERROR" /\ f \in {"refuse", "remove"}
<1>1. ASSUME NEW e, e \in Calls, NEW s
      PROVE  changeCurrentState(e, s).state = s
  BY <1>1 DEF changeCurrentState, Calls
<1>2. CASE f = "refuse" /\ refuse(c)
  <2>1. [c EXCEPT !.missed = TRUE] \in Calls /\ [c EXCEPT !.missed = TRUE].state = c.state
    BY DEF Calls
  <2> QED BY <1>1, <1>2, <2>1 DEF refuse
<1>3. CASE f = "hangUp" /\ hangUp(c)
  <2> DEFINE ended == [c EXCEPT !.stopped = TRUE]
  <2>1. ended \in Calls /\ ended.state = c.state
    BY DEF Calls
  <2>2. [ended EXCEPT !.timer = IF @ = "null" THEN @ ELSE "stopped"].state = c.state
    BY DEF Calls
  <2> QED BY <1>1, <1>3, <2>1, <2>2 DEF hangUp
<1>4. CASE f = "remove" /\ remove(c)
  BY <1>1, <1>4 DEF remove
<1>5. CASE f = "cancel" /\ cancel(c)
  BY <1>1, <1>5 DEF cancel
<1>6. CASE toggleRecord(c, "AUDIO") \/ toggleRecord(c, "VIDEO")
  BY <1>6 DEF toggleRecord, Calls
<1>7. CASE \/ call' = c
           \/ accept(c) \/ acceptTransf(c) \/ acceptHold(c) \/ hold(c) \/ unhold(c) \/ transfer(c)
  BY <1>7 DEF accept, acceptTransf, acceptHold, hold, unhold, transfer, Calls
<1> QED BY <1>2, <1>3, <1>4, <1>5, <1>6, <1>7 DEF ActionCallback

LEMMA HangUpStamps ==
  ASSUME NEW c \in Calls, hangUp(c)
  PROVE  call'.stopped
<1>1. [c EXCEPT !.stopped = TRUE].stopped /\ [c EXCEPT !.stopped = TRUE] \in Calls
  BY DEF Calls
<1>2. changeCurrentState([c EXCEPT !.stopped = TRUE], "OVER").stopped
  BY <1>1 DEF changeCurrentState, Calls
<1> QED BY <1>1, <1>2 DEF hangUp, Calls

Stamped == call.type = "CALL" /\ LifeCycle(call.state) = "PROGRESS" /\ call'.state = "OVER"
           => call'.stopped

LEMMA ActionsStamp ==
  ASSUME Good(call), NEW a \in Action \ Untabled, performAction(a)
  PROVE  Stamped
<1> DEFINE s == StateAfterAction(call.state, a)
           f == CallbackOfAction(call.state, a)
           c == changeCurrentState(call, s)
<1> SUFFICES ASSUME LifeCycle(call.state) = "PROGRESS", call'.state = "OVER"
             PROVE  call'.stopped
  BY DEF Stamped
<1>1. call.state \in State /\ s \in State
  BY StateAfterActionType DEF Good, Calls
<1>2. s # "OVER" /\ f \notin {"call", "refuse", "remove", "cancel"}
  BY <1>1, TalkingActions
<1>3. Begun(call.state) => Begun(s)
  BY <1>1, ActionKeepsBegun
<1>4. LifeCycle(s) = "CREATION" => call.dial # "null"
  BY <1>1, ActionLeavesCreation DEF Good
<1>5. ActionCallback(f, c)
  BY DEF performAction
<1> HIDE DEF s, f
<1>6. c \in Calls /\ c.state = s
  BY <1>1, <1>3, <1>4, ChangeIsGood DEF Good
<1> HIDE DEF c
<1>7. f = "hangUp"
  BY <1>2, <1>5, <1>6, CallbackStates
<1>8. hangUp(c)
  BY <1>5, <1>7 DEF ActionCallback
<1> QED BY <1>6, <1>8, HangUpStamps

\* stateChanged() runs stop() before the call is seen in OVER.
LEMMA SignalsStamp ==
  ASSUME NEW c, Good(c), NEW d \in DaemonState, NEW video, NEW profile \in BOOLEAN,
         LifeCycle(c.state) = "PROGRESS", CallStateChanged(c, d, video, profile).state = "OVER"
  PROVE  CallStateChanged(c, d, video, profile).stopped
<1> DEFINE s == StateAfterSignal(c.state, d)
           f == CallbackOfSignal(c.state, d)
           moved == changeCurrentState(c, s)
           marked == [moved EXCEPT !.holdOut = (s = "HOLD"),
                        !.unexpected = @ \/ ~ValidTransition(s, LifeCycle(c.state))]
           held == updateOutgoingMedia(marked, video)
           done == SignalCallback(f, held, profile)
           last == IF f = "error" THEN changeCurrentState(held, "ERROR")
                   ELSE IF LifeCycle(done.state) = "CREATION" THEN done
                        ELSE DiscardDialNumber(done)
<1>1. last = CallStateChanged(c, d, video, profile)
  BY DEF CallStateChanged
<1>2. c.state \in State /\ s \in State
  BY StateAfterSignalType DEF Good, Calls
<1>3. LifeCycle(s) # "CREATION" /\ (Begun(c.state) => Begun(s))
  BY <1>2, SignalEndsCreation, SignalKeepsBegun
<1>4. f \notin {"start", "failure", "startWeird"}
  BY <1>2, SendingSignals
<1>5. s = "OVER" => f = "stop"
  BY <1>2, TalkingSignals
<1>6. Good(moved) /\ moved.state = s
  <2> HIDE DEF s
  <2> QED BY <1>2, <1>3, ChangeIsGood
<1>7. Good(marked) /\ marked.state = s
  <2> HIDE DEF s, moved
  <2> QED BY <1>6 DEF Good, Calls
<1>8. Good(held) /\ held.state = s
  <2> HIDE DEF s, marked
  <2> QED BY <1>7, OutgoingMediaIsGood
<1>9. done.state = s /\ done \in Calls
  <2> HIDE DEF f, held
  <2> QED BY <1>4, <1>8, SignalCallbackIsGood DEF Good
<1>10. f = "stop" => done.stopped
  <2> HIDE DEF held, f
  <2> QED BY <1>8 DEF SignalCallback, Good, Calls
<1>11. f # "error"
  <2>1. "ERROR" \in State /\ Begun("ERROR") /\ LifeCycle("ERROR") # "CREATION"
    BY DEF State, Begun, LifeCycle, Talking, Transferring, Conferencing
  <2>2. changeCurrentState(held, "ERROR").state = "ERROR"
    <3> HIDE DEF held
    <3> QED BY <1>8, <2>1, ChangeIsGood
  <2> HIDE DEF f, held, done
  <2> QED BY <1>1, <2>2
<1>12. DiscardDialNumber(done).state = done.state /\ DiscardDialNumber(done).stopped = done.stopped
  <2> HIDE DEF done
  <2> QED BY <1>9 DEF DiscardDialNumber, Calls
<1> HIDE DEF f, done, s
<1>13. s = "OVER"
  BY <1>1, <1>9, <1>11, <1>12
<1> QED BY <1>1, <1>5, <1>10, <1>11, <1>12, <1>13

LEMMA EditsDoNotEnd ==
  ASSUME call \in Calls, LifeCycle(call.state) = "PROGRESS", Edits
  PROVE  call'.state # "OVER"
<1>1. call.state # "OVER" /\ ~Creating
  BY DEF LifeCycle, Talking, Transferring, Conferencing, Creating
<1>2. changeCurrentState(call, "ABORTED").state = "ABORTED"
  BY DEF changeCurrentState, Calls
<1>3. \A n \in Number : [call EXCEPT !.transfer = n].state = call.state
  BY DEF Calls
<1> QED BY <1>1, <1>2, <1>3 DEF Edits, setDialNumber, setPeerContactMethod, appendText,
           backspaceItemText, reset, setTransferNumber, Number

LEMMA SlotsStamp == ASSUME Good(call), DaemonOK, DeliverSignal PROVE Stamped
<1> SUFFICES ASSUME call.type = "CALL", LifeCycle(call.state) = "PROGRESS", call'.state = "OVER"
             PROVE  call'.stopped
  BY DEF Stamped
<1>1. call \in Calls /\ call.state # "OVER"
  BY DEF Good, LifeCycle, Talking, Transferring, Conferencing
<1>2. CASE slotCallStateChanged
  BY <1>2, ConstantsAssumption, ToDaemonStateType, SignalsStamp DEF slotCallStateChanged
<1>3. CASE slotPeerHold \/ slotRecordStateChanged
  BY <1>1, <1>3 DEF slotPeerHold, slotRecordStateChanged, Calls
<1> QED BY <1>2, <1>3 DEF DeliverSignal, slotChangingConference, slotConferenceRemoved

LEMMA StepsStamp ==
  ASSUME Inputs \cap Untabled = {}, IInv, [Next]_vars
  PROVE  Stamped
<1>1. Good(call) /\ DaemonOK /\ call \in Calls
  BY DEF IInv, Good
<1>2. CASE \E a \in Action : performAction(a)
  <2>1. PICK a \in Action : performAction(a)
    BY <1>2
  <2>2. a \notin Untabled
    BY <2>1 DEF performAction
  <2> QED BY <1>1, <2>1, <2>2, ActionsStamp
<1>3. CASE Edits
  BY <1>1, <1>3, EditsDoNotEnd DEF Stamped
<1>4. CASE DeliverSignal
  BY <1>1, <1>4, SlotsStamp
<1>5. CASE Environment \/ UNCHANGED vars
  BY <1>5 DEF Environment, vars, Stamped, LifeCycle, Talking, Transferring, Conferencing
<1> QED BY <1>2, <1>3, <1>4, <1>5 DEF Next, UserStep

\* Whether the user hangs up or the daemon ends it, and in whatever order the
\* signals come, a communication that goes to OVER has the time of its end.
THEOREM EndsAreStamped ==
  ASSUME Inputs \cap Untabled = {} PROVE Spec => EndIsStamped
<1>1. IInv /\ [Next]_vars =>
        [call.type = "CALL" /\ LifeCycle(call.state) = "PROGRESS" /\ call'.state = "OVER"
           => call'.stopped]_vars
  BY StepsStamp DEF Stamped
<1> QED BY <1>1, Invariance, PTL DEF Spec, EndIsStamped, Phase_

\* The end is certain: the call is over, or the daemon has said that it is.
Ending ==
  \/ LifeCycle(call'.state) = "FINISHED"
  \/ \E i \in 1 .. Len(signals') : signals'[i] \in {"HUNGUP", "CONF_REMOVED"}

LEMMA DaemonHangUpSignals ==
  ASSUME DaemonOK, daemon.call \in Known, DaemonHangUp
  PROVE  \E i \in 1 .. Len(signals') : signals'[i] \in {"HUNGUP", "CONF_REMOVED"}
<1>1. PICK x \in {"HUNGUP", "CONF_REMOVED"} : signals' = signals \o <<x>>
  BY DEF DaemonHangUp, Become
<1>2. signals \in Seq(Signal) /\ <<x>> \in Seq(Signal)
  BY DEF DaemonOK, Signal, StateSignal, ConferenceSignal
<1>3. Len(signals') = Len(signals) + 1 /\ signals'[Len(signals) + 1] = x
  BY <1>1, <1>2
<1> QED BY <1>2, <1>3

LEMMA RefusalEnds ==
  ASSUME Good(call), DaemonOK, performAction("REFUSE")
  PROVE  Ending
<1> DEFINE s == StateAfterAction(call.state, "REFUSE")
           f == CallbackOfAction(call.state, "REFUSE")
           c == changeCurrentState(call, s)
<1>1. call \in Calls /\ "REFUSE" \in Action \ Untabled
  BY DEF Good, Action, Untabled
<1>2. call.state \in State /\ s \in State
  BY <1>1, StateAfterActionType DEF Calls
<1>3. c \in Calls /\ c.state = s
  <2>1. Begun(call.state) => Begun(s)
    BY <1>1, <1>2, ActionKeepsBegun
  <2>2. LifeCycle(s) = "CREATION" => call.dial # "null"
    BY <1>1, <1>2, ActionLeavesCreation DEF Good
  <2> HIDE DEF s
  <2> QED BY <1>2, <2>1, <2>2, ChangeIsGood DEF Good
<1>4. ActionCallback(f, c) /\ f # "call"
  BY DEF performAction, CallbackOfAction
<1>5. LifeCycle("OVER") = "FINISHED" /\ LifeCycle("ERROR") = "FINISHED"
  BY DEF LifeCycle, Talking, Transferring, Conferencing
<1>6. LifeCycle(s) = "FINISHED" \/ f \in {"refuse", "hangUp"}
  BY <1>2, RefusalCells
<1> HIDE DEF s, f, c
<1>7. CASE LifeCycle(s) = "FINISHED"
  BY <1>3, <1>4, <1>5, <1>7, CallbackStates DEF Ending
<1>8. CASE f \in {"refuse", "hangUp"} /\ daemon.call \in Known
  <2>1. DaemonHangUp
    BY <1>4, <1>8 DEF ActionCallback, refuse, hangUp
  <2> QED BY <1>8, <2>1, DaemonHangUpSignals DEF Ending
<1>9. CASE f \in {"refuse", "hangUp"} /\ daemon.call \notin Known
  <2>1. \A e \in Calls : \A t : changeCurrentState(e, t).state = t
    BY DEF changeCurrentState, Calls
  <2>2. [c EXCEPT !.missed = TRUE] \in Calls /\ [c EXCEPT !.stopped = TRUE] \in Calls
    BY <1>3 DEF Calls
  <2>3. call'.state \in {"OVER", "ERROR"}
    BY <1>4, <1>9, <2>1, <2>2 DEF ActionCallback, refuse, hangUp
  <2> QED BY <1>5, <2>3 DEF Ending
<1> QED BY <1>6, <1>7, <1>8, <1>9

\* Hanging up always ends the call, also when the daemon has been restarted and
\* has never heard of it.
THEOREM HangingUpEnds ==
  ASSUME Inputs \cap Untabled = {} PROVE Spec => HangUpEnds
<1>1. IInv /\ [Next]_vars =>
        [performAction("REFUSE") =>
           \/ LifeCycle(call'.state) = "FINISHED"
           \/ \E i \in 1 .. Len(signals') : signals'[i] \in {"HUNGUP", "CONF_REMOVED"}]_vars
  BY RefusalEnds DEF IInv, Ending
<1> QED BY <1>1, Invariance, PTL DEF Spec, HangUpEnds, Phase_
=============================================================================
