--------------------------- MODULE CallOrderProofs ---------------------------
(***************************************************************************)
(* What TLAPS proves of a Call whose daemon keeps to the ordinary sequence  *)
(* and whose user does what the UI offers: however late the signals come,   *)
(* the call implements CallLifeCycle and no handler fails; and if the user  *)
(* does not transfer it, client and daemon agree once all is delivered.     *)
(***************************************************************************)
EXTENDS CallProofs

\* A dialled, received or remembered call, and the actions UserActionModel
\* offers.  The daemon may restart, and signals may be any time on their way.
Ordinary ==
  /\ Origins \subseteq {"dialing", "incoming", "history"}
  /\ Inputs \cap Untabled = {}
  /\ UiOnly
  /\ "unordered" \notin DaemonEvents

-----------------------------------------------------------------------------
(* Phases.                                                                  *)

\* From s to t a call does not go back.
Forward(s, t) ==
  /\ LifeCycle(t) = "CREATION" => LifeCycle(s) = "CREATION"
  /\ Begun(s) => Begun(t)
  /\ LifeCycle(s) = "FINISHED" => LifeCycle(t) = "FINISHED"

LEMMA EndIsForward == \A s \in State, t \in Ended : t \in State /\ Forward(s, t)
BY DEF State, Ended, Forward, Begun, LifeCycle, Talking, Transferring, Conferencing

LEMMA ActionKeepsFinished ==
  \A s \in State, a \in Action \ Untabled :
    LifeCycle(s) = "FINISHED" => LifeCycle(StateAfterAction(s, a)) = "FINISHED"
BY DEF State, Action, Untabled, StateAfterAction, PlainState, LifeCycle,
       Transferring, Conferencing, Talking

LEMMA ActionIsForward ==
  \A s \in State, a \in Action \ Untabled : Forward(s, StateAfterAction(s, a))
BY ActionKeepsFinished, ActionKeepsBegun, ActionLeavesCreation DEF Forward

\* One cell of stateChangedStateMap goes back: BUSY and CURRENT.
LEMMA SignalKeepsFinished ==
  \A s \in State, d \in DaemonState :
    LifeCycle(s) = "FINISHED" /\ ~(s = "BUSY" /\ d = "CURRENT") =>
      LifeCycle(StateAfterSignal(s, d)) = "FINISHED"
<1> SUFFICES ASSUME NEW s \in State, NEW d \in DaemonState,
                    LifeCycle(s) = "FINISHED", ~(s = "BUSY" /\ d = "CURRENT")
             PROVE  StateAfterSignal(s, d) \in Ended
  BY DEF Ended, LifeCycle, Talking, Transferring, Conferencing
<1>1. s \in Ended
  BY DEF State, Ended, LifeCycle, Talking, Transferring, Conferencing
<1>2. PlainState(s) = s /\ LifeCycle(s) # "INITIALIZATION" /\ s \notin Transferring
  BY <1>1 DEF PlainState, Ended, Transferring
<1>3. CASE s \in {"OVER", "ERROR", "ABORTED"}
  BY <1>3 DEF StateAfterSignal, Ended
<1>4. CASE s \in {"BUSY", "FAILURE"}
  BY <1>1, <1>2, <1>4 DEF StateAfterSignal, DaemonState, Ended
<1> QED BY <1>1, <1>3, <1>4 DEF Ended

LEMMA SignalIsForward ==
  \A s \in State, d \in DaemonState :
    ~(s = "BUSY" /\ d = "CURRENT") => Forward(s, StateAfterSignal(s, d))
BY SignalKeepsFinished, SignalKeepsBegun, SignalEndsCreation DEF Forward

\* The assertion of stateChanged() fails on two more cells than it should: a
\* communication that becomes busy, and a busy call that is answered.
LEMMA SignalIsValid ==
  \A s \in State, d \in DaemonState :
    /\ LifeCycle(s) # "CREATION"
    /\ ~(s = "BUSY" /\ d = "CURRENT")
    /\ ~(s \in Talking /\ d = "BUSY")
    => ValidTransition(StateAfterSignal(s, d), LifeCycle(s))
<1> SUFFICES ASSUME NEW s \in State, NEW d \in DaemonState, LifeCycle(s) # "CREATION",
                    ~(s = "BUSY" /\ d = "CURRENT"), ~(s \in Talking /\ d = "BUSY")
             PROVE  ValidTransition(StateAfterSignal(s, d), LifeCycle(s))
  OBVIOUS
<1>1. CASE LifeCycle(s) = "FINISHED"
  <2>1. StateAfterSignal(s, d) \in Ended
    BY <1>1, SignalKeepsFinished, StateAfterSignalType
       DEF State, Ended, LifeCycle, Talking, Transferring, Conferencing
  <2> QED BY <1>1, <2>1 DEF ValidTransition
<1>2. CASE LifeCycle(s) = "INITIALIZATION"
  <2>1. s \in {"INCOMING", "RINGING", "INITIALIZATION", "CONNECTED"}
    BY <1>2 DEF State, LifeCycle, Talking, Transferring, Conferencing
  <2>2. StateAfterSignal(s, d) \notin Transferring
    BY <2>1 DEF StateAfterSignal, DaemonState, PlainState, Transferring
  <2> QED BY <1>2, <2>2 DEF ValidTransition
<1>3. CASE LifeCycle(s) = "PROGRESS"
  <2>1. s \in Talking
    BY <1>3 DEF LifeCycle
  <2>2. s \notin {"NEW", "ERROR", "ABORTED", "OVER", "FAILURE", "RINGING", "CONNECTED",
                  "INITIALIZATION", "DIALING", "BUSY"}
    BY <2>1 DEF Talking, Transferring, Conferencing
  <2>3. PlainState(s) \in {"CURRENT", "HOLD"} \cup Transferring
    BY <2>1 DEF PlainState, Talking, Transferring, Conferencing
  <2>4. d # "BUSY"
    BY <2>1
  <2>5. StateAfterSignal(s, d) \in {"CURRENT", "HOLD", "FAILURE", "OVER", "ERROR"} \cup Transferring
    BY <1>3, <2>2, <2>3, <2>4 DEF StateAfterSignal, DaemonState, Transferring
  <2> QED BY <1>3, <2>5 DEF ValidTransition
<1> QED BY <1>1, <1>2, <1>3, Phases DEF Phase

-----------------------------------------------------------------------------
(* The object.                                                              *)

\* The audio is there exactly while the peers communicate, and nothing failed.
Sound(c) ==
  /\ c.type = "CALL"
  /\ c.media["audioIn"] > 0 <=> LifeCycle(c.state) = "PROGRESS"
  /\ ~c.unexpected /\ ~c.crashed

\* c and e agree on what Sound looks at.
Alike(c, e) ==
  /\ e.type = c.type /\ e.state = c.state /\ e.media["audioIn"] = c.media["audioIn"]
  /\ e.unexpected = c.unexpected /\ e.crashed = c.crashed

LEMMA AlikeIsSound == ASSUME NEW c, NEW e, Sound(c), Alike(c, e) PROVE Sound(e)
BY DEF Sound, Alike

LEMMA ChangeIsSound ==
  ASSUME NEW c \in Calls, Sound(c), NEW s \in State, Begun(c.state) => Begun(s)
  PROVE  Sound(changeCurrentState(c, s)) /\ changeCurrentState(c, s).state = s
<1>1. c.media \in [MediaKind -> Nat] /\ "audioIn" \in MediaKind
  BY DEF Calls, MediaKind
<1>2. LifeCycle(c.state) \in Phase /\ LifeCycle(s) \in Phase
  BY Phases DEF Calls
<1>3. MediaAfter(c, s)["audioIn"] > 0 <=> LifeCycle(s) = "PROGRESS"
  BY <1>1, <1>2 DEF MediaAfter, MediaKind, Sound, Begun, Phase
<1>4. CASE s = c.state
  BY <1>4 DEF changeCurrentState
<1>5. CASE s # c.state
  BY <1>3, <1>5 DEF changeCurrentState, Sound, Calls
<1> QED BY <1>4, <1>5

LEMMA EndIsSound ==
  ASSUME NEW c \in Calls, Sound(c), NEW s \in Ended
  PROVE  Sound(changeCurrentState(c, s)) /\ changeCurrentState(c, s).state = s
<1>1. s \in State /\ Begun(s)
  BY EndIsForward DEF Ended, Begun, LifeCycle, Talking, Transferring, Conferencing, State
<1> QED BY <1>1, ChangeIsSound

LEMMA DiscardIsAlike == ASSUME NEW c \in Calls PROVE Alike(c, DiscardDialNumber(c))
BY DEF Alike, DiscardDialNumber, Calls

LEMMA SendProfileIsAlike == ASSUME NEW c \in Calls, NEW p PROVE Alike(c, sendProfile(c, p))
BY DEF Alike, sendProfile, Calls, MediaKind

LEMMA OutgoingMediaIsAlike ==
  ASSUME NEW c \in Calls, NEW video PROVE Alike(c, updateOutgoingMedia(c, video))
BY DEF Alike, updateOutgoingMedia, Calls, MediaKind

LEMMA StartIsAlike == ASSUME NEW c \in Calls, NEW p PROVE Alike(c, start(c, p))
<1> DEFINE d == DiscardDialNumber(c)
           e == [d EXCEPT !.timer = TimerOf(d.state)]
<1>1. d \in Calls /\ Alike(c, d)
  BY DiscardIsAlike DEF Calls, DiscardDialNumber, Number
<1>2. TimerOf(d.state) \in {"null", "running", "stopped"}
  BY DEF TimerOf
<1>3. e \in Calls /\ Alike(d, e)
  <2> HIDE DEF d
  <2> QED BY <1>1, <1>2 DEF Calls, Alike
<1>4. Alike(e, sendProfile(e, p))
  BY <1>3, SendProfileIsAlike
<1> HIDE DEF d, e
<1>5. start(c, p) = sendProfile(e, p)
  BY DEF start, d, e
<1> QED BY <1>1, <1>3, <1>4, <1>5 DEF Alike

LEMMA SignalCallbackIsAlike ==
  ASSUME NEW c \in Calls, NEW f, NEW p PROVE Alike(c, SignalCallback(f, c, p))
<1>1. CASE f = "start"
  BY <1>1, StartIsAlike DEF SignalCallback
<1>2. CASE f = "failure"
  <2>1. [c EXCEPT !.missed = TRUE] \in Calls /\ Alike(c, [c EXCEPT !.missed = TRUE])
    BY DEF Calls, Alike
  <2> QED BY <1>2, <2>1, StartIsAlike DEF SignalCallback, Alike
<1>3. CASE f = "startWeird"
  BY <1>3, SendProfileIsAlike DEF SignalCallback
<1>4. CASE f \notin {"start", "failure", "startWeird"}
  BY <1>4 DEF SignalCallback, Alike, Calls
<1> QED BY <1>1, <1>2, <1>3, <1>4

LEMMA CallStateChangedIsSound ==
  ASSUME NEW c, Good(c), Sound(c), NEW d \in DaemonState, NEW video, NEW p \in BOOLEAN,
         ValidTransition(StateAfterSignal(c.state, d), LifeCycle(c.state))
  PROVE  LET e == CallStateChanged(c, d, video, p)
         IN Sound(e) /\ e.state \in {StateAfterSignal(c.state, d), "ERROR"}
<1> DEFINE s == StateAfterSignal(c.state, d)
           f == CallbackOfSignal(c.state, d)
           moved == changeCurrentState(c, s)
           marked == [moved EXCEPT !.holdOut = (s = "HOLD"),
                        !.unexpected = @ \/ ~ValidTransition(s, LifeCycle(c.state))]
           held == updateOutgoingMedia(marked, video)
           done == SignalCallback(f, held, p)
           last == IF f = "error" THEN changeCurrentState(held, "ERROR")
                   ELSE IF LifeCycle(done.state) = "CREATION" THEN done
                        ELSE DiscardDialNumber(done)
<1>1. last = CallStateChanged(c, d, video, p)
  BY DEF CallStateChanged
<1>2. c \in Calls /\ c.state \in State /\ s \in State /\ (Begun(c.state) => Begun(s))
  BY StateAfterSignalType, SignalKeepsBegun DEF Good, Calls
<1>3. Sound(moved) /\ moved.state = s /\ moved \in Calls
  <2>1. LifeCycle(s) # "CREATION"
    BY <1>2, SignalEndsCreation
  <2> HIDE DEF s
  <2> QED BY <1>2, <2>1, ChangeIsSound, ChangeIsGood DEF Good
<1>4. marked \in Calls /\ Sound(marked) /\ marked.state = s
  <2>1. ValidTransition(s, LifeCycle(c.state))
    OBVIOUS
  <2> HIDE DEF s, moved
  <2> QED BY <1>3, <2>1 DEF Calls, Sound
<1>5. held \in Calls /\ Sound(held) /\ held.state = s
  <2> HIDE DEF s, marked
  <2>1. Alike(marked, held)
    BY <1>4, OutgoingMediaIsAlike
  <2>2. held \in Calls
    BY <1>4 DEF updateOutgoingMedia, Calls, MediaKind
  <2> QED BY <1>4, <2>1, <2>2, AlikeIsSound DEF Alike
<1> HIDE DEF f, held, s
<1>6. Sound(done) /\ done.state = s /\ Alike(held, done)
  BY <1>5, SignalCallbackIsAlike, AlikeIsSound DEF Alike
<1>7. Sound(changeCurrentState(held, "ERROR")) /\ changeCurrentState(held, "ERROR").state = "ERROR"
  BY <1>5, EndIsSound DEF Ended
<1> HIDE DEF done
<1>8. Sound(DiscardDialNumber(done)) /\ DiscardDialNumber(done).state = s
  <2>1. Alike(done, DiscardDialNumber(done))
    BY DEF Alike, DiscardDialNumber
  <2> QED BY <1>6, <2>1, AlikeIsSound DEF Alike
<1> QED BY <1>1, <1>6, <1>7, <1>8 DEF s

-----------------------------------------------------------------------------
(* The queue.  A call is answered or found busy, never both: Sides says it  *)
(* of a state s, the daemon's call d and the signals q in between.          *)

TalkSignal == {"CURRENT", "UNHOLD", "HOLD"}
BusySignal == {"BUSY", "HUNGUP_REFUSED"}
AfterTalk == {"current", "hold", "failed", "hungup", "over", "gone"}
AfterBusy == {"busy", "hungup", "over", "gone"}

Among(q, S) == \E i \in 1 .. Len(q) : q[i] \in S
Talks(s, q) == s \in Talking \/ Among(q, TalkSignal)
Busies(s, q) == s = "BUSY" \/ Among(q, BusySignal)

Sides(s, d, q) ==
  /\ d \in DaemonCall \ InConference
  /\ LifeCycle(s) = "CREATION" => d = "none" /\ q = <<>>
  /\ Talks(s, q) => d \in AfterTalk
  /\ Busies(s, q) => d \in AfterBusy
  /\ ~(Talks(s, q) /\ Busies(s, q))

\* The daemon goes from d to e and says y.
Emits(d, y, e) ==
  /\ d # "none" /\ e \in DaemonCall \ InConference
  /\ Among(y, TalkSignal) => /\ d \in {"connecting", "ringing", "incoming", "current", "hold"}
                             /\ e \in {"current", "hold"}
  /\ Among(y, BusySignal) => d \in {"connecting", "ringing"} /\ e \in {"busy", "hungup"}
  /\ d \in AfterTalk => e \in AfterTalk
  /\ d \in AfterBusy => e \in AfterBusy

LEMMA AmongConcat ==
  ASSUME NEW q \in Seq(Signal), NEW y \in Seq(Signal), NEW S, Among(q \o y, S)
  PROVE  Among(q, S) \/ Among(y, S)
<1>1. PICK i \in 1 .. Len(q \o y) : (q \o y)[i] \in S
  BY DEF Among
<1>2. Len(q \o y) = Len(q) + Len(y) /\ Len(q) \in Nat /\ Len(y) \in Nat
  OBVIOUS
<1>3. CASE i <= Len(q)
  <2>1. (q \o y)[i] = q[i] /\ i \in 1 .. Len(q)
    BY <1>2, <1>3
  <2> QED BY <1>1, <2>1 DEF Among
<1>4. CASE i > Len(q)
  <2>1. (q \o y)[i] = y[i - Len(q)] /\ i - Len(q) \in 1 .. Len(y)
    BY <1>2, <1>4
  <2> QED BY <1>1, <2>1 DEF Among
<1> QED BY <1>2, <1>3, <1>4

LEMMA AmongTail ==
  ASSUME NEW q \in Seq(Signal), q # <<>>, NEW S, Among(Tail(q), S)
  PROVE  Among(q, S)
<1>1. PICK i \in 1 .. Len(Tail(q)) : Tail(q)[i] \in S
  BY DEF Among
<1>2. Tail(q)[i] = q[i + 1] /\ i + 1 \in 1 .. Len(q)
  OBVIOUS
<1> QED BY <1>1, <1>2 DEF Among

LEMMA EmitKeepsSides ==
  ASSUME NEW s, NEW d, NEW e, NEW q \in Seq(Signal), NEW y \in Seq(Signal),
         Sides(s, d, q), Emits(d, y, e)
  PROVE  Sides(s, e, q \o y)
<1>1. LifeCycle(s) # "CREATION" /\ e \in DaemonCall \ InConference
  BY DEF Sides, Emits
<1>2. Talks(s, q \o y) => Talks(s, q) \/ Among(y, TalkSignal)
  BY AmongConcat DEF Talks
<1>3. Busies(s, q \o y) => Busies(s, q) \/ Among(y, BusySignal)
  BY AmongConcat DEF Busies
<1> QED BY <1>1, <1>2, <1>3 DEF Sides, Emits, AfterTalk, AfterBusy

\* A state that is on no other side.
LEMMA CalmerKeepsSides ==
  ASSUME NEW s, NEW t, NEW d, NEW q, Sides(s, d, q),
         t \in Talking => s \in Talking, t = "BUSY" => s = "BUSY",
         LifeCycle(t) = "CREATION" => LifeCycle(s) = "CREATION"
  PROVE  Sides(t, d, q)
BY DEF Sides, Talks, Busies

-----------------------------------------------------------------------------
(* What the daemon does.                                                    *)

\* The daemon answered, or went on: the queue grew by what it said.
Said == \E y \in Seq(Signal) : signals' = signals \o y /\ Emits(daemon.call, y, daemon'.call)

LEMMA OneSignal ==
  ASSUME NEW x \in Signal
  PROVE  <<x>> \in Seq(Signal) /\ \A S : Among(<<x>>, S) <=> x \in S
BY DEF Among

LEMMA AppendIsConcat ==
  \A q \in Seq(Signal), x \in Signal : Append(q, x) = q \o <<x>>
<1> SUFFICES ASSUME NEW q \in Seq(Signal), NEW x \in Signal
             PROVE  Append(q, x) = q \o <<x>>
  OBVIOUS
<1>1. Append(q, x) \in Seq(Signal) /\ q \o <<x>> \in Seq(Signal)
  BY OneSignal
<1>2. Len(Append(q, x)) = Len(q \o <<x>>)
  BY OneSignal
<1>3. \A i \in 1 .. Len(q) + 1 : Append(q, x)[i] = (q \o <<x>>)[i]
  BY OneSignal
<1> QED BY <1>1, <1>2, <1>3

LEMMA Saying ==
  ASSUME DaemonOK, NEW x \in Signal, NEW e, Become(e, <<x>>), Emits(daemon.call, <<x>>, e)
  PROVE  Said
BY OneSignal DEF Said, Become, DaemonOK

LEMMA Emissions ==
  ASSUME NEW d, d # "none", NEW e \in DaemonCall \ InConference, NEW x \in Signal,
         x \in TalkSignal => /\ d \in {"connecting", "ringing", "incoming", "current", "hold"}
                             /\ e \in {"current", "hold"},
         x \in BusySignal => d \in {"connecting", "ringing"} /\ e \in {"busy", "hungup"},
         d \in AfterTalk => e \in AfterTalk,
         d \in AfterBusy => e \in AfterBusy
  PROVE  Emits(d, <<x>>, e)
BY OneSignal DEF Emits

LEMMA RepliesSay ==
  ASSUME DaemonOK, daemon.call \notin InConference,
         DaemonAnswer \/ DaemonHold \/ DaemonUnhold \/ DaemonHangUp
  PROVE  Said \/ Quiet
<1> USE DEF TalkSignal, BusySignal, AfterTalk, AfterBusy, InConference, DaemonCall
<1>1. {"CURRENT", "UNHOLD", "HOLD", "HUNGUP"} \subseteq Signal
  BY DEF Signal, StateSignal, DaemonState
<1>2. CASE DaemonAnswer
  BY <1>1, <1>2, Saying, Emissions DEF DaemonAnswer
<1>3. CASE DaemonHold
  BY <1>1, <1>3, Saying, Emissions DEF DaemonHold
<1>4. CASE DaemonUnhold
  <2>1. daemon.call = "hold" => \E x \in {"CURRENT", "UNHOLD"} : Become("current", <<x>>)
    BY <1>4 DEF DaemonUnhold
  <2>2. daemon.call # "hold" => Quiet
    BY <1>4 DEF DaemonUnhold
  <2> QED BY <1>1, <2>1, <2>2, Saying, Emissions
<1>5. CASE DaemonHangUp
  <2>1. daemon.call \in Known => Become("hungup", <<"HUNGUP">>)
    BY <1>5 DEF DaemonHangUp
  <2>2. daemon.call \notin Known => Quiet
    BY <1>5 DEF DaemonHangUp, Known
  <2> QED BY <1>1, <2>1, <2>2, Saying, Emissions DEF Known
<1> QED BY <1>2, <1>3, <1>4, <1>5

LEMMA DaemonStepSays ==
  ASSUME DaemonOK, daemon.call \notin InConference, "unordered" \notin DaemonEvents, DaemonStep
  PROVE  Said
<1> USE DEF TalkSignal, BusySignal, AfterTalk, AfterBusy, InConference, DaemonCall, Known
<1>1. {"CURRENT", "HOLD", "HUNGUP", "HUNGUP_REFUSED", "FAILURE", "BUSY", "OVER", "RINGING",
       "CONNECTING", "INACTIVE", "PEER_HOLD", "PEER_UNHOLD"} \subseteq Signal
  BY DEF Signal, StateSignal, DaemonState
<1>2. CASE PeerHolds
  <2>1. PICK x \in {"PEER_HOLD", "PEER_UNHOLD"} : signals' = signals \o <<x>>
    BY <1>1, <1>2, AppendIsConcat DEF PeerHolds, DaemonOK
  <2>2. daemon'.call = daemon.call /\ daemon.call \in {"current", "hold"}
    BY <1>2 DEF PeerHolds, Communicating, DaemonOK
  <2>3. Emits(daemon.call, <<x>>, daemon'.call)
    BY <1>1, <2>2, Emissions
  <2> QED BY <1>1, <2>1, <2>3, OneSignal DEF Said
<1>3. CASE DaemonRestarts
  <2>1. signals' = signals \o <<>> /\ daemon'.call = "gone" /\ <<>> \in Seq(Signal)
    BY <1>3 DEF DaemonRestarts, DaemonOK
  <2>2. Emits(daemon.call, <<>>, daemon'.call)
    BY <1>3, <2>1 DEF DaemonRestarts, Emits, Among
  <2> QED BY <2>1, <2>2 DEF Said
<1>4. CASE DaemonProgress
  <2>1. \/ daemon.call = "connecting" /\ \E x \in {"INACTIVE", "CONNECTING"} : Become("connecting", <<x>>)
        \/ daemon.call = "connecting" /\ Become("ringing", <<"RINGING">>)
        \/ daemon.call = "ringing" /\ Become("connecting", <<"CONNECTING">>)
        \/ daemon.call \in {"connecting", "ringing", "hold"} /\ Become("current", <<"CURRENT">>)
        \/ daemon.call = "current" /\ Become("hold", <<"HOLD">>)
    BY <1>4 DEF DaemonProgress
  <2> QED BY <1>1, <2>1, Saying, Emissions
<1>5. CASE DaemonEnds
  <2>1. \/ daemon.call \in {"connecting", "ringing"} /\ Become("busy", <<"BUSY">>)
        \/ daemon.call \in {"connecting", "ringing"} /\ Become("hungup", <<"HUNGUP_REFUSED">>)
        \/ daemon.call \in Known \ {"busy", "failed"} /\ Become("failed", <<"FAILURE">>)
        \/ daemon.call \in Known \ {"busy", "failed"} /\ Become("hungup", <<"HUNGUP">>)
        \/ daemon.call \in {"busy", "failed", "hungup"} /\ Become("over", <<"OVER">>)
    BY <1>5 DEF DaemonEnds
  <2> QED BY <1>1, <2>1, Saying, Emissions
<1> QED BY <1>2, <1>3, <1>4, <1>5 DEF DaemonStep, DaemonUnordered

LEMMA SaidKeepsSides ==
  ASSUME DaemonOK, NEW s, Sides(s, daemon.call, signals), Said \/ Quiet
  PROVE  Sides(s, daemon'.call, signals')
BY EmitKeepsSides DEF Said, Quiet, DaemonOK

-----------------------------------------------------------------------------
(* Every action keeps the call sound and on its side.                       *)

Safe == Sound(call) /\ Sides(call.state, daemon.call, signals)

\* The callbacks other than call(), on the call the table has moved.
LEMMA CallbackIsSound ==
  ASSUME NEW c, c \in Calls, Sound(c), NEW f, f # "call", ActionCallback(f, c)
  PROVE  Sound(call')
<1>1. ASSUME NEW e, e \in Calls, Alike(c, e)
      PROVE  Sound(e) /\ \A s \in {"OVER", "ERROR"} : Sound(changeCurrentState(e, s))
  BY <1>1, AlikeIsSound, EndIsSound DEF Ended
<1>2. /\ [c EXCEPT !.missed = TRUE] \in Calls /\ Alike(c, [c EXCEPT !.missed = TRUE])
      /\ [c EXCEPT !.stopped = TRUE] \in Calls /\ Alike(c, [c EXCEPT !.stopped = TRUE])
      /\ Alike(c, c)
  BY DEF Calls, Alike
<1>3. CASE refuse(c)
  BY <1>1, <1>2, <1>3 DEF refuse
<1>4. CASE hangUp(c)
  <2> DEFINE ended == [c EXCEPT !.stopped = TRUE]
             halted == [ended EXCEPT !.timer = IF @ = "null" THEN @ ELSE "stopped"]
  <2>1. halted \in Calls /\ Alike(c, halted)
    BY DEF Calls, Alike
  <2> QED BY <1>1, <1>2, <1>4, <2>1 DEF hangUp
<1>5. CASE remove(c) \/ cancel(c)
  BY <1>1, <1>2, <1>5 DEF remove, cancel
<1>6. CASE transfer(c) \/ accept(c) \/ acceptTransf(c) \/ acceptHold(c) \/ call' = c
  BY <1>1, <1>2, <1>6 DEF transfer, accept, acceptTransf, acceptHold
<1>7. CASE hold(c) \/ unhold(c) \/ toggleRecord(c, "AUDIO") \/ toggleRecord(c, "VIDEO")
  <2>1. Alike(c, call')
    BY <1>7 DEF hold, unhold, toggleRecord, Alike, Calls
  <2> QED BY <2>1, AlikeIsSound
<1> QED BY <1>3, <1>4, <1>5, <1>6, <1>7 DEF ActionCallback

LEMMA CallbackSays ==
  ASSUME NEW c, NEW f, f # "call", ActionCallback(f, c),
         DaemonOK, daemon.call \notin InConference
  PROVE  Said \/ Quiet
<1>1. CASE Quiet \/ DaemonAnswer \/ DaemonHold \/ DaemonUnhold \/ DaemonHangUp
  BY <1>1, RepliesSay
<1>2. CASE acceptHold(c)
  <2>1. CASE daemon.call = "incoming"
    <3>1. <<"CURRENT", "HOLD">> \in Seq(Signal)
      BY SignalSequences DEF Signal, StateSignal, DaemonState
    <3>2. signals' = signals \o <<"CURRENT", "HOLD">> /\ daemon'.call = "hold"
      BY <1>2, <2>1 DEF acceptHold, Become, DaemonOK
    <3>3. \A i \in 1 .. Len(<<"CURRENT", "HOLD">>) : <<"CURRENT", "HOLD">>[i] \notin BusySignal
      BY DEF BusySignal
    <3>4. Emits("incoming", <<"CURRENT", "HOLD">>, "hold")
      BY <3>3 DEF Emits, Among, AfterTalk, AfterBusy, InConference, DaemonCall
    <3> QED BY <2>1, <3>1, <3>2, <3>4 DEF Said
  <2>2. CASE daemon.call # "incoming"
    BY <1>1, <1>2, <2>2 DEF acceptHold
  <2> QED BY <2>1, <2>2
<1>3. ASSUME NEW m, toggleRecord(c, m)
      PROVE  Said \/ Quiet
  <2>1. CASE daemon.call \in Known
    <3>1. PICK x \in {"RECORD_ON", "RECORD_OFF"} : signals' = Append(signals, x)
      BY <1>3, <2>1 DEF toggleRecord
    <3>2. daemon'.call = daemon.call
      BY <1>3, <2>1 DEF toggleRecord, DaemonOK
    <3>3. x \in Signal /\ x \notin TalkSignal \cup BusySignal
      BY DEF Signal, TalkSignal, BusySignal
    <3>4. Emits(daemon.call, <<x>>, daemon'.call)
      BY <2>1, <3>2, <3>3, Emissions DEF Known, DaemonOK
    <3> QED BY <3>1, <3>3, <3>4, AppendIsConcat, OneSignal DEF Said, DaemonOK
  <2>2. CASE daemon.call \notin Known
    BY <1>3, <2>2 DEF toggleRecord
  <2> QED BY <2>1, <2>2
<1> QED BY <1>1, <1>2, <1>3 DEF ActionCallback, accept, refuse, acceptTransf, hangUp, remove,
           cancel, hold, unhold, transfer

\* The tables: no action answers the call or makes it busy.
LEMMA ActionIsCalmer ==
  \A s \in State, a \in Action \ Untabled :
    LET t == StateAfterAction(s, a)
    IN (t \in Talking => s \in Talking) /\ (t = "BUSY" => s = "BUSY")
BY DEF State, Action, Untabled, StateAfterAction, PlainState, Talking, Transferring, Conferencing

\* And CURRENT, HOLD and BUSY are the only signals that do.
LEMMA SignalSides ==
  \A s \in State, d \in DaemonState :
    LET t == StateAfterSignal(s, d)
    IN /\ t \in Talking => s \in Talking \/ d \in {"CURRENT", "HOLD"}
       /\ t = "BUSY" => s = "BUSY" \/ d = "BUSY"
BY DEF State, DaemonState, StateAfterSignal, PlainState, LifeCycle, Talking, Transferring,
       Conferencing

\* The user calls from DIALING, when nothing is on its way and the number exists.
LEMMA PlaceCallIsSafe ==
  ASSUME Good(call), Safe, NEW c, Good(c), Sound(c), c.state = "INITIALIZATION",
         c.dial # "null", daemon.call = "none", signals = <<>>, PlaceCall(c)
  PROVE  Safe'
<1> DEFINE uri == IF c.peer = "null" THEN c.dial ELSE c.peer
           ready == [c EXCEPT !.peer = uri, !.dial = "null"]
<1>1. c \in Calls /\ uri # "null" /\ {"ABORTED", "ERROR", "FAILURE"} \subseteq Ended
  BY DEF Good, Ended
<1>2. ready \in Calls /\ Alike(c, ready)
  BY <1>1 DEF Calls, Alike, Number
<1>3. ASSUME NEW e, e \in Calls, Alike(c, e)
      PROVE  Sound(e) /\ \A s \in Ended : Sound(changeCurrentState(e, s))
                                        /\ changeCurrentState(e, s).state = s
  BY <1>3, AlikeIsSound, EndIsSound
<1>4. ASSUME NEW s \in {"INITIALIZATION", "ABORTED", "ERROR", "FAILURE"},
             NEW d \in {"none", "connecting"}
      PROVE  Sides(s, d, <<>>)
  BY DEF Sides, Talks, Busies, Among, LifeCycle, Talking, Transferring, Conferencing,
         DaemonCall, InConference
<1>5. CASE uri = "empty"
  <2> DEFINE gone == changeCurrentState(c, "ABORTED")
             e == [gone EXCEPT !.dial = "null"]
  <2>1. call' = e /\ Quiet
    BY <1>5 DEF PlaceCall
  <2>2. Sound(gone) /\ gone.state = "ABORTED" /\ gone \in Calls
    <3>1. Alike(c, c)
      BY DEF Alike
    <3> QED BY <1>1, <1>3, <3>1, EndIsGood DEF Good
  <2>3. Alike(gone, e)
    <3> HIDE DEF gone
    <3> QED BY <2>2 DEF Alike, Calls
  <2> HIDE DEF gone, e
  <2> QED BY <1>4, <2>1, <2>2, <2>3, AlikeIsSound DEF Safe, Quiet, Alike
<1>6. CASE uri # "empty"
  <2>1. Alike(c, c)
    BY DEF Alike
  <2>2. \/ call' = changeCurrentState(c, "ERROR") /\ Quiet
        \/ call' = changeCurrentState(ready, "FAILURE") /\ Quiet
        \/ /\ call' = ready
           /\ daemon' = [call |-> "connecting", peerHold |-> FALSE, recording |-> FALSE]
           /\ UNCHANGED signals
    BY <1>1, <1>6 DEF PlaceCall
  <2>3. ready.state = "INITIALIZATION"
    BY <1>2 DEF Alike
  <2> HIDE DEF ready
  <2> QED BY <1>1, <1>2, <1>3, <1>4, <2>1, <2>2, <2>3 DEF Safe, Quiet
<1> QED BY <1>5, <1>6

LEMMA PerformActionIsSafe ==
  ASSUME Ordinary, IInv, Safe, NEW a \in Action, performAction(a)
  PROVE  Safe' /\ Forward(call.state, call'.state)
<1> DEFINE s == StateAfterAction(call.state, a)
           f == CallbackOfAction(call.state, a)
           c == changeCurrentState(call, s)
<1>0. a \in Action \ Untabled /\ Good(call) /\ DaemonOK
  BY DEF performAction, Ordinary, IInv
<1>1. call \in Calls /\ call.state \in State /\ s \in State
  BY <1>0, StateAfterActionType DEF Good, Calls
<1>2. Forward(call.state, s)
  BY <1>0, <1>1, ActionIsForward
<1>3. (s \in Talking => call.state \in Talking) /\ (s = "BUSY" => call.state = "BUSY")
  BY <1>0, <1>1, ActionIsCalmer
<1>4. ActionCallback(f, c)
  BY DEF performAction
<1>5. f = "call" => call.state = "DIALING" /\ s = "INITIALIZATION"
  <2>1. a \in Offered(call.state)
    BY DEF performAction, Ordinary
  <2> QED BY <2>1 DEF Offered, CallbackOfAction, StateAfterAction, Transferring
<1> HIDE DEF s, f
<1>6. Good(c) /\ c.state = s /\ c.dial = call.dial
  BY <1>0, <1>1, <1>2, ChangeIsGood DEF Forward, Good
<1>7. Sound(c)
  BY <1>1, <1>2, ChangeIsSound DEF Safe, Forward
<1> HIDE DEF c
<1>8. CASE f = "call"
  <2>1. LifeCycle(call.state) = "CREATION"
    BY <1>5, <1>8 DEF LifeCycle, Talking, Transferring, Conferencing
  <2>2. call.dial # "null" /\ daemon.call = "none" /\ signals = <<>>
    BY <1>0, <2>1 DEF Good, Safe, Sides
  <2>3. PlaceCall(c)
    BY <1>4, <1>8 DEF ActionCallback
  <2>4. Safe'
    BY <1>0, <1>5, <1>6, <1>7, <1>8, <2>2, <2>3, PlaceCallIsSafe
  <2>5. LifeCycle(call'.state) # "CREATION"
    <3>1. c \in Calls /\ c.state = "INITIALIZATION"
      BY <1>5, <1>6, <1>8 DEF Good
    <3>2. \A e \in Calls : \A t : changeCurrentState(e, t).state = t
      BY DEF changeCurrentState, Calls
    <3>3. call'.state \in {"INITIALIZATION", "ABORTED", "ERROR", "FAILURE"}
      <4> DEFINE uri == IF c.peer = "null" THEN c.dial ELSE c.peer
                 ready == [c EXCEPT !.peer = uri, !.dial = "null"]
                 gone == changeCurrentState(c, "ABORTED")
      <4>1. ready \in Calls /\ ready.state = "INITIALIZATION"
        BY <3>1 DEF Calls, Number
      <4>2. gone.state = "ABORTED" /\ gone \in Calls
        BY <1>6, EndIsGood DEF Good, Ended
      <4>3. [gone EXCEPT !.dial = "null"].state = "ABORTED"
        <5> HIDE DEF gone
        <5> QED BY <4>2 DEF Calls
      <4>4. \/ call' = [gone EXCEPT !.dial = "null"] \/ call' = changeCurrentState(c, "ERROR")
            \/ call' = changeCurrentState(ready, "FAILURE") \/ call' = ready
        BY <1>6, <2>2, <2>3 DEF PlaceCall
      <4> HIDE DEF ready, gone
      <4> QED BY <3>1, <3>2, <4>1, <4>2, <4>3, <4>4
    <3> QED BY <3>3 DEF LifeCycle, Talking, Transferring, Conferencing
  <2> QED BY <2>1, <2>4, <2>5 DEF Forward, Begun
<1>9. CASE f # "call"
  <2>1. Sound(call')
    BY <1>4, <1>6, <1>7, <1>9, CallbackIsSound DEF Good
  <2>2. call'.state \in {s, "OVER", "ERROR"}
    BY <1>4, <1>6, <1>9, CallbackStates DEF Good
  <2>3. Forward(call.state, call'.state)
    BY <1>1, <1>2, <2>2, EndIsForward DEF Ended
  <2>4. Sides(call'.state, daemon.call, signals)
    <3>1. (call'.state \in Talking => call.state \in Talking)
          /\ (call'.state = "BUSY" => call.state = "BUSY")
      BY <1>3, <2>2 DEF Talking, Transferring, Conferencing
    <3> QED BY <2>3, <3>1, CalmerKeepsSides DEF Safe, Forward
  <2>5. Said \/ Quiet
    BY <1>0, <1>4, <1>9, CallbackSays DEF Safe, Sides
  <2>6. Sides(call'.state, daemon'.call, signals')
    BY <1>0, <2>4, <2>5, SaidKeepsSides
  <2> QED BY <2>1, <2>3, <2>6 DEF Safe
<1> QED BY <1>8, <1>9

\* Keyboard handling: NEW and DIALING among themselves, ABORTED, or no change.
LEMMA EditsAreSafe ==
  ASSUME IInv, Safe, Edits
  PROVE  Safe' /\ Forward(call.state, call'.state)
<1>0. call \in Calls /\ Good(call) /\ Quiet
  BY DEF IInv, Good, Edits, setDialNumber, setPeerContactMethod, appendText, backspaceItemText,
         reset, setTransferNumber, Editing
<1>1. Creating => call.dial # "null"
  BY <1>0 DEF Good, Creating
<1>2. ASSUME Sound(call'), \/ call'.state \in {call.state, "ABORTED"}
                           \/ Creating /\ LifeCycle(call'.state) = "CREATION"
      PROVE  Safe' /\ Forward(call.state, call'.state)
  <2>1. Forward(call.state, call'.state)
    BY <1>2 DEF Forward, Begun, Creating, LifeCycle, Talking, Transferring, Conferencing
  <2>2. /\ call'.state \in Talking => call.state \in Talking
        /\ call'.state = "BUSY" => call.state = "BUSY"
    BY <1>2 DEF LifeCycle, Talking, Transferring, Conferencing
  <2>3. Sides(call'.state, daemon.call, signals)
    BY <2>1, <2>2, CalmerKeepsSides DEF Safe, Forward
  <2> QED BY <1>0, <1>2, <2>1, <2>3 DEF Safe, Quiet
<1>3. LifeCycle("NEW") = "CREATION" /\ LifeCycle("DIALING") = "CREATION"
      /\ {"NEW", "DIALING"} \subseteq State
  BY DEF LifeCycle, State, Talking, Transferring, Conferencing
<1>4. ASSUME Creating, NEW e, e \in Calls, Sound(e), LifeCycle(e.state) = "CREATION",
             NEW s \in {"NEW", "DIALING"}
      PROVE  Sound(changeCurrentState(e, s)) /\ changeCurrentState(e, s).state = s
             /\ changeCurrentState(e, s) \in Calls
  <2>1. Sound(changeCurrentState(e, s)) /\ changeCurrentState(e, s).state = s
    BY <1>3, <1>4, ChangeIsSound DEF Begun
  <2>2. MediaAfter(e, s) = e.media
    BY <1>3, <1>4 DEF MediaAfter
  <2>3. changeCurrentState(e, s) \in Calls
    BY <1>3, <1>4, <2>2 DEF changeCurrentState, Calls, TimerOf
  <2> QED BY <2>1, <2>3
<1>5. ASSUME NEW e, e \in Calls, Sound(e), NEW n \in Number
      PROVE  /\ [e EXCEPT !.dial = n] \in Calls /\ Sound([e EXCEPT !.dial = n])
             /\ [e EXCEPT !.dial = n].state = e.state
             /\ [e EXCEPT !.peer = n] \in Calls /\ Sound([e EXCEPT !.peer = n])
             /\ [e EXCEPT !.peer = n].state = e.state /\ [e EXCEPT !.peer = n].dial = e.dial
             /\ Sound([e EXCEPT !.transfer = n]) /\ [e EXCEPT !.transfer = n].state = e.state
  BY <1>5 DEF Calls, Sound
<1>6. ASSUME Creating, NEW e, e \in Calls, Sound(e), LifeCycle(e.state) = "CREATION",
             e.dial # "null", NEW n \in {"empty", "number"}
      PROVE  Sound(Dialed(e, n)) /\ LifeCycle(Dialed(e, n).state) = "CREATION"
  <2> DEFINE g == [e EXCEPT !.dial = n]
  <2>1. g \in Calls /\ Sound(g) /\ g.state = e.state
    BY <1>5, <1>6 DEF Number
  <2> HIDE DEF g
  <2>2. \A s \in {"NEW", "DIALING"} : Sound(changeCurrentState(g, s))
                                     /\ changeCurrentState(g, s).state = s
    BY <1>4, <1>6, <2>1
  <2>3. Dialed(e, n) \in {g, changeCurrentState(g, "DIALING"), changeCurrentState(g, "NEW")}
    BY <1>6 DEF Dialed, g
  <2> QED BY <1>3, <1>6, <2>1, <2>2, <2>3
<1>7. CASE setDialNumber
  BY <1>0, <1>1, <1>2, <1>6, <1>7 DEF setDialNumber, Creating, Safe
<1>8. CASE setPeerContactMethod
  <2>1. PICK n \in {"empty", "number"} : call' = Dialed([call EXCEPT !.peer = n], n)
    BY <1>8 DEF setPeerContactMethod
  <2>2. Creating
    BY <1>8 DEF setPeerContactMethod
  <2>3. LET e == [call EXCEPT !.peer = n]
        IN e \in Calls /\ Sound(e) /\ LifeCycle(e.state) = "CREATION" /\ e.dial # "null"
    BY <1>0, <1>1, <1>5, <2>2 DEF Safe, Creating, Number
  <2>4. Sound(call') /\ LifeCycle(call'.state) = "CREATION"
    BY <1>6, <2>1, <2>2, <2>3
  <2> QED BY <1>2, <2>2, <2>4
<1>9. ASSUME Creating, NEW s \in {"NEW", "DIALING"}, NEW n \in {"empty", "number"},
             \/ call' = [changeCurrentState(call, s) EXCEPT !.dial = IF @ = "null" THEN @ ELSE n]
             \/ call' = [changeCurrentState(call, s) EXCEPT !.dial = n]
      PROVE  Safe' /\ Forward(call.state, call'.state)
  <2> DEFINE c == changeCurrentState(call, s)
  <2>1. c \in Calls /\ Sound(c) /\ c.state = s
    BY <1>0, <1>4, <1>9 DEF Safe, Creating
  <2> HIDE DEF c
  <2>2. \E k \in Number : call' = [c EXCEPT !.dial = k]
    BY <1>9, <2>1 DEF c, Number, Calls
  <2>3. Sound(call') /\ call'.state = s
    BY <1>5, <2>1, <2>2
  <2> QED BY <1>2, <1>3, <1>9, <2>3
<1>10. ASSUME NEW n \in Number, call' = [call EXCEPT !.transfer = n]
       PROVE  Safe' /\ Forward(call.state, call'.state)
  <2>1. Sound([call EXCEPT !.transfer = n]) /\ [call EXCEPT !.transfer = n].state = call.state
    BY <1>0, <1>5 DEF Safe
  <2> QED BY <1>2, <1>10, <2>1
<1>11. CASE appendText
  BY <1>9, <1>10, <1>11 DEF appendText, Number
<1>12. CASE backspaceItemText
  <2>1. Sound(changeCurrentState(call, "ABORTED")) /\ changeCurrentState(call, "ABORTED").state = "ABORTED"
    BY <1>0, EndIsSound DEF Ended, Safe
  <2>2. CASE call' = changeCurrentState(call, "ABORTED")
    BY <1>2, <2>1, <2>2
  <2>3. CASE call' # changeCurrentState(call, "ABORTED")
    BY <1>1, <1>9, <1>10, <1>12, <2>3 DEF backspaceItemText, Number
  <2> QED BY <2>2, <2>3
<1>13. CASE reset
  BY <1>9, <1>10, <1>13 DEF reset, Number
<1>14. CASE setTransferNumber
  BY <1>10, <1>14 DEF setTransferNumber, Number
<1> QED BY <1>7, <1>8, <1>11, <1>12, <1>13, <1>14 DEF Edits

\* The signal at the head of the queue takes the call to its own side.
LEMMA TailKeepsSides ==
  ASSUME NEW s, NEW t, NEW d, NEW q \in Seq(Signal), q # <<>>, Sides(s, d, q),
         t \in Talking => s \in Talking \/ Head(q) \in TalkSignal,
         t = "BUSY" => s = "BUSY" \/ Head(q) \in BusySignal,
         LifeCycle(t) # "CREATION"
  PROVE  Sides(t, d, Tail(q))
<1>1. \A S : Head(q) \in S => Among(q, S)
  BY DEF Among
<1>2. \A S : Among(Tail(q), S) => Among(q, S)
  BY AmongTail
<1>3. (Talks(t, Tail(q)) => Talks(s, q)) /\ (Busies(t, Tail(q)) => Busies(s, q))
  BY <1>1, <1>2 DEF Talks, Busies
<1> QED BY <1>3 DEF Sides

LEMMA StateSignalsAreSafe ==
  ASSUME IInv, Safe, slotCallStateChanged
  PROVE  Safe' /\ Forward(call.state, call'.state)
<1> DEFINE h == Head(signals)
           d == ToDaemonState(StateName(h))
           t == StateAfterSignal(call.state, d)
<1>1. /\ signals # <<>> /\ signals \in Seq(Signal) /\ Good(call) /\ call.state \in State
      /\ signals' = Tail(signals) /\ daemon' = daemon
  BY DEF slotCallStateChanged, Dequeue, IInv, DaemonOK, Good, Calls
<1>2. Sides(call.state, daemon.call, signals) /\ Sound(call) /\ LifeCycle(call.state) # "CREATION"
  BY <1>1 DEF Safe, Sides
<1>3. d \in DaemonState
  BY ToDaemonStateType
<1>4. (d \in {"CURRENT", "HOLD"} => h \in TalkSignal) /\ (d = "BUSY" => h \in BusySignal)
  BY DEF ToDaemonState, StateName, TalkSignal, BusySignal, DaemonState
<1>5. PICK profile \in Profiles, video \in Videos : call' = CallStateChanged(call, d, video, profile)
  BY DEF slotCallStateChanged
<1> HIDE DEF d
<1>6. (h \in TalkSignal => Among(signals, TalkSignal)) /\ (h \in BusySignal => Among(signals, BusySignal))
  BY <1>1 DEF Among
<1>7. ~(call.state = "BUSY" /\ d = "CURRENT") /\ ~(call.state \in Talking /\ d = "BUSY")
  BY <1>2, <1>4, <1>6 DEF Sides, Talks, Busies
<1>8. ValidTransition(t, LifeCycle(call.state)) /\ Forward(call.state, t)
  BY <1>1, <1>2, <1>3, <1>7, SignalIsValid, SignalIsForward
<1>9. profile \in BOOLEAN
  BY <1>5, ConstantsAssumption
<1>10. Sound(call') /\ call'.state \in {t, "ERROR"}
  BY <1>1, <1>2, <1>3, <1>5, <1>8, <1>9, CallStateChangedIsSound
<1>11. Forward(call.state, call'.state) /\ LifeCycle(call'.state) # "CREATION"
  BY <1>1, <1>2, <1>8, <1>10, EndIsForward DEF Ended, Forward
<1>12. /\ t \in Talking => call.state \in Talking \/ d \in {"CURRENT", "HOLD"}
       /\ t = "BUSY" => call.state = "BUSY" \/ d = "BUSY"
  BY <1>1, <1>3, SignalSides
<1>13. "ERROR" \notin Talking
  BY DEF Talking, Transferring, Conferencing
<1> HIDE DEF h, t
<1>14. Sides(call'.state, daemon.call, Tail(signals))
  BY <1>1, <1>2, <1>4, <1>10, <1>11, <1>12, <1>13, TailKeepsSides DEF h
<1> QED BY <1>1, <1>10, <1>11, <1>14 DEF Safe

\* What a peer's hold and the recorder say changes one flag.
LEMMA SlotsAreSafe ==
  ASSUME IInv, Safe, DeliverSignal
  PROVE  Safe' /\ Forward(call.state, call'.state)
<1>1. CASE slotCallStateChanged
  BY <1>1, StateSignalsAreSafe
<1>2. CASE slotChangingConference \/ slotConferenceRemoved
  BY <1>2 DEF slotChangingConference, slotConferenceRemoved, Safe, Sound
<1>3. CASE slotPeerHold \/ slotRecordStateChanged
  <2>1. signals # <<>> /\ signals \in Seq(Signal) /\ signals' = Tail(signals) /\ daemon' = daemon
    BY <1>3 DEF slotPeerHold, slotRecordStateChanged, Dequeue, IInv, DaemonOK
  <2>2. Alike(call, call')
    BY <1>3 DEF slotPeerHold, slotRecordStateChanged, Alike, IInv, Good, Calls
  <2>3. Sound(call') /\ call'.state = call.state
    BY <2>2, AlikeIsSound DEF Safe, Alike
  <2>4. LifeCycle(call.state) # "CREATION"
    BY <2>1 DEF Safe, Sides
  <2>5. Sides(call.state, daemon.call, Tail(signals))
    BY <2>1, <2>4, TailKeepsSides DEF Safe
  <2> QED BY <2>1, <2>3, <2>5 DEF Safe, Forward
<1> QED BY <1>1, <1>2, <1>3 DEF DeliverSignal

LEMMA EnvironmentIsSafe ==
  ASSUME Ordinary, IInv, Safe, Environment
  PROVE  Safe' /\ Forward(call.state, call'.state)
<1>1. DaemonOK /\ daemon.call \notin InConference /\ call' = call /\ DaemonStep
  BY DEF Environment, IInv, Safe, Sides
<1>2. Said
  BY <1>1, DaemonStepSays DEF Ordinary
<1>3. Sides(call.state, daemon'.call, signals')
  BY <1>1, <1>2, SaidKeepsSides DEF Safe
<1> QED BY <1>1, <1>3 DEF Safe, Forward

-----------------------------------------------------------------------------
(* The invariant and its consequences.                                      *)

LEMMA BuiltCallIsSound ==
  ASSUME NEW s \in State, LifeCycle(s) # "PROGRESS"
  PROVE  Sound(BuiltCall(s, FALSE, FALSE)) /\ BuiltCall(s, FALSE, FALSE).state = s
BY DEF BuiltCall, NewCall, MediaKind, Sound

LEMMA InitIsSafe ==
  ASSUME Ordinary, Init
  PROVE  Safe
<1> USE DEF LifeCycle, Talking, Transferring, Conferencing
<1>1. InitDialing \/ InitIncoming \/ InitHistory
  BY DEF Init, Ordinary
<1>2. ASSUME NEW s \in {"NEW", "INCOMING", "OVER"}, NEW d \in DaemonCall \ InConference,
             NEW q, q = <<>> \/ (q = <<"INCOMING">> /\ s = "INCOMING"), s = "NEW" => d = "none"
      PROVE  Sides(s, d, q)
  <2>1. \A i \in 1 .. Len(q) : q[i] \notin TalkSignal \cup BusySignal
    BY <1>2 DEF TalkSignal, BusySignal
  <2> QED BY <1>2, <2>1 DEF Sides, Talks, Busies, Among
<1>3. {"none", "incoming"} \subseteq DaemonCall \ InConference
  BY DEF DaemonCall, InConference
<1>4. CASE InitDialing
  <2>1. Sound(NewCall) /\ NewCall.state = "NEW"
    BY DEF Sound, NewCall, MediaKind
  <2>2. Sides("NEW", "none", <<>>)
    BY <1>3 DEF Sides, Talks, Busies, Among
  <2> QED BY <1>4, <2>1, <2>2 DEF InitDialing, DaemonIn, Safe
<1>5. CASE InitIncoming
  <2>1. Sound(BuiltCall("INCOMING", FALSE, FALSE)) /\ BuiltCall("INCOMING", FALSE, FALSE).state = "INCOMING"
    BY BuiltCallIsSound DEF State
  <2> QED BY <1>2, <1>3, <1>5, <2>1 DEF InitIncoming, DaemonIn, Safe
<1>6. CASE InitHistory
  <2> DEFINE b == BuiltCall("OVER", FALSE, FALSE)
  <2>1. Sound(b) /\ b.state = "OVER"
    BY BuiltCallIsSound DEF State
  <2>2. b \in Calls
    BY BuiltCallIsGood DEF State, Good
  <2> HIDE DEF b
  <2>3. PICK m \in BOOLEAN : call = [b EXCEPT !.stopped = TRUE, !.missed = m]
    BY <1>6 DEF InitHistory, b
  <2>4. Sound(call) /\ call.state = "OVER"
    BY <2>1, <2>2, <2>3 DEF Sound, Calls
  <2>5. Sides("OVER", "none", <<>>)
    BY <1>3 DEF Sides, Talks, Busies, Among
  <2> QED BY <1>6, <2>4, <2>5 DEF InitHistory, DaemonIn, Safe
<1> QED BY <1>1, <1>4, <1>5, <1>6

LEMMA NextIsSafe ==
  ASSUME Ordinary, IInv, Safe, [Next]_vars
  PROVE  Safe' /\ Forward(call.state, call'.state)
<1>1. CASE UserStep
  BY <1>1, PerformActionIsSafe, EditsAreSafe DEF UserStep
<1>2. CASE DeliverSignal
  BY <1>2, SlotsAreSafe
<1>3. CASE Environment
  BY <1>3, EnvironmentIsSafe
<1>4. CASE UNCHANGED vars
  BY <1>4 DEF vars, Safe, Forward
<1> QED BY <1>1, <1>2, <1>3, <1>4 DEF Next

LEMMA SafeAlways == ASSUME Ordinary PROVE Spec => [](IInv /\ Safe)
<1>1. Inputs \cap Untabled = {}
  BY DEF Ordinary
<1>2. Init => IInv /\ Safe
  BY InitIsGood, InitIsSafe
<1>3. (IInv /\ Safe) /\ [Next]_vars => (IInv /\ Safe)'
  BY <1>1, NextIsGood, NextIsSafe
<1> QED BY <1>2, <1>3, PTL DEF Spec

\* With a daemon that keeps to the ordinary sequence (restarts included) and a
\* user held to what the interface offers, no delay of the signals makes
\* stateChanged() fail its assertion or a handler dereference null.
THEOREM NothingFails == ASSUME Ordinary PROVE Spec => []NoFault
<1>1. Safe => NoFault
  BY DEF Safe, Sound, NoFault
<1> QED BY <1>1, SafeAlways, PTL

LEMMA ForwardAdvances ==
  ASSUME IInv, Safe, Safe', IInv', Forward(call.state, call'.state)
  PROVE  LifeCycles!Advance \/ UNCHANGED <<LifeCycle(call.state), call.media["audioIn"] > 0>>
<1> DEFINE p == LifeCycle(call.state)
           q == LifeCycle(call'.state)
<1>1. p \in Phase /\ q \in Phase
  BY Phases DEF IInv, Good, Calls
<1>2. /\ (call.media["audioIn"] > 0) = (p = "PROGRESS")
      /\ (call'.media["audioIn"] > 0) = (q = "PROGRESS")
  BY DEF Safe, Sound
<1>3. /\ q = "CREATION" => p = "CREATION"
      /\ p \in {"PROGRESS", "FINISHED"} => q \in {"PROGRESS", "FINISHED"}
      /\ p = "FINISHED" => q = "FINISHED"
  BY DEF Forward, Begun
<1> HIDE DEF p, q
<1>4. CASE p = q
  BY <1>2, <1>4 DEF p, q
<1>5. CASE p # q
  <2>1. q \in {"INITIALIZATION", "PROGRESS", "FINISHED"} /\ LifeCycles!Rank(q) > LifeCycles!Rank(p)
    BY <1>1, <1>3, <1>5 DEF Phase, LifeCycles!Rank
  <2> QED BY <1>2, <2>1 DEF LifeCycles!Advance, p, q
<1> QED BY <1>4, <1>5

\* Under the same conditions a call implements CallLifeCycle: its phase only
\* advances, and its audio exists exactly while the peers communicate.
THEOREM ForwardIsImplemented == ASSUME Ordinary PROVE Spec => ForwardOnly
<1>1. IInv /\ Safe => LifeCycles!Init
  BY Phases DEF IInv, Safe, Sound, Good, Calls, Phase, LifeCycles!Init
<1>2. (IInv /\ Safe) /\ (IInv /\ Safe)' /\ [Next]_vars =>
        [LifeCycles!Advance]_<<LifeCycle(call.state), call.media["audioIn"] > 0>>
  BY NextIsSafe, ForwardAdvances
<1>3. Init => IInv /\ Safe
  BY InitIsGood, InitIsSafe DEF Ordinary
<1> QED BY <1>1, <1>2, <1>3, SafeAlways, PTL DEF Spec, ForwardOnly, LifeCycles!Spec

-----------------------------------------------------------------------------
(***************************************************************************)
(* ClientAgrees, for every delay of the signals: once the queue between     *)
(* them is empty the client shows the daemon's call as the daemon has it.   *)
(* The invariant Agreeing says what the signals still on their way will     *)
(* make of the client's view.                                              *)
(***************************************************************************)
\* A transfer gives the flag of a held call back wrongly and may abort a call
\* the daemon still has: the user does not start one.
NoTransfer == Ordinary /\ "TRANSFER" \notin Inputs

PeerSignal == {"PEER_HOLD", "PEER_UNHOLD"}
RecordSignal == {"RECORD_ON", "RECORD_OFF"}
EndSignal == {"BUSY", "HUNGUP", "HUNGUP_REFUSED", "FAILURE", "OVER"}
SetupSignal == {"INACTIVE", "CONNECTING", "RINGING"}
\* A communication takes these for an error.
Sharp == {"INACTIVE", "CONNECTING"}

-----------------------------------------------------------------------------
(* The last word of a queue on some subject.                                *)

\* The last signal of q that is in S is in T.
Tells(q, S, T) ==
  \E i \in 1 .. Len(q) : q[i] \in T /\ \A j \in i + 1 .. Len(q) : q[j] \notin S

\* The client will know of T, or has nothing left to hear and knows it now.
Shows(q, S, T, now) == Tells(q, S, T) \/ (~Among(q, S) /\ now)

LEMMA AmongGrows ==
  ASSUME NEW q \in Seq(Signal), NEW y \in Seq(Signal), NEW S, Among(q, S) \/ Among(y, S)
  PROVE  Among(q \o y, S)
<1>1. Len(q \o y) = Len(q) + Len(y) /\ Len(q) \in Nat /\ Len(y) \in Nat
  OBVIOUS
<1>2. CASE Among(q, S)
  <2>1. PICK i \in 1 .. Len(q) : q[i] \in S
    BY <1>2 DEF Among
  <2>2. i \in 1 .. Len(q \o y) /\ (q \o y)[i] = q[i]
    BY <1>1
  <2> QED BY <2>1, <2>2 DEF Among
<1>3. CASE Among(y, S)
  <2>1. PICK i \in 1 .. Len(y) : y[i] \in S
    BY <1>3 DEF Among
  <2>2. Len(q) + i \in 1 .. Len(q \o y) /\ (q \o y)[Len(q) + i] = y[i]
    BY <1>1
  <2> QED BY <2>1, <2>2 DEF Among
<1> QED BY <1>2, <1>3

\* What is said off the subject leaves the last word where it was.
LEMMA TellsStays ==
  ASSUME NEW q \in Seq(Signal), NEW y \in Seq(Signal), NEW S, NEW T,
         Tells(q, S, T), ~Among(y, S)
  PROVE  Tells(q \o y, S, T)
<1>1. PICK i \in 1 .. Len(q) : q[i] \in T /\ \A j \in i + 1 .. Len(q) : q[j] \notin S
  BY DEF Tells
<1>2. Len(q \o y) = Len(q) + Len(y) /\ Len(q) \in Nat /\ Len(y) \in Nat
  OBVIOUS
<1>3. i \in 1 .. Len(q \o y) /\ (q \o y)[i] \in T
  BY <1>1, <1>2
<1>4. ASSUME NEW j \in i + 1 .. Len(q \o y) PROVE (q \o y)[j] \notin S
  <2>1. CASE j <= Len(q)
    BY <1>1, <1>2, <2>1
  <2>2. CASE j > Len(q)
    <3>1. (q \o y)[j] = y[j - Len(q)] /\ j - Len(q) \in 1 .. Len(y)
      BY <1>2, <2>2
    <3> QED BY <3>1 DEF Among
  <2> QED BY <1>2, <2>1, <2>2
<1> QED BY <1>3, <1>4 DEF Tells

LEMMA ShowsStays ==
  ASSUME NEW q \in Seq(Signal), NEW y \in Seq(Signal), NEW S, NEW T, NEW now,
         Shows(q, S, T, now), ~Among(y, S)
  PROVE  Shows(q \o y, S, T, now)
BY TellsStays, AmongConcat DEF Shows

\* What is said last is the last word.
LEMMA LastWord ==
  ASSUME NEW q \in Seq(Signal), NEW x \in Signal, NEW S, NEW T, x \in T
  PROVE  Tells(q \o <<x>>, S, T)
<1>1. Len(q \o <<x>>) = Len(q) + 1 /\ Len(q) \in Nat /\ (q \o <<x>>)[Len(q) + 1] = x
  OBVIOUS
<1>2. Len(q) + 1 \in 1 .. Len(q \o <<x>>) /\ (Len(q) + 1) + 1 .. Len(q \o <<x>>) = {}
  BY <1>1
<1> QED BY <1>1, <1>2 DEF Tells

LEMMA TellsTail ==
  ASSUME NEW q \in Seq(Signal), q # <<>>, NEW S, NEW T, Tells(q, S, T)
  PROVE  Tells(Tail(q), S, T) \/ (Head(q) \in T /\ ~Among(Tail(q), S))
<1>1. PICK i \in 1 .. Len(q) : q[i] \in T /\ \A j \in i + 1 .. Len(q) : q[j] \notin S
  BY DEF Tells
<1>2. /\ Len(q) \in Nat /\ Len(Tail(q)) = Len(q) - 1 /\ Head(q) = q[1]
      /\ \A j \in 1 .. Len(q) - 1 : Tail(q)[j] = q[j + 1]
  OBVIOUS
<1>3. CASE i = 1
  BY <1>1, <1>2, <1>3 DEF Among
<1>4. CASE i > 1
  <2>1. i - 1 \in 1 .. Len(Tail(q)) /\ Tail(q)[i - 1] \in T
    BY <1>1, <1>2, <1>4
  <2>2. \A j \in (i - 1) + 1 .. Len(Tail(q)) : Tail(q)[j] \notin S
    BY <1>1, <1>2, <1>4
  <2> QED BY <2>1, <2>2 DEF Tells
<1> QED BY <1>3, <1>4

LEMMA AmongRest ==
  ASSUME NEW q \in Seq(Signal), q # <<>>, NEW S, Among(q, S), Head(q) \notin S
  PROVE  Among(Tail(q), S)
<1>1. PICK i \in 1 .. Len(q) : q[i] \in S
  BY DEF Among
<1>2. i # 1 /\ i - 1 \in 1 .. Len(Tail(q)) /\ Tail(q)[i - 1] = q[i]
  BY <1>1
<1> QED BY <1>1, <1>2 DEF Among

\* The client hears the head of the queue.
LEMMA ShowsTail ==
  ASSUME NEW q \in Seq(Signal), q # <<>>, NEW S, NEW T, NEW now, NEW then,
         Shows(q, S, T, now), Head(q) \in T => then, Head(q) \notin S => then = now
  PROVE  Shows(Tail(q), S, T, then)
<1>1. CASE Tells(q, S, T)
  BY <1>1, TellsTail DEF Shows
<1>2. CASE ~Among(q, S) /\ now
  <2>1. Head(q) = q[1] /\ 1 \in 1 .. Len(q)
    OBVIOUS
  <2>2. Head(q) \notin S
    BY <1>2, <2>1 DEF Among
  <2> QED BY <1>2, <2>2, AmongTail DEF Shows
<1> QED BY <1>1, <1>2 DEF Shows

-----------------------------------------------------------------------------
(* The invariant.  s and h are the client's state and hold flag, d the      *)
(* daemon's call, q the signals in between.                                 *)

Setup == {"INITIALIZATION", "RINGING", "CONNECTED"}
PlainTalk == {"CURRENT", "HOLD"}
Closed == {"busy", "failed", "hungup", "over"}

\* Nothing was placed yet, or the placing failed.
KnowsNone(s, d, q) == d = "none" => q = <<>> /\ (LifeCycle(s) = "CREATION" \/ s \in Ended)

KnowsSetup(s, d, q) ==
  d \in {"connecting", "ringing"} =>
    /\ s \in Setup /\ ~Among(q, StateSignal \ SetupSignal)
    /\ d = "ringing" => Shows(q, StateSignal, {"RINGING"}, s = "RINGING")

KnowsIncoming(s, d, q) ==
  d = "incoming" => s = "INCOMING" /\ ~Among(q, StateSignal \ {"INCOMING"})

\* Once the answer has been said no sharp signal follows.
SharpFirst(q) ==
  \A i \in 1 .. Len(q) : \A j \in i + 1 .. Len(q) : q[i] \in TalkSignal => q[j] \notin Sharp

KnowsTalk(s, h, d, q) ==
  d \in Communicating =>
    /\ s \in Setup \cup {"INCOMING"} \cup PlainTalk
    /\ ~Among(q, EndSignal) /\ SharpFirst(q)
    /\ s \notin Setup => ~Among(q, Sharp)
    /\ d = "current" => Shows(q, StateSignal, {"CURRENT", "UNHOLD"}, s = "CURRENT" /\ ~h)
    /\ d = "hold" => Shows(q, StateSignal, {"HOLD"}, s = "HOLD" /\ h)

KnowsEnd(s, d, q) == d \in Closed => s \in Ended \/ Among(q, EndSignal)

Knows(s, h, d, q) ==
  /\ s \notin Transferring \cup Conferencing
  /\ KnowsNone(s, d, q) /\ KnowsSetup(s, d, q) /\ KnowsIncoming(s, d, q)
  /\ KnowsTalk(s, h, d, q) /\ KnowsEnd(s, d, q)

-----------------------------------------------------------------------------
(* The client hears a signal about the state.                               *)

LEMMA SharpFirstTail ==
  ASSUME NEW q \in Seq(Signal), q # <<>>, SharpFirst(q)
  PROVE  SharpFirst(Tail(q)) /\ (Head(q) \in TalkSignal => ~Among(Tail(q), Sharp))
<1>1. /\ Len(q) \in Nat /\ Len(Tail(q)) = Len(q) - 1 /\ Head(q) = q[1] /\ Len(q) > 0
      /\ \A j \in 1 .. Len(q) - 1 : Tail(q)[j] = q[j + 1]
  OBVIOUS
<1>2. SharpFirst(Tail(q))
  <2> SUFFICES ASSUME NEW i \in 1 .. Len(Tail(q)), NEW j \in i + 1 .. Len(Tail(q)),
                      Tail(q)[i] \in TalkSignal
               PROVE  Tail(q)[j] \notin Sharp
    BY DEF SharpFirst
  <2>1. i + 1 \in 1 .. Len(q) /\ j + 1 \in (i + 1) + 1 .. Len(q)
    BY <1>1
  <2>2. Tail(q)[i] = q[i + 1] /\ Tail(q)[j] = q[j + 1]
    BY <1>1
  <2> QED BY <2>1, <2>2 DEF SharpFirst
<1>3. ASSUME Head(q) \in TalkSignal, NEW j \in 1 .. Len(Tail(q))
      PROVE  Tail(q)[j] \notin Sharp
  <2>1. 1 \in 1 .. Len(q) /\ j + 1 \in 1 + 1 .. Len(q) /\ Tail(q)[j] = q[j + 1]
    BY <1>1
  <2> QED BY <1>1, <1>3, <2>1 DEF SharpFirst
<1> QED BY <1>2, <1>3 DEF Among

\* The signals of the table, under the names slotCallStateChanged gets.
Heard(s, x) == StateAfterSignal(s, ToDaemonState(StateName(x)))

LEMMA SameName == \A x : x # "HUNGUP_REFUSED" => StateName(x) = x
BY DEF StateName

LEMMA HeardSetup ==
  \A s \in Setup, x \in SetupSignal : /\ Heard(s, x) \in Setup
                                      /\ x = "RINGING" => Heard(s, x) = "RINGING"
<1> SUFFICES ASSUME NEW s \in Setup, NEW x \in SetupSignal
             PROVE  /\ Heard(s, x) \in Setup
                    /\ x = "RINGING" => Heard(s, x) = "RINGING"
  OBVIOUS
<1>1. StateName(x) = x
  BY SameName DEF SetupSignal
<1>2. ToDaemonState(x) = x
  BY DEF SetupSignal, ToDaemonState, DaemonState
<1>3. LifeCycle(s) = "INITIALIZATION"
  BY DEF Setup, LifeCycle, Talking, Transferring, Conferencing
<1>4. StateAfterSignal(s, x) \in Setup /\ (x = "RINGING" => StateAfterSignal(s, x) = "RINGING")
  BY <1>3 DEF Setup, SetupSignal, StateAfterSignal, PlainState
<1> QED BY <1>1, <1>2, <1>4 DEF Heard

LEMMA HeardIncoming == Heard("INCOMING", "INCOMING") = "INCOMING"
<1>1. StateName("INCOMING") = "INCOMING"
  BY SameName
<1>2. ToDaemonState("INCOMING") = "RINGING"
  BY DEF ToDaemonState, DaemonState
<1>3. StateAfterSignal("INCOMING", "RINGING") = "INCOMING"
  BY DEF StateAfterSignal, PlainState
<1> QED BY <1>1, <1>2, <1>3 DEF Heard

LEMMA HeardTalk ==
  ASSUME NEW s \in Setup \cup {"INCOMING"} \cup PlainTalk, NEW x \in StateSignal \ EndSignal,
         s \notin Setup => x \notin Sharp
  PROVE  /\ Heard(s, x) \in Setup \cup {"INCOMING"} \cup PlainTalk
         /\ Heard(s, x) \notin Setup => s \notin Setup \/ x \in TalkSignal
         /\ x \in {"CURRENT", "UNHOLD"} => Heard(s, x) = "CURRENT"
         /\ x = "HOLD" => Heard(s, x) = "HOLD"
<1>1. x \in SetupSignal \cup TalkSignal \cup {"INCOMING"}
  BY DEF StateSignal, EndSignal, SetupSignal, TalkSignal, DaemonState
<1>2. CASE x \in TalkSignal
  <2>1. ToDaemonState(StateName(x)) = IF x = "UNHOLD" THEN "CURRENT" ELSE x
    BY <1>2 DEF TalkSignal, ToDaemonState, StateName, DaemonState
  <2>2. Heard(s, x) = IF x = "UNHOLD" THEN "CURRENT" ELSE x
    BY <1>2, <2>1 DEF TalkSignal, Heard, StateAfterSignal, Setup, PlainTalk, Transferring
  <2> QED BY <1>2, <2>2 DEF PlainTalk, TalkSignal
<1>3. CASE x = "INCOMING"
  <2>1. ToDaemonState(StateName(x)) = "RINGING"
    BY <1>3, SameName DEF ToDaemonState, DaemonState
  <2>2. Heard(s, x) = IF s \in Setup THEN "RINGING" ELSE s
    BY <2>1 DEF Heard, StateAfterSignal, PlainState, Setup, PlainTalk
  <2> QED BY <1>3, <2>2 DEF Setup
<1>4. CASE x \in SetupSignal
  <2>1. CASE s \in Setup
    BY <1>4, <2>1, HeardSetup DEF Setup, SetupSignal
  <2>2. CASE s \notin Setup
    BY <1>4, <2>2 DEF SetupSignal, Sharp, Heard, StateAfterSignal, ToDaemonState, StateName,
                      DaemonState, PlainState, Setup, PlainTalk
  <2> QED BY <2>1, <2>2
<1> QED BY <1>1, <1>2, <1>3, <1>4

\* Whatever the client thought, it hears the end.
LEMMA HeardEnd == \A s \in State, x \in EndSignal : Heard(s, x) \in Ended
BY DEF State, EndSignal, Heard, StateAfterSignal, ToDaemonState, StateName, DaemonState, Ended

\* And a call that ended stays so.
LEMMA HeardEnded ==
  ASSUME NEW s \in Ended, NEW x \in StateSignal, ~(s = "BUSY" /\ x \in TalkSignal)
  PROVE  Heard(s, x) \in Ended
<1>1. s \in State /\ LifeCycle(s) = "FINISHED"
  BY DEF State, Ended, LifeCycle, Talking, Transferring, Conferencing
<1>2. ToDaemonState(StateName(x)) = "CURRENT" => x \in TalkSignal
  BY DEF ToDaemonState, StateName, TalkSignal, DaemonState
<1>3. LifeCycle(Heard(s, x)) = "FINISHED" /\ Heard(s, x) \in State
  BY <1>1, <1>2, SignalKeepsFinished, StateAfterSignalType, ToDaemonStateType DEF Heard
<1> QED BY <1>3 DEF State, Ended, LifeCycle, Talking, Transferring, Conferencing

\* Only a transfer is left a transfer.
LEMMA HeardPlain ==
  \A s \in State \ (Transferring \cup Conferencing), x \in StateSignal :
    Heard(s, x) \notin Transferring \cup Conferencing
<1>1. \A s \in State \ (Transferring \cup Conferencing), d \in DaemonState :
         StateAfterSignal(s, d) \notin Transferring \cup Conferencing
  BY DEF State, DaemonState, StateAfterSignal, PlainState, LifeCycle, Talking, Transferring,
         Conferencing
<1> QED BY <1>1, ToDaemonStateType DEF Heard

LEMMA HearingKeepsKnowing ==
  ASSUME NEW s \in State, NEW h, NEW d, NEW q \in Seq(Signal), q # <<>>, Head(q) \in StateSignal,
         Knows(s, h, d, q), Sides(s, d, q)
  PROVE  LET t == Heard(s, Head(q)) IN Knows(t, t = "HOLD", d, Tail(q))
<1> DEFINE x == Head(q)
           t == Heard(s, x)
<1>1. x = q[1] /\ 1 \in 1 .. Len(q)
  OBVIOUS
<1>2. \A S : x \in S => Among(q, S)
  BY <1>1 DEF Among
<1>3. \A S : Among(Tail(q), S) => Among(q, S)
  BY AmongTail
<1>4. \A S, T, now, then :
         Shows(q, S, T, now) /\ x \in S /\ (x \in T => then) => Shows(Tail(q), S, T, then)
  BY ShowsTail
<1>5. Tail(q) \in Seq(Signal) /\ s \notin Transferring \cup Conferencing
  BY DEF Knows
<1> HIDE DEF x, t
<1>6. KnowsNone(t, d, Tail(q))
  BY DEF KnowsNone, Knows
<1>7. KnowsSetup(t, d, Tail(q))
  <2> SUFFICES ASSUME d \in {"connecting", "ringing"}
               PROVE  /\ t \in Setup /\ ~Among(Tail(q), StateSignal \ SetupSignal)
                      /\ d = "ringing" => Shows(Tail(q), StateSignal, {"RINGING"}, t = "RINGING")
    BY DEF KnowsSetup
  <2>1. s \in Setup /\ x \in SetupSignal /\ ~Among(Tail(q), StateSignal \ SetupSignal)
    BY <1>2, <1>3 DEF Knows, KnowsSetup, x
  <2>2. t \in Setup /\ (x = "RINGING" => t = "RINGING")
    BY <2>1, HeardSetup DEF t
  <2>3. d = "ringing" => Shows(q, StateSignal, {"RINGING"}, s = "RINGING")
    BY DEF Knows, KnowsSetup
  <2> QED BY <1>4, <2>1, <2>2, <2>3 DEF x
<1>8. KnowsIncoming(t, d, Tail(q))
  <2> SUFFICES ASSUME d = "incoming"
               PROVE  t = "INCOMING" /\ ~Among(Tail(q), StateSignal \ {"INCOMING"})
    BY DEF KnowsIncoming
  <2>1. s = "INCOMING" /\ ~Among(q, StateSignal \ {"INCOMING"})
    BY DEF Knows, KnowsIncoming
  <2> QED BY <1>2, <1>3, <2>1, HeardIncoming DEF x, t
<1>9. KnowsTalk(t, t = "HOLD", d, Tail(q))
  <2> SUFFICES ASSUME d \in Communicating
               PROVE  KnowsTalk(t, t = "HOLD", d, Tail(q))
    BY DEF KnowsTalk
  <2>1. /\ s \in Setup \cup {"INCOMING"} \cup PlainTalk
        /\ ~Among(q, EndSignal) /\ SharpFirst(q)
        /\ s \notin Setup => ~Among(q, Sharp)
        /\ d = "current" => Shows(q, StateSignal, {"CURRENT", "UNHOLD"}, s = "CURRENT" /\ ~h)
        /\ d = "hold" => Shows(q, StateSignal, {"HOLD"}, s = "HOLD" /\ h)
    BY DEF Knows, KnowsTalk
  <2>2. x \in StateSignal \ EndSignal /\ (s \notin Setup => x \notin Sharp)
    BY <1>2, <2>1 DEF x
  <2>3. /\ t \in Setup \cup {"INCOMING"} \cup PlainTalk
        /\ t \notin Setup => s \notin Setup \/ x \in TalkSignal
        /\ x \in {"CURRENT", "UNHOLD"} => t = "CURRENT"
        /\ x = "HOLD" => t = "HOLD"
    BY <2>1, <2>2, HeardTalk DEF t
  <2>4. SharpFirst(Tail(q)) /\ (x \in TalkSignal => ~Among(Tail(q), Sharp))
    BY <2>1, SharpFirstTail DEF x
  <2>5. d = "current" =>
          Shows(Tail(q), StateSignal, {"CURRENT", "UNHOLD"}, t = "CURRENT" /\ ~(t = "HOLD"))
    BY <1>4, <2>1, <2>2, <2>3
  <2>6. d = "hold" => Shows(Tail(q), StateSignal, {"HOLD"}, t = "HOLD" /\ (t = "HOLD"))
    BY <1>4, <2>1, <2>2, <2>3
  <2> QED BY <1>3, <2>1, <2>3, <2>4, <2>5, <2>6 DEF KnowsTalk
<1>10. KnowsEnd(t, d, Tail(q))
  <2> SUFFICES ASSUME d \in Closed
               PROVE  t \in Ended \/ Among(Tail(q), EndSignal)
    BY DEF KnowsEnd
  <2>1. s \in Ended \/ Among(q, EndSignal)
    BY DEF Knows, KnowsEnd
  <2>2. CASE s \in Ended
    <3>1. ~(s = "BUSY" /\ x \in TalkSignal)
      BY <1>2 DEF Sides, Talks, Busies
    <3> QED BY <2>2, <3>1, HeardEnded DEF t, x
  <2>3. CASE x \in EndSignal
    BY <2>3, HeardEnd DEF t
  <2>4. CASE Among(q, EndSignal) /\ x \notin EndSignal
    BY <2>4, AmongRest DEF x
  <2> QED BY <2>1, <2>2, <2>3, <2>4
<1>11. t \notin Transferring \cup Conferencing
  BY <1>5, HeardPlain DEF t, x
<1> QED BY <1>6, <1>7, <1>8, <1>9, <1>10, <1>11 DEF Knows, t, x

\* A signal about something else.
LEMMA SkippingKeepsKnowing ==
  ASSUME NEW s, NEW h, NEW d, NEW q \in Seq(Signal), q # <<>>, Head(q) \notin StateSignal,
         Knows(s, h, d, q)
  PROVE  Knows(s, h, d, Tail(q))
<1>1. \A S : Among(Tail(q), S) => Among(q, S)
  BY AmongTail
<1>2. \A T, now : Shows(q, StateSignal, T, now) /\ T \subseteq StateSignal
                    => Shows(Tail(q), StateSignal, T, now)
  BY ShowsTail
<1>3. {"RINGING", "CURRENT", "UNHOLD", "HOLD"} \subseteq StateSignal /\ EndSignal \subseteq StateSignal
  BY DEF StateSignal, DaemonState, EndSignal
<1>4. KnowsNone(s, d, Tail(q)) /\ KnowsSetup(s, d, Tail(q)) /\ KnowsIncoming(s, d, Tail(q))
  BY <1>1, <1>2, <1>3 DEF Knows, KnowsNone, KnowsSetup, KnowsIncoming
<1>5. KnowsTalk(s, h, d, Tail(q))
  <2>1. SharpFirst(q) => SharpFirst(Tail(q))
    BY SharpFirstTail
  <2> QED BY <1>1, <1>2, <1>3, <2>1 DEF Knows, KnowsTalk
<1>6. KnowsEnd(s, d, Tail(q))
  <2>1. Among(q, EndSignal) => Among(Tail(q), EndSignal)
    BY <1>3, AmongRest
  <2> QED BY <2>1 DEF Knows, KnowsEnd
<1> QED BY <1>4, <1>5, <1>6 DEF Knows

-----------------------------------------------------------------------------
(* The daemon moves on and reports it.                                      *)

\* The daemon goes from d to e and reports y.
Reports(d, y, e) ==
  \/ e = d /\ ~Among(y, StateSignal)
  \/ e = "gone" /\ d \in Known
  \/ /\ d \in {"connecting", "ringing"}
     /\ \E x \in SetupSignal : y = <<x>> /\ e = IF x = "RINGING" THEN "ringing" ELSE "connecting"
  \/ /\ d \in {"connecting", "ringing", "incoming", "hold"} /\ e = "current"
     /\ \E x \in {"CURRENT", "UNHOLD"} : y = <<x>>
  \/ d = "current" /\ e = "hold" /\ y = <<"HOLD">>
  \/ /\ \/ d \in Known /\ e \in Closed
        \/ d = "hungup" /\ e = "over"
     /\ \E x \in EndSignal : y = <<x>>

LEMMA SharpFirstConcat ==
  ASSUME NEW q \in Seq(Signal), NEW y \in Seq(Signal), SharpFirst(q), ~Among(y, Sharp)
  PROVE  SharpFirst(q \o y)
<1> SUFFICES ASSUME NEW i \in 1 .. Len(q \o y), NEW j \in i + 1 .. Len(q \o y),
                    (q \o y)[i] \in TalkSignal
             PROVE  (q \o y)[j] \notin Sharp
  BY DEF SharpFirst
<1>1. Len(q \o y) = Len(q) + Len(y) /\ Len(q) \in Nat /\ Len(y) \in Nat
  OBVIOUS
<1>2. CASE j <= Len(q)
  BY <1>1, <1>2 DEF SharpFirst
<1>3. CASE j > Len(q)
  <2>1. (q \o y)[j] = y[j - Len(q)] /\ j - Len(q) \in 1 .. Len(y)
    BY <1>1, <1>3
  <2> QED BY <2>1 DEF Among
<1> QED BY <1>1, <1>2, <1>3

LEMMA NoTalkIsSharpFirst == ASSUME NEW q, ~Among(q, TalkSignal) PROVE SharpFirst(q)
BY DEF SharpFirst, Among

LEMMA AmongMore == ASSUME NEW q, NEW S, NEW T, S \subseteq T, Among(q, S) PROVE Among(q, T)
BY DEF Among

\* A report about something else, or none.
LEMMA SilenceKeepsKnowing ==
  ASSUME NEW s, NEW h, NEW d, d # "none", NEW q \in Seq(Signal), NEW y \in Seq(Signal),
         Knows(s, h, d, q), ~Among(y, StateSignal)
  PROVE  Knows(s, h, d, q \o y)
<1>1. \A S : S \subseteq StateSignal => ~Among(y, S)
  BY AmongMore
<1>2. \A S : Among(q \o y, S) /\ S \subseteq StateSignal => Among(q, S)
  BY <1>1, AmongConcat
<1>3. \A T, now : Shows(q, StateSignal, T, now) => Shows(q \o y, StateSignal, T, now)
  BY ShowsStays
<1>4. Sharp \subseteq StateSignal /\ EndSignal \subseteq StateSignal
  BY DEF Sharp, StateSignal, DaemonState, EndSignal
<1>5. SharpFirst(q) => SharpFirst(q \o y)
  BY <1>1, <1>4, SharpFirstConcat
<1>6. Among(q, EndSignal) => Among(q \o y, EndSignal)
  BY AmongGrows
<1>7. KnowsNone(s, d, q \o y) /\ KnowsSetup(s, d, q \o y) /\ KnowsIncoming(s, d, q \o y)
  BY <1>2, <1>3 DEF Knows, KnowsNone, KnowsSetup, KnowsIncoming
<1>8. KnowsTalk(s, h, d, q \o y)
  BY <1>2, <1>3, <1>4, <1>5 DEF Knows, KnowsTalk
<1> QED BY <1>6, <1>7, <1>8 DEF Knows, KnowsEnd

\* A report on the state makes the client's hold flag k of no account: it will
\* be corrected.
LEMMA ReportKeepsKnowing ==
  ASSUME NEW s, NEW h, NEW k, NEW d, NEW e, NEW q \in Seq(Signal), NEW y \in Seq(Signal),
         Knows(s, h, d, q), Reports(d, y, e), d # "none",
         ~Among(y, StateSignal) => k = h
  PROVE  Knows(s, k, e, q \o y)
<1> USE DEF Known, DaemonCall
<1>1. CASE e = d /\ ~Among(y, StateSignal)
  BY <1>1, SilenceKeepsKnowing
<1>2. CASE e = "gone"
  BY <1>2 DEF Knows, KnowsNone, KnowsSetup, KnowsIncoming, KnowsTalk, KnowsEnd, Communicating, Closed
<1>3. ASSUME d \in {"connecting", "ringing"}, NEW x \in SetupSignal, y = <<x>>,
             e = IF x = "RINGING" THEN "ringing" ELSE "connecting"
      PROVE  Knows(s, k, e, q \o y)
  <2>1. x \in Signal /\ x \in StateSignal /\ ~Among(y, StateSignal \ SetupSignal)
    BY <1>3, OneSignal DEF SetupSignal, Signal, StateSignal, DaemonState
  <2>2. s \in Setup /\ ~Among(q \o y, StateSignal \ SetupSignal)
    BY <1>3, <2>1, AmongConcat DEF Knows, KnowsSetup
  <2>3. e = "ringing" => Tells(q \o y, StateSignal, {"RINGING"})
    BY <1>3, <2>1, LastWord
  <2> QED BY <1>3, <2>2, <2>3 DEF Knows, KnowsNone, KnowsSetup, KnowsIncoming, KnowsTalk, KnowsEnd,
                                  Communicating, Closed, Shows
<1>4. ASSUME d \in {"connecting", "ringing", "incoming", "current", "hold"},
             e \in Communicating, NEW x \in TalkSignal, y = <<x>>,
             e = "current" => x \in {"CURRENT", "UNHOLD"}, e = "hold" => x = "HOLD"
      PROVE  Knows(s, k, e, q \o y)
  <2>1. x \in Signal /\ x \in StateSignal /\ ~Among(y, EndSignal) /\ ~Among(y, Sharp)
    BY <1>4, OneSignal DEF TalkSignal, Signal, StateSignal, DaemonState, EndSignal, Sharp
  <2>2. s \in Setup \cup {"INCOMING"} \cup PlainTalk
    BY <1>4 DEF Knows, KnowsSetup, KnowsIncoming, KnowsTalk, Communicating
  <2>3. ~Among(q, EndSignal) /\ SharpFirst(q) /\ (s \notin Setup => ~Among(q, Sharp))
    <3>1. CASE d \in {"connecting", "ringing"}
      <4>1. s \in Setup /\ ~Among(q, StateSignal \ SetupSignal)
        BY <3>1 DEF Knows, KnowsSetup
      <4>2. EndSignal \subseteq StateSignal \ SetupSignal /\ TalkSignal \subseteq StateSignal \ SetupSignal
        BY DEF EndSignal, TalkSignal, StateSignal, SetupSignal, DaemonState
      <4> QED BY <4>1, <4>2, AmongMore, NoTalkIsSharpFirst
    <3>2. CASE d = "incoming"
      <4>1. ~Among(q, StateSignal \ {"INCOMING"})
        BY <3>2 DEF Knows, KnowsIncoming
      <4>2. /\ EndSignal \subseteq StateSignal \ {"INCOMING"} /\ TalkSignal \subseteq StateSignal \ {"INCOMING"}
            /\ Sharp \subseteq StateSignal \ {"INCOMING"}
        BY DEF EndSignal, TalkSignal, Sharp, StateSignal, DaemonState
      <4> QED BY <4>1, <4>2, AmongMore, NoTalkIsSharpFirst
    <3>3. CASE d \in Communicating
      BY <3>3 DEF Knows, KnowsTalk
    <3> QED BY <1>4, <3>1, <3>2, <3>3 DEF Communicating
  <2>4. /\ ~Among(q \o y, EndSignal) /\ SharpFirst(q \o y)
        /\ s \notin Setup => ~Among(q \o y, Sharp)
    BY <2>1, <2>3, AmongConcat, SharpFirstConcat, <1>4
  <2>5. \A S, T : x \in T => Tells(q \o y, S, T)
    BY <1>4, <2>1, LastWord
  <2>6. KnowsTalk(s, k, e, q \o y)
    BY <1>4, <2>2, <2>4, <2>5 DEF KnowsTalk, Shows
  <2> QED BY <1>4, <2>6 DEF Knows, KnowsNone, KnowsSetup, KnowsIncoming, KnowsEnd, Communicating, Closed
<1>5. ASSUME e \in Closed, NEW x \in EndSignal, y = <<x>>
      PROVE  Knows(s, k, e, q \o y)
  <2>1. x \in Signal /\ Among(y, EndSignal)
    BY <1>5, OneSignal DEF EndSignal, Signal, StateSignal, DaemonState
  <2>2. Among(q \o y, EndSignal)
    BY <2>1, AmongGrows
  <2> QED BY <1>5, <2>2 DEF Knows, KnowsNone, KnowsSetup, KnowsIncoming, KnowsTalk, KnowsEnd,
                            Communicating, Closed
<1> QED BY <1>1, <1>2, <1>3, <1>4, <1>5 DEF Reports, Communicating, TalkSignal, Closed

-----------------------------------------------------------------------------
(* The flags: who holds the call at the other end, and the recording.       *)

PeerName(p) == IF p THEN "PEER_HOLD" ELSE "PEER_UNHOLD"
RecordName(r) == IF r THEN "RECORD_ON" ELSE "RECORD_OFF"

KnowsPeer(shown, p, q) == Shows(q, PeerSignal, {PeerName(p)}, shown = p)
KnowsRecord(shown, d, r, q) ==
  d \in Known => Shows(q, RecordSignal, {RecordName(r)}, (shown # {}) = r)

ReportsPeer(p, y, r) == (r = p /\ ~Among(y, PeerSignal)) \/ y = <<PeerName(r)>>
ReportsRecord(p, y, r) == (r = p /\ ~Among(y, RecordSignal)) \/ y = <<RecordName(r)>>

LEMMA PeerNames ==
  \A p \in BOOLEAN : /\ PeerName(p) \in PeerSignal /\ PeerName(p) \in Signal
                     /\ (PeerName(p) = "PEER_HOLD") = p
BY DEF PeerName, PeerSignal, Signal

LEMMA RecordNames ==
  \A p \in BOOLEAN : /\ RecordName(p) \in RecordSignal /\ RecordName(p) \in Signal
                     /\ (RecordName(p) = "RECORD_ON") = p
BY DEF RecordName, RecordSignal, Signal

LEMMA ReportKeepsPeer ==
  ASSUME NEW shown, NEW p, NEW r \in BOOLEAN, NEW q \in Seq(Signal), NEW y \in Seq(Signal),
         KnowsPeer(shown, p, q), ReportsPeer(p, y, r)
  PROVE  KnowsPeer(shown, r, q \o y)
<1>1. CASE r = p /\ ~Among(y, PeerSignal)
  BY <1>1, ShowsStays DEF KnowsPeer
<1>2. CASE y = <<PeerName(r)>>
  BY <1>2, PeerNames, LastWord DEF KnowsPeer, Shows
<1> QED BY <1>1, <1>2 DEF ReportsPeer

\* A recording the client toggles itself is reported as well.
LEMMA ReportKeepsRecord ==
  ASSUME NEW shown, NEW now, NEW d, NEW e, NEW p, NEW r \in BOOLEAN,
         NEW q \in Seq(Signal), NEW y \in Seq(Signal),
         KnowsRecord(shown, d, p, q), ReportsRecord(p, y, r), e \in Known => d \in Known,
         e \in Known /\ ~Among(y, RecordSignal) => now = shown
  PROVE  KnowsRecord(now, e, r, q \o y)
<1> SUFFICES ASSUME e \in Known
             PROVE  Shows(q \o y, RecordSignal, {RecordName(r)}, (now # {}) = r)
  BY DEF KnowsRecord
<1>1. CASE r = p /\ ~Among(y, RecordSignal)
  BY <1>1, ShowsStays DEF KnowsRecord
<1>2. CASE y = <<RecordName(r)>>
  BY <1>2, RecordNames, LastWord DEF Shows
<1> QED BY <1>1, <1>2 DEF ReportsRecord

-----------------------------------------------------------------------------
(* Every report the daemon makes.                                           *)

Reported ==
  \E y \in Seq(Signal) :
    /\ signals' = signals \o y
    /\ Reports(daemon.call, y, daemon'.call)
    /\ ReportsPeer(daemon.peerHold, y, daemon'.peerHold)
    /\ ReportsRecord(daemon.recording, y, daemon'.recording)

LEMMA SilentWord == \A S : ~Among(<<>>, S)
BY DEF Among

LEMMA StateReport ==
  ASSUME DaemonOK, NEW x \in StateSignal, NEW e, Become(e, <<x>>), Reports(daemon.call, <<x>>, e)
  PROVE  Reported
<1>1. x \in Signal /\ <<x>> \in Seq(Signal) /\ ~Among(<<x>>, PeerSignal) /\ ~Among(<<x>>, RecordSignal)
  BY OneSignal DEF Signal, StateSignal, DaemonState, PeerSignal, RecordSignal
<1>2. daemon'.call = e /\ daemon'.peerHold = daemon.peerHold /\ daemon'.recording = daemon.recording
  BY DEF Become, DaemonOK
<1> QED BY <1>1, <1>2 DEF Become, Reported, ReportsPeer, ReportsRecord

LEMMA QuietReports == ASSUME DaemonOK, Quiet PROVE Reported
<1>1. signals' = signals \o <<>> /\ <<>> \in Seq(Signal) /\ daemon' = daemon
  BY DEF Quiet, DaemonOK
<1> QED BY <1>1, SilentWord DEF Reported, Reports, ReportsPeer, ReportsRecord

LEMMA RepliesReport ==
  ASSUME DaemonOK, daemon.call \notin InConference,
         DaemonAnswer \/ DaemonHold \/ DaemonUnhold \/ DaemonHangUp
  PROVE  Reported
<1>1. {"CURRENT", "UNHOLD", "HOLD", "HUNGUP"} \subseteq StateSignal
  BY DEF StateSignal, DaemonState
<1>2. CASE DaemonAnswer
  BY <1>1, <1>2, StateReport, QuietReports DEF DaemonAnswer, Reports
<1>3. CASE DaemonHold
  BY <1>1, <1>3, StateReport, QuietReports DEF DaemonHold, Reports, InConference
<1>4. CASE DaemonUnhold
  <2>1. daemon.call = "hold" => \E x \in {"CURRENT", "UNHOLD"} : Become("current", <<x>>)
    BY <1>4 DEF DaemonUnhold
  <2>2. daemon.call # "hold" => Quiet
    BY <1>4 DEF DaemonUnhold, InConference
  <2> QED BY <1>1, <2>1, <2>2, StateReport, QuietReports DEF Reports
<1>5. CASE DaemonHangUp
  <2>1. daemon.call \in Known => Become("hungup", <<"HUNGUP">>)
    BY <1>5 DEF DaemonHangUp
  <2>2. daemon.call \notin Known => Quiet
    BY <1>5 DEF DaemonHangUp, Known
  <2> QED BY <1>1, <2>1, <2>2, StateReport, QuietReports DEF Reports, Closed, EndSignal
<1> QED BY <1>2, <1>3, <1>4, <1>5

LEMMA DaemonStepReports ==
  ASSUME DaemonOK, daemon.call \notin InConference, "unordered" \notin DaemonEvents, DaemonStep
  PROVE  Reported
<1>1. StateSignal = SetupSignal \cup TalkSignal \cup EndSignal \cup {"INCOMING"}
  BY DEF StateSignal, SetupSignal, TalkSignal, EndSignal, DaemonState
<1>2. CASE PeerHolds
  <2>1. signals' = signals \o <<PeerName(~daemon.peerHold)>>
    BY <1>2, PeerNames, AppendIsConcat DEF PeerHolds, DaemonOK, PeerName
  <2>2. /\ daemon'.call = daemon.call /\ daemon'.peerHold = ~daemon.peerHold
        /\ daemon'.recording = daemon.recording /\ daemon.peerHold \in BOOLEAN
    BY <1>2 DEF PeerHolds, DaemonOK
  <2> DEFINE x == PeerName(~daemon.peerHold)
  <2>3. x \in PeerSignal /\ x \in Signal
    BY <2>2, PeerNames
  <2>4. x \notin StateSignal /\ x \notin RecordSignal
    BY <2>3 DEF PeerSignal, StateSignal, DaemonState, RecordSignal
  <2> QED BY <2>1, <2>2, <2>3, <2>4, OneSignal DEF Reported, Reports, ReportsPeer, ReportsRecord
<1>3. CASE DaemonRestarts
  <2>1. /\ signals' = signals \o <<>> /\ <<>> \in Seq(Signal) /\ daemon'.call = "gone"
        /\ daemon'.peerHold = daemon.peerHold /\ daemon'.recording = daemon.recording
    BY <1>3 DEF DaemonRestarts, DaemonOK
  <2> QED BY <1>3, <2>1, SilentWord DEF DaemonRestarts, Reported, Reports, ReportsPeer, ReportsRecord
<1>4. CASE DaemonProgress
  <2>1. \/ daemon.call = "connecting" /\ \E x \in {"INACTIVE", "CONNECTING"} : Become("connecting", <<x>>)
        \/ daemon.call = "connecting" /\ Become("ringing", <<"RINGING">>)
        \/ daemon.call = "ringing" /\ Become("connecting", <<"CONNECTING">>)
        \/ daemon.call \in {"connecting", "ringing", "hold"} /\ Become("current", <<"CURRENT">>)
        \/ daemon.call = "current" /\ Become("hold", <<"HOLD">>)
    BY <1>4 DEF DaemonProgress, InConference
  <2> QED BY <1>1, <2>1, StateReport DEF Reports, SetupSignal, TalkSignal
<1>5. CASE DaemonEnds
  <2>1. \/ daemon.call \in {"connecting", "ringing"} /\ Become("busy", <<"BUSY">>)
        \/ daemon.call \in {"connecting", "ringing"} /\ Become("hungup", <<"HUNGUP_REFUSED">>)
        \/ daemon.call \in Known /\ Become("failed", <<"FAILURE">>)
        \/ daemon.call \in Known /\ Become("hungup", <<"HUNGUP">>)
        \/ daemon.call \in {"busy", "failed", "hungup"} /\ Become("over", <<"OVER">>)
    BY <1>5 DEF DaemonEnds, InConference
  <2>2. {"connecting", "ringing", "busy", "failed"} \subseteq Known
    BY DEF Known, DaemonCall
  <2>3. PICK x \in EndSignal, e \in Closed :
          /\ Become(e, <<x>>)
          /\ daemon.call \in Known \/ (daemon.call = "hungup" /\ e = "over")
    BY <2>1, <2>2 DEF EndSignal, Closed
  <2>4. Reports(daemon.call, <<x>>, e)
    BY <2>3 DEF Reports
  <2> QED BY <1>1, <2>3, <2>4, StateReport
<1> QED BY <1>2, <1>3, <1>4, <1>5 DEF DaemonStep, DaemonUnordered

-----------------------------------------------------------------------------
(* What the client shows: the fields ClientAgrees speaks of.                *)

Shown(c) == <<c.state, c.holdOut, c.holdIn, c.recording>>
Flags(c) == <<c.holdOut, c.holdIn, c.recording>>

LEMMA ChangeShows ==
  ASSUME NEW c \in Calls, NEW s
  PROVE  changeCurrentState(c, s).state = s /\ Flags(changeCurrentState(c, s)) = Flags(c)
BY DEF changeCurrentState, Calls, Flags

LEMMA ChangeIsACall ==
  ASSUME NEW c \in Calls, NEW s \in State PROVE changeCurrentState(c, s) \in Calls
<1>1. MediaAfter(c, s) \in [MediaKind -> Nat] /\ TimerOf(s) \in {"null", "running", "stopped"}
  BY DEF MediaAfter, TimerOf, Calls, MediaKind
<1> QED BY <1>1 DEF changeCurrentState, Calls

LEMMA DiscardIsACall == ASSUME NEW c \in Calls PROVE DiscardDialNumber(c) \in Calls
<1>1. CASE c.dial = "null"
  BY <1>1 DEF DiscardDialNumber
<1>2. CASE c.dial # "null"
  <2>1. \A n \in Number : [c EXCEPT !.peer = n, !.dial = "null"] \in Calls
    BY DEF Calls, Number
  <2>2. (IF c.peer = "null" THEN c.dial ELSE c.peer) \in Number
    BY DEF Calls
  <2> QED BY <1>2, <2>1, <2>2 DEF DiscardDialNumber
<1> QED BY <1>1, <1>2

LEMMA SignalCallbackShows ==
  ASSUME NEW c \in Calls, NEW f, NEW p PROVE Shown(SignalCallback(f, c, p)) = Shown(c)
<1>1. \A e \in Calls : Shown(sendProfile(e, p)) = Shown(e)
  BY DEF sendProfile, Shown, Calls
<1>2. \A e \in Calls : Shown(start(e, p)) = Shown(e)
  <2> SUFFICES ASSUME NEW e \in Calls PROVE Shown(start(e, p)) = Shown(e)
    OBVIOUS
  <2> DEFINE d == DiscardDialNumber(e)
             g == [d EXCEPT !.timer = TimerOf(d.state)]
  <2>1. d \in Calls /\ Shown(d) = Shown(e)
    <3>1. d \in Calls
      BY DiscardIsACall
    <3>2. Shown(d) = Shown(e)
      BY DEF DiscardDialNumber, Shown
    <3> QED BY <3>1, <3>2
  <2>2. TimerOf(d.state) \in {"null", "running", "stopped"}
    BY DEF TimerOf
  <2>3. start(e, p) = sendProfile(g, p)
    BY DEF start
  <2> HIDE DEF d
  <2>4. g \in Calls /\ Shown(g) = Shown(d)
    BY <2>1, <2>2 DEF Calls, Shown
  <2> QED BY <1>1, <2>1, <2>3, <2>4
<1>3. [c EXCEPT !.missed = TRUE] \in Calls /\ Shown([c EXCEPT !.missed = TRUE]) = Shown(c)
  BY DEF Calls, Shown
<1>4. CASE f = "start"
  BY <1>2, <1>4 DEF SignalCallback
<1>5. CASE f = "failure"
  BY <1>2, <1>3, <1>5 DEF SignalCallback
<1>6. CASE f = "startWeird"
  BY <1>1, <1>6 DEF SignalCallback
<1>7. CASE f \notin {"start", "failure", "startWeird"}
  BY <1>7 DEF SignalCallback, Shown, Calls
<1> QED BY <1>4, <1>5, <1>6, <1>7

\* stateChanged() takes the state from the table and the hold flag from the
\* state, and touches no other flag.
LEMMA CallStateChangedShows ==
  ASSUME NEW c \in Calls, NEW d \in DaemonState, NEW video, NEW p
  PROVE  LET e == CallStateChanged(c, d, video, p)
             t == StateAfterSignal(c.state, d)
         IN Shown(e) = <<t, t = "HOLD", c.holdIn, c.recording>>
<1> DEFINE s == StateAfterSignal(c.state, d)
           f == CallbackOfSignal(c.state, d)
           moved == changeCurrentState(c, s)
           marked == [moved EXCEPT !.holdOut = (s = "HOLD"),
                        !.unexpected = @ \/ ~ValidTransition(s, LifeCycle(c.state))]
           held == updateOutgoingMedia(marked, video)
           done == SignalCallback(f, held, p)
           goal == <<s, s = "HOLD", c.holdIn, c.recording>>
<1>1. CallStateChanged(c, d, video, p) =
        IF f = "error" THEN changeCurrentState(held, "ERROR")
        ELSE IF LifeCycle(done.state) = "CREATION" THEN done ELSE DiscardDialNumber(done)
  BY DEF CallStateChanged
<1>2. c.state \in State /\ s \in State
  BY StateAfterSignalType DEF Calls
<1>3. f = "error" => s = "ERROR"
  BY <1>2 DEF CallbackOfSignal, StateAfterSignal, State
<1>4. moved.state = s /\ Flags(moved) = Flags(c) /\ moved \in Calls
  <2> HIDE DEF s
  <2> QED BY <1>2, ChangeShows, ChangeIsACall
<1>5. marked \in Calls /\ Shown(marked) = goal
  <2> HIDE DEF s, moved
  <2> QED BY <1>4 DEF Calls, Shown, Flags
<1>6. held \in Calls /\ Shown(held) = goal
  <2> HIDE DEF s, marked
  <2> QED BY <1>5 DEF updateOutgoingMedia, Calls, Shown, MediaKind
<1> HIDE DEF held, f, s
<1>7. Shown(done) = goal
  BY <1>6, SignalCallbackShows
<1>8. f = "error" => Shown(changeCurrentState(held, "ERROR")) = goal
  BY <1>3, <1>6, ChangeShows DEF Shown, Flags
<1> HIDE DEF done
<1>9. Shown(DiscardDialNumber(done)) = Shown(done)
  BY DEF DiscardDialNumber, Shown
<1> QED BY <1>1, <1>7, <1>8, <1>9 DEF s

-----------------------------------------------------------------------------
(* The invariant under every step.                                          *)

\* A call the daemon has not got is shown neither held nor recorded.
Fresh == daemon.call = "none" => ~call.holdIn /\ call.recording = {}

Agreeing ==
  /\ Knows(call.state, call.holdOut, daemon.call, signals)
  /\ KnowsPeer(call.holdIn, daemon.peerHold, signals)
  /\ KnowsRecord(call.recording, daemon.call, daemon.recording, signals)
  /\ Fresh

\* Reports keep the flags in step, whatever becomes of the state.
LEMMA ReportKeepsFlags ==
  ASSUME DaemonOK, DaemonOK', Agreeing, Reported, daemon.call # "none",
         call'.holdIn = call.holdIn, call'.recording = call.recording
  PROVE  /\ KnowsPeer(call'.holdIn, daemon'.peerHold, signals')
         /\ KnowsRecord(call'.recording, daemon'.call, daemon'.recording, signals')
         /\ Fresh'
<1>1. PICK y \in Seq(Signal) :
        /\ signals' = signals \o y
        /\ Reports(daemon.call, y, daemon'.call)
        /\ ReportsPeer(daemon.peerHold, y, daemon'.peerHold)
        /\ ReportsRecord(daemon.recording, y, daemon'.recording)
  BY DEF Reported
<1>2. signals \in Seq(Signal) /\ daemon'.peerHold \in BOOLEAN /\ daemon'.recording \in BOOLEAN
  BY DEF DaemonOK
<1>3. /\ daemon'.call # "none"
      /\ daemon'.call \in Known => daemon.call \in Known
  BY <1>1 DEF Reports, Known, DaemonCall, Closed
<1>4. KnowsPeer(call'.holdIn, daemon'.peerHold, signals')
  BY <1>1, <1>2, ReportKeepsPeer DEF Agreeing
<1>5. KnowsRecord(call'.recording, daemon'.call, daemon'.recording, signals')
  BY <1>1, <1>2, <1>3, ReportKeepsRecord DEF Agreeing
<1> QED BY <1>3, <1>4, <1>5 DEF Fresh

LEMMA ReportKeepsAgreeing ==
  ASSUME DaemonOK, DaemonOK', Agreeing, Reported, daemon.call # "none",
         call'.state = call.state, Flags(call') = Flags(call)
  PROVE  Agreeing'
<1>1. call'.holdOut = call.holdOut /\ call'.holdIn = call.holdIn /\ call'.recording = call.recording
  BY DEF Flags
<1>2. PICK y \in Seq(Signal) : signals' = signals \o y /\ Reports(daemon.call, y, daemon'.call)
  BY DEF Reported
<1>3. Knows(call'.state, call'.holdOut, daemon'.call, signals')
  BY <1>1, <1>2, ReportKeepsKnowing DEF Agreeing, DaemonOK
<1> QED BY <1>1, <1>3, ReportKeepsFlags DEF Agreeing

LEMMA EnvironmentAgrees ==
  ASSUME NoTransfer, IInv, IInv', Safe, Agreeing, Environment
  PROVE  Agreeing'
<1>1. DaemonOK /\ DaemonOK' /\ daemon.call \notin InConference /\ call' = call /\ DaemonStep
  BY DEF Environment, IInv, Safe, Sides
<1>2. Reported
  BY <1>1, DaemonStepReports DEF NoTransfer, Ordinary
<1>3. daemon.call # "none"
  BY <1>1 DEF DaemonStep, PeerHolds, DaemonRestarts, DaemonUnordered, DaemonProgress, DaemonEnds,
              Communicating, Known, InConference, NoTransfer, Ordinary
<1> QED BY <1>1, <1>2, <1>3, ReportKeepsAgreeing

LEMMA StateSignalAgrees ==
  ASSUME IInv, Safe, Agreeing, slotCallStateChanged
  PROVE  Agreeing'
<1> DEFINE x == Head(signals)
           d == ToDaemonState(StateName(x))
           t == StateAfterSignal(call.state, d)
<1>1. /\ signals # <<>> /\ signals \in Seq(Signal) /\ signals' = Tail(signals) /\ daemon' = daemon
      /\ call \in Calls /\ call.state \in State /\ x \in StateSignal
      /\ Sides(call.state, daemon.call, signals)
  BY DEF slotCallStateChanged, Dequeue, IInv, DaemonOK, Good, Calls, Safe
<1>2. PICK profile \in Profiles, video \in Videos : call' = CallStateChanged(call, d, video, profile)
  BY DEF slotCallStateChanged
<1>3. Shown(call') = <<t, t = "HOLD", call.holdIn, call.recording>>
  BY <1>1, <1>2, ToDaemonStateType, CallStateChangedShows
<1>4. /\ call'.state = t /\ call'.holdOut = (t = "HOLD")
      /\ call'.holdIn = call.holdIn /\ call'.recording = call.recording
  <2> HIDE DEF t
  <2> QED BY <1>3 DEF Shown
<1>5. t = Heard(call.state, x)
  BY DEF Heard
<1> HIDE DEF t, d, x
<1>6. Knows(call'.state, call'.holdOut, daemon'.call, signals')
  BY <1>1, <1>4, <1>5, HearingKeepsKnowing DEF Agreeing, x
<1>7. x \notin PeerSignal /\ x \notin RecordSignal
  BY <1>1 DEF PeerSignal, RecordSignal, StateSignal, DaemonState
<1>8. \A p \in BOOLEAN : PeerName(p) # x /\ RecordName(p) # x
  BY <1>7, PeerNames, RecordNames
<1>9. daemon.peerHold \in BOOLEAN /\ daemon.recording \in BOOLEAN
  BY DEF IInv, DaemonOK
<1>10. KnowsPeer(call'.holdIn, daemon'.peerHold, signals')
  BY <1>1, <1>4, <1>8, <1>9, ShowsTail DEF Agreeing, KnowsPeer, x
<1>11. KnowsRecord(call'.recording, daemon'.call, daemon'.recording, signals')
  BY <1>1, <1>4, <1>8, <1>9, ShowsTail DEF Agreeing, KnowsRecord, x
<1> QED BY <1>1, <1>4, <1>6, <1>10, <1>11 DEF Agreeing, Fresh

\* Peers and recorders speak of their own flag.
LEMMA FlagSignalAgrees ==
  ASSUME IInv, Safe, Agreeing, slotPeerHold \/ slotRecordStateChanged
  PROVE  Agreeing'
<1> DEFINE x == Head(signals)
<1>1. /\ signals # <<>> /\ signals \in Seq(Signal) /\ signals' = Tail(signals) /\ daemon' = daemon
      /\ call \in Calls /\ x \in PeerSignal \cup RecordSignal
  BY DEF slotPeerHold, slotRecordStateChanged, Dequeue, IInv, DaemonOK, Good, PeerSignal, RecordSignal
<1>2. /\ call'.state = call.state /\ call'.holdOut = call.holdOut
      /\ x \in PeerSignal => call'.holdIn = (x = "PEER_HOLD") /\ call'.recording = call.recording
      /\ x \in RecordSignal => call'.holdIn = call.holdIn /\ (call'.recording # {}) = (x = "RECORD_ON")
  BY <1>1 DEF slotPeerHold, slotRecordStateChanged, Calls, PeerSignal, RecordSignal
<1>3. /\ x \notin StateSignal
      /\ x \in PeerSignal <=> x \notin RecordSignal
  BY <1>1 DEF PeerSignal, RecordSignal, StateSignal, DaemonState
<1>4. daemon.peerHold \in BOOLEAN /\ daemon.recording \in BOOLEAN
  BY DEF IInv, DaemonOK
<1>5. Knows(call'.state, call'.holdOut, daemon'.call, signals')
  BY <1>1, <1>2, <1>3, SkippingKeepsKnowing DEF Agreeing
<1>6. KnowsPeer(call'.holdIn, daemon'.peerHold, signals')
  <2> DEFINE now == call.holdIn = daemon.peerHold
             then == call'.holdIn = daemon.peerHold
             n == PeerName(daemon.peerHold)
  <2>1. Shows(signals, PeerSignal, {n}, now)
    BY DEF Agreeing, KnowsPeer
  <2>2. x = n => then
    BY <1>1, <1>2, <1>3, <1>4, PeerNames
  <2>3. x \notin PeerSignal => then = now
    BY <1>1, <1>2, <1>3
  <2> HIDE DEF now, then, n
  <2>4. Shows(Tail(signals), PeerSignal, {n}, then)
    BY <1>1, <2>1, <2>2, <2>3, ShowsTail DEF x
  <2> QED BY <1>1, <2>4 DEF KnowsPeer, then, n
<1>7. KnowsRecord(call'.recording, daemon'.call, daemon'.recording, signals')
  <2> DEFINE now == (call.recording # {}) = daemon.recording
             then == (call'.recording # {}) = daemon.recording
             n == RecordName(daemon.recording)
  <2>1. daemon.call \in Known => Shows(signals, RecordSignal, {n}, now)
    BY DEF Agreeing, KnowsRecord
  <2>2. x = n => then
    BY <1>1, <1>2, <1>3, <1>4, RecordNames
  <2>3. x \notin RecordSignal => then = now
    BY <1>1, <1>2, <1>3
  <2> HIDE DEF now, then, n
  <2>4. daemon.call \in Known => Shows(Tail(signals), RecordSignal, {n}, then)
    BY <1>1, <2>1, <2>2, <2>3, ShowsTail DEF x
  <2> QED BY <1>1, <2>4 DEF KnowsRecord, then, n
<1>8. daemon.call # "none"
  BY <1>1 DEF Agreeing, Knows, KnowsNone
<1> QED BY <1>1, <1>5, <1>6, <1>7, <1>8 DEF Agreeing, Fresh

\* The client marks the call held, or not, before the daemon hears of it; when
\* the daemon is already there, or does not obey, a signal will put it right.
LEMMA HoldAgrees ==
  ASSUME IInv, IInv', Safe, Agreeing, NEW k,
         call' = [call EXCEPT !.holdOut = k],
         \/ call.state = "CURRENT" /\ DaemonHold
         \/ call.state = "HOLD" /\ DaemonUnhold
  PROVE  Agreeing'
<1>1. call \in Calls /\ DaemonOK /\ DaemonOK' /\ daemon.call \notin InConference
  BY DEF IInv, Good, Safe, Sides
<1>2. /\ call'.state = call.state /\ call'.holdOut = k
      /\ call'.holdIn = call.holdIn /\ call'.recording = call.recording
  BY <1>1 DEF Calls
<1>3. daemon.call # "none"
  BY DEF Agreeing, Knows, KnowsNone, LifeCycle, Ended, Talking, Transferring, Conferencing
<1>4. Reported
  BY <1>1, RepliesReport
<1>5. Knows(call.state, k, daemon'.call, signals')
  <2>1. CASE Quiet /\ ~(call.state = "CURRENT" /\ daemon.call = "current")
                   /\ ~(call.state = "HOLD" /\ daemon.call = "hold")
    BY <2>1 DEF Quiet, Agreeing, Knows, KnowsTalk, Shows, Communicating
  <2>2. CASE \E x \in TalkSignal, e \in Communicating :
               Become(e, <<x>>) /\ Reports(daemon.call, <<x>>, e)
    <3>1. PICK x \in TalkSignal, e \in Communicating :
            Become(e, <<x>>) /\ Reports(daemon.call, <<x>>, e)
      BY <2>2
    <3>2. x \in Signal /\ <<x>> \in Seq(Signal) /\ Among(<<x>>, StateSignal)
      BY OneSignal DEF TalkSignal, Signal, StateSignal, DaemonState
    <3>3. daemon'.call = e /\ signals' = signals \o <<x>> /\ signals \in Seq(Signal)
      BY <1>1, <3>1 DEF Become, DaemonOK
    <3> QED BY <1>3, <3>1, <3>2, <3>3, ReportKeepsKnowing DEF Agreeing
  <2>3. CASE call.state = "CURRENT" /\ DaemonHold
    BY <1>1, <2>1, <2>2, <2>3 DEF DaemonHold, InConference, TalkSignal, Communicating, Reports
  <2>4. CASE call.state = "HOLD" /\ DaemonUnhold
    <3>1. daemon.call = "hold" => \E x \in {"CURRENT", "UNHOLD"} : Become("current", <<x>>)
      BY <2>4 DEF DaemonUnhold
    <3>2. daemon.call # "hold" => Quiet
      BY <1>1, <2>4 DEF DaemonUnhold, InConference
    <3> QED BY <2>1, <2>2, <2>4, <3>1, <3>2 DEF TalkSignal, Communicating, Reports
  <2> QED BY <2>3, <2>4
<1> QED BY <1>1, <1>2, <1>3, <1>4, <1>5, ReportKeepsFlags DEF Agreeing

LEMMA RecordAgrees ==
  ASSUME IInv, IInv', Safe, Agreeing, call.state \in {"RINGING"} \cup PlainTalk,
         toggleRecord(call, "AUDIO")
  PROVE  Agreeing'
<1> DEFINE on == daemon.call \in Known /\ ~daemon.recording
           after == IF on THEN call.recording \cup {"AUDIO"} ELSE call.recording \ {"AUDIO"}
<1>1. call \in Calls /\ DaemonOK /\ call' = [call EXCEPT !.recording = after]
  BY DEF IInv, Good, toggleRecord, Calls
<1>2. /\ call'.state = call.state /\ call'.holdOut = call.holdOut
      /\ call'.holdIn = call.holdIn /\ call'.recording = after
  BY <1>1 DEF Calls
<1>3. daemon.call # "none"
  BY DEF Agreeing, Knows, KnowsNone, LifeCycle, Ended, Talking, Transferring, Conferencing, PlainTalk
<1>4. CASE daemon.call \notin Known
  <2>1. Quiet
    BY <1>4 DEF toggleRecord
  <2> QED BY <1>2, <1>3, <1>4, <2>1 DEF Quiet, Agreeing, KnowsRecord, Fresh
<1>5. CASE daemon.call \in Known
  <2> DEFINE x == RecordName(on)
  <2>1. /\ daemon' = [daemon EXCEPT !.recording = on]
        /\ signals' = Append(signals, x)
    BY <1>5 DEF toggleRecord, RecordName
  <2>2. on = ~daemon.recording /\ on \in BOOLEAN
    BY <1>1, <1>5 DEF DaemonOK
  <2> HIDE DEF on, after
  <2>3. x \in RecordSignal /\ x \in Signal
    BY <2>2, RecordNames
  <2>4. signals' = signals \o <<x>> /\ <<x>> \in Seq(Signal) /\ signals \in Seq(Signal)
    BY <1>1, <2>1, <2>3, AppendIsConcat, OneSignal DEF DaemonOK
  <2>5. /\ daemon'.call = daemon.call /\ daemon'.peerHold = daemon.peerHold /\ daemon'.recording = on
    BY <1>1, <2>1 DEF DaemonOK
  <2>6. ~Among(<<x>>, StateSignal) /\ ~Among(<<x>>, PeerSignal)
    BY <2>3, OneSignal DEF RecordSignal, StateSignal, DaemonState, PeerSignal
  <2>7. Knows(call.state, call.holdOut, daemon.call, signals')
    BY <1>3, <2>4, <2>6, SilenceKeepsKnowing DEF Agreeing
  <2>8. KnowsPeer(call.holdIn, daemon.peerHold, signals')
    BY <2>4, <2>6, ShowsStays DEF Agreeing, KnowsPeer
  <2>9. KnowsRecord(after, daemon.call, on, signals')
    BY <2>3, <2>4, LastWord DEF KnowsRecord, Shows
  <2> QED BY <1>2, <1>3, <2>5, <2>7, <2>8, <2>9 DEF Agreeing, Fresh
<1> QED BY <1>4, <1>5

\* What is neither begun nor placed is not being transferred.
Plain == State \ (Transferring \cup Conferencing)

LEMMA RefusalTable ==
  \A s \in Plain \cap {t \in State : "REFUSE" \in Offered(t)} :
    /\ StateAfterAction(s, "REFUSE") \in Plain
    /\ LifeCycle(s) = "CREATION" => /\ CallbackOfAction(s, "REFUSE") = "nothing"
                                    /\ StateAfterAction(s, "REFUSE") \in Ended
    /\ LifeCycle(s) # "CREATION" => CallbackOfAction(s, "REFUSE") \in {"refuse", "hangUp", "remove", "cancel"}
BY DEF Plain, State, Offered, Action, StateAfterAction, CallbackOfAction, PlainState, LifeCycle,
       Talking, Transferring, Conferencing, Ended

\* The callbacks of the red button on the call c.
LEMMA EndingShows ==
  ASSUME NEW c \in Calls, NEW f \in {"refuse", "hangUp", "remove", "cancel"}, ActionCallback(f, c)
  PROVE  /\ Flags(call') = Flags(c) /\ call'.state \in {c.state, "OVER", "ERROR"}
         /\ DaemonHangUp
<1>1. \A e \in Calls : \A t : changeCurrentState(e, t).state = t
                              /\ Flags(changeCurrentState(e, t)) = Flags(e)
  BY ChangeShows
<1>2. /\ [c EXCEPT !.missed = TRUE] \in Calls /\ Shown([c EXCEPT !.missed = TRUE]) = Shown(c)
      /\ [c EXCEPT !.stopped = TRUE] \in Calls /\ Shown([c EXCEPT !.stopped = TRUE]) = Shown(c)
  BY DEF Calls, Shown
<1>3. \A e : Shown(e) = Shown(c) => Flags(e) = Flags(c) /\ e.state = c.state
  BY DEF Shown, Flags
<1>4. CASE refuse(c)
  BY <1>1, <1>2, <1>3, <1>4 DEF refuse
<1>5. CASE hangUp(c)
  <2> DEFINE ended == [c EXCEPT !.stopped = TRUE]
             halted == [ended EXCEPT !.timer = IF @ = "null" THEN @ ELSE "stopped"]
  <2>1. call' = halted \/ call' = changeCurrentState(ended, "OVER")
    BY <1>5 DEF hangUp
  <2>2. Shown(halted) = Shown(c)
    BY DEF Calls, Shown
  <2>3. CASE call' = halted
    BY <1>3, <1>5, <2>2, <2>3 DEF hangUp
  <2>4. CASE call' = changeCurrentState(ended, "OVER")
    <3> HIDE DEF halted
    <3> QED BY <1>1, <1>2, <1>3, <1>5, <2>4 DEF hangUp
  <2> QED BY <2>1, <2>3, <2>4
<1>6. CASE remove(c) \/ cancel(c)
  BY <1>1, <1>6 DEF remove, cancel
<1> QED BY <1>4, <1>5, <1>6 DEF ActionCallback

\* The red button: whatever was on its way, the end of the call is now.
LEMMA RefusalAgrees ==
  ASSUME IInv, IInv', Safe, Agreeing, "REFUSE" \in Offered(call.state),
         LifeCycle(call.state) = "FINISHED" => LifeCycle(call'.state) = "FINISHED",
         ActionCallback(CallbackOfAction(call.state, "REFUSE"),
                        changeCurrentState(call, StateAfterAction(call.state, "REFUSE")))
  PROVE  Agreeing'
<1> DEFINE s == StateAfterAction(call.state, "REFUSE")
           f == CallbackOfAction(call.state, "REFUSE")
           c == changeCurrentState(call, s)
<1>1. /\ call \in Calls /\ call' \in Calls /\ call.state \in Plain
      /\ DaemonOK /\ DaemonOK' /\ daemon.call \notin InConference
  BY DEF IInv, Good, Safe, Sides, Agreeing, Knows, Plain, Calls
<1>2. /\ s \in Plain
      /\ LifeCycle(call.state) = "CREATION" => f = "nothing" /\ s \in Ended
      /\ LifeCycle(call.state) # "CREATION" => f \in {"refuse", "hangUp", "remove", "cancel"}
  BY <1>1, RefusalTable DEF Plain
<1>3. ActionCallback(f, c)
  OBVIOUS
<1> HIDE DEF s, f
<1>4. c.state = s /\ Flags(c) = Flags(call)
  BY <1>1, ChangeShows
<1>5. LifeCycle(call'.state) = "FINISHED" => call'.state \in Ended
  BY <1>1 DEF Calls, State, LifeCycle, Ended, Talking, Transferring, Conferencing
<1>6. CASE LifeCycle(call.state) = "CREATION"
  <2>1. call' = c /\ Quiet
    BY <1>2, <1>3, <1>6 DEF ActionCallback
  <2>2. daemon.call = "none" /\ signals = <<>>
    BY <1>6 DEF Safe, Sides
  <2>3. Knows(call'.state, call'.holdOut, daemon.call, signals)
    BY <1>2, <1>4, <1>6, <2>1, <2>2
       DEF Knows, KnowsNone, KnowsSetup, KnowsIncoming, KnowsTalk, KnowsEnd, Plain, Communicating, Closed
  <2>4. call'.holdIn = call.holdIn /\ call'.recording = call.recording
    BY <1>4, <2>1 DEF Flags
  <2> QED BY <2>1, <2>3, <2>4 DEF Agreeing, Fresh, Quiet
<1>7. CASE LifeCycle(call.state) # "CREATION"
  <2>1. c \in Calls
    BY <1>1, <1>2, ChangeIsACall DEF Plain
  <2>2. /\ Flags(call') = Flags(c) /\ call'.state \in {c.state, "OVER", "ERROR"}
        /\ DaemonHangUp
    <3> HIDE DEF c
    <3> QED BY <1>2, <1>3, <1>7, <2>1, EndingShows
  <2>3. call'.state \in Plain
    BY <1>2, <1>4, <2>2 DEF Plain, State, Transferring, Conferencing
  <2>4. call'.holdIn = call.holdIn /\ call'.recording = call.recording
    BY <1>4, <2>2 DEF Flags
  <2>5. CASE daemon.call \in Known
    <3>1. Become("hungup", <<"HUNGUP">>)
      BY <1>1, <2>2, <2>5 DEF DaemonHangUp
    <3>2. daemon'.call = "hungup" /\ signals' = signals \o <<"HUNGUP">> /\ signals \in Seq(Signal)
      BY <1>1, <3>1 DEF Become, DaemonOK
    <3>3. "HUNGUP" \in Signal /\ "HUNGUP" \in EndSignal
      BY DEF Signal, StateSignal, EndSignal
    <3>4. Among(signals', EndSignal)
      BY <3>2, <3>3, OneSignal, AmongGrows
    <3>5. Knows(call'.state, call'.holdOut, daemon'.call, signals')
      BY <2>3, <3>2, <3>4
         DEF Knows, KnowsNone, KnowsSetup, KnowsIncoming, KnowsTalk, KnowsEnd, Plain, Communicating
    <3>6. Reported /\ daemon.call # "none"
      BY <1>1, <2>2, <2>5, RepliesReport DEF Known
    <3> QED BY <1>1, <2>4, <3>5, <3>6, ReportKeepsFlags DEF Agreeing
  <2>6. CASE daemon.call \notin Known
    <3>1. Quiet
      BY <1>1, <2>2, <2>6 DEF DaemonHangUp, Known
    <3>2. daemon.call \in {"none", "hungup", "over", "gone"}
      BY <1>1, <2>6 DEF DaemonOK, Known
    <3>3. call.state \in Ended => call'.state \in Ended
      BY <1>5 DEF LifeCycle, Ended, Talking, Transferring, Conferencing
    <3>4. Knows(call'.state, call'.holdOut, daemon.call, signals)
      BY <1>7, <2>3, <3>2, <3>3
         DEF Agreeing, Knows, KnowsNone, KnowsSetup, KnowsIncoming, KnowsTalk, KnowsEnd, Plain, Communicating
    <3> QED BY <2>4, <3>1, <3>4 DEF Agreeing, Fresh, Quiet
  <2> QED BY <2>5, <2>6
<1> QED BY <1>6, <1>7

\* A call is placed with nothing held and nothing recorded.
LEMMA PlaceCallAgrees ==
  ASSUME IInv, Agreeing, NEW c \in Calls, Flags(c) = Flags(call), c.state = "INITIALIZATION",
         daemon.call = "none", c.dial # "null", PlaceCall(c)
  PROVE  Agreeing'
<1> DEFINE uri == IF c.peer = "null" THEN c.dial ELSE c.peer
           ready == [c EXCEPT !.peer = uri, !.dial = "null"]
           gone == changeCurrentState(c, "ABORTED")
           failed == changeCurrentState(ready, "FAILURE")
           e == [gone EXCEPT !.dial = "null"]
<1>1. ready \in Calls /\ Flags(ready) = Flags(c) /\ ready.state = "INITIALIZATION"
  <2>1. ready \in Calls
    BY DEF Calls, Number
  <2> QED BY <2>1 DEF Flags, Calls
<1>2. Flags(e) = Flags(c) /\ e.state = "ABORTED"
  <2>1. gone.state = "ABORTED" /\ Flags(gone) = Flags(c)
    BY ChangeShows
  <2>2. Flags(e) = Flags(gone) /\ e.state = gone.state
    BY DEF changeCurrentState, Flags, Calls
  <2> QED BY <2>1, <2>2
<1>3. signals = <<>> /\ ~call.holdIn /\ call.recording = {}
  BY DEF Agreeing, Knows, KnowsNone, Fresh
<1>4. ASSUME Flags(call') = Flags(c), call'.state \in {"ABORTED", "ERROR", "FAILURE"}, Quiet
      PROVE  Agreeing'
  <2>1. call'.holdIn = call.holdIn /\ call'.recording = call.recording
    BY <1>4 DEF Flags
  <2>2. Knows(call'.state, call'.holdOut, daemon.call, signals)
    BY <1>3, <1>4 DEF Knows, KnowsNone, KnowsSetup, KnowsIncoming, KnowsTalk, KnowsEnd,
                      Communicating, Closed, Ended, Transferring, Conferencing
  <2> QED BY <1>4, <2>1, <2>2 DEF Agreeing, Fresh, Quiet
<1>5. CASE /\ call' = ready
           /\ daemon' = [call |-> "connecting", peerHold |-> FALSE, recording |-> FALSE]
           /\ UNCHANGED signals
  <2>1. Flags(call') = Flags(call) /\ call'.state = "INITIALIZATION" /\ signals' = <<>>
    BY <1>1, <1>3, <1>5
  <2>2. ~call'.holdIn /\ call'.recording = {}
    BY <1>3, <2>1 DEF Flags
  <2>3. /\ daemon'.call = "connecting" /\ daemon'.peerHold = FALSE /\ daemon'.recording = FALSE
    BY <1>5
  <2>4. Knows("INITIALIZATION", call'.holdOut, "connecting", <<>>)
    BY SilentWord DEF Knows, KnowsNone, KnowsSetup, KnowsIncoming, KnowsTalk, KnowsEnd,
                      Communicating, Closed, Setup, Transferring, Conferencing
  <2>5. call'.holdIn = FALSE
    <3>1. call' \in Calls
      BY <1>1, <1>5
    <3> QED BY <2>2, <3>1 DEF Calls
  <2> QED BY <2>1, <2>2, <2>3, <2>4, <2>5, SilentWord
          DEF Agreeing, KnowsPeer, KnowsRecord, Shows, Fresh
<1>6. \/ call' = e /\ Quiet
      \/ call' = changeCurrentState(c, "ERROR") /\ Quiet
      \/ call' = failed /\ Quiet
      \/ /\ call' = ready
         /\ daemon' = [call |-> "connecting", peerHold |-> FALSE, recording |-> FALSE]
         /\ UNCHANGED signals
  BY DEF PlaceCall, Crash
<1> HIDE DEF ready, e
<1>7. Flags(failed) = Flags(c) /\ failed.state = "FAILURE"
  BY <1>1, ChangeShows
<1>8. LET w == changeCurrentState(c, "ERROR") IN Flags(w) = Flags(c) /\ w.state = "ERROR"
  BY ChangeShows
<1> HIDE DEF failed, gone
<1> QED BY <1>2, <1>4, <1>5, <1>6, <1>7, <1>8

\* The remaining buttons: a table of two rows each.
LEMMA OfferedTable ==
  \A s \in Plain, a \in {"ACCEPT", "HOLD", "RECORD_AUDIO"} : a \in Offered(s) =>
    \/ a = "ACCEPT" /\ s = "DIALING" /\ StateAfterAction(s, a) = "INITIALIZATION"
                    /\ CallbackOfAction(s, a) = "call"
    \/ /\ StateAfterAction(s, a) = s
       /\ \/ s = "INCOMING" /\ CallbackOfAction(s, a) = "accept"
          \/ s = "CURRENT" /\ CallbackOfAction(s, a) = "hold"
          \/ s = "HOLD" /\ CallbackOfAction(s, a) = "unhold"
          \/ s \in {"RINGING"} \cup PlainTalk /\ CallbackOfAction(s, a) = "toggleAudioRecord"
BY DEF Plain, PlainTalk, State, Offered, Action, StateAfterAction, CallbackOfAction, PlainState,
       Talking, Transferring, Conferencing

LEMMA PerformActionAgrees ==
  ASSUME NoTransfer, IInv, IInv', Safe, Safe', Agreeing, Forward(call.state, call'.state),
         NEW a \in Action, performAction(a)
  PROVE  Agreeing'
<1> DEFINE s == StateAfterAction(call.state, a)
           f == CallbackOfAction(call.state, a)
           c == changeCurrentState(call, s)
<1>1. a \in Offered(call.state) /\ a \in {"ACCEPT", "HOLD", "RECORD_AUDIO", "REFUSE"}
  BY DEF performAction, NoTransfer, Ordinary, Untabled, Action
<1>2. /\ call \in Calls /\ call.state \in Plain /\ DaemonOK /\ DaemonOK'
      /\ daemon.call \notin InConference
  BY DEF IInv, Good, Calls, Agreeing, Knows, Plain, Safe, Sides
<1>3. ActionCallback(f, c)
  BY DEF performAction
<1>4. CASE a = "REFUSE"
  BY <1>1, <1>3, <1>4, RefusalAgrees DEF Forward
<1>5. CASE a # "REFUSE"
  <2>1. \/ call.state = "DIALING" /\ s = "INITIALIZATION" /\ f = "call"
        \/ /\ s = call.state
           /\ \/ s = "INCOMING" /\ f = "accept"
              \/ s = "CURRENT" /\ f = "hold"
              \/ s = "HOLD" /\ f = "unhold"
              \/ s \in {"RINGING"} \cup PlainTalk /\ f = "toggleAudioRecord"
    BY <1>1, <1>2, <1>5, OfferedTable
  <2> HIDE DEF s, f
  <2>2. s = call.state => c = call
    BY DEF changeCurrentState
  <2>3. CASE call.state = "DIALING" /\ s = "INITIALIZATION" /\ f = "call"
    <3>1. LifeCycle(call.state) = "CREATION" /\ LifeCycle(s) = "INITIALIZATION"
      BY <2>3 DEF LifeCycle, Talking, Transferring, Conferencing
    <3>2. daemon.call = "none" /\ call.dial # "null"
      BY <3>1 DEF Safe, Sides, IInv, Good
    <3>3. c \in Calls
      BY <1>2, <2>3, ChangeIsACall DEF State
    <3>4. c.dial = call.dial
      BY <1>2 DEF changeCurrentState, Calls
    <3>5. c.state = s /\ Flags(c) = Flags(call)
      BY <1>2, ChangeShows
    <3>6. PlaceCall(c)
      BY <1>3, <2>3 DEF ActionCallback
    <3> QED BY <2>3, <3>2, <3>3, <3>4, <3>5, <3>6, PlaceCallAgrees
  <2>4. CASE s = call.state /\ s = "INCOMING" /\ f = "accept"
    <3>1. call' = call /\ DaemonAnswer
      BY <1>3, <2>2, <2>4 DEF ActionCallback, accept
    <3>2. Reported
      BY <1>2, <3>1, RepliesReport
    <3>3. daemon.call # "none"
      BY <2>4 DEF Agreeing, Knows, KnowsNone, LifeCycle, Ended, Talking, Transferring, Conferencing
    <3> QED BY <1>2, <3>1, <3>2, <3>3, ReportKeepsAgreeing
  <2>5. CASE s = call.state /\ s = "CURRENT" /\ f = "hold"
    BY <1>3, <2>2, <2>5, HoldAgrees DEF ActionCallback, hold
  <2>6. CASE s = call.state /\ s = "HOLD" /\ f = "unhold"
    BY <1>3, <2>2, <2>6, HoldAgrees DEF ActionCallback, unhold
  <2>7. CASE s = call.state /\ s \in {"RINGING"} \cup PlainTalk /\ f = "toggleAudioRecord"
    BY <1>3, <2>2, <2>7, RecordAgrees DEF ActionCallback
  <2> QED BY <2>1, <2>3, <2>4, <2>5, <2>6, <2>7
<1> QED BY <1>4, <1>5

\* Keyboard handling moves the state while the call is being created, and no flag.
LEMMA EditsShow ==
  ASSUME call \in Calls, call.state \in Plain, Edits
  PROVE  /\ Quiet /\ Flags(call') = Flags(call)
         /\ \/ call'.state = call.state
            \/ Creating /\ call'.state \in {"NEW", "DIALING", "ABORTED"}
<1> DEFINE Moved(e) == Flags(e) = Flags(call) /\ e.state \in {call.state, "NEW", "DIALING", "ABORTED"}
<1>1. ASSUME NEW e \in Calls, Moved(e), NEW n \in Number
      PROVE  /\ [e EXCEPT !.dial = n] \in Calls /\ Moved([e EXCEPT !.dial = n])
             /\ [e EXCEPT !.peer = n] \in Calls /\ Moved([e EXCEPT !.peer = n])
             /\ Moved([e EXCEPT !.crashed = TRUE])
             /\ [e EXCEPT !.transfer = n].state = e.state
             /\ Flags([e EXCEPT !.transfer = n]) = Flags(e)
  BY <1>1 DEF Calls, Flags
<1>2. ASSUME NEW e \in Calls, Moved(e), NEW t \in {"NEW", "DIALING", "ABORTED"}
      PROVE  changeCurrentState(e, t) \in Calls /\ Moved(changeCurrentState(e, t))
  BY <1>2, ChangeShows, ChangeIsACall DEF State
<1>3. Moved(call) /\ {"empty", "number"} \subseteq Number
  BY DEF Number
<1>4. ASSUME NEW n \in Number PROVE Flags([call EXCEPT !.transfer = n]) = Flags(call)
                                    /\ [call EXCEPT !.transfer = n].state = call.state
  BY <1>1, <1>3
<1>5. ASSUME NEW e \in Calls, Moved(e), NEW n \in {"empty", "number"}
      PROVE  Moved(Dialed(e, n))
  <2> DEFINE g == [e EXCEPT !.dial = n]
  <2>1. g \in Calls /\ Moved(g) /\ Moved([e EXCEPT !.crashed = TRUE])
    BY <1>1, <1>3, <1>5
  <2>2. Dialed(e, n) \in {g, changeCurrentState(g, "DIALING"), changeCurrentState(g, "NEW"),
                          [e EXCEPT !.crashed = TRUE]}
    BY DEF Dialed
  <2> HIDE DEF g, Moved
  <2> QED BY <1>2, <2>1, <2>2
<1>6. ASSUME NEW t \in {"NEW", "DIALING"}, NEW n \in {"empty", "number"}
      PROVE  /\ Moved([changeCurrentState(call, t) EXCEPT !.dial = n])
             /\ Moved([changeCurrentState(call, t) EXCEPT !.dial = IF @ = "null" THEN @ ELSE n])
  <2> DEFINE c == changeCurrentState(call, t)
  <2>1. c \in Calls /\ Moved(c)
    BY <1>2, <1>3
  <2>2. (IF c.dial = "null" THEN c.dial ELSE n) \in Number
    BY <1>3, <2>1 DEF Calls
  <2> HIDE DEF c, Moved
  <2> QED BY <1>1, <1>3, <2>1, <2>2 DEF c
<1>7. Moved(changeCurrentState(call, "ABORTED"))
  BY <1>2, <1>3
<1>8. call.state \notin Transferring
  BY DEF Plain
<1>9. Quiet /\ \/ Creating
               \/ setTransferNumber
  BY <1>8 DEF Edits, setDialNumber, setPeerContactMethod, appendText, backspaceItemText, reset,
              setTransferNumber, Editing
<1>10. CASE setTransferNumber
  BY <1>3, <1>4, <1>9, <1>10 DEF setTransferNumber
<1> HIDE DEF Moved
<1>11. setDialNumber => Moved(call')
  BY <1>3, <1>5 DEF setDialNumber
<1>12. ASSUME setPeerContactMethod PROVE Moved(call')
  <2>1. PICK n \in {"empty", "number"} : call' = Dialed([call EXCEPT !.peer = n], n)
    BY <1>12 DEF setPeerContactMethod
  <2>2. [call EXCEPT !.peer = n] \in Calls /\ Moved([call EXCEPT !.peer = n])
    BY <1>1, <1>3
  <2>3. Moved(call')
    BY <1>5, <2>1, <2>2
  <2> QED BY <2>3
<1>13. appendText => Moved(call')
  BY <1>6, <1>8 DEF appendText
<1>14. ASSUME backspaceItemText PROVE Moved(call')
  <2>1. Moved([call EXCEPT !.crashed = TRUE])
    BY <1>1, <1>3 DEF Number
  <2> QED BY <1>6, <1>7, <1>8, <1>14, <2>1 DEF backspaceItemText
<1>15. reset => Moved(call')
  BY <1>6, <1>8 DEF reset
<1>16. setTransferNumber \/ Moved(call')
  BY <1>11, <1>12, <1>13, <1>14, <1>15 DEF Edits
<1> QED BY <1>9, <1>10, <1>16 DEF Moved

LEMMA EditsAgree ==
  ASSUME IInv, Safe, Agreeing, Edits
  PROVE  Agreeing'
<1>1. call \in Calls /\ call.state \in Plain
  BY DEF IInv, Good, Calls, Agreeing, Knows, Plain
<1>2. /\ Quiet /\ Flags(call') = Flags(call)
      /\ \/ call'.state = call.state
         \/ Creating /\ call'.state \in {"NEW", "DIALING", "ABORTED"}
  BY <1>1, EditsShow
<1>3. call'.holdOut = call.holdOut /\ call'.holdIn = call.holdIn /\ call'.recording = call.recording
  BY <1>2 DEF Flags
<1>4. Knows(call'.state, call'.holdOut, daemon.call, signals)
  <2>1. CASE call'.state = call.state
    BY <1>3, <2>1 DEF Agreeing
  <2>2. CASE Creating /\ call'.state \in {"NEW", "DIALING", "ABORTED"}
    <3>1. daemon.call = "none" /\ signals = <<>>
      BY <2>2 DEF Safe, Sides, Creating
    <3>2. LifeCycle(call'.state) = "CREATION" \/ call'.state \in Ended
      BY <2>2 DEF LifeCycle, Ended, Talking, Transferring, Conferencing
    <3> QED BY <2>2, <3>1, <3>2
            DEF Knows, KnowsNone, KnowsSetup, KnowsIncoming, KnowsTalk, KnowsEnd, Communicating,
                Closed, Transferring, Conferencing
  <2> QED BY <1>2, <2>1, <2>2
<1> QED BY <1>2, <1>3, <1>4 DEF Quiet, Agreeing, Fresh

-----------------------------------------------------------------------------
(* The theorem.                                                             *)

LEMMA InitAgrees ==
  ASSUME NoTransfer, Init
  PROVE  Agreeing
<1>1. InitDialing \/ InitIncoming \/ InitHistory
  BY DEF Init, NoTransfer, Ordinary
<1>2. ASSUME call.holdIn = FALSE, call.recording = {}, daemon.peerHold = FALSE, daemon.recording = FALSE,
             \/ call.state \in {"NEW", "OVER"} /\ daemon.call = "none" /\ signals = <<>>
             \/ call.state = "INCOMING" /\ daemon.call = "incoming" /\ signals \in {<<>>, <<"INCOMING">>}
      PROVE  Agreeing
  <2>1. \A S : "INCOMING" \notin S => ~Among(signals, S)
    BY <1>2 DEF Among
  <2>2. KnowsPeer(call.holdIn, daemon.peerHold, signals)
    BY <1>2, <2>1 DEF KnowsPeer, Shows, PeerSignal
  <2>3. KnowsRecord(call.recording, daemon.call, daemon.recording, signals)
    BY <1>2, <2>1 DEF KnowsRecord, Shows, RecordSignal
  <2>4. Knows(call.state, call.holdOut, daemon.call, signals)
    BY <1>2, <2>1 DEF Knows, KnowsNone, KnowsSetup, KnowsIncoming, KnowsTalk, KnowsEnd, Communicating,
                      Closed, LifeCycle, Ended, Talking, Transferring, Conferencing
  <2> QED BY <1>2, <2>2, <2>3, <2>4 DEF Agreeing, Fresh
<1>3. CASE InitDialing
  BY <1>2, <1>3 DEF InitDialing, NewCall, DaemonIn
<1>4. CASE InitIncoming
  BY <1>2, <1>4 DEF InitIncoming, BuiltCall, NewCall, DaemonIn
<1>5. CASE InitHistory
  <2> DEFINE b == BuiltCall("OVER", FALSE, FALSE)
  <2>1. b \in Calls /\ b.state = "OVER" /\ b.holdIn = FALSE /\ b.recording = {}
    <3>1. b \in Calls
      BY BuiltCallIsGood DEF State, Good
    <3>2. b.state = "OVER" /\ b.holdIn = FALSE /\ b.recording = {}
      BY DEF BuiltCall, NewCall
    <3> QED BY <3>1, <3>2
  <2> HIDE DEF b
  <2>2. call.state = "OVER" /\ call.holdIn = FALSE /\ call.recording = {}
    BY <1>5, <2>1 DEF InitHistory, b, Calls
  <2> QED BY <1>2, <1>5, <2>2 DEF InitHistory, DaemonIn
<1> QED BY <1>1, <1>3, <1>4, <1>5

LEMMA NextAgrees ==
  ASSUME NoTransfer, IInv, IInv', Safe, Safe', Agreeing, [Next]_vars
  PROVE  Agreeing'
<1>1. Forward(call.state, call'.state)
  BY NextIsSafe DEF NoTransfer
<1>2. CASE UserStep
  BY <1>1, <1>2, PerformActionAgrees, EditsAgree DEF UserStep
<1>3. CASE DeliverSignal
  <2>1. ~(slotChangingConference \/ slotConferenceRemoved)
    BY DEF slotChangingConference, slotConferenceRemoved, Safe, Sound
  <2> QED BY <1>3, <2>1, StateSignalAgrees, FlagSignalAgrees DEF DeliverSignal
<1>4. CASE Environment
  BY <1>4, EnvironmentAgrees
<1>5. CASE UNCHANGED vars
  BY <1>5 DEF vars, Agreeing, Fresh
<1> QED BY <1>2, <1>3, <1>4, <1>5 DEF Next

\* Once nothing is on its way, knowing is showing.
LEMMA AgreeingIsEnough == ASSUME IInv, Agreeing PROVE ClientAgrees
<1> SUFFICES ASSUME signals = <<>>
             PROVE  StateAgrees /\ HoldFlagsAgree /\ RecordingAgrees
  BY DEF ClientAgrees, Settled
<1>1. /\ \A S : ~Among(signals, S)
      /\ \A S, T, now : Shows(signals, S, T, now) => now
  BY DEF Among, Shows, Tells
<1>2. /\ Knows(call.state, call.holdOut, daemon.call, signals)
      /\ call.holdIn = daemon.peerHold
      /\ daemon.call \in Known => ((call.recording # {}) = daemon.recording)
  BY <1>1 DEF Agreeing, KnowsPeer, KnowsRecord
<1>3. /\ daemon.call \in {"connecting", "ringing"} => call.state \in Setup
      /\ daemon.call = "ringing" => call.state = "RINGING"
      /\ daemon.call = "incoming" => call.state = "INCOMING"
      /\ daemon.call = "current" => call.state = "CURRENT" /\ ~call.holdOut
      /\ daemon.call = "hold" => call.state = "HOLD" /\ call.holdOut
      /\ daemon.call \in Closed => call.state \in Ended
  BY <1>1, <1>2 DEF Knows, KnowsSetup, KnowsIncoming, KnowsTalk, KnowsEnd, Communicating
<1>4. \A s \in Setup : LifeCycle(s) = "INITIALIZATION"
  BY DEF Setup, LifeCycle, Talking, Transferring, Conferencing
<1>5. StateAgrees
  BY <1>3, <1>4 DEF StateAgrees, Phase_, Closed
<1>6. HoldFlagsAgree
  <2>1. call.holdOut \in BOOLEAN
    BY DEF IInv, Good, Calls
  <2> QED BY <1>2, <1>3, <2>1 DEF HoldFlagsAgree, Communicating
<1>7. RecordingAgrees
  BY <1>2 DEF RecordingAgrees, Communicating, Known, DaemonCall
<1> QED BY <1>5, <1>6, <1>7

\* However long the signals take and whatever the user does meanwhile short of
\* a transfer: when the queue is empty the client shows the daemon's call in the
\* state the daemon has it in, held by those who hold it, and recorded or not
\* (slotCallStateChanged, slotPeerHold and slotRecordStateChanged put right what
\* performAction(), hold() and toggleRecord() assumed).
THEOREM ClientCatchesUp == ASSUME NoTransfer PROVE Spec => []ClientAgrees
<1>1. Ordinary
  BY DEF NoTransfer
<1>2. Init => Agreeing
  BY InitAgrees
<1>3. (IInv /\ Safe) /\ (IInv /\ Safe)' /\ Agreeing /\ [Next]_vars => Agreeing'
  BY NextAgrees
<1>4. IInv /\ Agreeing => ClientAgrees
  BY AgreeingIsEnough
<1> QED BY <1>1, <1>2, <1>3, <1>4, SafeAlways, PTL DEF Spec
=============================================================================
