-------------------------- MODULE ShmRendererProofs --------------------------
(***************************************************************************)
(* What TLAPS proves of ShmRenderer, for any sizes, number of sinks and    *)
(* number of frames.                                                       *)
(***************************************************************************)
EXTENDS ShmRenderer, TLAPS

\* The daemon holds a semaphore only while it publishes or ends its sink (or
\* died doing so), and has a frame left to publish.
SinkOK ==
  /\ sink.active => sink.area # 0
  /\ sink.holds => sink.area # 0 /\ sink.pc \in {"writing", "ending", "dead"}
  /\ sink.pc \in {"writing", "ending"} => sink.active
  /\ sink.pc = "writing" => shm[sink.area].frameGen < MaxGen

\* File, mapping and m_isRendering go together; while getNewFrame() runs they
\* are there, and so they are during currentFrame() in the event loop.
MapOK ==
  /\ renderer.m_pShmArea = renderer.m_fd
  /\ renderer.m_isRendering <=> renderer.m_fd # 0
  /\ view.pc \in InMutex \ {"entered"} => renderer.m_fd # 0
  /\ view.thread = "same" =>
       view.pc # "crashed" /\ (view.pc \in InMutex \cup {"checked"} => renderer.m_fd # 0)

\* The renderer knows how much is mapped, unless it is being told.
LenOK ==
  IF view.pc = "remapped" THEN renderer.mapped = view.mapSize
  ELSE ~view.interrupted => renderer.mapped = renderer.m_ShmAreaLen

\* The sink's frame is not larger than its area.
SizeOK == \A a \in Area : shm[a].frameSize <= shm[a].mapSize

FrameOK ==
  /\ view.pc # "idle" => view.frame = None
  /\ view.frame # None =>
       /\ view.frame.gen <= shm[view.frame.area].frameGen
       /\ view.frame.gen = shm[view.frame.area].frameGen =>
            view.frame.region = shm[view.frame.area].readable

Started(signal) == signal.name = "startedDecoding"

\* Starts and stops alternate.  The last signal tells what the daemon does, and
\* a start finds the renderer stopped.
QueueOK ==
  /\ \A i, j \in 1 .. Len(signals) : j = i + 1 => (Started(signals[i]) <=> ~Started(signals[j]))
  /\ signals # <<>> =>
       /\ Started(signals[Len(signals)]) <=> sink.active
       /\ signals[Len(signals)].area = sink.area
       /\ Started(signals[1]) => renderer.m_fd = 0
  /\ signals = <<>> =>
       /\ renderer.m_isRendering <=> sink.active
       /\ renderer.m_isRendering => renderer.m_fd = sink.area

\* A sink that is still to be opened is newer than whatever was opened.
AreasOK ==
  /\ \A i \in 1 .. Len(signals) :
       /\ signals[i].area <= sink.area
       /\ Started(signals[i]) => renderer.m_fd < signals[i].area /\ view.frame.area < signals[i].area
       /\ \A j \in i + 1 .. Len(signals) : Started(signals[j]) => signals[i].area < signals[j].area
  /\ renderer.m_fd <= sink.area /\ view.frame.area <= sink.area

\* The frame does not exceed what is mapped of its area.
FrameFits ==
  view.frame # None /\ ~view.interrupted /\ renderer.m_pShmArea = view.frame.area =>
    view.frame.size <= renderer.mapped

\* A stop follows the start of its sink, so that the stop that closes the file
\* is the last one of the sink whose frame the view has.
OwnedOK ==
  /\ \A i \in 2 .. Len(signals) : ~Started(signals[i]) => signals[i].area = signals[i - 1].area
  /\ view.frame # None => renderer.m_fd = view.frame.area \/ Stopped(view.frame.area)

IInv == /\ TypeOK /\ SinkOK /\ LockBalanced /\ MapOK /\ LenOK /\ SizeOK
        /\ FrameOK /\ QueueOK /\ AreasOK /\ OwnedOK /\ FrameFits

-----------------------------------------------------------------------------
LEMMA InitIInv == Init => IInv
<1> SUFFICES ASSUME Init PROVE IInv
  OBVIOUS
<1> USE ConstantsAssumption DEF Init
<1>1. TypeOK
  BY DEF TypeOK, SHMHeader, Area, Region, Renderers, Signal, None
<1>2. SinkOK /\ LockBalanced /\ MapOK /\ LenOK /\ SizeOK /\ FrameOK
  BY DEF SinkOK, LockBalanced, DaemonHolds, ViewHolds, MapOK, LenOK, SizeOK, FrameOK, InMutex, Area
<1>3. QueueOK /\ AreasOK /\ OwnedOK /\ FrameFits
  BY DEF QueueOK, AreasOK, OwnedOK, FrameFits, None
<1> QED BY <1>1, <1>2, <1>3 DEF IInv

-----------------------------------------------------------------------------
\* An area's header and its fields, as TypeOK gives them.
LEMMA HeaderType ==
  ASSUME TypeOK, NEW a \in Area
  PROVE  /\ shm[a] \in SHMHeader /\ a \in Nat \ {0}
         /\ shm[a].mutex \in Nat /\ shm[a].frameSize \in Nat /\ shm[a].mapSize \in Nat
         /\ shm[a].frameGen \in 0 .. MaxGen /\ shm[a].readable \in Region
BY ConstantsAssumption DEF TypeOK, SHMHeader, Area

\* What no daemon step does: it leaves renderer and view as they are.
LEMMA DaemonKeepsMap ==
  ASSUME IInv, UNCHANGED <<renderer, view>>
  PROVE  MapOK' /\ LenOK' /\ FrameFits'
BY DEF IInv, MapOK, LenOK, FrameFits, InMutex

\* The part of the invariant about signals needs only these.
LEMMA QueueKept ==
  ASSUME QueueOK, AreasOK, OwnedOK,
         UNCHANGED <<signals, renderer, sink.area, sink.active, view.frame>>
  PROVE  QueueOK' /\ AreasOK' /\ OwnedOK'
BY DEF QueueOK, AreasOK, OwnedOK, Stopped, Started

LEMMA DaemonWritesEnds ==
  ASSUME IInv, DaemonWrites \/ DaemonEnds \/ DaemonCrashes, UNCHANGED <<renderer, view>>
  PROVE  IInv'
<1> USE DEF IInv
<1>1. /\ UNCHANGED <<shm, signals, sink.area, sink.active, sink.holds, view.frame>>
      /\ sink'.pc \in {"writing", "ending", "dead"}
      /\ sink' \in [area: 0 .. NAreas, active: BOOLEAN, pc: {"idle", "writing", "ending", "dead"}, holds: BOOLEAN]
  BY DEF TypeOK, DaemonWrites, DaemonEnds, DaemonCrashes
<1>2. TypeOK'
  BY <1>1 DEF TypeOK
<1>3. SinkOK'
  BY <1>1 DEF SinkOK, DaemonWrites, DaemonEnds, DaemonCrashes, TypeOK
<1>4. LockBalanced' /\ SizeOK' /\ FrameOK'
  BY <1>1 DEF LockBalanced, DaemonHolds, ViewHolds, SizeOK, FrameOK
<1> QED BY <1>1, <1>2, <1>3, <1>4, QueueKept, DaemonKeepsMap

LEMMA DaemonLocksOne ==
  ASSUME IInv, DaemonLocks, UNCHANGED <<renderer, view>>
  PROVE  IInv'
<1> USE DEF IInv
<1> DEFINE a == sink.area
<1>1. a \in Area
  BY DEF TypeOK, SinkOK, DaemonLocks, Area
<1>2. /\ shm[a].mutex > 0 /\ shm' = [shm EXCEPT ![a] = [shm[a] EXCEPT !.mutex = @ - 1]]
      /\ sink' = [sink EXCEPT !.holds = TRUE] /\ ~sink.holds /\ UNCHANGED signals
      /\ sink.pc \in {"writing", "ending"}
  BY DEF DaemonLocks, Wait, Set
<1>3. /\ shm[a].mutex - 1 \in Nat
      /\ \A b \in Area : shm[b] \in SHMHeader
  BY <1>1, <1>2, HeaderType
<1>4. \A b \in Area : /\ shm'[b].frameGen = shm[b].frameGen /\ shm'[b].frameSize = shm[b].frameSize
                      /\ shm'[b].mapSize = shm[b].mapSize /\ shm'[b].readable = shm[b].readable
                      /\ shm'[b].mutex = IF b = a THEN shm[a].mutex - 1 ELSE shm[b].mutex
  BY <1>1, <1>2, <1>3 DEF TypeOK, SHMHeader
<1>5. /\ UNCHANGED <<sink.area, sink.active, sink.pc, view.frame>> /\ sink'.holds
  BY <1>2 DEF TypeOK
<1>6. TypeOK'
  BY <1>1, <1>2, <1>3 DEF TypeOK, SHMHeader
<1>7. SinkOK'
  BY <1>1, <1>2, <1>4, <1>5 DEF SinkOK
<1>8. LockBalanced'
  <2>1. \A b \in Area : shm[b].mutex \in Nat
    BY HeaderType
  <2>2. \A b \in Area : DaemonHolds(b)' <=> b = a
    BY <1>5 DEF DaemonHolds
  <2>3. \A b \in Area : ~DaemonHolds(b) /\ (ViewHolds(b)' <=> ViewHolds(b))
    BY <1>2 DEF DaemonHolds, ViewHolds
  <2> QED BY <1>1, <1>4, <2>1, <2>2, <2>3 DEF LockBalanced
<1>9. SizeOK' /\ FrameOK'
  BY <1>4 DEF SizeOK, FrameOK, TypeOK, Frames, None
<1> QED BY <1>2, <1>5, <1>6, <1>7, <1>8, <1>9, QueueKept, DaemonKeepsMap

LEMMA DaemonPublishesOne ==
  ASSUME IInv, DaemonPublishes, UNCHANGED <<renderer, view>>
  PROVE  IInv'
<1> USE DEF IInv
<1> DEFINE a == sink.area
<1>1. a \in Area
  BY DEF TypeOK, SinkOK, DaemonPublishes, Area
<1>2. PICK size \in Sizes :
        shm' = [shm EXCEPT ![a] = [[shm[a] EXCEPT
                  !.frameGen = @ + 1, !.frameSize = size, !.mapSize = size, !.readable = 1 - @]
                  EXCEPT !.mutex = @ + 1]]
  BY DEF DaemonPublishes, Set, Posted
<1>3. /\ sink.pc = "writing" /\ sink.holds /\ UNCHANGED signals
      /\ sink' = [sink EXCEPT !.pc = "idle", !.holds = FALSE]
  BY DEF DaemonPublishes
<1>4. /\ size \in Nat
      /\ shm[a].frameGen + 1 \in 0 .. MaxGen
      /\ 1 - shm[a].readable \in Region
      /\ \A b \in Area : shm[b] \in SHMHeader
  BY <1>1, <1>3, HeaderType, ConstantsAssumption DEF SinkOK, Region
<1>5. /\ \A b \in Area \ {a} : shm'[b] = shm[b]
      /\ shm'[a].frameGen = shm[a].frameGen + 1 /\ shm'[a].frameSize = size
      /\ shm'[a].mapSize = size /\ shm'[a].mutex = shm[a].mutex + 1
  BY <1>1, <1>2, <1>4 DEF TypeOK, SHMHeader
<1>6. /\ UNCHANGED <<sink.area, sink.active, view.frame>> /\ ~sink'.holds /\ sink'.pc = "idle"
  BY <1>3 DEF TypeOK
<1>7. TypeOK'
  <2> DEFINE h == [shm[a] EXCEPT
                     !.frameGen = @ + 1, !.frameSize = size, !.mapSize = size, !.readable = 1 - @]
  <2>1. h \in SHMHeader
    BY <1>1, <1>4 DEF SHMHeader
  <2>2. shm' = [shm EXCEPT ![a] = [h EXCEPT !.mutex = @ + 1]]
    BY <1>2
  <2> HIDE DEF h
  <2>3. [h EXCEPT !.mutex = @ + 1] \in SHMHeader
    BY <2>1 DEF SHMHeader
  <2>4. shm' \in [Area -> SHMHeader]
    BY <1>1, <2>2, <2>3 DEF TypeOK
  <2> QED BY <1>3, <2>4 DEF TypeOK
<1>8. SinkOK'
  BY <1>6 DEF SinkOK
<1>9. LockBalanced'
  BY <1>1, <1>3, <1>4, <1>5, <1>6, HeaderType DEF LockBalanced, DaemonHolds, ViewHolds
<1>10. SizeOK' /\ FrameOK'
  <2>1. SizeOK'
    BY <1>1, <1>4, <1>5 DEF SizeOK
  <2>2. view.frame # None => view.frame.area \in Area /\ view.frame.gen \in Nat
    BY ConstantsAssumption DEF TypeOK, Frames
  <2>3. FrameOK'
    BY <1>1, <1>5, <1>6, <2>2, HeaderType, ConstantsAssumption DEF FrameOK
  <2> QED BY <2>1, <2>3
<1> QED BY <1>3, <1>6, <1>7, <1>8, <1>9, <1>10, QueueKept, DaemonKeepsMap

\* Appending a signal.
LEMMA Appended ==
  ASSUME NEW q \in Seq(Signal), NEW e \in Signal
  PROVE  /\ Append(q, e) \in Seq(Signal) /\ Append(q, e) # <<>> /\ Len(q) \in Nat
         /\ Len(Append(q, e)) = Len(q) + 1 /\ Append(q, e)[Len(q) + 1] = e
         /\ \A i \in 1 .. Len(q) : /\ Append(q, e)[i] = q[i]
                                   /\ q[i] \in Signal /\ q[i].area \in Nat
<1>1. \A i \in 1 .. Len(q) : q[i] \in Signal
  OBVIOUS
<1>2. \A i \in 1 .. Len(q) : q[i].area \in Nat
  BY <1>1, ConstantsAssumption DEF Signal, Area
<1> QED BY <1>1, <1>2

LEMMA DaemonStartsOne ==
  ASSUME IInv, DaemonStarts, UNCHANGED <<renderer, view>>
  PROVE  IInv'
<1> USE DEF IInv
<1> DEFINE a == sink.area + 1
           s == [name |-> "startedDecoding", area |-> a]
           n == Len(signals)
<1>1. /\ a \in Area /\ s \in Signal /\ UNCHANGED shm /\ ~sink.active
      /\ sink' = [sink EXCEPT !.area = a, !.active = TRUE] /\ signals' = Append(signals, s)
  BY ConstantsAssumption DEF DaemonStarts, TypeOK, Area, Signal
<1>2. sink'.area = a /\ sink'.active /\ UNCHANGED <<sink.pc, sink.holds>> /\ sink.pc = "idle"
  BY <1>1 DEF TypeOK, DaemonStarts
<1>3. signals \in Seq(Signal) /\ n \in Nat /\ signals' \in Seq(Signal) /\ Len(signals') = n + 1
      /\ signals'[n + 1] = s /\ \A i \in 1 .. n : signals'[i] = signals[i]
  BY <1>1, Appended DEF TypeOK
<1>4. TypeOK'
  <2>1. a \in 0 .. NAreas
    BY <1>1 DEF Area
  <2> HIDE DEF a
  <2>2. sink' \in [area: 0 .. NAreas, active: BOOLEAN, pc: {"idle", "writing", "ending", "dead"}, holds: BOOLEAN]
    BY <1>1, <2>1 DEF TypeOK
  <2> QED BY <1>1, <1>3, <2>2 DEF TypeOK
<1>5. SinkOK' /\ LockBalanced' /\ SizeOK' /\ FrameOK'
  <2>1. ~sink.holds
    BY <1>2 DEF SinkOK
  <2> QED
    BY <1>1, <1>2, <2>1 DEF SinkOK, LockBalanced, DaemonHolds, ViewHolds, SizeOK, FrameOK, Area
<1>6. \A i \in 1 .. n : signals[i].area \in Nat /\ (Started(signals'[i]) <=> Started(signals[i]))
  BY <1>3, Appended DEF Started
<1>7. Started(signals'[n + 1]) /\ signals'[n + 1].area = a
  BY <1>3 DEF Started
<1>8. n # 0 => ~Started(signals[n])
  BY <1>1, <1>3 DEF QueueOK
<1>9. QueueOK'
  <2>1. \A i, j \in 1 .. n + 1 : j = i + 1 => (Started(signals'[i]) <=> ~Started(signals'[j]))
    BY <1>3, <1>6, <1>7, <1>8 DEF QueueOK
  <2>2. signals' # <<>>
    BY <1>3
  <2>3. Started(signals'[1]) => renderer.m_fd = 0
    <3>1. CASE n = 0
      BY <1>1, <1>3, <3>1 DEF QueueOK, MapOK
    <3>2. CASE n # 0
      BY <1>3, <1>6, <3>2 DEF QueueOK
    <3> QED BY <3>1, <3>2
  <2> QED BY <1>2, <1>3, <1>7, <2>1, <2>2, <2>3 DEF QueueOK
<1>10. AreasOK'
  <2>1. sink.area \in Nat /\ renderer.m_fd \in Nat /\ view.frame.area \in Nat
    BY ConstantsAssumption DEF TypeOK, Renderers, Area, Frames, None
  <2>2. \A i \in 1 .. n : signals[i].area <= sink.area
    BY DEF AreasOK
  <2>3. renderer.m_fd <= sink.area /\ view.frame.area <= sink.area
    BY DEF AreasOK
  <2>4. \A i \in 1 .. n + 1 : i = n + 1 \/ i \in 1 .. n
    BY <1>3
  <2>5. ASSUME NEW i \in 1 .. n + 1
        PROVE  /\ signals'[i].area <= a
               /\ Started(signals'[i]) => renderer.m_fd < signals'[i].area /\ view.frame.area < signals'[i].area
               /\ \A j \in i + 1 .. n + 1 : Started(signals'[j]) => signals'[i].area < signals'[j].area
    <3>1. CASE i = n + 1
      BY <1>3, <1>7, <2>1, <2>3, <3>1
    <3>2. CASE i \in 1 .. n
      <4>1. \A j \in i + 1 .. n + 1 : j = n + 1 \/ (j \in i + 1 .. n /\ j \in 1 .. n)
        BY <1>3, <3>2
      <4>2. AreasOK
        OBVIOUS
      <4> HIDE DEF IInv
      <4>3. /\ signals'[i].area = signals[i].area /\ signals[i].area \in Nat
            /\ Started(signals'[i]) <=> Started(signals[i])
            /\ signals[i].area <= sink.area
        BY <1>3, <1>6, <2>2, <3>2
      <4>4. Started(signals[i]) => renderer.m_fd < signals[i].area /\ view.frame.area < signals[i].area
        BY <3>2, <4>2 DEF AreasOK
      <4>5. ASSUME NEW j \in i + 1 .. n + 1, Started(signals'[j])
            PROVE  signals'[i].area < signals'[j].area
        <5>1. CASE j = n + 1
          BY <1>7, <2>1, <4>3, <5>1
        <5>2. CASE j \in i + 1 .. n /\ j \in 1 .. n
          <6>1. signals'[j] = signals[j] /\ Started(signals[j])
            BY <1>3, <1>6, <4>5, <5>2
          <6> QED BY <3>2, <4>2, <4>3, <5>2, <6>1 DEF AreasOK
        <5> QED BY <4>1, <5>1, <5>2
      <4> QED BY <2>1, <4>3, <4>4, <4>5
    <3> QED BY <2>4, <3>1, <3>2
  <2> QED BY <1>1, <1>2, <1>3, <2>1, <2>3, <2>5 DEF AreasOK
<1>11. OwnedOK'
  <2>1. view.frame.area \in Nat /\ view.frame.area <= sink.area /\ sink.area \in Nat
    BY ConstantsAssumption DEF TypeOK, Area, Frames, None, AreasOK
  <2>2. Stopped(view.frame.area) => Stopped(view.frame.area)'
    BY <1>1, <1>2, <1>3, <2>1 DEF Stopped
  <2>3. \A i \in 2 .. n + 1 : ~Started(signals'[i]) => signals'[i].area = signals'[i - 1].area
    <3>1. \A i \in 2 .. n + 1 : i = n + 1 \/ (i \in 2 .. n /\ i \in 1 .. n /\ i - 1 \in 1 .. n)
      BY <1>3
    <3> QED BY <1>3, <1>6, <1>7, <3>1 DEF OwnedOK
  <2> QED BY <1>3, <2>2, <2>3 DEF OwnedOK
<1> QED BY <1>4, <1>5, <1>9, <1>10, <1>11, DaemonKeepsMap

LEMMA DaemonStopsOne ==
  ASSUME IInv, DaemonStops, UNCHANGED <<renderer, view>>
  PROVE  IInv'
<1> USE DEF IInv
<1> DEFINE a == sink.area
           s == [name |-> "stoppedDecoding", area |-> a]
           n == Len(signals)
<1>1. /\ a \in Area /\ s \in Signal /\ sink.active /\ sink.holds /\ sink.pc = "ending"
      /\ shm' = [shm EXCEPT ![a] = [[shm[a] EXCEPT !.frameSize = 0] EXCEPT !.mutex = @ + 1]]
      /\ sink' = [sink EXCEPT !.pc = "idle", !.holds = FALSE, !.active = FALSE]
      /\ signals' = Append(signals, s)
  BY DEF DaemonStops, TypeOK, SinkOK, Area, Signal, Set, Posted
<1>2. \A b \in Area : /\ shm[b] \in SHMHeader /\ shm'[b] \in SHMHeader
                      /\ shm'[b].frameGen = shm[b].frameGen /\ shm'[b].readable = shm[b].readable
                      /\ shm'[b].mapSize = shm[b].mapSize
                      /\ shm'[b].frameSize = IF b = a THEN 0 ELSE shm[b].frameSize
                      /\ shm'[b].mutex = IF b = a THEN shm[a].mutex + 1 ELSE shm[b].mutex
  <2> DEFINE h == [shm[a] EXCEPT !.frameSize = 0]
             g == [h EXCEPT !.mutex = @ + 1]
  <2>1. h \in SHMHeader /\ h.mutex = shm[a].mutex /\ h.frameSize = 0
        /\ h.frameGen = shm[a].frameGen /\ h.readable = shm[a].readable /\ h.mapSize = shm[a].mapSize
    BY <1>1, HeaderType DEF SHMHeader
  <2>2. shm' = [shm EXCEPT ![a] = g]
    BY <1>1
  <2> HIDE DEF h
  <2>3. g \in SHMHeader /\ g.mutex = h.mutex + 1 /\ g.frameSize = h.frameSize
        /\ g.frameGen = h.frameGen /\ g.readable = h.readable /\ g.mapSize = h.mapSize
    BY <2>1 DEF SHMHeader
  <2> HIDE DEF g
  <2> QED BY <1>1, <2>1, <2>2, <2>3, HeaderType DEF TypeOK
<1>3. sink'.area = a /\ ~sink'.active /\ ~sink'.holds /\ sink'.pc = "idle"
  BY <1>1 DEF TypeOK
<1>4. signals \in Seq(Signal) /\ n \in Nat /\ signals' \in Seq(Signal) /\ Len(signals') = n + 1
      /\ signals'[n + 1] = s /\ \A i \in 1 .. n : signals'[i] = signals[i]
  BY <1>1, Appended DEF TypeOK
<1>5. TypeOK'
  <2>1. shm' \in [Area -> SHMHeader]
    BY <1>1, <1>2 DEF TypeOK
  <2>2. sink' \in [area: 0 .. NAreas, active: BOOLEAN, pc: {"idle", "writing", "ending", "dead"}, holds: BOOLEAN]
    BY <1>1 DEF TypeOK
  <2> QED BY <1>4, <2>1, <2>2 DEF TypeOK
<1>6. SinkOK' /\ SizeOK' /\ FrameOK'
  <2>1. \A b \in Area : shm[b].frameSize \in Nat /\ shm[b].mapSize \in Nat
    BY HeaderType
  <2>2. view.frame # None => view.frame.area \in Area
    BY DEF TypeOK, Frames
  <2> QED BY <1>2, <1>3, <2>1, <2>2 DEF SinkOK, SizeOK, FrameOK
<1>7. LockBalanced'
  BY <1>1, <1>2, <1>3, HeaderType DEF LockBalanced, DaemonHolds, ViewHolds
<1>8. \A i \in 1 .. n : signals[i].area \in Nat /\ (Started(signals'[i]) <=> Started(signals[i]))
  BY <1>4, Appended DEF Started
<1>9. ~Started(signals'[n + 1]) /\ signals'[n + 1].area = a
  BY <1>4 DEF Started
<1>10. n # 0 => Started(signals[n])
  BY <1>1, <1>4 DEF QueueOK
<1>11. QueueOK'
  <2>1. \A i, j \in 1 .. n + 1 : j = i + 1 => (Started(signals'[i]) <=> ~Started(signals'[j]))
    BY <1>4, <1>8, <1>9, <1>10 DEF QueueOK
  <2>2. signals' # <<>>
    BY <1>4
  <2>3. Started(signals'[1]) => renderer.m_fd = 0
    BY <1>4, <1>8, <1>9 DEF QueueOK
  <2> QED BY <1>3, <1>4, <1>9, <2>1, <2>2, <2>3 DEF QueueOK
<1>12. AreasOK'
  <2>1. sink.area \in Nat /\ renderer.m_fd \in Nat /\ view.frame.area \in Nat
    BY ConstantsAssumption DEF TypeOK, Renderers, Area, Frames, None
  <2>2. AreasOK
    OBVIOUS
  <2> HIDE DEF IInv
  <2>3. \A i \in 1 .. n + 1 : i = n + 1 \/ i \in 1 .. n
    BY <1>4
  <2>4. ASSUME NEW i \in 1 .. n + 1
        PROVE  /\ signals'[i].area <= a
               /\ Started(signals'[i]) => renderer.m_fd < signals'[i].area /\ view.frame.area < signals'[i].area
               /\ \A j \in i + 1 .. n + 1 : Started(signals'[j]) => signals'[i].area < signals'[j].area
    <3>1. CASE i = n + 1
      BY <1>4, <1>9, <2>1, <3>1
    <3>2. CASE i \in 1 .. n
      <4>1. \A j \in i + 1 .. n + 1 : j = n + 1 \/ (j \in i + 1 .. n /\ j \in 1 .. n)
        BY <1>4, <3>2
      <4> QED BY <1>4, <1>8, <1>9, <2>1, <2>2, <3>2, <4>1 DEF AreasOK
    <3> QED BY <2>3, <3>1, <3>2
  <2> QED BY <1>3, <1>4, <2>1, <2>2, <2>4 DEF AreasOK
<1>13. OwnedOK'
  <2>1. Stopped(view.frame.area) => Stopped(view.frame.area)'
    <3> SUFFICES ASSUME Stopped(view.frame.area) PROVE Stopped(view.frame.area)'
      OBVIOUS
    <3>1. view.frame.area # a
      BY <1>1 DEF Stopped
    <3>2. \A i \in 1 .. n + 1 : i = n + 1 \/ i \in 1 .. n
      BY <1>4
    <3> QED BY <1>1, <1>3, <1>4, <3>1, <3>2 DEF Stopped
  <2>2. \A i \in 2 .. n + 1 : ~Started(signals'[i]) => signals'[i].area = signals'[i - 1].area
    <3>1. \A i \in 2 .. n + 1 : i = n + 1 \/ (i \in 2 .. n /\ i \in 1 .. n /\ i - 1 \in 1 .. n)
      BY <1>4
    <3>2. n + 1 \in 2 .. n + 1 => signals'[n] = signals[n] /\ signals[n].area = a
      BY <1>4 DEF QueueOK
    <3> QED BY <1>4, <1>8, <1>9, <3>1, <3>2 DEF OwnedOK
  <2> QED BY <1>4, <2>1, <2>2 DEF OwnedOK
<1> QED BY <1>5, <1>6, <1>7, <1>11, <1>12, <1>13, DaemonKeepsMap

-----------------------------------------------------------------------------
\* Taking the first signal.
LEMMA Taken ==
  ASSUME NEW q \in Seq(Signal), q # <<>>
  PROVE  /\ Tail(q) \in Seq(Signal) /\ Len(q) \in Nat \ {0} /\ Len(Tail(q)) = Len(q) - 1
         /\ Head(q) = q[1] /\ q[1] \in Signal
         /\ \A i \in 1 .. Len(q) - 1 : Tail(q)[i] = q[i + 1]
         /\ \A i \in 1 .. Len(q) : q[i].area \in Area
<1>1. \A i \in 1 .. Len(q) : q[i] \in Signal
  OBVIOUS
<1>2. \A i \in 1 .. Len(q) : q[i].area \in Area
  BY <1>1 DEF Signal
<1> QED BY <1>1, <1>2

LEMMA DeliverOne ==
  ASSUME IInv, Deliver
  PROVE  IInv'
<1> USE DEF IInv
<1>1. PICK s \in Signal : s = Head(signals)
  BY Taken DEF TypeOK, Deliver
<1>2. PICK n \in Nat \ {0} : n = Len(signals)
  BY Taken DEF TypeOK, Deliver
<1>3. /\ signals # <<>> /\ signals \in Seq(Signal) /\ s = signals[1]
      /\ signals' = Tail(signals) /\ signals' \in Seq(Signal) /\ Len(signals') = n - 1
      /\ \A i \in 1 .. n - 1 : signals'[i] = signals[i + 1]
      /\ \A i \in 1 .. n : signals[i].area \in Nat
  BY <1>1, <1>2, Taken, ConstantsAssumption DEF TypeOK, Deliver, Area
<1>4. /\ UNCHANGED <<shm, sink, view>>
      /\ view.pc \in {"idle", "checked"} /\ (view.thread = "same" => view.pc = "idle")
  BY DEF Deliver, TypeOK, InMutex
<1>5. /\ renderer \in Renderers /\ renderer' \in Renderers
      /\ renderer'.m_pShmArea = renderer'.m_fd
      /\ renderer'.m_isRendering <=> renderer'.m_fd # 0
      /\ renderer'.m_fd = 0 => renderer'.mapped = 0
      /\ \/ renderer'.mapped = renderer'.m_ShmAreaLen
         \/ UNCHANGED <<renderer.mapped, renderer.m_ShmAreaLen>>
      /\ IF Started(s)
         THEN \/ renderer'.m_fd = s.area
              \/ UNCHANGED renderer /\ ~(sink.area = s.area /\ sink.active)
         ELSE renderer'.m_fd = 0
  <2>1. CASE Started(s)
    <3>1. renderer' = startShm(renderer, s.area) /\ s.area \in Area \ {0}
      BY <1>1, <2>1 DEF Deliver, Started, Signal, Area
    <3>2. renderer.m_fd = 0
      BY <1>2, <1>3, <2>1 DEF QueueOK
    <3>3. CASE sink.area = s.area /\ sink.active
      <4>1. renderer' = [renderer EXCEPT !.m_fd = s.area, !.m_pShmArea = s.area, !.mapped = 0,
                                         !.m_ShmAreaLen = 0, !.m_isRendering = TRUE]
        BY <3>1, <3>2, <3>3 DEF startShm
      <4>2. renderer \in Renderers
        BY DEF TypeOK
      <4>3. renderer' \in Renderers
        <5>1. s.area \in Area \cup {0} /\ 0 \in Nat /\ TRUE \in BOOLEAN
          BY <3>1
        <5> QED BY <4>1, <4>2, <5>1 DEF Renderers
      <4>4. /\ renderer'.m_fd = s.area /\ renderer'.m_pShmArea = s.area /\ renderer'.mapped = 0
            /\ renderer'.m_ShmAreaLen = 0 /\ renderer'.m_isRendering
        BY <4>1, <4>2 DEF Renderers
      <4> QED BY <2>1, <3>1, <4>2, <4>3, <4>4
    <3>4. CASE ~(sink.area = s.area /\ sink.active)
      <4>1. renderer' = renderer
        BY <3>1, <3>4 DEF startShm
      <4> QED BY <2>1, <3>4, <4>1 DEF TypeOK, MapOK
    <3> QED BY <3>3, <3>4
  <2>2. CASE ~Started(s)
    <3> DEFINE r == [renderer EXCEPT !.m_isRendering = FALSE]
    <3>1. renderer' = stopShm(r)
      BY <1>1, <2>2 DEF Deliver, Started, Signal
    <3>2. /\ r \in Renderers /\ r.m_fd = renderer.m_fd /\ r.m_pShmArea = renderer.m_pShmArea
          /\ r.mapped = renderer.mapped /\ r.m_ShmAreaLen = renderer.m_ShmAreaLen /\ ~r.m_isRendering
      BY DEF TypeOK, Renderers
    <3> HIDE DEF r
    <3>3. CASE renderer.m_fd = 0
      <4>1. renderer' = r
        BY <3>1, <3>2, <3>3 DEF stopShm
      <4> QED BY <2>2, <3>2, <3>3, <4>1 DEF TypeOK, MapOK
    <3>4. CASE renderer.m_fd # 0
      <4>1. renderer' = [r EXCEPT !.m_fd = 0, !.m_pShmArea = 0, !.mapped = 0, !.m_ShmAreaLen = 0]
        BY <3>1, <3>2, <3>4 DEF stopShm
      <4> QED BY <2>2, <3>2, <4>1 DEF TypeOK, Renderers
    <3> QED BY <3>3, <3>4
  <2> QED BY <2>1, <2>2
<1>6. TypeOK'
  BY <1>3, <1>4, <1>5 DEF TypeOK
<1>7. SinkOK' /\ SizeOK' /\ FrameOK'
  BY <1>4 DEF SinkOK, SizeOK, FrameOK
<1>8. LockBalanced'
  <2>1. \A a \in Area : ~ViewHolds(a) /\ ~ViewHolds(a)' /\ (DaemonHolds(a)' <=> DaemonHolds(a))
    BY <1>4 DEF ViewHolds, DaemonHolds
  <2> QED BY <1>4, <2>1 DEF LockBalanced
<1>9. MapOK' /\ LenOK'
  BY <1>4, <1>5 DEF MapOK, LenOK, InMutex
<1>10. /\ view.frame.area \in Nat /\ renderer.m_fd \in Nat /\ sink.area \in Nat /\ s.area \in Nat
       /\ view.frame # None => view.frame.area # 0
  BY ConstantsAssumption DEF TypeOK, Renderers, Area, Frames, None, Signal
<1>11. Started(s) => /\ renderer.m_fd = 0 /\ view.frame.area < s.area /\ s.area <= sink.area
                     /\ \A j \in 2 .. n : Started(signals[j]) => s.area < signals[j].area
  BY <1>2, <1>3 DEF QueueOK, AreasOK
<1>12. FrameFits'
  BY <1>4, <1>5, <1>10, <1>11 DEF FrameFits, MapOK
<1>13. QueueOK'
  <2>1. \A i, j \in 1 .. n - 1 : j = i + 1 => (Started(signals'[i]) <=> ~Started(signals'[j]))
    BY <1>2, <1>3 DEF QueueOK
  <2>2. CASE n = 1
    <3>1. signals' = <<>>
      BY <1>3, <2>2
    <3>2. Started(s) <=> sink.active
      BY <1>2, <1>3, <2>2 DEF QueueOK
    <3>3. s.area = sink.area
      BY <1>2, <1>3, <2>2 DEF QueueOK
    <3>4. s.area # 0
      BY DEF Signal, Area
    <3> QED BY <1>4, <1>5, <3>1, <3>2, <3>3, <3>4 DEF QueueOK
  <2>3. CASE n # 1
    <3>1. n - 1 \in 1 .. n - 1 /\ 1 \in 1 .. n - 1 /\ signals' # <<>>
      <4>1. n - 1 \in Nat /\ n - 1 >= 1
        BY <1>2, <2>3
      <4>2. Len(signals') = n - 1
        BY <1>3
      <4>3. signals' # <<>>
        <5> SUFFICES ASSUME signals' = <<>> PROVE FALSE
          OBVIOUS
        <5> QED BY <4>1, <4>2
      <4>4. n - 1 \in 1 .. n - 1 /\ 1 \in 1 .. n - 1
        BY <1>2, <4>1
      <4> QED BY <4>3, <4>4
    <3>2. signals'[n - 1] = signals[n] /\ signals'[1] = signals[2]
      BY <1>3, <3>1
    <3>3. Started(signals[2]) <=> ~Started(s)
      BY <1>2, <1>3, <2>3 DEF QueueOK
    <3> QED BY <1>2, <1>3, <1>4, <1>5, <2>1, <3>1, <3>2, <3>3 DEF QueueOK
  <2> QED BY <2>2, <2>3
<1>14. AreasOK'
  <2>1. renderer'.m_fd <= sink.area /\ view.frame.area <= sink.area
    BY <1>5, <1>10, <1>11 DEF AreasOK
  <2>2. ASSUME NEW i \in 1 .. n - 1
        PROVE  /\ signals'[i].area <= sink.area
               /\ Started(signals'[i]) =>
                    renderer'.m_fd < signals'[i].area /\ view.frame.area < signals'[i].area
               /\ \A j \in i + 1 .. n - 1 : Started(signals'[j]) => signals'[i].area < signals'[j].area
    <3>1. i + 1 \in 2 .. n /\ signals'[i] = signals[i + 1]
      BY <1>3
    <3>2. \A j \in i + 1 .. n - 1 : j + 1 \in i + 2 .. n /\ signals'[j] = signals[j + 1]
      BY <1>3
    <3>3. /\ signals[i + 1].area <= sink.area
          /\ Started(signals[i + 1]) =>
               renderer.m_fd < signals[i + 1].area /\ view.frame.area < signals[i + 1].area
          /\ \A k \in i + 2 .. n : Started(signals[k]) => signals[i + 1].area < signals[k].area
      BY <1>2, <3>1 DEF AreasOK
    <3>4. \/ renderer'.m_fd = renderer.m_fd \/ renderer'.m_fd = 0
          \/ (Started(s) /\ renderer'.m_fd = s.area)
      BY <1>5
    <3>5. Started(signals[i + 1]) => renderer'.m_fd < signals[i + 1].area
      BY <1>3, <1>10, <1>11, <3>1, <3>3, <3>4
    <3> QED BY <3>1, <3>2, <3>3, <3>5
  <2> QED BY <1>3, <1>4, <2>1, <2>2 DEF AreasOK
<1>15. OwnedOK'
  <2> DEFINE b == view.frame.area
             stop == [name |-> "stoppedDecoding", area |-> b]
  <2>1. \A i \in 2 .. n - 1 : ~Started(signals'[i]) => signals'[i].area = signals'[i - 1].area
    <3> SUFFICES ASSUME NEW i \in 2 .. n - 1, ~Started(signals'[i])
                 PROVE  signals'[i].area = signals'[i - 1].area
      OBVIOUS
    <3>1. i \in 1 .. n - 1 /\ i - 1 \in 1 .. n - 1 /\ i + 1 \in 2 .. n
      BY <1>2
    <3>2. signals'[i] = signals[i + 1] /\ signals'[i - 1] = signals[i]
      BY <1>2, <1>3, <3>1
    <3> QED BY <1>2, <3>1, <3>2 DEF OwnedOK
  <2>2. Stopped(b) => Stopped(b)'
    <3> SUFFICES ASSUME Stopped(b) PROVE Stopped(b)'
      OBVIOUS
    <3>1. \A i \in 1 .. n - 1 : i + 1 \in 1 .. n /\ signals'[i] = signals[i + 1]
      BY <1>2, <1>3
    <3> QED BY <1>2, <1>3, <1>4, <3>1 DEF Stopped
  <2>3. ASSUME view.frame # None, renderer.m_fd = b PROVE Stopped(b)'
    <3>1. ~Started(s) /\ b # 0
      BY <1>10, <1>11, <2>3
    <3>2. \A i \in 2 .. n : Started(signals[i]) => b < signals[i].area
      BY <1>2 DEF AreasOK
    <3>3. \A i \in 2 .. n : signals[i] # stop
      <4> SUFFICES ASSUME NEW i \in 2 .. n, signals[i] = stop PROVE FALSE
        OBVIOUS
      <4>1. ~Started(signals[i]) /\ signals[i].area = b
        BY DEF Started
      <4>2. i \in 1 .. n /\ i - 1 \in 1 .. n /\ i = (i - 1) + 1
        BY <1>2
      <4>3. Started(signals[i - 1]) /\ signals[i - 1].area = b
        BY <1>2, <4>1, <4>2 DEF QueueOK, OwnedOK
      <4>4. i - 1 # 1
        BY <1>3, <3>1, <4>3
      <4>5. i - 1 \in 2 .. n
        BY <1>2, <4>4
      <4> QED BY <1>10, <3>2, <4>3, <4>5
    <3>4. ~(sink.area = b /\ sink.active)
      <4> SUFFICES ASSUME sink.area = b, sink.active PROVE FALSE
        OBVIOUS
      <4>1. Started(signals[n]) /\ signals[n].area = b
        BY <1>2, <1>3 DEF QueueOK
      <4>2. n # 1
        BY <1>3, <3>1, <4>1
      <4>3. n \in 2 .. n
        BY <1>2, <4>2
      <4> QED BY <1>10, <3>2, <4>1, <4>3
    <3>5. \A i \in 1 .. n - 1 : i + 1 \in 2 .. n /\ signals'[i] = signals[i + 1]
      BY <1>2, <1>3
    <3> QED BY <1>3, <1>4, <3>3, <3>4, <3>5 DEF Stopped
  <2> QED BY <1>3, <1>4, <2>1, <2>2, <2>3 DEF OwnedOK
<1> QED BY <1>6, <1>7, <1>8, <1>9, <1>12, <1>13, <1>14, <1>15

-----------------------------------------------------------------------------
SameFrames(a) ==
  /\ shm'[a].frameGen = shm[a].frameGen /\ shm'[a].frameSize = shm[a].frameSize
  /\ shm'[a].mapSize = shm[a].mapSize /\ shm'[a].readable = shm[a].readable

\* sem_wait() and sem_post() change a semaphore and nothing else.
LEMMA Waits ==
  ASSUME TypeOK, NEW a \in Area, Wait(a)
  PROVE  /\ shm' \in [Area -> SHMHeader] /\ shm[a].mutex \in Nat \ {0}
         /\ \A b \in Area : SameFrames(b)
         /\ \A b \in Area : shm[b].mutex \in Nat
         /\ \A b \in Area : shm'[b].mutex = IF b = a THEN shm[a].mutex - 1 ELSE shm[b].mutex
<1>1. shm[a].mutex > 0 /\ shm' = [shm EXCEPT ![a] = [shm[a] EXCEPT !.mutex = @ - 1]]
  BY DEF Wait, Set
<1>2. \A b \in Area : shm[b] \in SHMHeader
  BY HeaderType
<1>3. shm[a].mutex - 1 \in Nat
  BY <1>1, HeaderType
<1>4. \A b \in Area : shm[b].mutex \in Nat
  BY HeaderType
<1> QED BY <1>1, <1>2, <1>3, <1>4 DEF TypeOK, SHMHeader, SameFrames

LEMMA Posts ==
  ASSUME TypeOK, NEW a \in Area, a = renderer.m_pShmArea, shmUnlock
  PROVE  /\ shm' \in [Area -> SHMHeader]
         /\ \A b \in Area : SameFrames(b)
         /\ \A b \in Area : shm[b].mutex \in Nat
         /\ \A b \in Area : shm'[b].mutex = IF b = a THEN shm[a].mutex + 1 ELSE shm[b].mutex
<1>1. shm' = [shm EXCEPT ![a] = [shm[a] EXCEPT !.mutex = @ + 1]]
  BY DEF shmUnlock, Set, Posted, Shm
<1>2. \A b \in Area : shm[b] \in SHMHeader
  BY HeaderType
<1>3. shm[a].mutex + 1 \in Nat
  BY HeaderType
<1>4. \A b \in Area : shm[b].mutex \in Nat
  BY HeaderType
<1> QED BY <1>1, <1>2, <1>3, <1>4 DEF TypeOK, SHMHeader, SameFrames

Views == [thread: Threads, pc: InMutex \cup {"idle", "checked", "crashed"}, mapSize: Nat,
          interrupted: BOOLEAN, frame: Frames \cup {None}]

\* Queue and areas do not depend on the view, whose frame is of the renderer's
\* area if it is a new one.
LEMMA ViewKeepsQueue ==
  ASSUME IInv, UNCHANGED <<sink, signals, renderer.m_fd, renderer.m_isRendering>>,
         view'.frame = None \/ view'.frame.area = renderer.m_fd
  PROVE  QueueOK' /\ AreasOK' /\ OwnedOK'
<1>1. QueueOK'
  BY DEF IInv, QueueOK
<1>2. AreasOK'
  <2>1. renderer.m_fd \in Nat /\ sink.area \in Nat
    BY ConstantsAssumption DEF IInv, TypeOK, Renderers, Area
  <2>2. \A i \in 1 .. Len(signals) : Started(signals[i]) => signals[i].area \in Nat
    BY Taken, ConstantsAssumption DEF IInv, TypeOK, Area
  <2>3. view'.frame.area \in {0, renderer.m_fd}
    BY DEF None
  <2> QED BY <2>1, <2>2, <2>3 DEF IInv, AreasOK
<1>3. OwnedOK'
  BY DEF IInv, OwnedOK, Stopped
<1> QED BY <1>1, <1>2, <1>3

\* What is common to the steps of the view that return or have no frame.
LEMMA ViewWithoutFrame ==
  ASSUME IInv, UNCHANGED <<sink, signals, renderer.m_fd, renderer.m_isRendering>>,
         shm' \in [Area -> SHMHeader], \A a \in Area : SameFrames(a),
         renderer' \in Renderers, renderer'.m_fd = 0 => UNCHANGED renderer,
         view' \in Views, view'.frame = None
  PROVE  TypeOK' /\ SinkOK' /\ SizeOK' /\ FrameOK' /\ QueueOK' /\ AreasOK' /\ OwnedOK' /\ FrameFits'
<1>1. TypeOK'
  BY DEF IInv, TypeOK, Views
<1>2. SinkOK'
  <2>1. sink.pc = "writing" => sink.area \in Area
    BY DEF IInv, SinkOK, TypeOK, Area
  <2> QED BY <2>1 DEF IInv, SinkOK, SameFrames
<1>3. SizeOK' /\ FrameOK' /\ FrameFits'
  BY DEF IInv, SizeOK, FrameOK, FrameFits, SameFrames
<1>4. QueueOK' /\ AreasOK' /\ OwnedOK'
  BY ViewKeepsQueue
<1> QED BY <1>1, <1>2, <1>3, <1>4

\* The invariant as the steps of the view use it.
LEMMA ViewFacts ==
  ASSUME IInv
  PROVE  /\ view \in Views /\ renderer \in Renderers
         /\ renderer.m_pShmArea = renderer.m_fd
         /\ view.pc # "idle" => view.frame = None
         /\ renderer.m_fd # 0 => renderer.m_fd \in Area
BY DEF IInv, TypeOK, Views, MapOK, FrameOK, Renderers

LEMMA ViewAlone ==
  ASSUME IInv, UNCHANGED <<sink, signals, shm, renderer>>,
         currentFrame \/ lockMutex \/ shmLockInterrupted \/ remapLockInterrupted
  PROVE  IInv'
<1>1. view'.frame = None /\ UNCHANGED view.thread
  BY ViewFacts DEF currentFrame, lockMutex, shmLockInterrupted, remapLockInterrupted, Step, NoFrame, Views
<1>2. view' \in Views
  BY ViewFacts DEF currentFrame, lockMutex, shmLockInterrupted, remapLockInterrupted, Step, NoFrame,
                   Views, InMutex
<1>3. \A a \in Area : SameFrames(a)
  BY DEF SameFrames
<1>4. TypeOK' /\ SinkOK' /\ SizeOK' /\ FrameOK' /\ QueueOK' /\ AreasOK' /\ OwnedOK' /\ FrameFits'
  BY <1>1, <1>2, <1>3, ViewFacts, ViewWithoutFrame DEF IInv, TypeOK
<1>5. /\ view.pc \in {"idle", "checked", "entered", "remapped"}
      /\ view'.pc \in {"idle", "checked", "entered"}
      /\ view'.pc \in {"checked", "entered"} /\ view.pc = "idle" => renderer.m_isRendering
      /\ view'.pc = "entered" => view.pc = "checked"
      /\ view.pc = "remapped" => view'.interrupted
      /\ view.pc # "remapped" => UNCHANGED view.interrupted
  BY ViewFacts DEF currentFrame, lockMutex, shmLockInterrupted, remapLockInterrupted, Step, NoFrame,
                   Views, InMutex
<1>6. LockBalanced'
  <2>1. \A a \in Area : ~ViewHolds(a) /\ ~ViewHolds(a)' /\ (DaemonHolds(a)' <=> DaemonHolds(a))
    BY <1>5 DEF ViewHolds, DaemonHolds
  <2> QED BY <2>1 DEF IInv, LockBalanced
<1>7. MapOK' /\ LenOK'
  BY <1>1, <1>5 DEF IInv, MapOK, LenOK, InMutex
<1> QED BY <1>4, <1>6, <1>7 DEF IInv

LEMMA shmLockOne ==
  ASSUME IInv, shmLock, UNCHANGED <<sink, signals>>
  PROVE  IInv'
<1>1. CASE /\ Step("entered", "examining") /\ renderer.m_pShmArea # 0
           /\ Wait(renderer.m_pShmArea) /\ UNCHANGED renderer
  <2> DEFINE a == renderer.m_pShmArea
  <2>1. a \in Area /\ a = renderer.m_fd /\ view.pc = "entered" /\ view' = [view EXCEPT !.pc = "examining"]
    BY <1>1, ViewFacts DEF Step
  <2>2. view' \in Views /\ view'.frame = None /\ UNCHANGED <<view.thread, view.interrupted>>
        /\ view'.pc = "examining"
    BY <2>1, ViewFacts DEF Views, InMutex
  <2>3. /\ shm' \in [Area -> SHMHeader] /\ \A b \in Area : SameFrames(b)
        /\ \A b \in Area : shm[b].mutex \in Nat /\ shm[a].mutex # 0
        /\ \A b \in Area : shm'[b].mutex = IF b = a THEN shm[a].mutex - 1 ELSE shm[b].mutex
    BY <1>1, <2>1, Waits DEF IInv
  <2>4. TypeOK' /\ SinkOK' /\ SizeOK' /\ FrameOK' /\ QueueOK' /\ AreasOK' /\ OwnedOK' /\ FrameFits'
    BY <1>1, <2>2, <2>3, ViewFacts, ViewWithoutFrame
  <2>5. LockBalanced'
    <3>1. \A b \in Area : /\ ~ViewHolds(b) /\ (ViewHolds(b)' <=> b = a)
                          /\ (DaemonHolds(b)' <=> DaemonHolds(b))
      BY <1>1, <2>1, <2>2 DEF ViewHolds, DaemonHolds
    <3> QED BY <2>1, <2>3, <3>1 DEF IInv, LockBalanced
  <2>6. MapOK' /\ LenOK'
    BY <1>1, <2>1, <2>2 DEF IInv, MapOK, LenOK, InMutex, Area
  <2> QED BY <2>4, <2>5, <2>6 DEF IInv
<1>2. CASE /\ Step("entered", "crashed") /\ renderer.m_pShmArea = 0
           /\ UNCHANGED <<shm, renderer>>
  <2>1. view.pc = "entered" /\ view' = [view EXCEPT !.pc = "crashed"] /\ renderer.m_fd = 0
    BY <1>2, ViewFacts DEF Step
  <2>2. view' \in Views /\ view'.frame = None /\ UNCHANGED <<view.thread, view.interrupted>>
        /\ view'.pc = "crashed"
    BY <2>1, ViewFacts DEF Views, InMutex
  <2>3. \A a \in Area : SameFrames(a)
    BY <1>2 DEF SameFrames
  <2>4. TypeOK' /\ SinkOK' /\ SizeOK' /\ FrameOK' /\ QueueOK' /\ AreasOK' /\ OwnedOK' /\ FrameFits'
    BY <1>2, <2>2, <2>3, ViewFacts, ViewWithoutFrame DEF IInv, TypeOK
  <2>5. LockBalanced'
    <3>1. \A b \in Area : /\ ~ViewHolds(b) /\ ~ViewHolds(b)' /\ (DaemonHolds(b)' <=> DaemonHolds(b))
      BY <2>1, <2>2 DEF ViewHolds, DaemonHolds
    <3> QED BY <1>2, <3>1 DEF IInv, LockBalanced
  <2>6. MapOK' /\ LenOK'
    BY <1>2, <2>1, <2>2 DEF IInv, MapOK, LenOK, InMutex
  <2> QED BY <2>4, <2>5, <2>6 DEF IInv
<1> QED BY <1>1, <1>2 DEF shmLock

\* Giving the semaphore back, to return without a frame or to map again.
LEMMA Unlocks ==
  ASSUME IInv, UNCHANGED <<sink, signals, renderer>>, shmUnlock,
         view.pc \in {"examining", "sizing"}, view' \in Views, view'.frame = None,
         view'.pc \in {"idle", "unlocked"}, UNCHANGED <<view.thread, view.interrupted>>
  PROVE  IInv'
<1> DEFINE a == renderer.m_pShmArea
<1>1. a \in Area /\ renderer.m_fd = a
  BY ViewFacts DEF IInv, MapOK, InMutex
<1>2. /\ shm' \in [Area -> SHMHeader] /\ \A b \in Area : SameFrames(b)
      /\ \A b \in Area : shm[b].mutex \in Nat
      /\ \A b \in Area : shm'[b].mutex = IF b = a THEN shm[a].mutex + 1 ELSE shm[b].mutex
  BY <1>1, Posts DEF IInv
<1>3. TypeOK' /\ SinkOK' /\ SizeOK' /\ FrameOK' /\ QueueOK' /\ AreasOK' /\ OwnedOK' /\ FrameFits'
  BY <1>2, ViewFacts, ViewWithoutFrame
<1>4. LockBalanced'
  <2>1. \A b \in Area : ~ViewHolds(b)' /\ (ViewHolds(b) <=> b = a) /\ (DaemonHolds(b)' <=> DaemonHolds(b))
    BY DEF ViewHolds, DaemonHolds
  <2> QED BY <1>2, <2>1 DEF IInv, LockBalanced
<1>5. MapOK' /\ LenOK'
  BY DEF IInv, MapOK, LenOK, InMutex
<1> QED BY <1>3, <1>4, <1>5 DEF IInv

LEMMA getNewFrameOne ==
  ASSUME IInv, getNewFrame, UNCHANGED <<sink, signals>>
  PROVE  IInv'
<1>1. CASE NothingNew /\ NoFrame("examining") /\ shmUnlock
  <2>1. view.pc = "examining" /\ view' = [view EXCEPT !.pc = "idle", !.frame = None]
    BY <1>1 DEF NoFrame
  <2>2. view' \in Views /\ view'.frame = None /\ view'.pc = "idle" /\ UNCHANGED <<view.thread, view.interrupted>>
    BY <2>1, ViewFacts DEF Views
  <2> QED BY <1>1, <2>1, <2>2, Unlocks DEF getNewFrame
<1>2. CASE ~NothingNew /\ Step("examining", "sizing") /\ UNCHANGED shm
  <2>1. view.pc = "examining" /\ view' = [view EXCEPT !.pc = "sizing"] /\ UNCHANGED <<renderer, shm>>
    BY <1>2 DEF Step, getNewFrame
  <2>2. view' \in Views /\ view'.frame = None /\ view'.pc = "sizing" /\ UNCHANGED <<view.thread, view.interrupted>>
    BY <2>1, ViewFacts DEF Views, InMutex
  <2>3. \A a \in Area : SameFrames(a)
    BY <2>1 DEF SameFrames
  <2>4. TypeOK' /\ SinkOK' /\ SizeOK' /\ FrameOK' /\ QueueOK' /\ AreasOK' /\ OwnedOK' /\ FrameFits'
    BY <2>1, <2>2, <2>3, ViewFacts, ViewWithoutFrame DEF IInv, TypeOK
  <2>5. LockBalanced'
    <3>1. \A b \in Area : (ViewHolds(b)' <=> ViewHolds(b)) /\ (DaemonHolds(b)' <=> DaemonHolds(b))
      BY <2>1, <2>2 DEF ViewHolds, DaemonHolds
    <3> QED BY <2>1, <3>1 DEF IInv, LockBalanced
  <2>6. MapOK' /\ LenOK'
    BY <2>1, <2>2 DEF IInv, MapOK, LenOK, InMutex
  <2> QED BY <2>4, <2>5, <2>6 DEF IInv
<1> QED BY <1>1, <1>2 DEF getNewFrame

LEMMA remapUnlockOne ==
  ASSUME IInv, remapUnlock, UNCHANGED <<sink, signals>>
  PROVE  IInv'
<1>1. view.pc = "sizing" /\ view' = [view EXCEPT !.pc = "unlocked", !.mapSize = Shm.mapSize]
  BY DEF remapUnlock
<1>2. Shm.mapSize \in Nat
  BY <1>1, ViewFacts, HeaderType DEF IInv, MapOK, InMutex, Shm
<1>3. view' \in Views /\ view'.frame = None /\ view'.pc = "unlocked" /\ UNCHANGED <<view.thread, view.interrupted>>
  BY <1>1, <1>2, ViewFacts DEF Views, InMutex
<1> QED BY <1>1, <1>3, Unlocks DEF remapUnlock

LEMMA remapOne ==
  ASSUME IInv, remap, UNCHANGED <<sink, signals>>
  PROVE  IInv'
<1>1. /\ view.pc = "unlocked" /\ view' = [view EXCEPT !.pc = "remapped"] /\ UNCHANGED shm
      /\ renderer' = [renderer EXCEPT !.m_pShmArea = renderer.m_fd, !.mapped = view.mapSize]
  BY DEF remap, Step
<1>2. view' \in Views /\ view'.frame = None /\ view'.pc = "remapped"
      /\ UNCHANGED <<view.thread, view.interrupted, view.mapSize>> /\ view.mapSize \in Nat
  BY <1>1, ViewFacts DEF Views, InMutex
<1>3. /\ renderer' \in Renderers /\ UNCHANGED <<renderer.m_fd, renderer.m_isRendering, renderer.m_pShmArea>>
      /\ renderer'.mapped = view.mapSize /\ renderer.m_fd # 0
  BY <1>1, <1>2, ViewFacts DEF Renderers, IInv, MapOK, InMutex
<1>4. \A a \in Area : SameFrames(a)
  BY <1>1 DEF SameFrames
<1>5. TypeOK' /\ SinkOK' /\ SizeOK' /\ FrameOK' /\ QueueOK' /\ AreasOK' /\ OwnedOK' /\ FrameFits'
  BY <1>1, <1>2, <1>3, <1>4, ViewWithoutFrame DEF IInv, TypeOK
<1>6. LockBalanced'
  <2>1. \A b \in Area : ~ViewHolds(b)' /\ ~ViewHolds(b) /\ (DaemonHolds(b)' <=> DaemonHolds(b))
    BY <1>1, <1>2 DEF ViewHolds, DaemonHolds
  <2> QED BY <1>1, <2>1 DEF IInv, LockBalanced
<1>7. MapOK' /\ LenOK'
  BY <1>1, <1>2, <1>3 DEF IInv, MapOK, LenOK, InMutex
<1> QED BY <1>5, <1>6, <1>7 DEF IInv

LEMMA remapLockOne ==
  ASSUME IInv, remapLock, UNCHANGED <<sink, signals>>
  PROVE  IInv'
<1> DEFINE a == renderer.m_pShmArea
<1>1. /\ view.pc = "remapped" /\ Wait(a)
      /\ view' = [view EXCEPT !.pc = "sizing", !.interrupted = FALSE]
      /\ renderer' = [renderer EXCEPT !.m_ShmAreaLen = view.mapSize]
  BY DEF remapLock
<1>2. view' \in Views /\ view'.frame = None /\ view'.pc = "sizing"
      /\ UNCHANGED view.thread /\ view.mapSize \in Nat
  BY <1>1, ViewFacts DEF Views, InMutex
<1>3. /\ renderer' \in Renderers /\ renderer'.m_ShmAreaLen = view.mapSize
      /\ UNCHANGED <<renderer.m_fd, renderer.m_isRendering, renderer.m_pShmArea, renderer.mapped>>
  BY <1>1, <1>2, ViewFacts DEF Renderers
<1>4. a \in Area /\ renderer.m_fd = a /\ a # 0
  BY <1>1, ViewFacts DEF IInv, MapOK, InMutex
<1>5. /\ shm' \in [Area -> SHMHeader] /\ \A b \in Area : SameFrames(b)
      /\ \A b \in Area : shm[b].mutex \in Nat /\ shm[a].mutex # 0
      /\ \A b \in Area : shm'[b].mutex = IF b = a THEN shm[a].mutex - 1 ELSE shm[b].mutex
  BY <1>1, <1>4, Waits DEF IInv
<1>6. TypeOK' /\ SinkOK' /\ SizeOK' /\ FrameOK' /\ QueueOK' /\ AreasOK' /\ OwnedOK' /\ FrameFits'
  BY <1>2, <1>3, <1>4, <1>5, ViewWithoutFrame
<1>7. LockBalanced'
  <2>1. \A b \in Area : ~ViewHolds(b) /\ (ViewHolds(b)' <=> b = a) /\ (DaemonHolds(b)' <=> DaemonHolds(b))
    BY <1>1, <1>2, <1>3 DEF ViewHolds, DaemonHolds
  <2> QED BY <1>4, <1>5, <2>1 DEF IInv, LockBalanced
<1>8. MapOK' /\ LenOK'
  BY <1>1, <1>2, <1>3, <1>4 DEF IInv, MapOK, LenOK, InMutex
<1> QED BY <1>6, <1>7, <1>8 DEF IInv

LEMMA takeFrameOne ==
  ASSUME IInv, takeFrame, UNCHANGED <<sink, signals>>
  PROVE  IInv'
<1> DEFINE a == renderer.m_pShmArea
<1>1. /\ view.pc = "sizing" /\ renderer.m_ShmAreaLen = shm[a].mapSize /\ shmUnlock
      /\ view' = [view EXCEPT !.pc = "idle", !.frame = TheFrame]
      /\ renderer' = [renderer EXCEPT !.m_FrameGen = shm[a].frameGen]
  BY DEF takeFrame, Shm
<1>2. a \in Area /\ renderer.m_fd = a /\ a # 0
  BY <1>1, ViewFacts DEF IInv, MapOK, InMutex
<1>3. /\ TheFrame \in Frames /\ TheFrame.area = a /\ TheFrame.region = shm[a].readable
      /\ TheFrame.gen = shm[a].frameGen /\ TheFrame.size = shm[a].frameSize
  BY <1>2, HeaderType DEF IInv, TheFrame, Frames, Shm
<1>4. view' \in Views /\ view'.frame = TheFrame /\ view'.pc = "idle" /\ UNCHANGED <<view.thread, view.interrupted>>
  <2> HIDE DEF TheFrame
  <2> QED BY <1>1, <1>3, ViewFacts DEF Views
<1>5. /\ renderer' \in Renderers
      /\ UNCHANGED <<renderer.m_fd, renderer.m_isRendering, renderer.m_pShmArea, renderer.mapped, renderer.m_ShmAreaLen>>
  BY <1>1, <1>2, HeaderType, ViewFacts DEF IInv, Renderers
<1>6. /\ shm' \in [Area -> SHMHeader] /\ \A b \in Area : SameFrames(b)
      /\ \A b \in Area : shm[b].mutex \in Nat
      /\ \A b \in Area : shm'[b].mutex = IF b = a THEN shm[a].mutex + 1 ELSE shm[b].mutex
  BY <1>1, <1>2, Posts DEF IInv
<1>7. TypeOK'
  BY <1>2, <1>3, <1>4, <1>5, <1>6 DEF IInv, TypeOK, Views
<1>8. SinkOK'
  <2>1. sink.pc = "writing" => sink.area \in Area
    BY DEF IInv, SinkOK, TypeOK, Area
  <2> QED BY <1>6, <2>1 DEF IInv, SinkOK, SameFrames
<1>9. LockBalanced'
  <2>1. \A b \in Area : ~ViewHolds(b)' /\ (ViewHolds(b) <=> b = a) /\ (DaemonHolds(b)' <=> DaemonHolds(b))
    BY <1>1, <1>4, <1>5 DEF ViewHolds, DaemonHolds
  <2> QED BY <1>6, <2>1 DEF IInv, LockBalanced
<1>10. MapOK' /\ LenOK'
  BY <1>1, <1>4, <1>5 DEF IInv, MapOK, LenOK, InMutex
<1>11. SizeOK' /\ FrameOK'
  BY <1>2, <1>3, <1>4, <1>6, HeaderType, ConstantsAssumption DEF IInv, SizeOK, FrameOK, SameFrames
<1>12. FrameFits'
  <2>1. ~view.interrupted => renderer.mapped = shm[a].mapSize
    BY <1>1 DEF IInv, LenOK
  <2>2. shm[a].frameSize <= shm[a].mapSize
    BY <1>2 DEF IInv, SizeOK
  <2> QED BY <1>3, <1>4, <1>5, <2>1, <2>2 DEF FrameFits
<1>13. QueueOK' /\ AreasOK' /\ OwnedOK'
  BY <1>2, <1>3, <1>4, <1>5, ViewKeepsQueue
<1> QED BY <1>7, <1>8, <1>9, <1>10, <1>11, <1>12, <1>13 DEF IInv

-----------------------------------------------------------------------------
\* The invariant is inductive: one step per action.
LEMMA NextKeepsIInv == IInv /\ [Next]_vars => IInv'
<1> SUFFICES ASSUME IInv, [Next]_vars PROVE IInv'
  OBVIOUS
<1>1. CASE DaemonStep
  <2>1. CASE DaemonStarts
    BY <1>1, <2>1, DaemonStartsOne DEF DaemonStep
  <2>2. CASE DaemonWrites \/ DaemonEnds \/ DaemonCrashes
    BY <1>1, <2>2, DaemonWritesEnds DEF DaemonStep
  <2>3. CASE DaemonLocks
    BY <1>1, <2>3, DaemonLocksOne DEF DaemonStep
  <2>4. CASE DaemonPublishes
    BY <1>1, <2>4, DaemonPublishesOne DEF DaemonStep
  <2>5. CASE DaemonStops
    BY <1>1, <2>5, DaemonStopsOne DEF DaemonStep
  <2> QED BY <1>1, <2>1, <2>2, <2>3, <2>4, <2>5 DEF DaemonStep, DaemonReleases
<1>2. CASE Deliver
  BY <1>2, DeliverOne
<1>3. CASE ViewGoesOn
  <2>1. CASE currentFrame \/ lockMutex
    BY <1>3, <2>1, ViewAlone DEF ViewGoesOn, currentFrame, lockMutex
  <2>2. CASE shmLock
    BY <1>3, <2>2, shmLockOne DEF ViewGoesOn
  <2>3. CASE getNewFrame
    BY <1>3, <2>3, getNewFrameOne DEF ViewGoesOn
  <2>4. CASE remapUnlock
    BY <1>3, <2>4, remapUnlockOne DEF ViewGoesOn
  <2>5. CASE remap
    BY <1>3, <2>5, remapOne DEF ViewGoesOn
  <2>6. CASE remapLock
    BY <1>3, <2>6, remapLockOne DEF ViewGoesOn
  <2>7. CASE takeFrame
    BY <1>3, <2>7, takeFrameOne DEF ViewGoesOn
  <2> QED BY <1>3, <2>1, <2>2, <2>3, <2>4, <2>5, <2>6, <2>7 DEF ViewGoesOn
<1>4. CASE ViewIsInterrupted
  BY <1>4, ViewAlone DEF ViewIsInterrupted, shmLockInterrupted, remapLockInterrupted
<1>5. CASE UNCHANGED vars
  BY <1>5 DEF vars, IInv, TypeOK, SinkOK, LockBalanced, DaemonHolds, ViewHolds, MapOK, LenOK,
              SizeOK, FrameOK, QueueOK, AreasOK, OwnedOK, Stopped, FrameFits
<1> QED BY <1>1, <1>2, <1>3, <1>4, <1>5 DEF Next

LEMMA Invariant == Spec => []IInv
BY InitIInv, NextKeepsIInv, PTL DEF Spec

\* Every field stays in its domain, and without a file nothing is mapped.
THEOREM TypeCorrect == Spec => []TypeOK
<1>1. IInv => TypeOK
  BY DEF IInv
<1> QED BY <1>1, Invariant, PTL

\* getNewFrame() and remapShm() post the semaphore as often as they wait for it,
\* on every path, interrupted or not.
THEOREM LockIsBalanced == Spec => []LockBalanced
<1>1. IInv => LockBalanced
  BY DEF IInv
<1> QED BY <1>1, Invariant, PTL

\* The loop of remapShm() copes with every resizing while it has unlocked, and
\* what it has mapped stays until the stop of its sink is delivered, in
\* whatever order sinks end and start meanwhile.
THEOREM FramesAreMapped == Spec => []FrameIsMapped
<1>1. IInv => FrameIsMapped
  BY DEF IInv, FrameFits, OwnedOK, MapOK, FrameIsMapped
<1> QED BY <1>1, Invariant, PTL

\* The newest frame is never in the region that the daemon writes.
THEOREM NewestFramesAreReadable == Spec => []NewestFrameIsReadable
<1>1. IInv => NewestFrameIsReadable
  <2> SUFFICES ASSUME IInv, view.frame # None, shm[view.frame.area].frameGen = view.frame.gen
               PROVE  view.frame.region = shm[view.frame.area].readable
    BY DEF NewestFrameIsReadable
  <2> QED BY DEF IInv, FrameOK
<1> QED BY <1>1, Invariant, PTL

\* However late the starts and stops arrive, when none is left the renderer has
\* the sink that is there, or none.
THEOREM RenderersFollow == Spec => []RendersTheSink
<1>1. IInv => RendersTheSink
  BY DEF IInv, QueueOK, RendersTheSink
<1> QED BY <1>1, Invariant, PTL

\* stopRendering() cannot come between the check of currentFrame() and its lock
\* when both run in the event loop.
THEOREM ViewInTheLoopIsSafe == Spec => []SameThreadIsSafe
<1>1. IInv => SameThreadIsSafe
  BY DEF IInv, MapOK, SameThreadIsSafe
<1> QED BY <1>1, Invariant, PTL
=============================================================================
