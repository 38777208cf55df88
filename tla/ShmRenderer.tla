----------------------------- MODULE ShmRenderer -----------------------------
(***************************************************************************)
(* A video renderer (private/shmrenderer.cpp) and the daemon's sink: one   *)
(* process writes frames into shared memory, the other maps it and hands   *)
(* pointers into it to a view.  Three threads of control meet: the daemon, *)
(* the client's event loop, which starts and stops the renderer as the     *)
(* daemon's signals say (VideoRendererManagerPrivate), and the view, which *)
(* calls currentFrame() from the event loop or from a thread of its own.   *)
(*                                                                         *)
(* Memory is counted in units of which the header takes none; a semaphore  *)
(* is its value; addresses are not modelled, only which area is mapped and *)
(* how far.  Frame rates, timers and failures of mmap() are left out.      *)
(***************************************************************************)
EXTENDS Naturals, Sequences

CONSTANTS
  Sizes,       \* sizes of a frame, and of the area that holds it
  Threads,     \* where the view runs: subset of {"same", "other"}
  Interrupts,  \* a signal handler may interrupt sem_wait()
  DaemonDies,  \* the daemon may crash, with the semaphore or without
  NAreas,      \* bound: sinks started, one after the other
  MaxGen       \* bound: frames of one sink

ASSUME ConstantsAssumption ==
  /\ Sizes \subseteq Nat \ {0}
  /\ Threads \subseteq {"same", "other"}
  /\ Interrupts \in BOOLEAN
  /\ DaemonDies \in BOOLEAN
  /\ NAreas \in Nat /\ MaxGen \in Nat

VARIABLES
  shm,       \* the shared memory of each sink (SHMHeader)
  sink,      \* the daemon: its present sink and what it does to it
  signals,   \* startedDecoding and stoppedDecoding on their way
  renderer,  \* ShmRendererPrivate and RendererPrivate
  view       \* the thread that runs currentFrame() and the frame it has;
             \* "interrupted" records that the last remapShm() failed to lock
vars == <<shm, sink, signals, renderer, view>>

Area == 1 .. NAreas
Region == {0, 1}
None == [area |-> 0]
Frames == [area: Area, region: Region, gen: 0 .. MaxGen, size: Nat]
Signal == [name: {"startedDecoding", "stoppedDecoding"}, area: Area]

SHMHeader == [mutex: Nat, frameGen: 0 .. MaxGen, frameSize: Nat, mapSize: Nat,
              readable: Region]
Renderers ==
  [m_isRendering: BOOLEAN,
   m_fd: Area \cup {0},        \* the area the file stands for, 0 for -1
   m_pShmArea: Area \cup {0},  \* the area mapped, 0 for MAP_FAILED
   mapped: Nat,                \* how much of it is mapped
   m_ShmAreaLen: Nat,          \* how much the renderer believes to be
   m_FrameGen: 0 .. MaxGen]

\* Fields of the shared memory that a holder of its semaphore changes.
Set(a, header) == shm' = [shm EXCEPT ![a] = header]
Wait(a) == shm[a].mutex > 0 /\ Set(a, [shm[a] EXCEPT !.mutex = @ - 1])
Posted(header) == [header EXCEPT !.mutex = @ + 1]

-----------------------------------------------------------------------------
(* The daemon (external).                                                   *)

DaemonStarts ==
  /\ sink.pc = "idle" /\ ~sink.active /\ sink.area < NAreas
  /\ sink' = [sink EXCEPT !.area = @ + 1, !.active = TRUE]
  /\ signals' = Append(signals, [name |-> "startedDecoding", area |-> sink.area + 1])
  /\ UNCHANGED shm

\* It writes into the region that is not readable, without the semaphore.
DaemonWrites ==
  /\ sink.pc = "idle" /\ sink.active /\ shm[sink.area].frameGen < MaxGen
  /\ sink' = [sink EXCEPT !.pc = "writing"]
  /\ UNCHANGED <<shm, signals>>

DaemonEnds ==
  /\ sink.pc = "idle" /\ sink.active
  /\ sink' = [sink EXCEPT !.pc = "ending"]
  /\ UNCHANGED <<shm, signals>>

DaemonLocks ==
  /\ sink.pc \in {"writing", "ending"} /\ ~sink.holds /\ Wait(sink.area)
  /\ sink' = [sink EXCEPT !.holds = TRUE]
  /\ UNCHANGED signals

\* A frame, perhaps of another size, becomes the readable one.
DaemonPublishes ==
  /\ sink.pc = "writing" /\ sink.holds
  /\ \E size \in Sizes :
       Set(sink.area, Posted([shm[sink.area] EXCEPT
         !.frameGen = @ + 1, !.frameSize = size, !.mapSize = size, !.readable = 1 - @]))
  /\ sink' = [sink EXCEPT !.pc = "idle", !.holds = FALSE]
  /\ UNCHANGED signals

\* "daemon may have stopped": no frame, and the area has lost its name.
DaemonStops ==
  /\ sink.pc = "ending" /\ sink.holds
  /\ Set(sink.area, Posted([shm[sink.area] EXCEPT !.frameSize = 0]))
  /\ sink' = [sink EXCEPT !.pc = "idle", !.holds = FALSE, !.active = FALSE]
  /\ signals' = Append(signals, [name |-> "stoppedDecoding", area |-> sink.area])

DaemonCrashes ==
  /\ DaemonDies /\ sink.pc # "dead"
  /\ sink' = [sink EXCEPT !.pc = "dead"]
  /\ UNCHANGED <<shm, signals>>

DaemonReleases == DaemonPublishes \/ DaemonStops
DaemonStep ==
  /\ DaemonStarts \/ DaemonWrites \/ DaemonEnds \/ DaemonLocks \/ DaemonReleases \/ DaemonCrashes
  /\ UNCHANGED <<renderer, view>>

-----------------------------------------------------------------------------
(* The event loop.  The renderer's m_pMutex is held from start to end, so   *)
(* each slot is one step when the view is not inside currentFrame().        *)

\* shm_open() finds the area by its path until the sink ends.
startShm(r, a) ==
  IF r.m_fd # 0 \/ ~(sink.area = a /\ sink.active) THEN r
  ELSE [r EXCEPT !.m_fd = a, !.m_pShmArea = a, !.mapped = 0, !.m_ShmAreaLen = 0,
                 !.m_isRendering = TRUE]

\* Faults: the area stays mapped; the file is closed and its number kept.
stopShmKeepingMap(r) == IF r.m_fd = 0 THEN r ELSE [r EXCEPT !.m_fd = 0]
stopShmKeepingFile(r) == [r EXCEPT !.m_pShmArea = 0, !.mapped = 0, !.m_ShmAreaLen = 0]

stopShm(r) ==
  IF r.m_fd = 0 THEN r
  ELSE [r EXCEPT !.m_fd = 0, !.m_pShmArea = 0, !.mapped = 0, !.m_ShmAreaLen = 0]

InMutex == {"entered", "examining", "sizing", "unlocked", "remapped"}

\* startRendering() and stopRendering(), as startedDecoding and
\* stoppedDecoding call them.
Deliver ==
  /\ signals # <<>> /\ signals' = Tail(signals)
  /\ view.pc \notin InMutex \cup {"crashed"}
  /\ view.thread = "same" => view.pc = "idle"
  /\ renderer' = IF Head(signals).name = "startedDecoding"
                 THEN startShm(renderer, Head(signals).area)
                 ELSE stopShm([renderer EXCEPT !.m_isRendering = FALSE])
  /\ UNCHANGED <<shm, sink, view>>

-----------------------------------------------------------------------------
(* currentFrame().  The view gives its last frame up when it asks again.    *)

Step(from, to) == view.pc = from /\ view' = [view EXCEPT !.pc = to]
NoFrame(from) == view.pc = from /\ view' = [view EXCEPT !.pc = "idle", !.frame = None]
Shm == shm[renderer.m_pShmArea]

\* Fault: nobody asks whether the renderer renders.
currentFrameUnchecked ==
  /\ view.pc = "idle"
  /\ view' = [view EXCEPT !.pc = "checked", !.frame = None]
  /\ UNCHANGED <<shm, renderer>>

currentFrame ==
  /\ view.pc = "idle"
  /\ view' = [view EXCEPT !.pc = IF renderer.m_isRendering THEN "checked" ELSE "idle", !.frame = None]
  /\ UNCHANGED <<shm, renderer>>

lockMutex == Step("checked", "entered") /\ UNCHANGED <<shm, renderer>>

\* The lock of getNewFrame(): through MAP_FAILED it ends the process.
shmLock ==
  \/ /\ Step("entered", "examining") /\ renderer.m_pShmArea # 0
     /\ Wait(renderer.m_pShmArea) /\ UNCHANGED renderer
  \/ /\ Step("entered", "crashed") /\ renderer.m_pShmArea = 0
     /\ UNCHANGED <<shm, renderer>>

shmLockInterrupted ==
  /\ Interrupts /\ NoFrame("entered") /\ renderer.m_pShmArea # 0
  /\ UNCHANGED <<shm, renderer>>

shmUnlock == Set(renderer.m_pShmArea, Posted(Shm))

\* Fault: generations are compared as if they never started again.
NothingNewer == renderer.m_FrameGen >= Shm.frameGen \/ Shm.frameSize = 0

NothingNew == renderer.m_FrameGen = Shm.frameGen \/ Shm.frameSize = 0

\* Fault: the early return forgets the semaphore.
getNewFrameKeepingLock ==
  /\ view.pc = "examining" /\ UNCHANGED renderer
  /\ \/ NothingNew /\ NoFrame("examining") /\ IF Shm.frameSize = 0 THEN UNCHANGED shm ELSE shmUnlock
     \/ ~NothingNew /\ Step("examining", "sizing") /\ UNCHANGED shm

getNewFrame ==
  /\ view.pc = "examining" /\ UNCHANGED renderer
  /\ \/ NothingNew /\ NoFrame("examining") /\ shmUnlock
     \/ ~NothingNew /\ Step("examining", "sizing") /\ UNCHANGED shm

\* remapShm(): while the length is wrong, unlock, map again, lock.
remapUnlock ==
  /\ view.pc = "sizing" /\ renderer.m_ShmAreaLen # Shm.mapSize
  /\ view' = [view EXCEPT !.pc = "unlocked", !.mapSize = Shm.mapSize]
  /\ shmUnlock /\ UNCHANGED renderer

remap ==
  /\ Step("unlocked", "remapped")
  /\ renderer' = [renderer EXCEPT !.m_pShmArea = renderer.m_fd, !.mapped = view.mapSize]
  /\ UNCHANGED shm

\* Fault: the length is read after the lock.
remapLockReadingAgain ==
  /\ view.pc = "remapped" /\ Wait(renderer.m_pShmArea)
  /\ view' = [view EXCEPT !.pc = "sizing", !.interrupted = FALSE]
  /\ renderer' = [renderer EXCEPT !.m_ShmAreaLen = Shm.mapSize]

remapLock ==
  /\ view.pc = "remapped" /\ Wait(renderer.m_pShmArea)
  /\ view' = [view EXCEPT !.pc = "sizing", !.interrupted = FALSE]
  /\ renderer' = [renderer EXCEPT !.m_ShmAreaLen = view.mapSize]

\* It returns before the assignment of m_ShmAreaLen.
remapLockInterrupted ==
  /\ Interrupts /\ view.pc = "remapped"
  /\ view' = [view EXCEPT !.pc = "idle", !.frame = None, !.interrupted = TRUE]
  /\ UNCHANGED <<shm, renderer>>

\* Fault: the writable region.
FrameBeingWritten ==
  [area |-> renderer.m_pShmArea, region |-> 1 - Shm.readable, gen |-> Shm.frameGen, size |-> Shm.frameSize]

\* A pointer into the shared memory: nothing is copied.
TheFrame ==
  [area |-> renderer.m_pShmArea, region |-> Shm.readable, gen |-> Shm.frameGen, size |-> Shm.frameSize]

takeFrame ==
  /\ view.pc = "sizing" /\ renderer.m_ShmAreaLen = Shm.mapSize
  /\ view' = [view EXCEPT !.pc = "idle", !.frame = TheFrame]
  /\ renderer' = [renderer EXCEPT !.m_FrameGen = Shm.frameGen]
  /\ shmUnlock

ViewGoesOn ==
  /\ currentFrame \/ lockMutex \/ shmLock \/ getNewFrame
       \/ remapUnlock \/ remap \/ remapLock \/ takeFrame
  /\ UNCHANGED <<sink, signals>>
ViewIsInterrupted ==
  /\ shmLockInterrupted \/ remapLockInterrupted
  /\ UNCHANGED <<sink, signals>>

-----------------------------------------------------------------------------
Init ==
  /\ shm = [a \in Area |-> [mutex |-> 1, frameGen |-> 0, frameSize |-> 0, mapSize |-> 0, readable |-> 0]]
  /\ sink = [area |-> 0, active |-> FALSE, pc |-> "idle", holds |-> FALSE]
  /\ signals = <<>>
  /\ renderer = [m_isRendering |-> FALSE, m_fd |-> 0, m_pShmArea |-> 0, mapped |-> 0,
                 m_ShmAreaLen |-> 0, m_FrameGen |-> 0]
  /\ \E t \in Threads : view = [thread |-> t, pc |-> "idle", mapSize |-> 0,
                                  interrupted |-> FALSE, frame |-> None]

Next == DaemonStep \/ Deliver \/ ViewGoesOn \/ ViewIsInterrupted

Spec == Init /\ [][Next]_vars

\* A daemon that holds the semaphore goes on; the event loop and the view run; a
\* lock that is free again and again is obtained, and not every wait for it is
\* interrupted.
FairSpec ==
  /\ Spec
  /\ WF_vars(DaemonReleases /\ UNCHANGED <<renderer, view>>)
  /\ SF_vars(Deliver) /\ SF_vars(ViewGoesOn)
  /\ SF_vars(shmLock /\ UNCHANGED <<sink, signals>>)
  /\ SF_vars(remapLock /\ UNCHANGED <<sink, signals>>)

-----------------------------------------------------------------------------
(* Properties.                                                              *)

\* Every field stays in its domain, and without a file nothing is mapped.
TypeOK ==
  /\ shm \in [Area -> SHMHeader]
  /\ sink \in [area: 0 .. NAreas, active: BOOLEAN, pc: {"idle", "writing", "ending", "dead"}, holds: BOOLEAN]
  /\ signals \in Seq(Signal)
  /\ renderer \in Renderers
  /\ renderer.m_fd = 0 => renderer.m_pShmArea = 0 /\ renderer.mapped = 0
  /\ view \in [thread: Threads, pc: InMutex \cup {"idle", "checked", "crashed"}, mapSize: Nat,
               interrupted: BOOLEAN, frame: Frames \cup {None}]

DaemonHolds(a) == sink.area = a /\ sink.holds
ViewHolds(a) == renderer.m_pShmArea = a /\ view.pc \in {"examining", "sizing"}

\* Every path of getNewFrame() and remapShm() posts the semaphore exactly as
\* often as it has waited: it is free, or one process holds it.
LockBalanced ==
  \A a \in Area :
    /\ shm[a].mutex + (IF DaemonHolds(a) THEN 1 ELSE 0) + (IF ViewHolds(a) THEN 1 ELSE 0) = 1

\* The sink of an area has ended and the renderer has been told.
Stopped(a) ==
  /\ ~(sink.area = a /\ sink.active)
  /\ \A i \in 1 .. Len(signals) : signals[i] # [name |-> "stoppedDecoding", area |-> a]

\* The frame the view has lies in what is mapped, although the daemon resizes
\* the area while remapShm() has unlocked it, until the stop of its own sink is
\* delivered: no other start or stop, however late, takes the memory away.
\* stopShm() unmaps the area whether a view has a frame in it or not; the
\* pointer of that view then leads nowhere until it asks for the next frame.
\* (Nor does the frame fit if the lock in remapShm() was interrupted: the area
\* is mapped anew, but m_ShmAreaLen is the old one until the size changes again.)
FrameIsMapped ==
  view.frame # None /\ ~view.interrupted =>
    \/ renderer.m_pShmArea = view.frame.area /\ view.frame.size <= renderer.mapped
    \/ renderer.m_pShmArea # view.frame.area /\ Stopped(view.frame.area)

\* Until the daemon publishes another one, the frame is in the region that it
\* does not write.
NewestFrameIsReadable ==
  view.frame # None /\ shm[view.frame.area].frameGen = view.frame.gen =>
    view.frame.region = shm[view.frame.area].readable

\* When all signals are delivered, the renderer shows the present sink or none.
RendersTheSink ==
  signals = <<>> /\ view.pc # "crashed" =>
    /\ renderer.m_isRendering <=> sink.active
    /\ renderer.m_isRendering => renderer.m_fd = sink.area

\* A view that runs in the event loop never uses an area that is not mapped.
SameThreadIsSafe == view.thread = "same" => view.pc # "crashed"

\* The semaphore the daemon died with: sem_wait() has no timeout.
Orphaned == sink.pc = "dead" /\ sink.holds

\* A stop is obeyed, whatever the view and the daemon are doing.
StopIsObeyed ==
  \A a \in Area :
    (renderer.m_fd = a /\ \E i \in 1 .. Len(signals) : signals[i] = [name |-> "stoppedDecoding", area |-> a])
      ~> (renderer.m_fd # a \/ view.pc = "crashed" \/ Orphaned)

\* A frame of another generation than the last one is taken, or overtaken.
Fresh ==
  /\ renderer.m_isRendering /\ renderer.m_fd = sink.area /\ sink.active
  /\ shm[sink.area].frameSize # 0 /\ shm[sink.area].frameGen # renderer.m_FrameGen
NewFrameIsTaken == Fresh ~> (~Fresh \/ view.pc = "crashed" \/ Orphaned)

\* "One region is marked readable: this region can be safely read": what the
\* view has is never written while it has it.
FrameIsNeverWritten ==
  view.frame # None =>
    LET s == shm[view.frame.area]
    IN \/ view.frame.gen = s.frameGen
       \/ view.frame.gen + 1 = s.frameGen /\ ~(sink.area = view.frame.area /\ sink.pc = "writing")
=============================================================================
