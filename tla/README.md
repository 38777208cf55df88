# LibRingClient: models and proofs

LibRingClient (`src/src/`, C++ and Qt 5) is the library between the Ring daemon and
its user interfaces: it mirrors the daemon's calls, conferences, accounts and media as
Qt models, turns user actions into daemon requests and daemon signals into state
changes, and stores contacts, history and messages. This directory holds TLA+
modules of its core, the TLC instances that check them, and TLAPS proofs.

Contents: [1 The system](#1-the-system), [2 Modules](#2-modules),
[3 Runs](#3-runs), [4 Fairness and deadlock](#4-fairness-and-deadlock),
[5 Proofs](#5-proofs), [6 What the code does that a document denies](#6-findings),
[7 What is left out](#7-what-is-left-out), [8 Plan](#8-plan).

To check: `tlc -config <run>.cfg <module>` for each row of section 3, and `tlapm` on `FoldFacts` and on each of the
seven modules whose name ends in `Proofs`. PROJECT.json lists the runs, the fault of each property, the
source lines of every definition, and the hazards.

## 1 The system

The client has one thread of its own. Its partner is the **daemon**, a separate process
(D-Bus) or a library with threads of its own. The client calls it synchronously and reads
the answer at once; the daemon's signals reach the client through `Qt::QueuedConnection`,
so they run later, from the event loop, in order. This asymmetry is the source of nearly
everything that is hard here: *a slot combines an old signal with answers that are newer
than the signal*, and *the user acts on a state the daemon has already left*. Most
objects are Qt singletons that call each other directly and tell each other of changes by
direct (synchronous) signals, so that one call re-enters another model before it returns.

| Component | State | Operations | Interacts with | Hard behaviour | What makes it correct |
|---|---|---|---|---|---|
| **Call** (`call.cpp`) | state (17 values), dial/peer/transfer number, hold flags, media, refresh timer, start/stop stamps, recording, missed | 7 actions and 9 daemon states through four tables of 17 rows, keyboard editing, media and profile side effects | daemon, CallModel, Account, media | queued signals against user actions; signals in any order; the daemon restarting; null pointers | agrees with the daemon when the queue is empty; never moves backward; media, timer, stamps follow the state |
| **CallModel** (`callmodel.cpp`) | the tree of rows, identifier index, parents and children, watched calls | ten slots, dialling, transfer, four conference operations | Call, daemon, history, RecentModel | incomplete or missing conference signals; re-entrance of removeCall through changed() | one row per live call and conference, the daemon's participants below |
| **Account** (`account.cpp`) | identifier, detail table, edit state (7 values) | 7 edit actions through a table, property setters | daemon, AccountModel | the daemon changes an account being edited | READY means synchronised; edits are not lost |
| **AccountModel** (`accountmodel.cpp`) | rows, removed identifiers, global edit counters | add, remove, save, cancel, two reconciling slots | Account, daemon | two slots rebuild missing accounts, removals not yet applied, save by save | one row per account; only the user removes |
| Account sub-models (`credentialmodel`, `codecmodel`, `bootstrapmodel`, ...) | rows with an edit state each | edit, save, reload, clear | Account | edits against a reload of the account | saved rows are the daemon's |
| Security evaluation | flaws per account and certificate, level cache | recompute on change | Account, certificates | the cache is stale when a source changes silently | level = minimum over the flaws |
| Certificates | details and checks loaded on demand; allow and ban lists | load, pin, allow, ban | daemon, Account | asynchronous pinning; equal certificates under different names | one object per fingerprint |
| **Contact methods, phone directory** (`contactmethod.cpp`, `phonedirectorymodel.cpp`) | one object per number, account and person; duplicates; name and number index | get (five overloads), merge, promotion of temporary numbers | Person, Account, Call, daemon (presence, name lookup) | a number is found equal to another only later | an object and the details it uses know each other; the same request, repeated at once, finds the same details; a step changes the account of a number that has one only by a merge, and then takes it away at most; the popularity index is the place in the list |
| Persons, profiles | contact data, placeholders | add, replace placeholder, save | collections, phone directory | a real person replaces a placeholder in use | references are redirected |
| Contact requests, devices, names | pending requests, devices, lookups | accept, discard, block, export, register | daemon | the answer is a later signal | a request is removed once |
| Collections | managers, back-ends, items | load, add, save, edit, delete | history, persons, bookmarks, recordings | partial loading; deletion while iterating | an item belongs to one collection |
| Categorised models | proxy trees | insert, remove, move rows | history, persons, bookmarks | row moves between groups | every item once, in its group |
| Recent model | a tree of peers with calls and conferences below | callAdded, callChanged, conference slots, person slots | CallModel, persons, phone directory | its sources announce a change in several pieces | a call below its peer or its conference, once |
| User actions | check state of each action over the selection | update on every selection or state change | CallModel, Account, media | the table against the call tables | offered only what the state accepts |
| **Text conversations** (`media/textrecording.cpp`, `localtextrecordingcollection.cpp`, `media/recordingmodel.cpp`) | messages with delivery status, those still pending, unread counters, one file per conversation | send, receive, mark read, clear, load, status signals | daemon, contact methods, the file system | the client ends between any two steps; a status comes once, late or never | the file is the conversation; a final status stays; no status is missed |
| Media | audio and video media, mute, recordings | create, mute, attach | Call, daemon | media of a call that has none | a medium per kind and direction |
| **Shared-memory renderer** (`shmrenderer.cpp`) | file, mapping, its length, last frame generation, rendering flag, a mutex | start, stop, current frame, remap | daemon through **shared memory and a semaphore**, views, perhaps in a thread of their own | resizing while unlocked; frames written while read; a writer that dies | the lock is balanced; a frame lies in what is mapped until its own sink is stopped; starts and stops are obeyed |
| Video devices, renderer manager | renderers and their threads, devices, channels, rates, sources | create and remove a renderer, attach, set resolution | daemon, Call, renderers | a renderer removed at the end of a call while decoding restarts | one renderer per sink; a thread is deleted when it has ended |
| Audio, presence, macros, ringtones, number completion, URI and MIME, hooks and statistics, daemon bindings, platform helpers | lists and parsers | getters and setters | daemon | little | not modelled: no state machine of their own |

The 26 components with their files and status are in PROJECT.json.

## 2 Modules

| Module | Models | State |
|---|---|---|
| `CallStates` | the tables of `call.cpp` (`actionPerformedStateMap`, `actionPerformedFunctionMap`, `stateChangedStateMap`, `stateChangedFunctionMap`, `metaStateMap`, `validTransitions`), the conversions of daemon names, and the table of actions the UI offers (`useractionmodel.cpp`) | none |
| `Call` | one Call or conference object, the daemon's view of it and the queue between them | `call`, `daemon`, `signals` |
| `CallLifeCycle` | the abstract promise: phases only advance, audio exists exactly in PROGRESS | `phase`, `audio` |
| `CallModel` | the tree of calls, with several calls and conferences | `model`, `daemon`, `signals` |
| `Account` | the edit state machine of one account, as operators on a record | none |
| `AccountModel` | the list of accounts, the user, the daemon and its queued signals | `account`, `m_lAccounts`, `drafts`, `m_lDeletedAccounts`, `daemon`, `signals`, `takenBack` (history) |
| `ShmRenderer` | a shared-memory video renderer, the view that asks it for frames and the daemon's sink | `shm`, `sink`, `signals`, `renderer`, `view` |
| `ContactMethod` | the contact methods and the details they share, as operators on a "book" | none |
| `PhoneDirectory` | the directory of URIs, lookups, merging, persons, names of the name server, popular numbers | `book`, `calls` |
| `TextRecording` | a text conversation, its file, the unread counters, the daemon's delivery states; the life of the client | `up`, `rec`, `total`, `file`, `written`, `daemon`, `signals` |
| `MCCall`, `MCCallModel`, `MCAccountModel`, `MCShmRenderer`, `MCPhoneDirectory`, `MCTextRecording` | input sets, symmetry and bounds of the runs | |
| `CallProofs`, `CallOrderProofs` (which extends it), `AccountProofs`, `ShmRendererProofs`, `PhoneDirectoryProofs`, `TextRecordingProofs`, `CallModelProofs` | theorems | |
| `FoldFacts` | what `FoldLeft` computes, for one operator that an instance provides: the loops of `PhoneDirectory` and `CallModel`, and how often `removeCall` is re-entered | |

`Call` and `CallModel` both extend `CallStates`; `AccountModel` extends `Account`; `PhoneDirectory` extends `ContactMethod`.
Where a definition stands for a function it has the function's name. A definition under the comment "Fault:" is the one
below it with a plausible bug; the model never uses it (section 3).

### Call

`call` is a record: `state` is `m_CurrentState`; `dial`, `peer`, `transfer` stand for
`m_pDialNumber`, `m_pPeerContactMethod`, `m_pTransferNumber` (a null pointer, an empty URI, or
a number); `media` counts the media of each kind and direction; `timer` is `m_pTimer` (null,
running, stopped by `hangUp()`); `stopped` and `missed` are `m_pStopTimeStamp # 0` and
`m_Missed`. Two history fields record what the code would do silently: `unexpected` (an
assertion of `stateChanged()` was false; asserts are compiled out of a release build) and
`crashed` (a null pointer was dereferenced).

`performAction(a)` is `Call::performAction`: the state table moves the call *first*, then the
callback of the *old* state's cell runs on the moved call; each callback is the whole function
with its daemon request and the daemon's synchronous answer. `CallStateChanged` is
`CallPrivate::stateChanged` with its media update, assertion, callback, `error()` cell and the
disposal of the dial number. `slotCallStateChanged` and its neighbours are the slots
of CallModel that lead there. The keyboard operations are the six edits.

The daemon is external: a call moves through
connecting, ringing, incoming, current, hold and its ends, and emits one signal per change;
`DaemonEvents` adds a restart (the call is gone, nothing is said), hold by the peer, and
signals in no order at all. `Origins` selects how the object came to exist: dialled, received,
found in the daemon at start-up, loaded from the history, or a conference.

### CallModel

`model` is the pair of `CallModelPrivate` and the parts of each Call it relies on: `top` is
`m_lInternalModel` (with repetitions), `kids` and `parent` are `m_lChildren` and `m_pParent`,
`ids` is `m_shDringId`, `watched` the calls whose `changed` signal is connected. `changed()` is a
direct signal: `changeCurrentState` therefore calls `slotCallChanged`, which calls `removeCall`,
which for a conference changes states again, and so on. What removes a row is therefore a function that those three take as an
argument: `Removal[d]` is `removeCall` when it may be entered `d` more times before it returns, defined from `Removal[d - 1]`. `Depth`, the number
of conferences, is enough, as each entry is for a further conference, which has lost its row by the time the next one is looked for.
`slotChangingConference` uses the participants the daemon has *now* and its
call list in any order. The daemon announces a participant's departure and a conference's end
in the orders, and with the omissions, that the comments of `callmodel.cpp` report.

### Account and AccountModel

The detail table is one value of `Details`; `Complete` holds those in which
`modify()` finds the mandatory fields. `stateMachineActionsOnState` is the table; the handlers
are `performAction`. `Edit`, `Change`, `saveAll`, `cancel`, `add`, `remove` are the public
operations; `Deliver` runs one queued signal through `updateAccounts` or
`slotDaemonAccountChanged`. `signals` is a set: a member stands for one or more copies, so that
signals may be delivered in any order and any number of times (more than the code allows, so what
holds here holds there). `save` lets `addAccount()` fail. Two behaviours of the surroundings are
explicit: an unsaved account that the list drops may live on in its maker's hands (`drafts`) and be
saved later, which puts it back; a saved account that leaves is dropped by everyone, as
`accountRemoved` asks. The daemon and other clients add, change and remove accounts at any time.
`buildNewAccountFromAlias()` sets two properties before it returns, so that no account is ever
seen in state NEW. `takenBack` remembers that the user has performed CANCEL on a REMOVED account, after which READY no longer
means what it says (section 6).

### ShmRenderer

Here two processes and up to two threads of the client are truly concurrent, so that a step is what happens
between two locks. `shm[a]` is the header of the area of the sink `a` (`mutex` is the semaphore's value);
`sink` is the daemon: it writes a frame into the region that is not readable *without* the semaphore, takes the semaphore
to publish it, perhaps with another size, or to end the sink, and may die at any time, the semaphore in its hands or not.
`Deliver` is `startedDecoding` or `stoppedDecoding` with `startRendering()` or `stopRendering()`, which hold `m_pMutex` throughout and
so are one step; `shm_open()` succeeds as long as the sink exists. `view.pc` is the place in
`currentFrame()`: "checked" (after `isRendering()`, before the mutex), "entered", "examining" and "sizing" (in `getNewFrame()` and `remapShm()`
with the semaphore), "unlocked" and "remapped" (in `remapShm()` without it), "crashed" (it used MAP_FAILED). The view runs in the event
loop or in a thread of its own. `renderer.mapped` is how much really is mapped, next to what
`m_ShmAreaLen` says; `view.interrupted` records that the last `remapShm()` failed to lock again after it had mapped.
Every wait may be interrupted by a signal handler.

### ContactMethod and PhoneDirectory

A `ContactMethod` object is a proxy for a `ContactMethodPrivate`. In the book, `d[m]` is the details that object `m` uses
(`d_ptr`), `parents[d]` is `m_lParents` of the details `d` (empty: deleted) and `details[d]` what they say. `merge` moves *one*
object, as the code does, and leaves the other users of its old details where they are. A URI is a user with or without a hostname,
which is what the lookups tell apart; its length is `UriSize`, because `merge()` keeps the longer one. `directory[u]` is the
`numbers` of the wrapper of `u` in `m_hDirectory`; `keys` are the URIs `m_hDirectory` has an entry for, *with or without* a wrapper,
since `operator[]` makes one.

`getNumber` is the overload with an account and a person: three wrappers are consulted (the URI, the URI with the account's hostname,
the URI without it), `fillDetails` changes what it may on the way, `MergeCandidates` merges what turns out to be the same, and
`FindOrCreate` follows. `getFirstNumber` is the overload without account and person; with `HistoryBackend` it builds the fake call
that re-enters `getNumber` before the new number is filed. `slotRegisteredNameFound` is the answer of the name server;
`slotCallAdded` with `Rise` and `TakeLastPlace` maintains the popular numbers; `Rise` states what the do-while loop has done when it
stops (at `Landing`, having moved every number of `Passed` down one place). The loops over a wrapper or over the parents are folds of `Visit`,
`MergeWith`, `MergeInto`, `NameOne` and `slotCallAdded`. `addCall` adds seconds to a counter of `Width` values
that `callCount()` reads as a signed number: a call that was only dialled has no stop time and adds minus its start. `broken` says that
the code went through a null wrapper ("directory") or wrote past the list ("popular"); nothing happens after it.
`TakeProfile` and `RemovePerson` give and take a person from outside (`VCardUtils::mapToPersonFromReceivedProfile`,
`PersonModel::removeItemCallback`).

### TextRecording

`rec` is the recording in memory: `nodes` is `m_lNodes`, `pending` the keys of `m_hPendingMessages`, `unread` is `m_UnreadCount`, and
`connected` says whether the collection knows the recording and RecordingModel hears its counter, which is so when it was loaded and
not when it was made for a new conversation. `total` is RecordingModel's counter. `file` is what `save()` has written; each
function that changes a message ends in `save()`, and so does its action. `load` is
`LocalTextRecordingCollection::load()` with `fromJson()`, which asks the daemon for the status of every message that has an id. `Quit` ends the
client between any two steps, by choice or by a crash; then memory and queue are lost, and signals sent while it is down are too.
`DaemonRestart` makes the daemon forget every message. `clear` leaves pointers to deleted messages in `m_hPendingMessages`; a status for
one of them is undefined behaviour, modelled by two outcomes: nobody notices (`Deliver`), or the client crashes (`DeliverDangling`).

## 3 Runs

Every property of a passing run has a fault (a definition with a plausible bug, written next to the
true one) under which the same run fails.

| Run | Instance | States | Shows |
|---|---|---|---|
| `call_everyday` | dialled or received; what the UI offers, plus keyboard; orderly daemon that may restart, peer hold; 3 signals in flight; fair delivery | 26,489 | `ClientAgrees`: with the queue empty, state, hold flags and recording are the daemon's; `NoFault`: the assertions of `stateChanged()` hold and no null pointer is used; `ForwardOnly`: the call implements `CallLifeCycle`; `EndIsNoticed`: a call that ends in the daemon ends in the client |
| `call_unordered` | all five origins; every tabled action in every state, keyboard; any signal at any time; restart | 1.7 million | what the tables give whatever the order: `AudioOnlyInProgress`, `ObjectsFollowLife`, `ProfileSentOnce`, `EndIsStamped`, `HangUpEnds` |
| `callmodel_calls` | 3 calls (answered automatically or not), 1 conference, failures, 3 signals | 1.2 million | `LiveAreShown`: with one conference a live call never drops out of the tree (with two it may, section 6); `EndedLeave`: what is over leaves it; `HistoryAgrees`: what the daemon has closed is in the history, and stays over |
| `callmodel_conferences` | 4 calls in progress, 2 conferences, 3 signals | 21,767 | `ConferencesAgree` under merging, splitting and silent ends |
| `accountmodel_sync` | 2 identifiers, 3 objects, 2 detail tables | 715,048 | `UniqueIds`, `Synchronised`, `RowsExist`, `KeptAccountsStay`, `EditsSurvive`, `DeletedStaysOut` |
| `shmrenderer` | 2 sinks, 3 frames each, 2 sizes; view in either thread; interrupted waits; a daemon that may die; fair | 151,611 | `LockBalanced`, `FrameIsMapped`, `NewestFrameIsReadable`, `RendersTheSink`, `SameThreadIsSafe`; `StopIsObeyed` and `NewFrameIsTaken` (liveness) |
| `phonedirectory` | 3 contact methods, a SIP and a Ring account, 1 person, 1 hash, 1 name | 880,483 | `SharingAgrees`: an object and its details know each other; `LookupIsStable`: the same question twice in a row has the same answer; `PositionIsRight`: popularity index and list agree; `AccountLostByMergeOnly`: no step replaces an account, a merge may lose one |
| `textrecording` | 2 messages, 3 signals; client and daemon may restart; fair delivery | 25,663 | `FileAgrees`, `NoStatusMissed`, `FinalStatusStays`; `StatusCatchesUp` (liveness) |
| `call_aborted_alive`, `callmodel_shown_twice`, `shmrenderer_written`, `phonedirectory_null_wrapper` | small | | one counterexample each, section 6 |

**Why the bounds are enough.** *Calls.* Three signals in flight (`MaxSignals`) are one more than any two
that race (a peer's end against the user's hold, and the echo of the user's request). A Call's own
state is finite; its media counters stay at 0 and 1, which `TypeOK` and the theorem `AudioFollowsPhase` confirm. Actions RECORD_VIDEO and RECORD_TEXT
are in no run: their columns are missing from the state table, whose cells are then NEW, no UI offers them, and they would bring a
live call back to NEW. Three calls are the fewest
with a conference that survives a departure, and four with two conferences the fewest that can merge;
the constraint `AllThere` keeps that instance to calls in progress, and the first instance has the others with one conference. Calls that
are still being declared while two conferences change are in neither: there `LiveAreShown` fails (section 6).
Conferences are not reused in the daemon, so two suffice for old against new.
*Accounts.* Two identifiers and three objects give two saved accounts and one that is new, or two new ones against one
saved; two detail tables, one complete, are what `modify()` and `Synchronised` tell apart. The constraint `CalmAfterwards` stops
exploring two kinds of queued signals only after a removal was taken back, where `Synchronised` claims nothing. Objects and identifiers are
symmetric, as are calls and conferences where no list order distinguishes them.
*Renderer.* Two sinks show what a restart leaves behind;
three frames are two more than the view can hold, so that it can be overtaken; with two sizes an area can grow and come back.
*Directory.* Three numbers let two be merged while a third is looked up, and let the last place of the popular list
(`MaxPopular` = 2 for the 10 of the code) change hands. `NumbersFirst` adds calls only once the three numbers are there, none of which has a
person: calls change no attribute a lookup reads. A lookup needs room for what it may create. `MaxFiled` bounds the list of a name, which each
answer of the name server may grow (section 6); `Width` = 8 makes the counter wrap within three calls.
*Conversation.* Two messages can be in different delivery states and be cleared apart; three signals are all
that two messages have at once, plus one.

## 4 Fairness and deadlock

`FairSpec` of Call assumes weak fairness of `DeliverSignal` only: Qt's event loop runs, and a
queued signal is delivered. Nothing is assumed of the user or of the daemon.
Hence `EndIsNoticed` speaks of calls whose end the daemon has *announced*; after a restart no
signal comes, and `HangUpEnds` says instead that the user's next hang-up ends the call.

`FairSpec` of TextRecording assumes weak fairness of `Deliver`, for the same reason. `StatusCatchesUp` therefore excepts a client that ends and a
daemon that forgets. A client that is started again has asked for every status by then (`NoStatusMissed`).

`FairSpec` of ShmRenderer assumes that a daemon which holds the semaphore publishes or ends (weakly, and only while it
lives); that the event loop and the view run; and strong fairness of the steps that need a lock, which is what a semaphore and a mutex
with waiting queues give to one waiter among two processes. Strong fairness of an *uninterrupted* wait says that
signal handlers do not interrupt every one. Nothing is assumed of when the daemon writes. A daemon that dies with the semaphore is
excepted by both liveness properties: `sem_wait()` has no timeout, and the client hangs.

The runs
set CHECK_DEADLOCK FALSE because the system may come to rest: a call is over, the user goes away,
or (bounded) all identifiers, numbers or messages are spent.

## 5 Proofs

TLAPS 1.4.5, with Z3, Zenon and LS4. All obligations of the eight modules with theorems are proved.
The assumptions on constants are those the theorems name and the ASSUMEs of the modules; of the directory's, `ContactMethodAssumption` asks for a
user and for a counter of an even number of values (the code's is 2^32), and `DirectoryAssumption` for constants of the right types;
`ConstantsAssumption` of CallModel, that identifiers of calls and conferences differ and that there are finitely many.

**CallProofs** (for every `Origins`, `DaemonEvents`, `Profiles`, `Videos`, `MaxSignals`, and every
`Inputs` without the two untabled actions). The tables are treated
first, by lemmas on their cells: `ActionKeepsBegun` and `SignalKeepsBegun` (no tabled action and no
signal leaves PROGRESS or FINISHED for an earlier phase), `ActionLeavesCreation`,
`SignalEndsCreation`, `SendingSignals` (a profile goes out only on the step out of INITIALIZATION).
The inductive invariant is `IInv == Good(call) /\ DaemonOK`. `Good` says that audio media are one per
direction in PROGRESS and otherwise none (at most: a call that the client finds in
progress has none), that the dial number exists during CREATION, that no text
medium was made by `sendProfile()` before the communication and at most one after it, and that the timer is there when the phase needs it. Each property
alone is not inductive: that the profile goes once depends on the phase never returning to INITIALIZATION,
and the audio count on the phase never re-entering PROGRESS. `Good` is preserved by each
operator (`changeCurrentState`, `start`, ...), then by each action.

| Theorem | States |
|---|---|
| `TypeCorrect` | the type invariant |
| `AudioFollowsPhase` | `AudioOnlyInProgress` |
| `ProfileGoesOnce` | `ProfileSentOnce`, for signals in any order |
| `LifeHasItsObjects` | `ObjectsFollowLife`: keyboard operations have their dial number, a live call its timer |
| `EndsAreStamped` | `EndIsStamped`: whatever step ends a communication with OVER stamps it |
| `HangingUpEnds` | `HangUpEnds`: REFUSE ends the call, or the signal that will is in the queue |

**CallOrderProofs** (for an `Ordinary` call: dialled, received or from the history; any tabled input the UI offers; any number of signals
in flight; a daemon that may restart or tell of the peer's hold, but speaks in its own order). Without the last condition both theorems are
false, which is why `call_unordered` does not check them. The invariant joins `IInv` with `Safe`. Its part `Sound` says that audio exists exactly
in PROGRESS and nothing has failed. Its part `Sides` is about the queue: what the client shows (`Talks`, `Busies`) or is about to hear puts
the daemon's call *after an answer* or *after a busy line*, and a call is never on both sides. Hence a BUSY still on its way can never reach a call
in progress, the one cell of the table that would move it back. Each daemon step is shown to say only what fits the side it is on (`Emits`), each delivery to take a
signal off the queue and put its meaning in the state.

| Theorem | States |
|---|---|
| `NothingFails` | `NoFault`: no assertion of `stateChanged()` trips and no null pointer is used |
| `ForwardIsImplemented` | `ForwardOnly`: `Call` implements `CallLifeCycle` (initial states to initial states, steps to steps or stutters) |

*The agreement of client and daemon*, the second half of `CallOrderProofs` (for a call that is `Ordinary` in the sense above, and a user who does not transfer it: a transfer gives the hold flag of a held
call back wrongly and may abort a call the daemon still has, so the property is false with it; `call_everyday` has no transfer either). `ClientAgrees`
only speaks of an empty queue, so it is far from inductive: the invariant `Agreeing`, on top of `IInv` and `Safe`, says for each state of the daemon's
call what the signals still in the queue will make of the client. `Shows(q, S, T, now)` is its vocabulary: the *last* signal of `q` on the subject `S` is in
`T`, or there is none and the client knows already (`now`). `KnowsSetup`, `KnowsIncoming`, `KnowsTalk` and `KnowsEnd` apply it to the state,
`KnowsPeer` to the peer's hold, `KnowsRecord` to the recording; `SharpFirst` keeps the signals that a communication takes for an error in front of the
answer. A daemon's step appends the word that keeps `Shows` true, a delivery takes the first one away (`ShowsTail`), and a request of the user that
changes the client ahead of the daemon is followed in the same step by the daemon's own signal.

| Theorem | States |
|---|---|
| `ClientCatchesUp` | `ClientAgrees`: with the queue empty, state, hold flags and recording are the daemon's |

**AccountProofs** (for every set of identifiers, details and objects). The inductive
invariant is `Rows == ListOK /\ UniqueIds /\ RowsBorn`: uniqueness alone is not inductive, as a new
account could be given an identifier that another row has already; `RowsBorn` says that the daemon
has given out every identifier the list holds, so an identifier from `addAccount()` is of no row.
`RowsExist` and `Synchronised` are then proved together with `Rows`: while `accountsChanged` is queued
they say nothing, delivering the last one establishes them, and a step that changes the
daemon queues another. `ActionSynchronises` is the lemma about the edit table: an account that is READY or
EDITING after an action was so before with the same details, or has just been reloaded; CANCEL of a
REMOVED account is the one exception, and sets `takenBack`. For `DeletedStaysOut`, `DeletedBorn` adds that removed identifiers too were given out.
Both properties of signals say what the two handlers leave alone, not that nothing is lost. `EditsSurvive` covers
every row under `registrationStateChanged`, but under `accountsChanged` only the rows the daemon has an account for, since `updateAccounts()` drops the
others with what was entered there. `DeletedStaysOut` allows the row of a removed account to come back in the step that delivers
`accountsChanged`, since `updateAccounts()` does not look at `m_lDeletedAccounts`, and in no other.

| Theorem | States |
|---|---|
| `TypeCorrect` | the type invariant |
| `RowsAreUnique` | `UniqueIds` |
| `SettledRowsExist` | `RowsExist` |
| `ReadyMeansSynchronised` | `Synchronised` |
| `OnlyTheUserRemoves` | `KeptAccountsStay` |
| `SignalsSpareEdits` | `EditsSurvive`, with the unsaved rows excepted under `accountsChanged` |
| `RemovedRowsStayOut` | `DeletedStaysOut`: only `accountsChanged` brings a removed row back |

**ShmRendererProofs** (for any sizes, threads, number of sinks and of frames, with interruptions and deaths). The inductive invariant `IInv`
joins the properties with what makes them inductive. `LockBalanced` counts the semaphore's value, the daemon and the
view's places in the code. `FrameIsMapped` needs `LenOK` (what `m_ShmAreaLen` says is mapped, except between the new mapping and the
assignment), `SizeOK` and `FrameFits` (the frame fits in its area as long as that is the renderer's), `OwnedOK` (the area of a frame
is the renderer's or `Stopped`: its sink ended and the stop was delivered), and also `AreasOK`: the frame a view still has belongs to an older sink than any that is
yet to be opened. The stop of the frame's own sink is the one step that takes the memory away. `RendersTheSink` needs `QueueOK`: starts and stops alternate, the last one tells what the daemon does, and a start finds the
renderer stopped, so that `startShm()` never refuses it. `SameThreadIsSafe` needs `MapOK`. There is one lemma per action.

| Theorem | States |
|---|---|
| `TypeCorrect` | the type invariant |
| `LockIsBalanced` | `LockBalanced` |
| `FramesAreMapped` | `FrameIsMapped` |
| `NewestFramesAreReadable` | `NewestFrameIsReadable` |
| `RenderersFollow` | `RendersTheSink` |
| `ViewInTheLoopIsSafe` | `SameThreadIsSafe` |

**PhoneDirectoryProofs** (for all accounts, persons, users, hostnames, requests, kinds of calls and lengths of the popular list; any number of contact
methods and calls; with or without a history collection). Every handler is a function from a book to a book, so the inductive invariant is a predicate
of a book, `Sound`, and each operation has one lemma from a sound book to a sound book (`MergeFollows`, `FillOneFollows`, `CreateGrows`, `RiseTells`,
...) that also says what becomes of accounts. `Sound` joins the types with `Proxies` (an object is listed once by the details it uses and by no other; what is
not created yet is on its own), `Filed` and `Listed` (directory and popular list hold numbers that exist) and `Ranked`. `PositionIsRight` alone is not
inductive, since it says nothing once an object was merged, and nothing excludes that a merge is undone: `Ranked` is (`Alone` and `Placed`) or `Abandoned`, where
`Abandoned` (some details are used by nobody) is what the first merge brings about and no later step reverses, as `merge()` only ever moves an object
to details that are in use. `AccountLostByMergeOnly` needs to be followed through folds: `DetailsKeep` (details keep the account they have) holds of every operation;
`MergeInto` and `MergeWith` are shown to keep the accounts of objects too, `MergeCandidates` to lose some at most. It is a property of single steps: over
several, an object may lose its account and then share details that are given another (section 6).

`LookupIsStable` is about two lookups, and holds of every sound book (`GetNumberIsStable`). What the first lookup did to the numbers it visited leaves the second one nothing to do to them.
With a person, `FillPaints` says where the loop over a wrapper stops and that it only gives the person to details that took it; without one,
`FillNobody` says that every number of the wrapper has an account afterwards, whatever was merged meanwhile. `Stops` is where a loop stops that finds nothing to change, and `StopsOn` carries it over to
the book the first lookup returns. Then there is one lemma per way of answering: nobody is confirmed and the number of the short URI is taken (`ShortFoundAgain`), one that fits is taken and given the person
(`FoundAgain`), or one is created (`CreatedAgain`); or a number is confirmed, alone or with one of the extended URI (`ConfirmedAgain`), or it is merged with the number of the short URI
(`MergedAgain`). Only in the last case may the second answer be another object: the one that was merged comes earlier in the wrapper, and has the same details. The second lookup may
merge once more there, but only a number of the account that was asked for, and neither of the two answers has that account any more.

The loops of the handlers are folds. What a fold computes is shown by induction over its length, which the library's induction theorems cannot
express for an operator; `FoldFacts` therefore has the operator as a CONSTANT, shows by a least counterexample that the recursive function behind
`FoldLeft` exists (`FoldExists`) and that a property each step passes on reaches the result (`FoldStays`, also with a property for each position: `FillingReaches`), and is instantiated once for each of the six
loops of the directory (`FillingStays`, `MergingStays`, `JoiningStays`, `NamingStays`, `TellingStays`, `RemovingStays`) and for the five of CallModel. Its `CountExists` is the same for a function
on `0 .. n` that is defined from its predecessor: `Removal` of CallModel.

| Theorem | States |
|---|---|
| `TypeCorrect` | the type invariant: every handler leaves numbers that exist, and seconds that fit |
| `ProxiesAgree` | `SharingAgrees` |
| `PopularAgrees` | `PositionIsRight` |
| `AccountKept` | `AccountLostByMergeOnly`: details keep their account, and a merge takes that of an object away at most |
| `LookupsAgree` | `LookupIsStable`: the same question twice in a row finds the same details |

**TextRecordingProofs** (for any number of messages and signals). The inductive invariant is
`IInv == TypeOK /\ FileAgrees /\ NoStatusMissed /\ AllEnded /\ DownIsEmpty`. `AllEnded` (a message with a final status has no
id, in memory and in the file) is why no late signal and no answer of a forgetful daemon can touch it. `NoStatusMissed` relates the message, the pending
set, the daemon and the queue; it survives a restart because `fromJson()` asks for, and makes pending, whatever has an id.

| Theorem | States |
|---|---|
| `TypeCorrect` | the type invariant |
| `FileIsConversation` | `FileAgrees`: a crash loses nothing the client has shown |
| `NoStatusIsMissed` | `NoStatusMissed` |
| `FinalStays` | `FinalStatusStays`, across restarts |

**CallModelProofs** (for any finite sets of calls and conferences, with or without automatic answers and failures, any number of signals in flight). The
argument has three layers.

*Operators.* `Cut(m, x, n)` is what removing the row of `x` may do to the model, together with all that it sets off: no call changes its state, its parent or its registration, and
no call but `x` loses its row unless it is in OVER or ERROR. The row of a conference takes its participants with it, but those "not really over" come back. `RemovalRemoves` shows it for
`Removal[d]` at every depth `d` (least counterexample), so that nothing below depends on how deep `removeCall()` comes back to itself.

*Slots.* `Allowed(m, n, new)` is what a slot may do when it declares the calls in `new`: `n` is `Sound` (what is registered, filed or has a row is a call
that exists; the history has registered calls that are over; no call is BUSY), no call is forgotten, the history grows, and if every live call had a row, every live call still has. There is one lemma
per operator and slot, from `AdoptSeats` (a participant that loses its top-level row has one below its conference) to `ChangingContinues` for `slotChangingConference()`. The comparison with
the daemon's call list is the one place that needs more: `Refiled` keeps rows only if `Filed`, every conference the daemon has and the client knows has a row itself.

*Steps.* The inductive invariant is `Inductive`. The hazards of the history need three parts beside `Sound`: `EndsAreHeard` (the end of a registered call is in the history or
still in the queue), `Registered` (the client registers what the daemon has, and no more: otherwise a call could be closed before it is known), and `MembersKnown` (participants are calls of the
daemon). `Moves` says what one step does to the daemon and its queue; every action keeps the invariant by `StepKeeps`.

With one conference, `Filed` holds whenever it is needed: `slotChangingConference()` has just seen its row, and the removal of empty conferences after it finds none (`OneIsLeftAlone`), since a
conference without participants leaves nothing to file. With several it may fail, and then the property does too (section 6), so that the second theorem has it as a hypothesis about the whole run.

| Theorem | States |
|---|---|
| `TypeCorrect` | the type invariant |
| `HistoryIsRight` | `HistoryAgrees`: what the daemon has closed is in the history once heard, and stays over |
| `LiveRowsOfOneConference` | `LiveAreShown`, for one conference and any number of calls |
| `LiveRowsWhileConferencesHaveTheirs` | `LiveAreShown`, for any number of conferences, in every run in which each conference that the daemon has and the client knows has a row |

**Model-checked only.** Liveness (`EndIsNoticed`, `StopIsObeyed`, `NewFrameIsTaken`, `StatusCatchesUp`), which is out of the prover's reach. `EndedLeave` of
CallModel: a conference that ends has some rows twice (section 6), so that an invariant would have to count the rows of each call against the removals still to come. `ConferencesAgree`, which does not hold for every value of
the constants, only for calls in progress (`AllThere`).

## 6 Findings

Where the code contradicts a sentence of its own documentation; each has a run.

1. `call_aborted_alive`: backspace on an empty transfer number aborts a call in progress in the
   client only, while "ABORTED: the call was dropped before being sent to the daemon".
2. `callmodel_shown_twice`: the end of a conference adds each live participant to the top level twice.
3. `shmrenderer_written`: the frame is a pointer into the region that "can be safely read"; the daemon
   writes the next frame but one there while the view has it. "Lock the memory while the copy is being
   made" says the lock, but no copy is made.
4. `phonedirectory_null_wrapper`: a lookup leaves a null wrapper in the directory, and the answer of the name server
   goes through it.

Reading the code and modelling it also showed the following, which no run isolates.

*Calls.* A communication that fails (FAILURE in CURRENT, HOLD, TRANSFERRED) gets no stop time, so that
`length()` counts on; a conference on which HOLD or
RECORD is performed becomes a plain CURRENT call; the outgoing hold flag is lost when a signal reaches a held call in TRANSF_HOLD; `slotConferenceRemoved` ends a
conference without a stop time; a refusal after an accept
leaves the call marked missed; a call found at start-up has no audio medium, and the mute slots dereference the first
one unchecked; `call()` with an empty URI loses the dial number; `addIncomingCall` answers a call that is known already, whatever its state,
though a comment says such calls "should be ignored".

*Calls and conferences.* `LiveAreShown` fails with four calls and two conferences. Calls c and d are in conference l, b is alone. A call a comes in
and is already answered in the daemon when the client declares it; a and b are joined in k, and the `incomingCall` that comes late, with automatic answer, performs ACCEPT on a
call in progress: a is in ERROR. k adopts a and b; d is moved from l to k, and l, with one participant left, ends. Delivering the change of l removes l (it is empty), and
`removeCall` on the way takes k, whose first participant is in ERROR, off the top level. The loop over "orphan" calls (callmodel.cpp:1316-1327) then takes the
row of d away and files it under k, which it finds in `m_shDringId` but which is in the tree no longer: d goes on with no row. TLC shows it from `daemon` and `model`
with c and d in l and b alone, `AutoAnswer = {TRUE, FALSE}`, `CanFail = FALSE`, `MaxSignals = 3` and the actions of this story, in nine steps.
The theorem `LiveRowsWhileConferencesHaveTheirs` says that this loop is the only place where a live call can lose its row.

*Accounts.* CANCEL of a REMOVED account makes it READY without reloading it; `cancel()` of
AccountModel forgets removals without restoring the rows, so that the next `save()` removes those
accounts in the daemon; `save()` also removes an account another client has just added; `accountsChanged` removes every row that is not saved yet, with
what the user entered, and brings back the row of an account that was removed and not yet saved; the global edit counters count a transition
within one class up, and do not count accounts added or removed.

*Renderer.* `stopShm()` unmaps the area although a view may still have a frame in it (the comment above speaks of lowering the risk only), and the
pointer of that view leads nowhere until it asks again. A view in a thread of its own asks `isRendering()` before the lock and may use MAP_FAILED after a stop; an interrupted
wait in `remapShm()` leaves `m_ShmAreaLen` wrong until the size changes again; `m_FrameGen` survives a restart; `started()` and `stopped()`
are emitted with the mutex held.

*Directory.* Of two merged objects, one that is merged further goes alone and splits the pair; a merge keeps the details of its target, so an account only
the other side had is lost. The details may then be given another account: `bob@example` for person p is number 1, `bob` of the SIP account number 2,
`bob@example` of the SIP account for p merges 2 into 1, which has no account, and `bob@example` of the Ring account gives 1, and with it 2, that one; asking for `bob` of the SIP
account again creates number 3. Each step is as `AccountLostByMergeOnly` says, and `LookupIsStable` is about a question repeated at once only. Further: `setAccount` files a number twice under a new extended URI; `!indexOf` (phonedirectorymodel.cpp:871) appends a number that is
*first* in the list and never one that is absent; after a merge the popular list holds two objects with one index; with a history collection the
re-entered lookup creates a number nobody finds again; `callCount()` returns the total seconds, and a call that is only dialled makes them wrap.

*Conversations.* A conversation that was created, not loaded, is not counted in the total of unread messages and is not cleared; `clear()` announces a change
of 0, so the total keeps the cleared ones, and after a restart all counters start at 0 whatever the file says; a status is routed by the URI in the
signal, and a contact method that gets an account or a person changes the key (`sha1()`) its conversation is filed under.

## 7 What is left out

*Call*: dates, names, formatting, data roles, DTMF, the payload of messages, renderers; account selection is a
choice (found or not). *CallModel*: media, mute and recording slots, drag and drop, views; calls and the
daemon's details are their states. *Account*: getters, role states, registration state and its
counters, the volatile details, password fields, contacts and certificates. *AccountModel*: order, protocol
filters, placeholder accounts that are merged, the global edit counters, and `update()`,
which nothing calls. Identifiers are not reused by the daemon.
*ShmRenderer*: the frame rate, the timer, `getNewFrame(true)` (nothing calls it), failures of `mmap()` and `munmap()`, the thread the manager
gives a renderer, and DirectRenderer. *Directory*: temporary contact methods and their promotion, categories, presence, bookmarks, certificates, the index
used for completion, the list of last used numbers, the date of last use. *TextRecording*: MIME types, payload formats, several conversations at once (each has its own
file and no other state is shared but the total), the moment between truncating a file and writing it, audio and video recordings.

**Not modelled.** *No state machine of their own* (lists read from the daemon and written to it, parsers, proxies that sort and group rows, forwarding
of values): audio settings, presence, macros and ringtones, number completion, URI and MIME, hooks, system information, statistics and worker thread,
categorised models, the fixed lists among the account sub-models, daemon bindings (generated), platform hooks and helpers. The translations
(`translations/*.ts`) are XML written by Qt's tools: sentences of the user interface and their translations, with nothing to model.
*With state worth a module, but not modelled yet*: the components section 8 lists. PROJECT.json gives the reason for each.

## 8 Plan

Done, the most important behaviour first: `Call` and its life cycle; `CallModel`; `Account` and `AccountModel`; `ShmRenderer`;
`ContactMethod` and `PhoneDirectory`; `TextRecording`; the theorems of section 5.

What is left, in this order:

1. `RecentModel`, composed with an abstraction of CallModel (its signals only): a call below its peer or its conference, once. 2 peers, 3 calls, 1 conference.
2. `CredentialModel`, `CodecModel`, `BootstrapModel`: edit states against reloads, as one module with the differences as constants if the code allows.
3. Contact requests: an answer of the user against a late answer of the daemon.
4. The renderer manager: renderers and their threads created and deleted by daemon signals, around `ShmRenderer`.
5. Certificates and the security level: a cache against sources that change silently.
6. Collections: an item's life between manager and back-end; persons and their placeholders.
7. Proofs: `EndedLeave`, with an invariant that counts rows; `ConferencesAgree` for calls in progress.
