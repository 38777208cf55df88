------------------------ MODULE TextRecordingProofs ------------------------
(***************************************************************************)
(* What TLAPS proves of TextRecording, for any number of messages.         *)
(***************************************************************************)
EXTENDS TextRecording, TLAPS

\* A message whose delivery has ended has no id: nothing will change it.
Ended(m) == m.status \in Final => m.id = 0
AllEnded ==
  /\ \A i \in Rows(rec) : Ended(rec.nodes[i])
  /\ \A i \in DOMAIN file : Ended(file[i])

\* A client that does not run has nothing in memory.
DownIsEmpty == ~up => rec = NewRecording

IInv == TypeOK /\ FileAgrees /\ NoStatusMissed /\ AllEnded /\ DownIsEmpty

\* NoStatusMissed, of one message of one recording.
Known(i, r, known, queue) ==
  r.nodes[i].id # 0 =>
    /\ r.nodes[i].id \in r.pending
    /\ known[r.nodes[i].id] \in Final =>
         \E k \in DOMAIN queue : queue[k] = [id |-> r.nodes[i].id, status |-> known[r.nodes[i].id]]

-----------------------------------------------------------------------------
(* The functions.                                                           *)

LEMMA KnownIsNoStatusMissed ==
  /\ NoStatusMissed <=> \A i \in Rows(rec) : Known(i, rec, daemon, signals)
  /\ NoStatusMissed' <=> \A i \in Rows(rec') : Known(i, rec', daemon', signals')
BY DEF NoStatusMissed, Known, Queued

LEMMA UpdateIsMessage ==
  ASSUME NEW m \in Message, NEW status \in Status
  PROVE  /\ updateMessageStatus(m, status) \in Message
         /\ Ended(updateMessageStatus(m, status))
         /\ updateMessageStatus(m, status).id \in {0, m.id}
         /\ status \in Final => updateMessageStatus(m, status).id = 0
BY DEF updateMessageStatus, Message, Ended, Final, Status

\* A conversation in which each message is changed remains one.
LEMMA Mapped ==
  ASSUME NEW q \in Seq(Message), NEW f, f = [i \in DOMAIN q |-> f[i]],
         \A i \in DOMAIN q : f[i] \in Message
  PROVE  f \in Seq(Message) /\ DOMAIN f = DOMAIN q /\ (f = <<>> <=> q = <<>>)
<1>1. DOMAIN q = 1 .. Len(q) /\ Len(q) \in Nat
  OBVIOUS
<1>2. f \in Seq(Message) /\ Len(f) = Len(q)
  BY <1>1
<1> QED BY <1>1, <1>2

LEMMA EmptyRecording ==
  NewRecording \in Recording /\ Rows(NewRecording) = {} /\ NewRecording.nodes = <<>>
BY DEF NewRecording, Recording, Rows

\* What TypeOK says of the recording.
LEMMA RecordingType ==
  ASSUME TypeOK
  PROVE  /\ rec.nodes \in Seq(Message) /\ rec.pending \subseteq Payload /\ rec.unread \in Int
         /\ rec.connected \in BOOLEAN /\ Rows(rec) = 1 .. Len(rec.nodes) /\ Len(rec.nodes) \in Nat
         /\ \A i \in Rows(rec) : rec.nodes[i] \in Message
BY DEF TypeOK, Recording, Rows

LEMMA UnreadCountIsNat ==
  ASSUME TypeOK, NEW count \in Int, updateUnreadCount(count)
  PROVE  total' \in Nat
BY DEF updateUnreadCount, TypeOK

\* insertNewMessage() appends the message and saves.
LEMMA InsertSpec ==
  ASSUME IInv, up, NEW m \in Message, insertNewMessage(m)
  PROVE  /\ rec' \in Recording /\ total' \in Nat
         /\ rec'.nodes = Append(rec.nodes, m) /\ file' = rec'.nodes
         /\ rec'.pending = IF m.id # 0 THEN rec.pending \cup {m.id} ELSE rec.pending
         /\ Rows(rec') = 1 .. Len(rec.nodes) + 1
         /\ \A i \in Rows(rec) : rec'.nodes[i] = rec.nodes[i]
         /\ rec'.nodes[Len(rec.nodes) + 1] = m
<1> DEFINE pending == IF m.id # 0 THEN rec.pending \cup {m.id} ELSE rec.pending
           unread == IF m.isRead THEN rec.unread ELSE rec.unread + 1
           r == [rec EXCEPT !.nodes = Append(rec.nodes, m), !.pending = pending, !.unread = unread]
<1>1. rec \in Recording /\ m.id \in Payload \cup {0}
  BY DEF IInv, TypeOK, Message
<1>2. rec' = r
  BY DEF insertNewMessage
<1>3. Append(rec.nodes, m) \in Seq(Message) /\ pending \in SUBSET Payload /\ unread \in Int
  BY <1>1, RecordingType DEF IInv
<1>4. r \in Recording /\ r.nodes = Append(rec.nodes, m) /\ r.pending = pending
  <2> HIDE DEF pending, unread
  <2> QED BY <1>1, <1>3 DEF Recording
<1>5. file' = r.nodes
  <2>1. r.nodes # <<>>
    BY <1>4, RecordingType DEF IInv
  <2> QED BY <2>1, <1>4 DEF insertNewMessage, save
<1>6. total' \in Nat
  BY UnreadCountIsNat DEF insertNewMessage, IInv, TypeOK
<1>7. Rows(r) = 1 .. Len(rec.nodes) + 1
  BY <1>4, RecordingType DEF Rows, IInv
<1> QED BY <1>2, <1>4, <1>5, <1>6, <1>7, RecordingType DEF IInv

-----------------------------------------------------------------------------
LEMMA InitIInv == Init => IInv
BY EmptyRecording, TextRecordingAssumption
   DEF Init, IInv, TypeOK, FileAgrees, NoStatusMissed, AllEnded, DownIsEmpty, Status, NewRecording

\* A step that changes neither messages nor daemon nor signals, except by
\* appending signals, keeps the rest of the invariant.
LEMMA SameMessages ==
  ASSUME IInv, UNCHANGED daemon, rec'.pending = rec.pending, Rows(rec') = Rows(rec),
         file' \in {file, rec'.nodes},
         \A i \in Rows(rec) : /\ rec'.nodes[i].id = rec.nodes[i].id
                               /\ rec'.nodes[i].status = rec.nodes[i].status,
         signals' = signals \/ \E s \in Signal : signals' = Append(signals, s)
  PROVE  NoStatusMissed' /\ AllEnded'
<1>1. ASSUME NEW id \in Payload, NEW status \in Status, Queued(id, status)
      PROVE  Queued(id, status)'
  <2>1. PICK k \in DOMAIN signals : signals[k] = [id |-> id, status |-> status]
    BY <1>1 DEF Queued
  <2>2. k \in DOMAIN signals' /\ signals'[k] = signals[k]
    BY DEF IInv, TypeOK
  <2> QED BY <2>1, <2>2 DEF Queued
<1>2. NoStatusMissed'
  BY <1>1, RecordingType DEF NoStatusMissed, IInv, TypeOK, Message
<1>3. AllEnded'
  BY DEF AllEnded, Ended, IInv, Rows
<1> QED BY <1>2, <1>3

LEMMA ReceiveOK ==
  ASSUME IInv, NEW text \in Texts, Receive(text)
  PROVE  IInv'
<1> DEFINE n == written + 1
           m == [payload |-> n, out |-> FALSE, text |-> text, isRead |-> FALSE,
                 id |-> 0, status |-> "UNKNOWN"]
<1>1. m \in Message /\ n \in Payload /\ up /\ insertNewMessage(m) /\ written' = n
      /\ UNCHANGED <<up, daemon, signals>>
  BY TextRecordingAssumption DEF Receive, Room, Message, Payload, Status, IInv, TypeOK
<1> HIDE DEF m
<1>2. m.id = 0 /\ Ended(m)
  BY DEF m, Ended
<1>3. TypeOK /\ FileAgrees /\ NoStatusMissed /\ AllEnded
  BY DEF IInv
<1>4. /\ rec' \in Recording /\ total' \in Nat
      /\ rec'.nodes = Append(rec.nodes, m) /\ file' = rec'.nodes
      /\ rec'.pending = rec.pending
      /\ Rows(rec') = 1 .. Len(rec.nodes) + 1
      /\ \A i \in Rows(rec) : rec'.nodes[i] = rec.nodes[i]
      /\ rec'.nodes[Len(rec.nodes) + 1] = m
  BY <1>1, <1>2, InsertSpec
<1>5. TypeOK'
  <2>1. file' \in Seq(Message)
    BY <1>4 DEF Recording
  <2> QED BY <1>1, <1>3, <1>4, <2>1 DEF TypeOK, Payload
<1>6. FileAgrees' /\ DownIsEmpty'
  BY <1>1, <1>4 DEF FileAgrees, DownIsEmpty
<1>7. Rows(rec) = 1 .. Len(rec.nodes) /\ Len(rec.nodes) \in Nat
  BY <1>3, RecordingType
<1>8. \A i \in Rows(rec') : i \in Rows(rec) \/ i = Len(rec.nodes) + 1
  BY <1>4, <1>7
<1>9. NoStatusMissed'
  BY <1>1, <1>2, <1>3, <1>4, <1>8 DEF NoStatusMissed, Queued
<1>10. AllEnded'
  <2>1. \A i \in Rows(rec') : Ended(rec'.nodes[i])
    BY <1>2, <1>3, <1>4, <1>8 DEF AllEnded
  <2>2. DOMAIN file' = Rows(rec') 
    BY <1>4 DEF Rows
  <2> QED BY <1>4, <2>1, <2>2 DEF AllEnded, Ended
<1> QED BY <1>5, <1>6, <1>9, <1>10 DEF IInv

LEMMA SendOK ==
  ASSUME IInv, NEW text \in Texts, NEW accepted \in BOOLEAN, Send(text, accepted)
  PROVE  IInv'
<1> DEFINE n == written + 1
           m == [payload |-> n, out |-> TRUE, text |-> text, isRead |-> TRUE,
                 id |-> IF accepted THEN n ELSE 0, status |-> "UNKNOWN"]
           s == [id |-> n, status |-> "SENDING"]
<1>1. /\ m \in Message /\ n \in Payload /\ n \in 0 .. MaxMessages
      /\ up /\ insertNewMessage(m) /\ written' = n /\ up' = up
      /\ daemon' = [daemon EXCEPT ![n] = IF accepted THEN "SENDING" ELSE @]
      /\ signals' = IF accepted THEN Append(signals, s) ELSE signals
  BY TextRecordingAssumption DEF Send, Room, Message, Payload, Status, IInv, TypeOK
<1>2. m.id = (IF accepted THEN n ELSE 0) /\ m.status \notin Final
  BY DEF Final
<1> HIDE DEF m
<1>3. TypeOK /\ FileAgrees /\ NoStatusMissed /\ AllEnded
  BY DEF IInv
<1>4. /\ rec' \in Recording /\ total' \in Nat
      /\ rec'.nodes = Append(rec.nodes, m) /\ file' = rec'.nodes
      /\ rec'.pending = IF m.id # 0 THEN rec.pending \cup {m.id} ELSE rec.pending
      /\ Rows(rec') = 1 .. Len(rec.nodes) + 1
      /\ \A i \in Rows(rec) : rec'.nodes[i] = rec.nodes[i]
      /\ rec'.nodes[Len(rec.nodes) + 1] = m
  BY <1>1, InsertSpec
<1>5. s \in Signal
  BY <1>1 DEF Signal, Status
<1> HIDE DEF s
<1>6. TypeOK'
  <2>1. file' \in Seq(Message)
    BY <1>4 DEF Recording
  <2>2. daemon' \in [Payload -> Status] /\ signals' \in Seq(Signal)
    BY <1>1, <1>3, <1>5 DEF TypeOK, Status
  <2> QED BY <1>1, <1>3, <1>4, <2>1, <2>2 DEF TypeOK
<1>7. FileAgrees' /\ DownIsEmpty'
  BY <1>1, <1>4 DEF FileAgrees, DownIsEmpty
<1>8. Rows(rec) = 1 .. Len(rec.nodes) /\ Len(rec.nodes) \in Nat
  BY <1>3, RecordingType
<1>9. \A i \in Rows(rec') : i \in Rows(rec) \/ i = Len(rec.nodes) + 1
  BY <1>4, <1>8
<1>10. \A id \in Payload, status \in Status : Queued(id, status) => Queued(id, status)'
  BY <1>1, <1>3, <1>5 DEF Queued, TypeOK
<1>11. NoStatusMissed'
  <2>1. ASSUME NEW i \in Rows(rec)
        PROVE  Known(i, rec', daemon', signals')
    <3>1. Known(i, rec, daemon, signals) /\ rec'.nodes[i] = rec.nodes[i]
      BY <1>3, <1>4, KnownIsNoStatusMissed
    <3>2. rec.nodes[i].id \in Payload \cup {0}
      BY <1>3, RecordingType DEF Message
    <3>3. \A id \in Payload : daemon[id] \in Status
                             /\ (daemon'[id] \in Final => daemon'[id] = daemon[id])
      BY <1>1, <1>3 DEF TypeOK, Final
    <3>4. \A id \in Payload : id \in rec.pending => id \in rec'.pending
      BY <1>4
    <3> QED BY <1>10, <3>1, <3>2, <3>3, <3>4 DEF Known, Queued
  <2>2. Known(Len(rec.nodes) + 1, rec', daemon', signals')
    <3>1. daemon'[n] = "SENDING" \/ ~accepted
      BY <1>1, <1>3 DEF TypeOK
    <3> QED BY <1>2, <1>4, <3>1 DEF Known, Final
  <2> QED BY <1>9, <2>1, <2>2, KnownIsNoStatusMissed
<1>12. AllEnded'
  <2>1. \A i \in Rows(rec') : Ended(rec'.nodes[i])
    BY <1>2, <1>3, <1>4, <1>9 DEF AllEnded, Ended
  <2>2. DOMAIN file' = Rows(rec')
    BY <1>4 DEF Rows
  <2> QED BY <1>4, <2>1, <2>2 DEF AllEnded, Ended
<1> QED BY <1>6, <1>7, <1>11, <1>12 DEF IInv

LEMMA SetReadOK ==
  ASSUME IInv, NEW i \in Rows(rec), SetRead(i)
  PROVE  IInv'
<1> DEFINE m == rec.nodes[i]
           count == IF m.isRead THEN 1 ELSE -1
           unread == IF m.text THEN rec.unread + count ELSE rec.unread
           nodes == [rec.nodes EXCEPT ![i].isRead = ~@]
<1>1. TypeOK /\ FileAgrees /\ AllEnded
  BY DEF IInv
<1>2. nodes \in Seq(Message) /\ unread \in Int /\ DOMAIN nodes = Rows(rec) /\ nodes # <<>>
  <2>1. [m EXCEPT !.isRead = ~@] \in Message
    BY <1>1, RecordingType DEF Message
  <2>2. nodes = [rec.nodes EXCEPT ![i] = [m EXCEPT !.isRead = ~@]]
    BY <1>1, RecordingType
  <2>3. nodes \in Seq(Message) /\ DOMAIN nodes = Rows(rec)
    <3> HIDE DEF nodes, m
    <3> QED BY <1>1, <2>1, <2>2, RecordingType DEF Rows
  <2>4. unread \in Int
    BY <1>1, RecordingType
  <2> HIDE DEF nodes, unread
  <2> QED BY <2>3, <2>4
<1>3. \A j \in Rows(rec) : nodes[j].id = rec.nodes[j].id /\ nodes[j].status = rec.nodes[j].status
  BY <1>1, RecordingType DEF Message
<1>4. rec' = [rec EXCEPT !.nodes = nodes, !.unread = unread]
  BY <1>1 DEF SetRead, TypeOK, Recording
<1> HIDE DEF unread, nodes
<1>5. rec' \in Recording /\ rec'.nodes = nodes /\ rec'.pending = rec.pending /\ Rows(rec') = Rows(rec)
  BY <1>1, <1>2, <1>4 DEF TypeOK, Recording, Rows
<1>6. file' = rec'.nodes
  BY <1>2, <1>4, <1>5 DEF SetRead, save
<1>7. total' \in Nat
  BY <1>1, UnreadCountIsNat DEF SetRead, TypeOK
<1>8. TypeOK' /\ FileAgrees' /\ DownIsEmpty'
  BY <1>1, <1>2, <1>5, <1>6, <1>7 DEF SetRead, TypeOK, FileAgrees, DownIsEmpty
<1>9. NoStatusMissed' /\ AllEnded'
  BY <1>3, <1>5, <1>6, SameMessages DEF SetRead
<1> QED BY <1>8, <1>9 DEF IInv

LEMMA setAllReadOK ==
  ASSUME IInv, setAllRead
  PROVE  IInv'
<1> DEFINE nodes == [i \in Rows(rec) |-> [rec.nodes[i] EXCEPT !.isRead = TRUE]]
<1>1. TypeOK /\ FileAgrees /\ AllEnded /\ rec \in Recording
  BY DEF IInv, TypeOK
<1>2. \A i \in Rows(rec) : /\ nodes[i] \in Message
                           /\ nodes[i].id = rec.nodes[i].id
                           /\ nodes[i].status = rec.nodes[i].status
  BY <1>1, RecordingType DEF Message
<1>3. rec' = [rec EXCEPT !.nodes = nodes, !.unread = 0]
  BY DEF setAllRead
<1>4. nodes = [i \in DOMAIN rec.nodes |-> nodes[i]]
  BY DEF Rows
<1> HIDE DEF nodes
<1>5. nodes \in Seq(Message) /\ DOMAIN nodes = Rows(rec) /\ nodes # <<>>
  <2>1. rec.nodes \in Seq(Message) /\ DOMAIN rec.nodes = Rows(rec) /\ rec.nodes # <<>>
    BY <1>1, RecordingType DEF Rows, setAllRead
  <2>2. \A i \in DOMAIN rec.nodes : nodes[i] \in Message
    BY <1>2, <2>1
  <2> HIDE <1>2
  <2> QED BY <1>4, <2>1, <2>2, Mapped
<1>6. rec' \in Recording /\ rec'.nodes = nodes /\ rec'.pending = rec.pending /\ Rows(rec') = Rows(rec)
  <2>1. rec' \in Recording /\ rec'.nodes = nodes /\ rec'.pending = rec.pending
    <3> DEFINE unread == 0
    <3>1. unread \in Int /\ rec' = [rec EXCEPT !.nodes = nodes, !.unread = unread]
      BY <1>3
    <3> HIDE DEF unread
    <3> QED BY <1>1, <1>5, <3>1 DEF Recording
  <2> QED BY <1>5, <2>1 DEF Rows
<1>7. file' = rec'.nodes
  BY <1>3, <1>5, <1>6 DEF setAllRead, save, nodes
<1>8. total' \in Nat
  <2>1. -rec.unread \in Int /\ updateUnreadCount(-rec.unread)
    BY <1>1, RecordingType DEF setAllRead
  <2> QED BY <1>1, <2>1, UnreadCountIsNat
<1>9. TypeOK' /\ FileAgrees' /\ DownIsEmpty'
  BY <1>1, <1>5, <1>6, <1>7, <1>8 DEF setAllRead, TypeOK, FileAgrees, DownIsEmpty
<1>10. NoStatusMissed' /\ AllEnded'
  BY <1>2, <1>6, <1>7, SameMessages DEF setAllRead
<1> QED BY <1>9, <1>10 DEF IInv

\* What clear() leaves of what was loaded.
LEMMA NoMessages ==
  ASSUME TypeOK, up, rec' \in Recording, Rows(rec') = {}, file' = <<>>,
         UNCHANGED <<up, total, written, daemon, signals>>
  PROVE  IInv'
<1>1. NoStatusMissed' /\ AllEnded'
  BY DEF NoStatusMissed, AllEnded
<1>2. TypeOK' /\ FileAgrees' /\ DownIsEmpty'
  BY DEF TypeOK, FileAgrees, DownIsEmpty
<1> QED BY <1>1, <1>2 DEF IInv

LEMMA clearOK ==
  ASSUME IInv, clear
  PROVE  IInv'
<1>1. TypeOK /\ FileAgrees /\ NoStatusMissed /\ AllEnded /\ rec \in Recording
  BY DEF IInv, TypeOK
<1>2. /\ up /\ file' = <<>> /\ UNCHANGED <<up, total, written, daemon, signals>>
      /\ rec' = IF rec.connected THEN [rec EXCEPT !.nodes = <<>>, !.unread = 0] ELSE rec
  BY DEF clear
<1>3. CASE ~rec.connected
  <2>1. UNCHANGED rec
    BY <1>2, <1>3
  <2>2. NoStatusMissed'
    BY <1>1, <1>2, <2>1 DEF NoStatusMissed, Queued
  <2>3. AllEnded'
    <3>1. DOMAIN file' = {}
      BY <1>2
    <3> QED BY <1>1, <2>1, <3>1 DEF AllEnded, Rows
  <2>4. TypeOK' /\ FileAgrees' /\ DownIsEmpty'
    BY <1>1, <1>2, <2>1 DEF TypeOK, FileAgrees, DownIsEmpty
  <2> QED BY <2>2, <2>3, <2>4 DEF IInv
<1>4. CASE rec.connected
  <2>1. rec' = [rec EXCEPT !.nodes = <<>>, !.unread = 0] /\ <<>> \in Seq(Message)
    BY <1>2, <1>4
  <2>2. rec' \in Recording /\ rec'.nodes = <<>>
    <3> DEFINE unread == 0
               nodes == <<>>
    <3>1. unread \in Int /\ nodes \in Seq(Message)
          /\ rec' = [rec EXCEPT !.nodes = nodes, !.unread = unread]
      BY <2>1
    <3>2. nodes = <<>>
      OBVIOUS
    <3> HIDE DEF nodes, unread
    <3> QED BY <1>1, <3>1, <3>2 DEF Recording
  <2>3. Rows(rec') = {}
    BY <2>2 DEF Rows
  <2> QED BY <1>1, <1>2, <2>2, <2>3, NoMessages
<1> QED BY <1>3, <1>4

LEMMA ProgressOK ==
  ASSUME IInv, NEW n \in Payload, NEW status \in {"SENT", "FAILURE"}, Progress(n, status)
  PROVE  IInv'
<1> DEFINE s == [id |-> n, status |-> status]
<1>1. TypeOK /\ FileAgrees /\ NoStatusMissed /\ AllEnded /\ DownIsEmpty
  BY DEF IInv
<1>2. /\ daemon' = [daemon EXCEPT ![n] = status] /\ status \in Status /\ s \in Signal
      /\ signals' = IF up THEN Append(signals, s) ELSE signals
      /\ UNCHANGED <<up, rec, total, file, written>>
  BY DEF Progress, Status, Signal
<1>3. TypeOK' /\ FileAgrees' /\ AllEnded' /\ DownIsEmpty'
  BY <1>1, <1>2 DEF TypeOK, FileAgrees, AllEnded, DownIsEmpty
<1>4. CASE ~up
  BY <1>1, <1>2, <1>3, <1>4, EmptyRecording, KnownIsNoStatusMissed DEF IInv, DownIsEmpty
<1>5. CASE up
  <2> SUFFICES ASSUME NEW i \in Rows(rec)
               PROVE  Known(i, rec, daemon', signals')
    BY <1>2, <1>3, KnownIsNoStatusMissed DEF IInv
  <2>1. Known(i, rec, daemon, signals) /\ rec.nodes[i].id \in Payload \cup {0}
    BY <1>1, KnownIsNoStatusMissed, RecordingType DEF Message
  <2>2. signals' = Append(signals, s) /\ signals \in Seq(Signal) /\ daemon \in [Payload -> Status]
    BY <1>1, <1>2, <1>5 DEF TypeOK
  <2>3. Len(signals) + 1 \in DOMAIN signals' /\ signals'[Len(signals) + 1] = s
    BY <1>2, <2>2
  <2>4. \A k \in DOMAIN signals : k \in DOMAIN signals' /\ signals'[k] = signals[k]
    BY <1>2, <2>2
  <2>5. CASE rec.nodes[i].id = n
    BY <1>2, <2>1, <2>2, <2>3, <2>5 DEF Known
  <2>6. CASE rec.nodes[i].id # n
    <3>1. rec.nodes[i].id # 0 => daemon'[rec.nodes[i].id] = daemon[rec.nodes[i].id]
      BY <1>2, <2>1, <2>2, <2>6
    <3> QED BY <2>1, <2>4, <3>1 DEF Known
  <2> QED BY <2>5, <2>6
<1> QED BY <1>4, <1>5

LEMMA DaemonRestartOK ==
  ASSUME IInv, DaemonRestart
  PROVE  IInv'
<1>1. TypeOK /\ FileAgrees /\ NoStatusMissed /\ AllEnded /\ DownIsEmpty
  BY DEF IInv
<1>2. /\ daemon' = [k \in Payload |-> "UNKNOWN"] /\ UNCHANGED <<up, rec, total, file, written, signals>>
      /\ "UNKNOWN" \in Status /\ "UNKNOWN" \notin Final
  BY DEF DaemonRestart, Status, Final
<1>3. \A i \in Rows(rec) : Known(i, rec, daemon', signals')
  <2> SUFFICES ASSUME NEW i \in Rows(rec)
               PROVE  Known(i, rec, daemon', signals')
    OBVIOUS
  <2>1. Known(i, rec, daemon, signals) /\ rec.nodes[i].id \in Payload \cup {0}
    BY <1>1, KnownIsNoStatusMissed, RecordingType DEF Message
  <2> QED BY <1>2, <2>1 DEF Known
<1>4. NoStatusMissed'
  BY <1>2, <1>3, KnownIsNoStatusMissed
<1> QED BY <1>1, <1>2, <1>4 DEF IInv, TypeOK, FileAgrees, AllEnded, DownIsEmpty

LEMMA StoppedOK ==
  ASSUME IInv, Stopped, UNCHANGED <<file, written, daemon>>
  PROVE  IInv'
<1>1. TypeOK /\ AllEnded
  BY DEF IInv
<1>2. up' = FALSE /\ rec' = NewRecording /\ total' = 0 /\ signals' = <<>>
  BY DEF Stopped
<1>3. Rows(rec') = {} /\ rec' \in Recording
  BY <1>2, EmptyRecording
<1>4. total' \in Nat /\ signals' \in Seq(Signal)
  BY <1>2
<1>5. TypeOK' /\ FileAgrees' /\ DownIsEmpty'
  BY <1>1, <1>2, <1>3, <1>4 DEF TypeOK, FileAgrees, DownIsEmpty
<1>6. AllEnded' /\ NoStatusMissed'
  BY <1>1, <1>3 DEF AllEnded, NoStatusMissed
<1> QED BY <1>5, <1>6 DEF IInv

LEMMA DeliverOK ==
  ASSUME IInv, Deliver
  PROVE  IInv'
<1> DEFINE s == Head(signals)
           Updated(m) == IF m.id = s.id THEN updateMessageStatus(m, s.status) ELSE m
           nodes == [i \in Rows(rec) |-> Updated(rec.nodes[i])]
           pending == StillPending(rec.pending, s.id, s.status)
<1>1. TypeOK /\ FileAgrees /\ NoStatusMissed /\ AllEnded /\ rec \in Recording
  BY DEF IInv, TypeOK
<1>2. /\ up /\ signals # <<>> /\ StatusOf(s) /\ signals' = Tail(signals)
      /\ UNCHANGED <<up, total, written, daemon>>
  BY DEF Deliver
<1>3. /\ s \in Signal /\ signals' \in Seq(Signal) /\ s.id \in Payload /\ s.id # 0 /\ s.status \in Status
      /\ \A k \in DOMAIN signals : signals[k] # s => \E l \in DOMAIN signals' : signals'[l] = signals[k]
  <2>1. signals \in Seq(Signal) /\ signals # <<>>
    BY <1>1, <1>2 DEF TypeOK
  <2>2. s \in Signal /\ s = signals[1] /\ signals' \in Seq(Signal)
    BY <1>2, <2>1
  <2>3. ASSUME NEW k \in DOMAIN signals, signals[k] # s
        PROVE  k - 1 \in DOMAIN signals' /\ signals'[k - 1] = signals[k]
    BY <1>2, <2>1, <2>2, <2>3
  <2> QED BY <2>2, <2>3, TextRecordingAssumption DEF Signal, Payload
<1> HIDE DEF s
<1>4. ASSUME s.id \notin rec.pending
      PROVE  IInv'
  <2>1. UNCHANGED <<rec, file>>
    BY <1>2, <1>4 DEF StatusOf
  <2>2. TypeOK' /\ FileAgrees' /\ AllEnded' /\ DownIsEmpty'
    BY <1>1, <1>2, <1>3, <2>1 DEF TypeOK, FileAgrees, AllEnded, DownIsEmpty
  <2>3. \A i \in Rows(rec) : Known(i, rec, daemon, signals')
    <3> SUFFICES ASSUME NEW i \in Rows(rec)
                 PROVE  Known(i, rec, daemon, signals')
      OBVIOUS
    <3>1. Known(i, rec, daemon, signals)
      BY <1>1, KnownIsNoStatusMissed
    <3> QED BY <1>3, <1>4, <3>1 DEF Known
  <2>4. NoStatusMissed'
    BY <1>2, <2>1, <2>3, KnownIsNoStatusMissed
  <2> QED BY <2>2, <2>4 DEF IInv
<1>5. ASSUME s.id \in rec.pending
      PROVE  IInv'
  <2>1. rec' = [rec EXCEPT !.nodes = nodes, !.pending = pending] /\ save(rec')
    BY <1>2, <1>5 DEF StatusOf
  <2>2. \A i \in Rows(rec) :
          /\ Updated(rec.nodes[i]) \in Message /\ Ended(Updated(rec.nodes[i]))
          /\ Updated(rec.nodes[i]).id \in {0, rec.nodes[i].id}
          /\ rec.nodes[i].id = s.id /\ s.status \in Final => Updated(rec.nodes[i]).id = 0
    BY <1>1, <1>3, RecordingType, UpdateIsMessage DEF AllEnded
  <2>3. pending \in SUBSET Payload
        /\ \A id \in rec.pending : id \notin pending => id = s.id /\ s.status \in Final
    BY <1>1, RecordingType DEF StillPending
  <2> HIDE DEF Updated, pending
  <2>4. \A i \in Rows(rec) : nodes[i] = Updated(rec.nodes[i])
    OBVIOUS
  <2>5. nodes = [i \in DOMAIN rec.nodes |-> nodes[i]]
    BY DEF Rows
  <2> HIDE DEF nodes
  <2>6. nodes \in Seq(Message) /\ DOMAIN nodes = Rows(rec)
    <3>1. rec.nodes \in Seq(Message) /\ DOMAIN rec.nodes = Rows(rec)
      BY <1>1, RecordingType DEF Rows
    <3>2. \A i \in DOMAIN rec.nodes : nodes[i] \in Message
      BY <2>2, <2>4, <3>1
    <3> QED BY <2>5, <3>1, <3>2, Mapped
  <2>7. rec' \in Recording /\ rec'.nodes = nodes /\ rec'.pending = pending
    BY <1>1, <2>1, <2>3, <2>6 DEF Recording
  <2>8. Rows(rec') = Rows(rec)
    BY <2>6, <2>7 DEF Rows
  <2>9. file' = rec'.nodes \/ (rec'.nodes = <<>> /\ file' = file)
    BY <2>1 DEF save
  <2>10. TypeOK'
    <3>1. file' \in Seq(Message)
      BY <1>1, <2>6, <2>7, <2>9 DEF TypeOK
    <3> QED BY <1>1, <1>2, <1>3, <2>7, <3>1 DEF TypeOK
  <2>11. FileAgrees' /\ DownIsEmpty'
    <3>1. rec'.nodes = <<>> => rec.nodes = <<>>
      <4>1. rec'.nodes = <<>> => Rows(rec') = {}
        BY DEF Rows
      <4> QED BY <1>1, <2>8, <4>1, RecordingType
    <3> QED BY <1>1, <1>2, <2>9, <3>1 DEF FileAgrees, DownIsEmpty
  <2>12. AllEnded'
    <3>1. \A i \in Rows(rec') : Ended(rec'.nodes[i])
      BY <2>2, <2>4, <2>7, <2>8
    <3>2. CASE file' = rec'.nodes
      BY <3>1, <3>2 DEF AllEnded, Rows
    <3>3. CASE rec'.nodes = <<>> /\ file' = file
      BY <1>1, <3>1, <3>3 DEF AllEnded
    <3> QED BY <2>9, <3>2, <3>3
  <2>13. \A i \in Rows(rec) : Known(i, rec', daemon, signals')
    <3> SUFFICES ASSUME NEW i \in Rows(rec)
                 PROVE  Known(i, rec', daemon, signals')
      OBVIOUS
    <3>1. Known(i, rec, daemon, signals)
      BY <1>1, KnownIsNoStatusMissed
    <3>2. CASE rec'.nodes[i].id = 0
      BY <3>2 DEF Known
    <3>3. CASE rec'.nodes[i].id # 0
      <4>1. rec'.nodes[i].id = rec.nodes[i].id
            /\ (rec.nodes[i].id = s.id => s.status \notin Final)
        BY <2>2, <2>4, <2>7, <3>3
      <4>2. rec'.nodes[i].id \in rec'.pending
        BY <2>3, <2>7, <3>1, <3>3, <4>1 DEF Known
      <4>3. ASSUME daemon[rec.nodes[i].id] \in Final
            PROVE  \E l \in DOMAIN signals' :
                     signals'[l] = [id |-> rec.nodes[i].id, status |-> daemon[rec.nodes[i].id]]
        <5>1. PICK k \in DOMAIN signals :
                signals[k] = [id |-> rec.nodes[i].id, status |-> daemon[rec.nodes[i].id]]
          BY <3>1, <3>3, <4>1, <4>3 DEF Known
        <5>2. signals[k] # s
          BY <4>1, <4>3, <5>1
        <5> QED BY <1>3, <5>1, <5>2
      <4> QED BY <4>1, <4>2, <4>3 DEF Known
    <3> QED BY <3>2, <3>3
  <2>14. NoStatusMissed'
    BY <1>2, <2>8, <2>13, KnownIsNoStatusMissed
  <2> QED BY <2>10, <2>11, <2>12, <2>14 DEF IInv
<1> QED BY <1>4, <1>5

LEMMA loadOK ==
  ASSUME IInv, load
  PROVE  IInv'
<1> DEFINE nodes == [i \in DOMAIN file |-> Asked(file[i])]
           pending == {nodes[i].id : i \in DOMAIN file} \ {0}
<1>1. TypeOK /\ AllEnded /\ file \in Seq(Message) /\ daemon \in [Payload -> Status]
  BY DEF IInv, TypeOK
<1>2. /\ up' = TRUE /\ save(rec') /\ UNCHANGED <<total, written, daemon, signals>>
      /\ rec' = IF file = <<>> THEN NewRecording ELSE fromJson
  BY DEF load
<1>3. CASE file = <<>>
  <2>1. rec' \in Recording /\ Rows(rec') = {} /\ file' = <<>> /\ rec'.nodes = <<>>
    BY <1>2, <1>3, EmptyRecording DEF save
  <2>2. TypeOK' /\ FileAgrees' /\ DownIsEmpty'
    BY <1>1, <1>2, <2>1 DEF TypeOK, FileAgrees, DownIsEmpty
  <2>3. NoStatusMissed' /\ AllEnded'
    BY <2>1 DEF NoStatusMissed, AllEnded
  <2> QED BY <2>2, <2>3 DEF IInv
<1>4. CASE file # <<>>
  <2>1. rec' = [connected |-> TRUE, nodes |-> nodes, pending |-> pending, unread |-> 0]
    BY <1>2, <1>4 DEF fromJson
  <2>2. \A i \in DOMAIN file :
          /\ Asked(file[i]) \in Message /\ Ended(Asked(file[i]))
          /\ Asked(file[i]).id # 0 => daemon[Asked(file[i]).id] \notin Final
    <3> SUFFICES ASSUME NEW i \in DOMAIN file
                 PROVE  /\ Asked(file[i]) \in Message /\ Ended(Asked(file[i]))
                        /\ Asked(file[i]).id # 0 => daemon[Asked(file[i]).id] \notin Final
      OBVIOUS
    <3>1. file[i] \in Message /\ Ended(file[i]) /\ file[i].id \in Payload \cup {0}
      <4>1. Ended(file[i])
        BY <1>1 DEF AllEnded
      <4>2. file[i] \in Message
        BY <1>1
      <4> QED BY <4>1, <4>2 DEF Message
    <3>2. CASE file[i].id = 0
      BY <3>1, <3>2 DEF Asked
    <3>3. CASE file[i].id # 0
      <4>1. daemon[file[i].id] \in Status /\ Asked(file[i]) = updateMessageStatus(file[i], daemon[file[i].id])
        BY <1>1, <3>1, <3>3 DEF Asked
      <4> QED BY <3>1, <4>1, UpdateIsMessage
    <3> QED BY <3>2, <3>3
  <2>3. \A i \in DOMAIN file : nodes[i] = Asked(file[i])
    OBVIOUS
  <2> HIDE DEF nodes
  <2>4. nodes \in Seq(Message) /\ DOMAIN nodes = DOMAIN file /\ nodes # <<>>
    <3>1. nodes = [i \in DOMAIN file |-> nodes[i]]
      BY DEF nodes
    <3>2. \A i \in DOMAIN file : nodes[i] \in Message
      BY <2>2, <2>3
    <3> QED BY <1>1, <1>4, <3>1, <3>2, Mapped
  <2>5. pending \subseteq Payload /\ \A i \in DOMAIN file : nodes[i].id # 0 => nodes[i].id \in pending
    BY <2>2, <2>3 DEF Message
  <2> HIDE DEF pending
  <2>6. rec' \in Recording /\ rec'.nodes = nodes /\ rec'.pending = pending
    BY <2>1, <2>4, <2>5 DEF Recording
  <2>7. Rows(rec') = DOMAIN file /\ file' = rec'.nodes /\ DOMAIN file' = DOMAIN file
    BY <1>2, <2>4, <2>6 DEF Rows, save
  <2>8. TypeOK'
    BY <1>1, <1>2, <2>4, <2>6, <2>7 DEF TypeOK
  <2>9. FileAgrees' /\ DownIsEmpty'
    BY <1>2, <2>7 DEF FileAgrees, DownIsEmpty
  <2>10. AllEnded'
    BY <2>2, <2>3, <2>6, <2>7 DEF AllEnded
  <2>11. \A i \in Rows(rec') : Known(i, rec', daemon', signals')
    BY <1>2, <2>2, <2>3, <2>5, <2>6, <2>7 DEF Known
  <2>12. NoStatusMissed'
    BY <2>11, KnownIsNoStatusMissed
  <2> QED BY <2>8, <2>9, <2>10, <2>12 DEF IInv
<1> QED BY <1>3, <1>4

LEMMA StutterOK ==
  ASSUME IInv, UNCHANGED vars
  PROVE  IInv'
<1>1. TypeOK' /\ FileAgrees' /\ AllEnded' /\ DownIsEmpty'
  BY DEF IInv, TypeOK, FileAgrees, AllEnded, DownIsEmpty, vars
<1>2. NoStatusMissed'
  BY DEF IInv, NoStatusMissed, Queued, vars
<1> QED BY <1>1, <1>2 DEF IInv

LEMMA NextOK ==
  ASSUME IInv, [Next]_vars
  PROVE  IInv'
<1>1. ASSUME NEW text \in Texts, Receive(text)
      PROVE  IInv'
  BY <1>1, ReceiveOK
<1>2. ASSUME NEW text \in Texts, NEW accepted \in BOOLEAN, Send(text, accepted)
      PROVE  IInv'
  BY <1>2, SendOK
<1>3. ASSUME NEW i \in Rows(rec), SetRead(i)
      PROVE  IInv'
  BY <1>3, SetReadOK
<1>4. ASSUME NEW n \in Payload, NEW status \in {"SENT", "FAILURE"}, Progress(n, status)
      PROVE  IInv'
  BY <1>4, ProgressOK
<1>5. DeliverDangling \/ Quit => IInv'
  BY StoppedOK DEF DeliverDangling, Quit
<1> QED BY <1>1, <1>2, <1>3, <1>4, <1>5, setAllReadOK, clearOK, DaemonRestartOK, DeliverOK, loadOK,
          StutterOK DEF Next

THEOREM Invariance == Spec => []IInv
<1>1. Init => IInv
  BY InitIInv
<1>2. IInv /\ [Next]_vars => IInv'
  BY NextOK
<1> QED BY <1>1, <1>2, PTL DEF Spec

\* The type invariant, whatever the numbers of messages and signals.
THEOREM TypeCorrect == Spec => []TypeOK
<1>1. IInv => TypeOK
  BY DEF IInv
<1> QED BY <1>1, Invariance, PTL

\* The file is the conversation after every step: wherever the client dies, the
\* next one shows what this one did.
THEOREM FileIsConversation == Spec => []FileAgrees
<1>1. IInv => FileAgrees
  BY DEF IInv
<1> QED BY <1>1, Invariance, PTL

\* No end of a delivery is lost between the daemon's signals and the question
\* that load() asks.
THEOREM NoStatusIsMissed == Spec => []NoStatusMissed
<1>1. IInv => NoStatusMissed
  BY DEF IInv
<1> QED BY <1>1, Invariance, PTL

-----------------------------------------------------------------------------
(* A final status stays.                                                    *)

KeepsFinal == \A i \in DOMAIN file \cap DOMAIN file' :
                file[i].status \in Final => file'[i].status = file[i].status

\* A step that saves rec' keeps the final statuses if it keeps those in memory.
LEMMA SavedKeepsFinal ==
  ASSUME IInv, up, file' \in {file, rec'.nodes},
         \A i \in Rows(rec) \cap Rows(rec') :
           rec.nodes[i].status \in Final => rec'.nodes[i].status = rec.nodes[i].status
  PROVE  KeepsFinal
<1>1. file \in {<<>>, rec.nodes}
  BY DEF IInv, FileAgrees
<1>2. CASE file = <<>>
  BY <1>2 DEF KeepsFinal
<1>3. CASE file = rec.nodes
  BY <1>3 DEF KeepsFinal, Rows
<1> QED BY <1>1, <1>2, <1>3

LEMMA InsertKeepsFinal ==
  ASSUME IInv, up, NEW m \in Message, insertNewMessage(m)
  PROVE  KeepsFinal
BY InsertSpec, SavedKeepsFinal

LEMMA ReadKeepsFinal ==
  ASSUME IInv, \/ setAllRead
               \/ \E i \in Rows(rec) : SetRead(i)
  PROVE  KeepsFinal
<1>1. TypeOK
  BY DEF IInv
<1>2. CASE setAllRead
  <2> DEFINE nodes == [i \in Rows(rec) |-> [rec.nodes[i] EXCEPT !.isRead = TRUE]]
  <2>1. rec' = [rec EXCEPT !.nodes = nodes, !.unread = 0] /\ up /\ save(rec')
    BY <1>2 DEF setAllRead
  <2>2. \A i \in Rows(rec) : nodes[i].status = rec.nodes[i].status
    BY <1>1, RecordingType DEF Message
  <2> HIDE DEF nodes
  <2>3. rec'.nodes = nodes
    BY <1>1, <2>1 DEF TypeOK, Recording
  <2> QED BY <2>1, <2>2, <2>3, SavedKeepsFinal DEF save
<1>3. ASSUME NEW i \in Rows(rec), SetRead(i)
      PROVE  KeepsFinal
  <2> DEFINE unread == IF rec.nodes[i].text
                       THEN rec.unread + (IF rec.nodes[i].isRead THEN 1 ELSE -1) ELSE rec.unread
             nodes == [rec.nodes EXCEPT ![i].isRead = ~@]
  <2>1. rec' = [rec EXCEPT !.nodes = nodes, !.unread = unread] /\ up /\ save(rec')
    BY <1>1, <1>3 DEF SetRead, TypeOK, Recording
  <2>2. \A j \in Rows(rec) : nodes[j].status = rec.nodes[j].status
    BY <1>1, RecordingType DEF Message
  <2> HIDE DEF nodes, unread
  <2>3. rec'.nodes = nodes
    BY <1>1, <2>1 DEF TypeOK, Recording
  <2> QED BY <2>1, <2>2, <2>3, SavedKeepsFinal DEF save
<1> QED BY <1>2, <1>3

LEMMA DeliverKeepsFinal ==
  ASSUME IInv, Deliver
  PROVE  KeepsFinal
<1> DEFINE s == Head(signals)
           Updated(m) == IF m.id = s.id THEN updateMessageStatus(m, s.status) ELSE m
           nodes == [i \in Rows(rec) |-> Updated(rec.nodes[i])]
           pending == StillPending(rec.pending, s.id, s.status)
<1>1. TypeOK /\ AllEnded /\ up /\ StatusOf(s)
  BY DEF IInv, Deliver
<1>2. s.id # 0
  <2>1. signals \in Seq(Signal) /\ signals # <<>>
    BY <1>1 DEF TypeOK, Deliver
  <2>2. s \in Signal
    BY <2>1
  <2> QED BY <2>2, TextRecordingAssumption DEF Signal, Payload
<1> HIDE DEF s
<1>3. CASE s.id \notin rec.pending
  BY <1>1, <1>3 DEF StatusOf, KeepsFinal
<1>4. CASE s.id \in rec.pending
  <2>1. rec' = [rec EXCEPT !.nodes = nodes, !.pending = pending] /\ save(rec')
    BY <1>1, <1>4 DEF StatusOf
  <2>2. \A i \in Rows(rec) : rec.nodes[i].status \in Final => Updated(rec.nodes[i]) = rec.nodes[i]
    BY <1>1, <1>2 DEF AllEnded, Ended
  <2> HIDE DEF Updated, pending
  <2>3. \A i \in Rows(rec) : nodes[i] = Updated(rec.nodes[i])
    OBVIOUS
  <2> HIDE DEF nodes
  <2>4. rec'.nodes = nodes
    BY <1>1, <2>1 DEF TypeOK, Recording
  <2> QED BY <1>1, <2>1, <2>2, <2>3, <2>4, SavedKeepsFinal DEF save
<1> QED BY <1>3, <1>4

LEMMA loadKeepsFinal ==
  ASSUME IInv, load
  PROVE  KeepsFinal
<1>1. \A i \in DOMAIN file : file[i].status \in Final => Asked(file[i]) = file[i]
  BY DEF IInv, AllEnded, Ended, Asked
<1>2. CASE file = <<>>
  BY <1>2 DEF KeepsFinal
<1>3. CASE file # <<>>
  <2>1. rec'.nodes = [i \in DOMAIN file |-> Asked(file[i])]
    BY <1>3 DEF load, fromJson
  <2>2. file' = rec'.nodes \/ file' = file
    BY DEF load, save
  <2> QED BY <1>1, <2>1, <2>2 DEF KeepsFinal
<1> QED BY <1>2, <1>3

\* What the daemon has once said of the end of a delivery is never overwritten,
\* in memory or in the file, by a signal that comes late, a restart of the client
\* or a daemon that has forgotten.
THEOREM FinalStays == Spec => FinalStatusStays
<1>1. IInv /\ [Next]_vars => KeepsFinal
  <2> SUFFICES ASSUME IInv, [Next]_vars
               PROVE  KeepsFinal
    OBVIOUS
  <2>1. ASSUME NEW text \in Texts, Receive(text)
        PROVE  KeepsFinal
    <3>1. [payload |-> written + 1, out |-> FALSE, text |-> text, isRead |-> FALSE, id |-> 0,
           status |-> "UNKNOWN"] \in Message
      BY <2>1, TextRecordingAssumption DEF Receive, Room, Message, Payload, Status, IInv, TypeOK
    <3> QED BY <2>1, <3>1, InsertKeepsFinal DEF Receive
  <2>2. ASSUME NEW text \in Texts, NEW accepted \in BOOLEAN, Send(text, accepted)
        PROVE  KeepsFinal
    <3>1. [payload |-> written + 1, out |-> TRUE, text |-> text, isRead |-> TRUE,
           id |-> IF accepted THEN written + 1 ELSE 0, status |-> "UNKNOWN"] \in Message
      BY <2>2, TextRecordingAssumption DEF Send, Room, Message, Payload, Status, IInv, TypeOK
    <3> QED BY <2>2, <3>1, InsertKeepsFinal DEF Send
  <2>3. clear => KeepsFinal
    BY DEF clear, KeepsFinal
  <2>4. ASSUME UNCHANGED file
        PROVE  KeepsFinal
    BY <2>4 DEF KeepsFinal
  <2>5. ASSUME NEW n \in Payload, NEW status \in {"SENT", "FAILURE"}, Progress(n, status)
        PROVE  UNCHANGED file
    BY <2>5 DEF Progress
  <2>6. DaemonRestart \/ DeliverDangling \/ Quit \/ UNCHANGED vars => UNCHANGED file
    BY DEF DaemonRestart, DeliverDangling, Quit, vars
  <2> QED BY <2>1, <2>2, <2>3, <2>4, <2>5, <2>6, ReadKeepsFinal, DeliverKeepsFinal, loadKeepsFinal
         DEF Next
<1>2. KeepsFinal => [\A i \in DOMAIN file \cap DOMAIN file' :
                       file[i].status \in Final => file'[i].status = file[i].status]_vars
  BY DEF KeepsFinal
<1> QED BY <1>1, <1>2, Invariance, PTL DEF Spec, FinalStatusStays
=============================================================================
