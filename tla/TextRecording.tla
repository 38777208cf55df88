---------------------------- MODULE TextRecording ----------------------------
(***************************************************************************)
(* The text conversation with one peer: Media::TextRecording, the file that *)
(* LocalTextRecordingCollection keeps of it, and the number of unread       *)
(* messages of RecordingModel.  The daemon (external) delivers the messages *)
(* and says in queued signals what became of them; the client may end, also *)
(* by crashing, and start again, and the daemon may forget everything.      *)
(*                                                                          *)
(* The contact method keeps its key (sha1) and is the one that the URI of a *)
(* status signal leads to.                                                  *)
(***************************************************************************)
EXTENDS Sequences, Integers

CONSTANTS
  Texts,       \* may a message have a text: subset of BOOLEAN
  MaxMessages, \* bound: the messages of a behaviour
  MaxSignals   \* bound: the signals the daemon has queued

ASSUME TextRecordingAssumption ==
  Texts \subseteq BOOLEAN /\ MaxMessages \in Nat /\ MaxSignals \in Nat

VARIABLES
  up,      \* the client runs
  rec,     \* the recording, in memory
  total,   \* RecordingModelPrivate::m_UnreadCount
  file,    \* the messages in the file; <<>>: there is no file
  written, \* how many messages there have been
  daemon,  \* daemon[n]: what the daemon has to say of message n
  signals  \* the accountMessageStatusChanged signals in the queue
vars == <<up, rec, total, file, written, daemon, signals>>

Payload == 1 .. MaxMessages
Status == {"UNKNOWN", "SENDING", "SENT", "READ", "FAILURE"}
Final == {"SENT", "READ", "FAILURE"}

\* A message; id is the daemon's name for it, and 0 once nothing more will be
\* heard.  The daemon names the n-th message n.
Message == [payload : Payload, out : BOOLEAN, text : BOOLEAN, isRead : BOOLEAN,
            id : Payload \cup {0}, status : Status]
Signal == [id : Payload, status : Status]

\* connected: the collection has the recording and RecordingModel listens to
\* it, which happens when it is loaded and not when it is created.
Recording == [connected : BOOLEAN, nodes : Seq(Message), pending : SUBSET Payload, unread : Int]
NewRecording == [connected |-> FALSE, nodes |-> <<>>, pending |-> {}, unread |-> 0]

Rows(r) == DOMAIN r.nodes
RowOf(r, id) == {i \in Rows(r) : r.nodes[i].id = id}

-----------------------------------------------------------------------------
(* The functions.                                                           *)

\* save() writes the parts of the conversation; without any there is no file.
save(r) == file' = IF r.nodes = <<>> THEN file ELSE r.nodes

\* Fault: the number of unread messages may become negative.
updateUnreadCount_Unclamped(count) == total' = IF rec.connected THEN total + count ELSE total

\* unreadCountChange(), for what RecordingModel listens to.
updateUnreadCount(count) ==
  total' = IF ~rec.connected THEN total ELSE IF total + count <= 0 THEN 0 ELSE total + count

\* Fault: the message keeps its id.
updateMessageStatus_KeepsId(m, status) == [m EXCEPT !.status = status]

\* updateMessageStatus(), on the message and on m_hPendingMessages.
updateMessageStatus(m, status) ==
  IF status \in Final THEN [m EXCEPT !.id = 0, !.status = status] ELSE [m EXCEPT !.status = status]
\* Fault: nothing more is expected after any status.
StillPending_Never(pending, id, status) == pending \ {id}
StillPending(pending, id, status) == IF status \in Final THEN pending \ {id} ELSE pending

insertNewMessage(m) ==
  LET r == [rec EXCEPT !.nodes = Append(@, m),
                       !.pending = IF m.id # 0 THEN @ \cup {m.id} ELSE @,
                       !.unread = IF m.isRead THEN @ ELSE @ + 1]
  IN /\ rec' = r
     /\ save(r)
     /\ IF m.isRead THEN UNCHANGED total ELSE updateUnreadCount(1)

\* fromJson(): the daemon is asked about every message that still has an id.
Asked(m) == IF m.id = 0 THEN m ELSE updateMessageStatus(m, daemon[m.id])
\* Fault: the messages of a file are not among the pending ones.
fromJson_NotPending ==
  [connected |-> TRUE, nodes |-> [i \in DOMAIN file |-> Asked(file[i])], pending |-> {}, unread |-> 0]
fromJson ==
  LET nodes == [i \in DOMAIN file |-> Asked(file[i])]
  IN [connected |-> TRUE, nodes |-> nodes,
      pending |-> {nodes[i].id : i \in DOMAIN file} \ {0}, unread |-> 0]

-----------------------------------------------------------------------------
(* The user.                                                                *)

Room == written < MaxMessages /\ Len(signals) < MaxSignals

\* sendOfflineTextMessage(), and Text::send() in a call, which has no id; the
\* daemon may refuse, and then answers with 0.
Send(text, accepted) ==
  LET n == written + 1
  IN /\ up /\ Room
     /\ insertNewMessage([payload |-> n, out |-> TRUE, text |-> text, isRead |-> TRUE,
                          id |-> IF accepted THEN n ELSE 0, status |-> "UNKNOWN"])
     /\ written' = n
     /\ daemon' = [daemon EXCEPT ![n] = IF accepted THEN "SENDING" ELSE @]
     /\ signals' = IF accepted THEN Append(signals, [id |-> n, status |-> "SENDING"]) ELSE signals
     /\ UNCHANGED up

\* InstantMessagingModel::setData(): message i becomes read or unread.
SetRead(i) ==
  LET m == rec.nodes[i]
      count == IF m.isRead THEN 1 ELSE -1
      r == [rec EXCEPT !.nodes[i].isRead = ~@, !.unread = IF m.text THEN @ + count ELSE @]
  IN /\ up
     /\ rec' = r
     /\ save(r)
     /\ IF m.text THEN updateUnreadCount(count) ELSE UNCHANGED total
     /\ UNCHANGED <<up, written, daemon, signals>>

setAllRead ==
  LET r == [rec EXCEPT !.nodes = [i \in Rows(rec) |-> [rec.nodes[i] EXCEPT !.isRead = TRUE]],
                       !.unread = 0]
  IN /\ up
     /\ \E i \in Rows(rec) : ~rec.nodes[i].isRead
     /\ rec' = r
     /\ save(r)
     /\ updateUnreadCount(-rec.unread)
     /\ UNCHANGED <<up, written, daemon, signals>>

\* RecordingModel::clear().  What was not loaded keeps its messages; what was
\* loaded loses them, and m_hPendingMessages keeps pointers to them.
clear ==
  /\ up
  /\ rec' = IF rec.connected THEN [rec EXCEPT !.nodes = <<>>, !.unread = 0] ELSE rec
  /\ file' = <<>>
  /\ UNCHANGED <<up, total, written, daemon, signals>>

-----------------------------------------------------------------------------
(* The daemon.                                                              *)

\* An incoming message (newAccountMessage(), newMessage()).
Receive(text) ==
  LET n == written + 1
  IN /\ up /\ Room
     /\ insertNewMessage([payload |-> n, out |-> FALSE, text |-> text, isRead |-> FALSE,
                          id |-> 0, status |-> "UNKNOWN"])
     /\ written' = n
     /\ UNCHANGED <<up, daemon, signals>>

\* The delivery of message n ends; a client that is not there is not told.
Progress(n, status) ==
  /\ daemon[n] = "SENDING"
  /\ Len(signals) < MaxSignals
  /\ daemon' = [daemon EXCEPT ![n] = status]
  /\ signals' = IF up THEN Append(signals, [id |-> n, status |-> status]) ELSE signals
  /\ UNCHANGED <<up, rec, total, file, written>>

DaemonRestart ==
  /\ daemon' = [n \in Payload |-> "UNKNOWN"]
  /\ UNCHANGED <<up, rec, total, file, written, signals>>

-----------------------------------------------------------------------------
(* The signals, and the life of the client.                                 *)

Stopped == up' = FALSE /\ rec' = NewRecording /\ total' = 0 /\ signals' = <<>>

\* Fault: the status is not saved.
StatusOf_NotSaved(s) ==
  /\ UNCHANGED file
  /\ rec' = [rec EXCEPT !.pending = StillPending(@, s.id, s.status),
                        !.nodes = [i \in Rows(rec) |-> IF @[i].id = s.id
                                     THEN updateMessageStatus(@[i], s.status) ELSE @[i]]]

\* accountMessageStatusChanged()
StatusOf(s) ==
  LET Updated(m) == IF m.id = s.id THEN updateMessageStatus(m, s.status) ELSE m
      r == [rec EXCEPT !.nodes = [i \in Rows(rec) |-> Updated(rec.nodes[i])],
                       !.pending = StillPending(@, s.id, s.status)]
  IN IF s.id \in rec.pending
     THEN rec' = r /\ save(r)
     ELSE UNCHANGED <<rec, file>>
Deliver ==
  /\ up /\ signals # <<>>
  /\ StatusOf(Head(signals))
  /\ signals' = Tail(signals)
  /\ UNCHANGED <<up, total, written, daemon>>

\* The signal is about a message that clear() has deleted: what the client then
\* reads is no longer there.  Deliver is the case in which nobody notices.
DeliverDangling ==
  /\ up /\ signals # <<>>
  /\ Head(signals).id \in rec.pending /\ RowOf(rec, Head(signals).id) = {}
  /\ Stopped
  /\ UNCHANGED <<file, written, daemon>>

\* The client ends, or crashes, between two steps.
Quit ==
  /\ up
  /\ Stopped
  /\ UNCHANGED <<file, written, daemon>>

\* LocalTextRecordingCollection::load()
load ==
  /\ ~up
  /\ up' = TRUE
  /\ rec' = IF file = <<>> THEN NewRecording ELSE fromJson
  /\ save(rec')
  /\ UNCHANGED <<total, written, daemon, signals>>

-----------------------------------------------------------------------------
Init ==
  /\ up = TRUE /\ rec = NewRecording /\ total = 0 /\ file = <<>> /\ written = 0
  /\ daemon = [n \in Payload |-> "UNKNOWN"] /\ signals = <<>>

Next ==
  \/ \E text \in Texts : Receive(text) \/ \E accepted \in BOOLEAN : Send(text, accepted)
  \/ \E i \in Rows(rec) : SetRead(i)
  \/ setAllRead \/ clear
  \/ \E n \in Payload, status \in {"SENT", "FAILURE"} : Progress(n, status)
  \/ DaemonRestart
  \/ Deliver \/ DeliverDangling \/ Quit \/ load

Spec == Init /\ [][Next]_vars
FairSpec == Spec /\ WF_vars(Deliver)

-----------------------------------------------------------------------------
(* Properties.                                                              *)

TypeOK ==
  /\ up \in BOOLEAN /\ rec \in Recording /\ total \in Nat /\ file \in Seq(Message)
  /\ written \in 0 .. MaxMessages /\ daemon \in [Payload -> Status] /\ signals \in Seq(Signal)

\* The file is the conversation, after every step (each function that changes a
\* message ends in save()): whatever the moment the client dies, the next one
\* shows what this one did.  A file that clear() removed may be missing.
FileAgrees == up => file \in {<<>>, rec.nodes}

\* What the daemon knows of the end of a delivery is on its way (fromJson() and
\* accountMessageStatusChanged()): a message that still has an id is among the
\* pending ones, and if its delivery has ended the signal is in the queue.  A
\* signal that came while no client ran is made good by load().
Queued(id, status) == \E k \in DOMAIN signals : signals[k] = [id |-> id, status |-> status]
NoStatusMissed ==
  \A i \in Rows(rec) : LET id == rec.nodes[i].id
                       IN id # 0 => /\ id \in rec.pending
                                    /\ daemon[id] \in Final => Queued(id, daemon[id])

\* A delivery status that is final stays, whatever late signal, restart of the
\* client or answer of a daemon that has forgotten the message follows
\* (updateMessageStatus()).
FinalStatusStays ==
  [][\A i \in DOMAIN file \cap DOMAIN file' :
       file[i].status \in Final => file'[i].status = file[i].status]_vars

\* The end of a delivery reaches the file, unless the client ends, the daemon
\* forgets or the user clears the conversation.
StatusCatchesUp ==
  \A n \in Payload, status \in Final :
    (\E i \in Rows(rec) : rec.nodes[i].id = n) /\ daemon[n] = status
      ~> \/ ~up \/ daemon[n] # status
         \/ \A i \in Rows(rec) : rec.nodes[i].payload # n
         \/ \E i \in DOMAIN file : file[i].payload = n /\ file[i].status = status
=============================================================================
