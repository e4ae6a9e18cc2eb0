--------------------------- MODULE MessageDelivery ---------------------------
(***************************************************************************)
(* How the messages of one conversation reach the devices of its           *)
(* participants: ChatGateway's send and connection handlers, the HTTP      *)
(* requests that store a message and tell nobody, the offline queue        *)
(* MessageQueueService keeps in Redis, DeviceSyncService's cursor per      *)
(* device and the status in the messages collection.                       *)
(*                                                                         *)
(* One action per round-trip to Redis or MongoDB: the handlers of all      *)
(* sends and of all connections interleave at every await, and a handler   *)
(* goes on when its socket has dropped.  Messages are numbered in the      *)
(* order of createdAt, sockets in that of their connection.  A cursor is   *)
(* the number of the last message created before it was taken: a message   *)
(* and a cursor of the same millisecond are told apart.                    *)
(***************************************************************************)
EXTENDS Integers, FiniteSets, SequencesExt

CONSTANTS NumMessages,   \* bound: messages sent
          NumUsers,      \* participants other than the sender
          Device,
          Owner,         \* the user of a device
          NumSockets,    \* bound: connections opened
          DeviceOf,      \* the device that opens a connection
          SyncLimit,     \* messages a synchronisation reads (50)
          MaxLoad,       \* bound: messages, connections and client events together
          MaxFaults      \* bound: commands that fail and restarts of the server

Message == 1 .. NumMessages
User    == 1 .. NumUsers
Socket  == 1 .. NumSockets

ASSUME DeliveryAssumption ==
  /\ NumMessages \in Nat /\ NumUsers \in Nat /\ NumSockets \in Nat
  /\ Owner \in [Device -> User] /\ DeviceOf \in [Socket -> Device]
  /\ SyncLimit \in Nat
  /\ MaxLoad \in Nat /\ MaxFaults \in Nat

VARIABLES
  stamped, status,            \* the last createdAt given out; messages collection
  queue,                      \* offline_queue:{userId}, a Redis list
  cursor,                     \* device_sync:{deviceId}.lastMessageSync
  alive, wire,                \* sockets that are up, packets on their way
  joined, online,             \* room of the conversation, connectedUsers
  conn, loc,                  \* handleConnection, per socket
  send, next,                 \* per message: who sends it, and how far that is
  acks, removing,             \* ack callbacks and confirmations being served
  received,                   \* per device: what the client has got
  lost,                       \* history, per device: see Unreached, Overtaken
  late,                       \* history: in the room by join_conversations only
  events, faults

db      == <<stamped, status>>
redis   == <<queue, cursor>>
network == <<alive, wire, received, lost>>
rooms   == <<joined, online, late>>
connection == <<conn, loc>>
sending == <<send, next>>
replies == <<acks, removing>>
bounds  == <<events, faults>>
vars == <<db, redis, network, rooms, connection, sending, replies, bounds>>

-----------------------------------------------------------------------------
ConnLabel == {"unused", "register", "rooms", "batch", "confirm", "mark", "clear",
              "since", "fetch", "emit", "cursor", "presence", "done"}
SendLabel == {"new", "save", "announce", "participants", "check", "push", "done",
              "store", "stored"}
\* The order of the messages of a packet tells nothing apart.
Packet == [kind : {"message", "batch", "sync"}, msgs : SUBSET Message]
Locals == [queued : Seq(Message), since : 0 .. NumMessages, now : 0 .. NumMessages,
           fetched : SUBSET Message, missing : SUBSET Message,
           unsaved : SUBSET Message]  \* history: not in the collection when queried
NoLocals == [queued |-> <<>>, since |-> 0, now |-> 0, fetched |-> {}, missing |-> {},
             unsaved |-> {}]

(* Type correctness of the stores, the sockets and the handlers. *)
TypeOK ==
  /\ stamped \in 0 .. NumMessages
  /\ status \in [Message -> {"none", "SENT", "DELIVERED", "READ"}]
  /\ queue \in [User -> Seq(Message)]
  /\ cursor \in [Device -> 0 .. NumMessages]
  /\ alive \in SUBSET Socket /\ wire \in [Socket -> Seq(Packet)]
  /\ received \in [Device -> SUBSET Message] /\ lost \in [Device -> SUBSET Message]
  /\ joined \in SUBSET Socket /\ online \in SUBSET Socket /\ late \in SUBSET joined
  /\ conn \in [Socket -> ConnLabel] /\ loc \in [Socket -> Locals]
  /\ send \in [Message -> SendLabel] /\ next \in [Message -> 1 .. NumUsers + 1]
  /\ acks \in SUBSET Socket /\ removing \in SUBSET (User \X Message)
  /\ events \in 0 .. MaxLoad /\ faults \in 0 .. MaxFaults

Init ==
  /\ stamped = 0 /\ status = [m \in Message |-> "none"]
  /\ queue = [u \in User |-> <<>>] /\ cursor = [d \in Device |-> 0]
  /\ alive = {} /\ wire = [s \in Socket |-> <<>>]
  /\ received = [d \in Device |-> {}] /\ lost = [d \in Device |-> {}]
  /\ joined = {} /\ online = {} /\ late = {}
  /\ conn = [s \in Socket |-> "unused"] /\ loc = [s \in Socket |-> NoLocals]
  /\ send = [m \in Message |-> "new"] /\ next = [m \in Message |-> 1]
  /\ acks = {} /\ removing = {}
  /\ events = 0 /\ faults = 0

Saved      == {m \in Message : status[m] # "none"}
SocketsOf(d) == {s \in Socket : DeviceOf[s] = d}
UserOf(s)  == Owner[DeviceOf[s]]
InFlight(s) == UNION {wire[s][i].msgs : i \in DOMAIN wire[s]}

Fault == /\ faults < MaxFaults
         /\ faults' = faults + 1
         /\ UNCHANGED events

Opened == {s \in Socket : conn[s] # "unused"}
MayAct == stamped + Cardinality(Opened) + events < MaxLoad

Event == MayAct /\ events' = events + 1

At(s, l)   == conn[s] = l
Goto(s, l) == conn' = [conn EXCEPT ![s] = l]
Continue(m, l) == send' = [send EXCEPT ![m] = l]

\* A packet written to a socket that has dropped goes nowhere.
Emit(s, packet) == IF s \in alive THEN [wire EXCEPT ![s] = Append(@, packet)] ELSE wire

(* Unreached is what a device can no longer count on when a connection or   *)
(* an announcement fails: messages its cursor, or the cursor a handler      *)
(* works from, has passed, and which it has not got.                        *)
Claimed(d) == Max({cursor[d]} \cup {loc[s].since : s \in SocketsOf(d)})
Unreached(d) == (1 .. Claimed(d)) \ received[d]

-----------------------------------------------------------------------------
(* handleSendMessage and the handlers that share files.  The sender's       *)
(* socket is a participant of its own, not modelled: it is excluded from    *)
(* the queue and needs no broadcast.                                        *)

\* messageRepository.create takes createdAt before the document is written.
SendMessage(m) ==
  /\ send[m] = "new" /\ m = stamped + 1
  /\ MayAct
  /\ stamped' = m
  /\ Continue(m, "save")
  /\ UNCHANGED <<status, redis, network, rooms, connection, next, replies, bounds>>

\* The write fails: the sender gets message_error and nothing else happens.
SaveMessage(m) ==
  /\ send[m] = "save"
  /\ \/ /\ status' = [status EXCEPT ![m] = "SENT"]
        /\ Continue(m, "announce")
        /\ UNCHANGED bounds
     \/ /\ Fault
        /\ Continue(m, "done")
        /\ UNCHANGED status
  /\ UNCHANGED <<stamped, redis, network, rooms, connection, next, replies>>

\* Mutant: sockets whose handler has not finished are passed over.
BroadcastToReady(m) ==
  wire' = [s \in Socket |->
             IF s \in alive \cap joined /\ At(s, "done")
             THEN Append(wire[s], [kind |-> "message", msgs |-> {m}]) ELSE wire[s]]

Broadcast(m) ==
  wire' = [s \in Socket |->
             IF s \in alive \cap joined
             THEN Append(wire[s], [kind |-> "message", msgs |-> {m}]) ELSE wire[s]]

\* After the sender's name has been read: new_message to the room.  A file
\* share makes a link to the thumbnail first; when that fails the handler
\* answers with an error and the message stays stored, announced to nobody.
Announce(m) ==
  /\ send[m] = "announce"
  /\ \/ /\ Broadcast(m)
        /\ Continue(m, "participants")
        /\ UNCHANGED <<lost, bounds>>
     \/ /\ Fault
        /\ Continue(m, "stored")
        /\ lost' = [d \in Device |-> lost[d] \cup (Unreached(d) \cap {m})]
        /\ UNCHANGED wire
  /\ UNCHANGED <<db, redis, alive, received, rooms, connection, next, replies>>

\* getConversationParticipants answers [] when the query fails.
GetParticipants(m) ==
  /\ send[m] = "participants"
  /\ \/ Continue(m, "check") /\ UNCHANGED bounds
     \/ Continue(m, "done") /\ Fault
  /\ UNCHANGED <<db, redis, network, rooms, connection, next, replies>>

IsUserOnline(u) == \E s \in online : UserOf(s) = u

\* queueMessageForOfflineParticipants: the participants found online are passed
\* over without an await; the first offline one is queued for after another
\* reading of the sender's name.
CheckParticipants(m) ==
  /\ send[m] = "check"
  /\ LET offline == {u \in User : u >= next[m] /\ ~IsUserOnline(u)}
     IN \/ /\ offline = {}
           /\ Continue(m, "done")
           /\ UNCHANGED next
        \/ /\ offline # {}
           /\ Continue(m, "push")
           /\ next' = [next EXCEPT ![m] = Min(offline)]
  /\ UNCHANGED <<db, redis, network, rooms, connection, replies, bounds>>

\* LPUSH; queueForOfflineUser swallows its errors.
QueueMessage(m) ==
  /\ send[m] = "push"
  /\ \/ queue' = [queue EXCEPT ![next[m]] = <<m>> \o @] /\ UNCHANGED bounds
     \/ UNCHANGED queue /\ Fault
  /\ Continue(m, "check")
  /\ next' = [next EXCEPT ![m] = @ + 1]
  /\ UNCHANGED <<db, cursor, network, rooms, connection, replies>>

(* POST /messages, and POST /messages/:id/forward for each conversation it  *)
(* names: MessagesService.sendMessage alone.  The message is stored; nobody *)
(* listens to the events it emits, so it is neither broadcast nor queued.   *)
PostMessage(m) ==
  /\ send[m] = "new" /\ m = stamped + 1
  /\ MayAct
  /\ stamped' = m
  /\ Continue(m, "store")
  /\ UNCHANGED <<status, redis, network, rooms, connection, next, replies, bounds>>

StoreMessage(m) ==
  /\ send[m] = "store"
  /\ \/ /\ status' = [status EXCEPT ![m] = "SENT"]
        /\ Continue(m, "stored")
        /\ UNCHANGED bounds
     \/ /\ Fault
        /\ Continue(m, "done")
        /\ UNCHANGED status
  /\ UNCHANGED <<stamped, redis, network, rooms, connection, next, replies>>

\* What no broadcast and no queue will bring.
Untold == {m \in Message : send[m] \in {"store", "stored"}}

\* retry_message_delivery: the sender has a saved message broadcast again.
RetryDelivery(m) ==
  /\ m \in Saved
  /\ Event
  /\ Broadcast(m)
  /\ UNCHANGED <<db, redis, alive, received, lost, rooms, connection, sending, replies, faults>>

-----------------------------------------------------------------------------
(* Sockets.  A connection that breaks takes its packets with it.            *)

\* handleDisconnect, up to its first await.
Disconnect(s) ==
  /\ alive' = alive \ {s}
  /\ online' = online \ {s}
  /\ wire' = [wire EXCEPT ![s] = <<>>]
  /\ lost' = [lost EXCEPT ![DeviceOf[s]] = @ \cup Unreached(DeviceOf[s])]
  /\ UNCHANGED <<received, joined, late>>

Drop(s) ==
  /\ s \in alive
  /\ Disconnect(s)
  /\ UNCHANGED <<db, redis, connection, sending, replies, bounds>>

\* The server process ends and starts again: what it kept in memory is gone.
Restart ==
  /\ Fault
  /\ alive' = {} /\ online' = {} /\ joined' = {} /\ late' = {}
  /\ wire' = [s \in Socket |-> <<>>]
  /\ lost' = [d \in Device |-> lost[d] \cup Unreached(d)]
  /\ conn' = [s \in Socket |-> IF s \in Opened THEN "done" ELSE "unused"]
  /\ loc' = [s \in Socket |-> NoLocals]
  /\ send' = [m \in Message |-> IF send[m] \in {"new", "stored"} THEN send[m] ELSE "done"]
  /\ acks' = {} /\ removing' = {}
  /\ UNCHANGED <<db, redis, received, next>>

\* The client takes the next packet; it may acknowledge an offline batch.
Receive(s) ==
  /\ s \in alive /\ wire[s] # <<>>
  /\ wire' = [wire EXCEPT ![s] = Tail(@)]
  /\ received' = [received EXCEPT ![DeviceOf[s]] = @ \cup Head(wire[s]).msgs]
  /\ \/ UNCHANGED <<acks, bounds>>
     \/ /\ Head(wire[s]).kind = "batch"
        /\ acks' = acks \cup {s}
        /\ Event /\ UNCHANGED faults
  /\ UNCHANGED <<db, redis, alive, lost, rooms, connection, sending, removing>>

-----------------------------------------------------------------------------
(* handleConnection, from the authenticated handshake on.                   *)

Connect(s) ==
  /\ s \notin Opened /\ s - 1 \in Opened \cup {0}
  /\ MayAct
  /\ alive' = alive \cup {s}
  /\ Goto(s, "register")
  /\ UNCHANGED <<db, redis, wire, received, lost, rooms, loc, sending, replies, bounds>>

\* registerDeviceConnection, then connectedUsers without looking whether the
\* socket is still up; an error disconnects.
RegisterDevice(s) ==
  /\ At(s, "register")
  /\ \/ /\ online' = online \cup {s}
        /\ Goto(s, "rooms")
        /\ UNCHANGED <<network, joined, late, bounds>>
     \/ /\ Fault
        /\ Disconnect(s)
        /\ Goto(s, "done")
  /\ UNCHANGED <<db, redis, loc, sending, replies>>

\* getUserConversations answers [] when the query fails: no room is joined.
JoinRooms(s) ==
  /\ At(s, "rooms")
  /\ \/ joined' = joined \cup {s} /\ late' = late \ {s} /\ UNCHANGED bounds
     \/ UNCHANGED <<joined, late>> /\ Fault
  /\ Goto(s, "batch")
  /\ UNCHANGED <<db, redis, network, online, loc, sending, replies>>

\* join_conversations, for a socket not in its room (yet).
JoinConversations(s) ==
  /\ s \in alive /\ s \notin joined
  /\ Event /\ UNCHANGED faults
  /\ joined' = joined \cup {s} /\ late' = late \cup {s}
  /\ UNCHANGED <<db, redis, network, online, connection, sending, replies>>

\* deliverQueuedMessages: the whole list.
DeliverQueued(s) ==
  /\ At(s, "batch")
  /\ \/ /\ wire' = IF queue[UserOf(s)] = <<>> THEN wire
                   ELSE Emit(s, [kind |-> "batch", msgs |-> ToSet(queue[UserOf(s)])])
        /\ UNCHANGED bounds
     \/ UNCHANGED wire /\ Fault
  /\ Goto(s, "confirm")
  /\ UNCHANGED <<db, redis, alive, received, lost, rooms, loc, sending, replies>>

\* sendDeliveryConfirmationsForQueuedMessages reads the list again.
ReadQueuedAgain(s) ==
  /\ At(s, "confirm")
  /\ \/ loc' = [loc EXCEPT ![s].queued = queue[UserOf(s)]] /\ UNCHANGED bounds
     \/ UNCHANGED loc /\ Fault
  /\ Goto(s, "mark")
  /\ UNCHANGED <<db, redis, network, rooms, sending, replies>>

\* Mutant: over any status.
DeliveredAlways(m) == [status EXCEPT ![m] = "DELIVERED"]

\* messageRepository.markAsDelivered: not over READ.
Delivered(m) == [status EXCEPT ![m] = IF @ = "SENT" THEN "DELIVERED" ELSE @]

MarkQueued(s) ==
  /\ At(s, "mark")
  /\ \/ /\ loc[s].queued = <<>>
        /\ Goto(s, "clear")
        /\ UNCHANGED <<status, loc, bounds>>
     \/ /\ loc[s].queued # <<>>
        /\ loc' = [loc EXCEPT ![s].queued = Tail(@)]
        /\ \/ status' = Delivered(Head(loc[s].queued)) /\ UNCHANGED bounds
           \/ UNCHANGED status /\ Fault
        /\ UNCHANGED conn
  /\ UNCHANGED <<stamped, redis, network, rooms, sending, replies>>

\* clearDeliveredMessages deletes the list, whatever it holds by now.
ClearQueue(s) ==
  /\ At(s, "clear")
  /\ \/ queue' = [queue EXCEPT ![UserOf(s)] = <<>>] /\ UNCHANGED bounds
     \/ UNCHANGED queue /\ Fault
  /\ Goto(s, "since")
  /\ UNCHANGED <<db, cursor, network, rooms, loc, sending, replies>>

\* syncDeviceOnConnect: the cursor, or a day ago when it cannot be read.
ReadCursor(s) ==
  /\ At(s, "since")
  /\ \/ loc' = [loc EXCEPT ![s].since = cursor[DeviceOf[s]]] /\ UNCHANGED bounds
     \/ UNCHANGED loc /\ Fault
  /\ Goto(s, "fetch")
  /\ UNCHANGED <<db, redis, network, rooms, sending, replies>>

\* Mutant: the message just after the cursor is left out.
NewerButOne(s) == {m \in Saved : m > loc[s].since + 1}

Newer(s)  == {m \in Saved : m > loc[s].since}
InPage(m) == Cardinality({k \in Saved : k >= m}) <= SyncLimit

\* getMissedMessages: of the newest SyncLimit messages those after the cursor,
\* none when the query fails.
FetchMissed(s) ==
  /\ At(s, "fetch")
  /\ LET page == {m \in Newer(s) : InPage(m)}
     IN \/ /\ loc' = [loc EXCEPT ![s].fetched = page, ![s].missing = Newer(s) \ page,
                                ![s].unsaved = Message \ Saved]
           /\ UNCHANGED bounds
        \/ /\ loc' = [loc EXCEPT ![s].missing = Newer(s), ![s].unsaved = Message \ Saved]
           /\ Fault
  /\ Goto(s, "emit")
  /\ UNCHANGED <<db, redis, network, rooms, sending, replies>>

\* Mutant: the cursor is set a step ahead of the clock.
EmitMissedAhead(s) ==
  /\ At(s, "emit")
  /\ wire' = IF loc[s].fetched = {} THEN wire
             ELSE Emit(s, [kind |-> "sync", msgs |-> loc[s].fetched])
  /\ loc' = [loc EXCEPT ![s].now = stamped + 1]
  /\ Goto(s, "cursor")
  /\ UNCHANGED <<db, redis, alive, received, lost, rooms, sending, replies, bounds>>

\* After the conversation states and the counts have been read: emitted, and the
\* time taken for the cursor.
EmitMissed(s) ==
  /\ At(s, "emit")
  /\ wire' = IF loc[s].fetched = {} THEN wire
             ELSE Emit(s, [kind |-> "sync", msgs |-> loc[s].fetched])
  /\ loc' = [loc EXCEPT ![s].now = stamped]
  /\ Goto(s, "cursor")
  /\ UNCHANGED <<db, redis, alive, received, lost, rooms, sending, replies, bounds>>

\* What is told nobody, was created before s took the time for its cursor and
\* saved after the query of s had looked: the cursor passes it unseen.
Overtaken(s) == {m \in Untold \cap loc[s].unsaved : m <= loc[s].now}

\* updateLastSyncTimestamp, also for a socket that is gone or in no room: all
\* the time it passes is then out of reach, else what the query left out.
WriteCursor(s) ==
  /\ At(s, "cursor")
  /\ LET d == DeviceOf[s]
         LetGo(M) == lost' = [lost EXCEPT ![d] = @ \cup (M \ received[d])]
     IN \/ /\ cursor' = [cursor EXCEPT ![d] = loc[s].now]
           /\ LetGo(IF s \in alive \cap (joined \ late) THEN loc[s].missing \cup Overtaken(s)
                    ELSE 1 .. loc[s].now)
           /\ UNCHANGED bounds
        \/ /\ Fault
           /\ LetGo(loc[s].missing)
           /\ UNCHANGED cursor
  /\ loc' = [loc EXCEPT ![s] = NoLocals]
  /\ Goto(s, "presence")
  /\ UNCHANGED <<db, queue, alive, wire, received, rooms, sending, replies>>

\* setUserOnline and what follows; an error disconnects.
SetPresence(s) ==
  /\ At(s, "presence")
  /\ \/ UNCHANGED <<network, rooms, bounds>>
     \/ Fault /\ Disconnect(s)
  /\ Goto(s, "done")
  /\ UNCHANGED <<db, redis, loc, sending, replies>>

-----------------------------------------------------------------------------
(* What clients answer.                                                     *)

\* The ack callback of the offline batch: DEL of the list.
ClearAcknowledged(s) ==
  /\ s \in acks
  /\ acks' = acks \ {s}
  /\ \/ queue' = [queue EXCEPT ![UserOf(s)] = <<>>] /\ UNCHANGED bounds
     \/ UNCHANGED queue /\ Fault
  /\ UNCHANGED <<db, cursor, network, rooms, connection, sending, removing>>

\* confirm_message_delivery for a message the device has; the database may fail.
ConfirmDelivery(s, m) ==
  /\ s \in alive /\ m \in received[DeviceOf[s]]
  /\ Event
  /\ \/ status' = Delivered(m) /\ UNCHANGED faults
     \/ UNCHANGED status /\ faults < MaxFaults /\ faults' = faults + 1
  /\ removing' = removing \cup {<<UserOf(s), m>>}
  /\ UNCHANGED <<stamped, redis, network, rooms, connection, sending, acks>>

\* removeQueuedMessage: LREM of one element.
RemoveQueued(u, m) ==
  /\ <<u, m>> \in removing
  /\ removing' = removing \ {<<u, m>>}
  /\ \/ queue' = [queue EXCEPT ![u] = RemoveFirst(@, m)] /\ UNCHANGED bounds
     \/ UNCHANGED queue /\ Fault
  /\ UNCHANGED <<db, cursor, network, rooms, connection, sending, acks>>

\* mark_as_read and batch_mark_read: READ over any status.
MarkAsRead(s, m) ==
  /\ s \in alive /\ m \in received[DeviceOf[s]]
  /\ Event /\ UNCHANGED faults
  /\ status' = [status EXCEPT ![m] = "READ"]
  /\ UNCHANGED <<stamped, redis, network, rooms, connection, sending, replies>>

-----------------------------------------------------------------------------
SendStep(m) ==
  \/ SaveMessage(m) \/ Announce(m) \/ GetParticipants(m) \/ CheckParticipants(m)
  \/ QueueMessage(m) \/ StoreMessage(m)

ConnectionStep(s) ==
  \/ RegisterDevice(s) \/ JoinRooms(s) \/ DeliverQueued(s) \/ ReadQueuedAgain(s)
  \/ MarkQueued(s) \/ ClearQueue(s) \/ ReadCursor(s) \/ FetchMissed(s)
  \/ EmitMissed(s) \/ WriteCursor(s) \/ SetPresence(s)

Next ==
  \/ \E m \in Message : SendMessage(m) \/ PostMessage(m) \/ SendStep(m) \/ RetryDelivery(m)
  \/ \E s \in Socket : \/ Connect(s) \/ ConnectionStep(s) \/ Drop(s) \/ Receive(s)
                       \/ JoinConversations(s) \/ ClearAcknowledged(s)
  \/ \E s \in Socket, m \in Message : ConfirmDelivery(s, m) \/ MarkAsRead(s, m)
  \/ \E u \in User, m \in Message : RemoveQueued(u, m)
  \/ Restart

Spec == Init /\ [][Next]_vars

\* The event loop resumes every handler whose await has settled, and a socket
\* that stays up delivers its packets.
FairSpec ==
  /\ Spec
  /\ \A m \in Message : WF_vars(SendStep(m))
  /\ \A s \in Socket : WF_vars(ConnectionStep(s)) /\ WF_vars(Receive(s))

-----------------------------------------------------------------------------
(* The cursor of a device passes a message the device goes without in named  *)
(* cases only: every saved message it has passed has arrived, is on its way  *)
(* over a live socket or about to be broadcast to one in the room, or was    *)
(* let go when a connection broke, a query or an announcement failed, the    *)
(* page was full, the socket was gone or in no room, or it was stored over   *)
(* HTTP, and told nobody, between the query of a synchronisation and its     *)
(* cursor (handleConnection, device-sync.service.ts syncDeviceOnConnect).    *)
OnItsWay(d, m) ==
  \E s \in alive \cap SocketsOf(d) : \/ m \in InFlight(s)
                                     \/ send[m] = "announce" /\ s \in joined
NothingForgotten ==
  \A d \in Device, m \in Saved :
    m <= cursor[d] => m \in received[d] \cup lost[d] \/ OnItsWay(d, m)

(* The status of a message only moves on: no late confirmation, reconnection *)
(* or second reader takes READ or DELIVERED back (message.repository.ts      *)
(* markAsRead, markAsDelivered).                                             *)
Rank(st) == CASE st = "none" -> 0 [] st = "SENT" -> 1 [] st = "DELIVERED" -> 2 [] st = "READ" -> 3
StatusNeverGoesBack == [][\A m \in Message : Rank(status[m]) <= Rank(status'[m])]_vars

(* Again and again every device whose connection came up in its rooms and    *)
(* stays up has every saved message, but for those let go as above and for   *)
(* those told nobody after its cursor was taken, which wait for its next     *)
(* connection: nobody waits for ever for what a queue, a broadcast or a      *)
(* synchronisation owes.                                                     *)
Attached(s) == s \in alive \cap (joined \ late) /\ At(s, "done")
Waiting(d)  == {m \in Untold : m > cursor[d]}
DevicesCatchUp ==
  []<>(\A s \in Socket : Attached(s) =>
         LET d == DeviceOf[s] IN Saved \subseteq received[d] \cup lost[d] \cup Waiting(d))

(* "DELIVERED: the message has been sent to the participant"                 *)
(* (docs/socket/message-delivery-system.md): a message with that status is or *)
(* was on the way to some device.                                            *)
DeliveredWasSent ==
  \A m \in Message : status[m] = "DELIVERED" =>
    \E d \in Device : \/ m \in received[d] \cup lost[d]
                      \/ \E s \in SocketsOf(d) : m \in InFlight(s)
=============================================================================
