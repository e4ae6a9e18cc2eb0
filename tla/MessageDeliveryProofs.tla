------------------------- MODULE MessageDeliveryProofs -------------------------
(***************************************************************************)
(* Proofs about message delivery, for any devices, users, page size and    *)
(* bounds: a device's cursor passes a message the device goes without in   *)
(* the cases named only, and no step takes a status back.                  *)
(***************************************************************************)
EXTENDS MessageDelivery, FiniteSetTheorems, SequenceTheorems, WellFoundedInduction, TLAPS

\* What a handler of a message says of its document.
Sent ==
  \A m \in Message :
    /\ m > stamped <=> send[m] = "new"
    /\ send[m] \in {"new", "save", "store"} => m \notin Saved
    /\ send[m] \in {"announce", "participants", "check", "push", "stored"} => m \in Saved
    /\ send[m] = "push" => next[m] \in User

\* Devices, packets, queues and handlers hold stored messages only.
Real ==
  /\ \A d \in Device : received[d] \subseteq Saved
  /\ \A s \in Socket : /\ InFlight(s) \subseteq Saved /\ loc[s].fetched \subseteq Saved
                       /\ loc[s].now <= stamped
  /\ \A u \in User : ToSet(queue[u]) \subseteq Saved

\* The device's cursor, or the cursor one of its handlers works from, has passed m.
Passed(d, m) == m <= cursor[d] \/ \E s \in SocketsOf(d) : m <= loc[s].since

\* A message not stored yet will be broadcast to a socket of the device, if it is stored.
Awaited(d, m) ==
  /\ m \notin Saved /\ send[m] \notin {"new", "store"}
  /\ send[m] = "save" => alive \cap joined \cap SocketsOf(d) # {}

Accounted(d, m) == m \in received[d] \cup lost[d] \/ OnItsWay(d, m) \/ Awaited(d, m)

\* Nothing is passed that is not accounted for.
Covered == \A d \in Device, m \in Message : Passed(d, m) => Accounted(d, m)

\* A handler that has queried for a live socket in the room: what it will not emit itself
\* has reached the socket, is about to, or was stored since and is told nobody.
InHand(s, m) ==
  \/ m \in loc[s].missing \cup received[DeviceOf[s]] \cup lost[DeviceOf[s]] \cup InFlight(s)
  \/ m \in loc[s].unsaved /\ send[m] \in {"announce", "stored"}
  \/ At(s, "emit") /\ m \in loc[s].fetched
Synchronised ==
  \A s \in alive \cap (joined \ late) : At(s, "emit") \/ At(s, "cursor") =>
    /\ \A m \in Message \ Saved : m \in loc[s].unsaved
    /\ \A m \in Saved : m > loc[s].since => InHand(s, m)

(* The inductive invariant.  NothingForgotten follows from Covered, which    *)
(* needs Synchronised for the step that writes the cursor, which in turn     *)
(* rests on the order of a send: stamped, stored, broadcast (Sent).          *)
IInv == TypeOK /\ Sent /\ Real /\ Covered /\ Synchronised

-----------------------------------------------------------------------------
(* Least and greatest elements, and what the library's helpers return.      *)

LEMMA LeastElement ==
  ASSUME NEW S \in SUBSET Nat, S # {}
  PROVE  Min(S) \in S /\ \A x \in S : Min(S) <= x
  <1> DEFINE R == OpToRel(<, Nat)
  <1>1. IsWellFoundedOn(R, Nat) BY NatLessThanWellFounded, Zenon
  <1>2. \A p : p \in R <=> p \in Nat \X Nat /\ p[1] < p[2] BY Zenon DEF OpToRel
  <1> HIDE DEF R
  <1>3. PICK x \in S : \A y \in S : ~ (<<y, x>> \in R) BY <1>1, WFMin
  <1>4. \A y \in S : ~ (y < x) BY <1>2, <1>3
  <1>5. \A y \in S : y \in Nat OBVIOUS
  <1>6. \A y \in S : x <= y BY <1>4, <1>5
  <1> QED BY <1>6 DEF Min

LEMMA GreatestElement ==
  ASSUME NEW n \in Nat, NEW S \in SUBSET (0 .. n), S # {}
  PROVE  Max(S) \in S /\ \A x \in S : x <= Max(S)
  <1> DEFINE T == {n - x : x \in S}
  <1>1. T \in SUBSET Nat
    <2>1. \A x \in S : x \in 0 .. n OBVIOUS
    <2>2. \A x \in S : n - x \in Nat BY <2>1
    <2> QED BY <2>2
  <1>2. T # {} OBVIOUS
  <1>3. PICK t \in T : \A y \in T : t <= y
    <2> HIDE DEF T
    <2> DEFINE t == Min(T)
    <2>1. t \in T BY <1>1, <1>2, LeastElement
    <2>2. \A y \in T : t <= y BY <1>1, <1>2, LeastElement
    <2> QED BY <2>1, <2>2
  <1>4. PICK x \in S : t = n - x OBVIOUS
  <1>5. \A y \in S : n - x <= n - y BY <1>3, <1>4
  <1>6. \A y \in S : y <= x
    <2> SUFFICES ASSUME NEW y \in S PROVE y <= x OBVIOUS
    <2>1. n - x <= n - y BY <1>5
    <2>2. x \in 0 .. n /\ y \in 0 .. n OBVIOUS
    <2> QED BY <2>1, <2>2
  <1> QED BY <1>6 DEF Max

\* LREM leaves a list of what was there.
LEMMA RemoveFirstFacts ==
  ASSUME NEW T, NEW q \in Seq(T), NEW e
  PROVE  RemoveFirst(q, e) \in Seq(T) /\ ToSet(RemoveFirst(q, e)) \subseteq ToSet(q)
  <1> DEFINE I == {i \in 1 .. Len(q) : q[i] = e}
  <1>1. CASE ~ \E i \in 1 .. Len(q) : q[i] = e
    BY <1>1 DEF RemoveFirst
  <1>2. CASE \E i \in 1 .. Len(q) : q[i] = e
    <2>1. I \in SUBSET Nat /\ I # {} BY <1>2
    <2> DEFINE i == Min(I)
    <2>0. i \in I
      <3> HIDE DEF I
      <3> QED BY <2>1, LeastElement
    <2>2. RemoveFirst(q, e) = SubSeq(q, 1, i - 1) \o SubSeq(q, i + 1, Len(q))
      BY <1>2 DEF RemoveFirst, RemoveAt, SelectInSeq
    <2>3. i \in 1 .. Len(q) BY <2>0
    <2> HIDE DEF i
    <2> DEFINE a == SubSeq(q, 1, i - 1)
               b == SubSeq(q, i + 1, Len(q))
    <2>4. a \in Seq(T) /\ b \in Seq(T) BY <2>3
    <2>5. ToSet(a) \subseteq ToSet(q) /\ ToSet(b) \subseteq ToSet(q) BY <2>3 DEF ToSet
    <2> HIDE DEF a, b
    <2>6. a \o b \in Seq(T) BY <2>4
    <2>7. ToSet(a \o b) \subseteq ToSet(a) \cup ToSet(b) BY <2>4 DEF ToSet
    <2>8. RemoveFirst(q, e) = a \o b BY <2>2 DEF a, b
    <2> QED BY <2>5, <2>6, <2>7, <2>8
  <1> QED BY <1>1, <1>2

LEMMA ToSetFacts ==
  ASSUME NEW T, NEW q \in Seq(T)
  PROVE  /\ ToSet(q) \subseteq T
         /\ q # <<>> => /\ Head(q) \in ToSet(q) /\ Tail(q) \in Seq(T)
                        /\ ToSet(Tail(q)) \subseteq ToSet(q)
         /\ \A x \in T : ToSet(<<x>> \o q) = ToSet(q) \cup {x}
  <1>1. ToSet(q) \subseteq T BY DEF ToSet
  <1>2. ASSUME q # <<>>
        PROVE  Head(q) \in ToSet(q) /\ Tail(q) \in Seq(T) /\ ToSet(Tail(q)) \subseteq ToSet(q)
    BY <1>2 DEF ToSet
  <1>3. ASSUME NEW x \in T PROVE ToSet(<<x>> \o q) = ToSet(q) \cup {x}
    <2> DEFINE r == <<x>> \o q
    <2>1. Len(r) = Len(q) + 1 /\ r[1] = x /\ \A i \in 1 .. Len(q) : r[i + 1] = q[i]
          /\ DOMAIN r = 1 .. Len(q) + 1
      OBVIOUS
    <2>2. \A j \in 1 .. Len(q) + 1 : j = 1 \/ \E i \in 1 .. Len(q) : j = i + 1
      <3> SUFFICES ASSUME NEW j \in 1 .. Len(q) + 1, j # 1 PROVE j - 1 \in 1 .. Len(q) /\ j = (j - 1) + 1
        OBVIOUS
      <3> QED OBVIOUS
    <2> HIDE DEF r
    <2>3. ToSet(r) \subseteq ToSet(q) \cup {x}
      <3> SUFFICES ASSUME NEW j \in 1 .. Len(q) + 1 PROVE r[j] \in ToSet(q) \cup {x}
        BY <2>1 DEF ToSet
      <3> QED BY <2>1, <2>2 DEF ToSet
    <2>4. ToSet(q) \cup {x} \subseteq ToSet(r)
      <3>1. x \in ToSet(r) BY <2>1 DEF ToSet
      <3>2. \A i \in 1 .. Len(q) : i + 1 \in DOMAIN r /\ q[i] = r[i + 1] BY <2>1
      <3>3. ToSet(q) \subseteq ToSet(r) BY <3>2 DEF ToSet
      <3> QED BY <3>1, <3>3
    <2> QED BY <2>3, <2>4 DEF r
  <1> QED BY <1>1, <1>2, <1>3

-----------------------------------------------------------------------------
(* Facts about the constants and about what is stored.                      *)

LEMMA ConstantFacts ==
  /\ NumMessages \in Nat /\ NumUsers \in Nat /\ NumSockets \in Nat
  /\ MaxLoad \in Nat /\ MaxFaults \in Nat
  /\ \A s \in Socket : DeviceOf[s] \in Device /\ UserOf(s) \in User /\ s \in SocketsOf(DeviceOf[s])
  /\ \A d \in Device : SocketsOf(d) \subseteq Socket
  BY DeliveryAssumption DEF UserOf, SocketsOf, Socket

LEMMA ClaimedFacts ==
  ASSUME TypeOK, NEW d \in Device
  PROVE  /\ Claimed(d) \in 0 .. NumMessages
         /\ \A m \in Message : Passed(d, m) => m \in 1 .. Claimed(d)
  <1> DEFINE S == {cursor[d]} \cup {loc[s].since : s \in SocketsOf(d)}
  <1>1. S \in SUBSET (0 .. NumMessages)
    <2>1. \A s \in SocketsOf(d) : loc[s] \in Locals BY ConstantFacts DEF TypeOK
    <2>2. \A s \in SocketsOf(d) : loc[s].since \in 0 .. NumMessages BY <2>1 DEF Locals
    <2> QED BY <2>2 DEF TypeOK
  <1>2. cursor[d] \in S /\ \A s \in SocketsOf(d) : loc[s].since \in S OBVIOUS
  <1>3. Claimed(d) = Max(S) BY DEF Claimed
  <1> HIDE DEF S
  <1>4. Max(S) \in S /\ \A x \in S : x <= Max(S)
    BY <1>1, <1>2, ConstantFacts, GreatestElement
  <1>5. ASSUME NEW m \in Message, Passed(d, m) PROVE m \in 1 .. Claimed(d)
    <2>1. PICK x \in S : m <= x BY <1>2, <1>5 DEF Passed
    <2>2. m \in 1 .. NumMessages BY DEF Message
    <2>3. x <= Max(S) /\ x \in 0 .. NumMessages /\ Max(S) \in 0 .. NumMessages BY <1>1, <1>4
    <2> QED BY <1>3, <2>1, <2>2, <2>3
  <1> QED BY <1>1, <1>3, <1>4, <1>5

LEMMA LoadFacts ==
  ASSUME TypeOK, MayAct
  PROVE  events < MaxLoad
  <1>1. IsFiniteSet(Socket) BY ConstantFacts, FS_Interval DEF Socket
  <1>2. Cardinality(Opened) \in Nat
    BY <1>1, FS_Subset, FS_CardinalityType DEF Opened
  <1> QED BY <1>2, ConstantFacts DEF MayAct, TypeOK

-----------------------------------------------------------------------------
(* Type correctness.                                                        *)

LEMMA BoundsType ==
  ASSUME TypeOK
  PROVE  /\ Fault => events' \in 0 .. MaxLoad /\ faults' \in 0 .. MaxFaults
         /\ Event => events' \in 0 .. MaxLoad
         /\ UNCHANGED bounds => events' \in 0 .. MaxLoad /\ faults' \in 0 .. MaxFaults
  <1>1. ASSUME Fault PROVE events' \in 0 .. MaxLoad /\ faults' \in 0 .. MaxFaults
    BY <1>1, ConstantFacts DEF TypeOK, Fault
  <1>2. ASSUME Event PROVE events' \in 0 .. MaxLoad
    BY <1>2, LoadFacts, ConstantFacts DEF TypeOK, Event
  <1> QED BY <1>1, <1>2 DEF TypeOK, bounds

LEMMA EmitType ==
  ASSUME TypeOK, NEW s \in Socket, NEW p \in Packet
  PROVE  Emit(s, p) \in [Socket -> Seq(Packet)]
  BY DEF TypeOK, Emit

LEMMA BroadcastType ==
  ASSUME TypeOK, NEW m \in Message, Broadcast(m)
  PROVE  wire' \in [Socket -> Seq(Packet)]
  <1> DEFINE p == [kind |-> "message", msgs |-> {m}]
  <1>1. p \in Packet BY DEF Packet
  <1>2. \A s \in Socket : wire[s] \in Seq(Packet) BY DEF TypeOK
  <1> HIDE DEF p
  <1>3. \A s \in Socket : Append(wire[s], p) \in Seq(Packet) BY <1>1, <1>2
  <1>4. wire' = [s \in Socket |-> IF s \in alive \cap joined THEN Append(wire[s], p) ELSE wire[s]]
    BY DEF Broadcast, p
  <1> QED BY <1>2, <1>3, <1>4

LEMMA DisconnectType ==
  ASSUME TypeOK, NEW s \in Socket, Disconnect(s)
  PROVE  /\ alive' \in SUBSET Socket /\ wire' \in [Socket -> Seq(Packet)]
         /\ received' \in [Device -> SUBSET Message] /\ lost' \in [Device -> SUBSET Message]
         /\ joined' \in SUBSET Socket /\ online' \in SUBSET Socket /\ late' \in SUBSET joined'
  <1>1. Unreached(DeviceOf[s]) \subseteq Message
    BY ConstantFacts, ClaimedFacts DEF Unreached, Message
  <1> QED BY <1>1, ConstantFacts DEF Disconnect, TypeOK

LEMMA SendTypes ==
  ASSUME TypeOK, Sent, NEW m \in Message,
         SendMessage(m) \/ PostMessage(m) \/ SendStep(m) \/ RetryDelivery(m)
  PROVE  TypeOK'
  <1> USE BoundsType DEF db, redis, network, rooms, connection, sending,
                         replies, bounds, Continue
  <1>1. CASE SendMessage(m) \/ PostMessage(m)
    <2>1. /\ m = stamped + 1 /\ stamped' = m
          /\ UNCHANGED <<status, redis, network, rooms, connection, next, replies, bounds>>
          /\ send' = [send EXCEPT ![m] = "save"] \/ send' = [send EXCEPT ![m] = "store"]
      BY <1>1 DEF SendMessage, PostMessage
    <2>2. send' \in [Message -> SendLabel] BY <2>1 DEF TypeOK, SendLabel
    <2>3. stamped' \in 0 .. NumMessages BY <2>1, ConstantFacts DEF Message
    <2> QED BY <2>1, <2>2, <2>3 DEF TypeOK
  <1>2. CASE SaveMessage(m) \/ StoreMessage(m)
    BY <1>2 DEF SaveMessage, StoreMessage, TypeOK, SendLabel
  <1>3. CASE Announce(m)
    <2>1. wire' \in [Socket -> Seq(Packet)] BY <1>3, BroadcastType DEF Announce, TypeOK
    <2>2. lost' \in [Device -> SUBSET Message]
      <3>1. lost' = lost \/ lost' = [d \in Device |-> lost[d] \cup (Unreached(d) \cap {m})]
        BY <1>3 DEF Announce
      <3> QED BY <3>1 DEF TypeOK
    <2> QED BY <1>3, <2>1, <2>2 DEF Announce, TypeOK, SendLabel
  <1>4. CASE GetParticipants(m)
    BY <1>4 DEF GetParticipants, TypeOK, SendLabel
  <1>5. CASE CheckParticipants(m)
    <2> DEFINE offline == {u \in User : u >= next[m] /\ ~IsUserOnline(u)}
    <2>1. offline # {} => Min(offline) \in 1 .. NumUsers + 1
      <3>1. offline \in SUBSET Nat BY DEF User
      <3>2. offline \subseteq 1 .. NumUsers + 1 BY ConstantFacts DEF User
      <3> HIDE DEF offline
      <3> QED BY <3>1, <3>2, LeastElement
    <2>2. next' = next \/ (offline # {} /\ next' = [next EXCEPT ![m] = Min(offline)])
      BY <1>5 DEF CheckParticipants
    <2> HIDE DEF offline
    <2>3. next' \in [Message -> 1 .. NumUsers + 1] BY <2>1, <2>2 DEF TypeOK
    <2> QED BY <1>5, <2>3 DEF CheckParticipants, TypeOK, SendLabel
  <1>6. CASE QueueMessage(m)
    <2>1. next[m] \in User BY <1>6 DEF QueueMessage, Sent
    <2>2. next[m] + 1 \in 1 .. NumUsers + 1 BY <2>1, ConstantFacts DEF User
    <2>3. <<m>> \o queue[next[m]] \in Seq(Message) BY <2>1 DEF TypeOK
    <2> QED BY <1>6, <2>2, <2>3 DEF QueueMessage, TypeOK, SendLabel
  <1>7. CASE RetryDelivery(m)
    BY <1>7, BroadcastType DEF RetryDelivery, TypeOK
  <1> QED BY <1>1, <1>2, <1>3, <1>4, <1>5, <1>6, <1>7 DEF SendStep

LEMMA LocalsType ==
  ASSUME TypeOK, NEW s \in Socket
  PROVE  /\ loc[s] \in Locals /\ NoLocals \in Locals
         /\ \A q \in Seq(Message) : [loc EXCEPT ![s].queued = q] \in [Socket -> Locals]
         /\ \A n \in 0 .. NumMessages : /\ [loc EXCEPT ![s].since = n] \in [Socket -> Locals]
                                        /\ [loc EXCEPT ![s].now = n] \in [Socket -> Locals]
         /\ \A F \in SUBSET Message, M \in SUBSET Message, U \in SUBSET Message :
              /\ [loc EXCEPT ![s].fetched = F, ![s].missing = M, ![s].unsaved = U]
                   \in [Socket -> Locals]
              /\ [loc EXCEPT ![s].missing = M, ![s].unsaved = U] \in [Socket -> Locals]
  <1>1. NoLocals \in Locals BY ConstantFacts DEF NoLocals, Locals
  <1>2. loc \in [Socket -> Locals] BY DEF TypeOK
  <1>3. \A q \in Seq(Message) : [loc EXCEPT ![s].queued = q] \in [Socket -> Locals]
    BY <1>2 DEF Locals
  <1>4. \A n \in 0 .. NumMessages : /\ [loc EXCEPT ![s].since = n] \in [Socket -> Locals]
                                   /\ [loc EXCEPT ![s].now = n] \in [Socket -> Locals]
    BY <1>2 DEF Locals
  <1>5. ASSUME NEW F \in SUBSET Message, NEW M \in SUBSET Message, NEW U \in SUBSET Message
        PROVE  [loc EXCEPT ![s].fetched = F, ![s].missing = M, ![s].unsaved = U]
                 \in [Socket -> Locals]
    BY <1>2 DEF Locals
  <1>6. ASSUME NEW M \in SUBSET Message, NEW U \in SUBSET Message
        PROVE  [loc EXCEPT ![s].missing = M, ![s].unsaved = U] \in [Socket -> Locals]
    BY <1>2 DEF Locals
  <1> QED BY <1>1, <1>2, <1>3, <1>4, <1>5, <1>6

LEMMA EmptyQueue ==
  ASSUME TypeOK, NEW u \in User
  PROVE  [queue EXCEPT ![u] = <<>>] \in [User -> Seq(Message)]
  <1>1. <<>> \in Seq(Message) OBVIOUS
  <1> QED BY <1>1 DEF TypeOK

LEMMA ConnectionTypes ==
  ASSUME TypeOK, NEW s \in Socket, ConnectionStep(s)
  PROVE  TypeOK'
  <1> USE BoundsType DEF db, redis, network, rooms, connection, sending, replies, bounds, Goto, At
  <1>0. conn[s] \in ConnLabel /\ UserOf(s) \in User /\ DeviceOf[s] \in Device
        /\ queue[UserOf(s)] \in Seq(Message) /\ loc[s] \in Locals
    BY ConstantFacts DEF TypeOK
  <1>1. CASE RegisterDevice(s)
    BY <1>1, DisconnectType DEF RegisterDevice, TypeOK, ConnLabel
  <1>2. CASE JoinRooms(s)
    BY <1>2 DEF JoinRooms, TypeOK, ConnLabel
  <1>3. CASE DeliverQueued(s)
    <2> DEFINE p == [kind |-> "batch", msgs |-> ToSet(queue[UserOf(s)])]
    <2>1. p \in Packet BY <1>0, ToSetFacts DEF Packet
    <2>2. wire' = wire \/ wire' = Emit(s, p) BY <1>3 DEF DeliverQueued
    <2> HIDE DEF p
    <2>3. wire' \in [Socket -> Seq(Packet)] BY <2>1, <2>2, EmitType DEF TypeOK
    <2> QED BY <1>3, <2>3 DEF DeliverQueued, TypeOK, ConnLabel
  <1>4. CASE ReadQueuedAgain(s)
    <2>1. [loc EXCEPT ![s].queued = queue[UserOf(s)]] \in [Socket -> Locals]
      BY <1>0, LocalsType
    <2>2. loc' \in [Socket -> Locals] BY <1>4, <2>1 DEF ReadQueuedAgain, TypeOK
    <2> QED BY <1>4, <2>2 DEF ReadQueuedAgain, TypeOK, ConnLabel
  <1>5. CASE MarkQueued(s)
    <2>1. loc' \in [Socket -> Locals]
      <3>1. loc[s].queued \in Seq(Message) BY <1>0 DEF Locals
      <3>2. CASE loc[s].queued = <<>> BY <1>5, <3>2 DEF MarkQueued, TypeOK
      <3>3. CASE loc[s].queued # <<>>
        <4>1. Tail(loc[s].queued) \in Seq(Message) BY <3>1, <3>3
        <4>2. [loc EXCEPT ![s].queued = Tail(loc[s].queued)] \in [Socket -> Locals]
          BY <4>1, LocalsType
        <4>3. loc' = [loc EXCEPT ![s].queued = Tail(loc[s].queued)]
          BY <1>5, <3>3 DEF MarkQueued
        <4> QED BY <4>2, <4>3
      <3> QED BY <3>2, <3>3
    <2>2. status' \in [Message -> {"none", "SENT", "DELIVERED", "READ"}]
      BY <1>5 DEF MarkQueued, Delivered, TypeOK
    <2> QED BY <1>5, <2>1, <2>2 DEF MarkQueued, TypeOK, ConnLabel
  <1>6. CASE ClearQueue(s)
    <2>1. queue' \in [User -> Seq(Message)] BY <1>0, <1>6, EmptyQueue DEF ClearQueue, TypeOK
    <2> QED BY <1>6, <2>1 DEF ClearQueue, TypeOK, ConnLabel
  <1>7. CASE ReadCursor(s)
    <2>1. cursor[DeviceOf[s]] \in 0 .. NumMessages BY <1>0 DEF TypeOK
    <2>2. [loc EXCEPT ![s].since = cursor[DeviceOf[s]]] \in [Socket -> Locals]
      BY <2>1, LocalsType
    <2>3. loc' \in [Socket -> Locals] BY <1>7, <2>2 DEF ReadCursor, TypeOK
    <2> QED BY <1>7, <2>3 DEF ReadCursor, TypeOK, ConnLabel
  <1>8. CASE FetchMissed(s)
    <2> DEFINE page == {m \in Newer(s) : InPage(m)}
    <2>1. page \in SUBSET Message /\ Newer(s) \in SUBSET Message /\ Newer(s) \ page \in SUBSET Message
      BY DEF Newer, Saved
    <2>2. \/ loc' = [loc EXCEPT ![s].fetched = page, ![s].missing = Newer(s) \ page,
                                ![s].unsaved = Message \ Saved]
          \/ loc' = [loc EXCEPT ![s].missing = Newer(s), ![s].unsaved = Message \ Saved]
      BY <1>8 DEF FetchMissed
    <2> HIDE DEF page
    <2>4. /\ [loc EXCEPT ![s].fetched = page, ![s].missing = Newer(s) \ page,
                         ![s].unsaved = Message \ Saved] \in [Socket -> Locals]
          /\ [loc EXCEPT ![s].missing = Newer(s), ![s].unsaved = Message \ Saved]
               \in [Socket -> Locals]
      BY <2>1, LocalsType
    <2>3. loc' \in [Socket -> Locals] BY <2>2, <2>4
    <2> QED BY <1>8, <2>3 DEF FetchMissed, TypeOK, ConnLabel
  <1>9. CASE EmitMissed(s)
    <2> DEFINE p == [kind |-> "sync", msgs |-> loc[s].fetched]
    <2>1. p \in Packet BY <1>0 DEF Packet, Locals
    <2>2. wire' = wire \/ wire' = Emit(s, p) BY <1>9 DEF EmitMissed
    <2> HIDE DEF p
    <2>3. wire' \in [Socket -> Seq(Packet)] BY <2>1, <2>2, EmitType DEF TypeOK
    <2>4. loc' \in [Socket -> Locals] BY <1>9, LocalsType DEF EmitMissed, TypeOK
    <2> QED BY <1>9, <2>3, <2>4 DEF EmitMissed, TypeOK, ConnLabel
  <1>10. CASE WriteCursor(s)
    <2>1. loc[s].missing \subseteq Message /\ loc[s].now \in 0 .. NumMessages
          /\ 1 .. loc[s].now \subseteq Message
      BY <1>0, ConstantFacts DEF Locals, Message
    <2>2. lost' \in [Device -> SUBSET Message]
      <3>1. PICK M \in {loc[s].missing, loc[s].missing \cup Overtaken(s), 1 .. loc[s].now} :
              lost' = [lost EXCEPT ![DeviceOf[s]] = @ \cup (M \ received[DeviceOf[s]])]
        BY <1>10, Zenon DEF WriteCursor
      <3>2. Overtaken(s) \subseteq Message BY DEF Overtaken, Untold
      <3> QED BY <1>0, <2>1, <3>1, <3>2 DEF TypeOK
    <2>3. cursor' \in [Device -> 0 .. NumMessages] BY <1>10, <2>1 DEF WriteCursor, TypeOK
    <2>4. loc' \in [Socket -> Locals] BY <1>10, LocalsType DEF WriteCursor, TypeOK
    <2> QED BY <1>10, <2>2, <2>3, <2>4 DEF WriteCursor, TypeOK, ConnLabel
  <1>11. CASE SetPresence(s)
    BY <1>11, DisconnectType DEF SetPresence, TypeOK, ConnLabel
  <1> QED BY <1>1, <1>2, <1>3, <1>4, <1>5, <1>6, <1>7, <1>8, <1>9, <1>10, <1>11 DEF ConnectionStep

LEMMA ClientTypes ==
  ASSUME TypeOK, NEW s \in Socket,
         \/ Connect(s) \/ Drop(s) \/ Receive(s) \/ JoinConversations(s) \/ ClearAcknowledged(s)
         \/ \E m \in Message : ConfirmDelivery(s, m) \/ MarkAsRead(s, m)
  PROVE  TypeOK'
  <1> USE BoundsType DEF db, redis, network, rooms, connection, sending, replies, bounds, Goto, At
  <1>0. UserOf(s) \in User /\ DeviceOf[s] \in Device /\ wire[s] \in Seq(Packet)
    BY ConstantFacts DEF TypeOK
  <1>1. CASE Connect(s) BY <1>1 DEF Connect, TypeOK, ConnLabel
  <1>2. CASE Drop(s) BY <1>2, DisconnectType DEF Drop, TypeOK
  <1>3. CASE Receive(s)
    <2>1. wire[s] # <<>> BY <1>3 DEF Receive
    <2>2. Head(wire[s]) \in Packet /\ Tail(wire[s]) \in Seq(Packet) BY <1>0, <2>1
    <2>3. wire' \in [Socket -> Seq(Packet)] BY <1>3, <2>2 DEF Receive, TypeOK
    <2>4. received' \in [Device -> SUBSET Message] BY <1>0, <1>3, <2>2 DEF Receive, TypeOK, Packet
    <2> QED BY <1>3, <2>3, <2>4 DEF Receive, TypeOK
  <1>4. CASE JoinConversations(s) BY <1>4 DEF JoinConversations, TypeOK
  <1>5. CASE ClearAcknowledged(s)
    <2>1. queue' \in [User -> Seq(Message)] BY <1>0, <1>5, EmptyQueue DEF ClearAcknowledged, TypeOK
    <2> QED BY <1>5, <2>1 DEF ClearAcknowledged, TypeOK
  <1>6. ASSUME NEW m \in Message, ConfirmDelivery(s, m) PROVE TypeOK'
    <2>1. faults' \in 0 .. MaxFaults
      <3>1. faults' = faults \/ (faults < MaxFaults /\ faults' = faults + 1)
        BY <1>6 DEF ConfirmDelivery
      <3>2. faults \in 0 .. MaxFaults BY DEF TypeOK
      <3> QED BY <3>1, <3>2, ConstantFacts
    <2>2. status' \in [Message -> {"none", "SENT", "DELIVERED", "READ"}]
      BY <1>6 DEF ConfirmDelivery, Delivered, TypeOK
    <2>3. removing' \in SUBSET (User \X Message) BY <1>0, <1>6 DEF ConfirmDelivery, TypeOK
    <2> QED BY <1>6, <2>1, <2>2, <2>3 DEF ConfirmDelivery, TypeOK
  <1>7. ASSUME NEW m \in Message, MarkAsRead(s, m) PROVE TypeOK'
    BY <1>7 DEF MarkAsRead, TypeOK
  <1> QED BY <1>1, <1>2, <1>3, <1>4, <1>5, <1>6, <1>7

LEMMA RemoveType ==
  ASSUME TypeOK, NEW m \in Message, NEW u \in User, RemoveQueued(u, m)
  PROVE  TypeOK'
  <1>1. RemoveFirst(queue[u], m) \in Seq(Message) BY RemoveFirstFacts DEF TypeOK
  <1>2. queue' \in [User -> Seq(Message)] BY <1>1 DEF RemoveQueued, TypeOK
  <1>3. removing' \in SUBSET (User \X Message) BY DEF RemoveQueued, TypeOK
  <1> QED BY <1>2, <1>3, BoundsType
          DEF RemoveQueued, TypeOK, db, network, rooms, connection, sending

LEMMA RestartType ==
  ASSUME TypeOK, Restart
  PROVE  TypeOK'
  <1> USE BoundsType DEF db, redis
  <1>1. \A d \in Device : Unreached(d) \subseteq Message
    BY ConstantFacts, ClaimedFacts DEF Unreached, Message
  <1>2. lost' \in [Device -> SUBSET Message] BY <1>1 DEF Restart, TypeOK
  <1>3. NoLocals \in Locals BY ConstantFacts DEF NoLocals, Locals
  <1> QED BY <1>2, <1>3 DEF Restart, TypeOK, ConnLabel, SendLabel

LEMMA TypeStep ==
  ASSUME TypeOK, Sent, [Next]_vars
  PROVE  TypeOK'
  <1>1. ASSUME NEW m \in Message,
               SendMessage(m) \/ PostMessage(m) \/ SendStep(m) \/ RetryDelivery(m)
        PROVE TypeOK'
    BY <1>1, SendTypes
  <1>2. ASSUME NEW s \in Socket,
               \/ Connect(s) \/ ConnectionStep(s) \/ Drop(s) \/ Receive(s)
               \/ JoinConversations(s) \/ ClearAcknowledged(s)
        PROVE TypeOK'
    BY <1>2, ConnectionTypes, ClientTypes
  <1>3. ASSUME NEW s \in Socket, NEW m \in Message, ConfirmDelivery(s, m) \/ MarkAsRead(s, m)
        PROVE TypeOK'
    BY <1>3, ClientTypes
  <1>4. ASSUME NEW u \in User, NEW m \in Message, RemoveQueued(u, m) PROVE TypeOK'
    BY <1>4, RemoveType
  <1>5. CASE Restart BY <1>5, RestartType
  <1>6. CASE UNCHANGED vars
    BY <1>6 DEF vars, db, redis, network, rooms, connection, sending, replies, bounds, TypeOK
  <1> QED BY <1>1, <1>2, <1>3, <1>4, <1>5, <1>6 DEF Next

-----------------------------------------------------------------------------
(* What is on the way.                                                      *)

Carried(w) == UNION {w[i].msgs : i \in DOMAIN w}

LEMMA CarriedFacts ==
  /\ Carried(<<>>) = {}
  /\ \A w \in Seq(Packet) :
       /\ \A p \in Packet : Carried(Append(w, p)) = Carried(w) \cup p.msgs
       /\ w # <<>> => Carried(w) = Head(w).msgs \cup Carried(Tail(w))
  <1>1. Carried(<<>>) = {} BY DEF Carried
  <1>2. ASSUME NEW w \in Seq(Packet), NEW p \in Packet
        PROVE  Carried(Append(w, p)) = Carried(w) \cup p.msgs
    <2> DEFINE r == Append(w, p)
    <2>1. DOMAIN r = 1 .. Len(w) + 1 /\ r[Len(w) + 1] = p
          /\ \A i \in 1 .. Len(w) : r[i] = w[i]
      OBVIOUS
    <2>2. DOMAIN w = 1 .. Len(w) /\ Len(w) \in Nat OBVIOUS
    <2> HIDE DEF r
    <2>3. \A i \in DOMAIN r : r[i].msgs \subseteq Carried(w) \cup p.msgs BY <2>1, <2>2 DEF Carried
    <2>4. Carried(r) \subseteq Carried(w) \cup p.msgs BY <2>3 DEF Carried
    <2>5. \A i \in DOMAIN w : w[i].msgs \subseteq Carried(r) BY <2>1, <2>2 DEF Carried
    <2>6. p.msgs \subseteq Carried(r) BY <2>1, <2>2 DEF Carried
    <2>7. Carried(w) \cup p.msgs \subseteq Carried(r) BY <2>5, <2>6 DEF Carried
    <2> QED BY <2>4, <2>7 DEF r
  <1>3. ASSUME NEW w \in Seq(Packet), w # <<>>
        PROVE  Carried(w) = Head(w).msgs \cup Carried(Tail(w))
    <2> DEFINE r == Tail(w)
    <2>1. Len(w) \in Nat \ {0} /\ DOMAIN w = 1 .. Len(w) /\ DOMAIN r = 1 .. Len(w) - 1
          /\ Head(w) = w[1] /\ \A i \in 1 .. Len(w) - 1 : r[i] = w[i + 1]
      BY <1>3
    <2> HIDE DEF r
    <2>2. \A i \in DOMAIN w : i # 1 => i - 1 \in DOMAIN r /\ w[i] = r[i - 1]
      <3> SUFFICES ASSUME NEW i \in DOMAIN w, i # 1 PROVE i - 1 \in DOMAIN r /\ w[i] = r[i - 1]
        OBVIOUS
      <3>1. i - 1 \in 1 .. Len(w) - 1 /\ (i - 1) + 1 = i BY <2>1
      <3> QED BY <2>1, <3>1
    <2>3. \A i \in DOMAIN w : w[i].msgs \subseteq Head(w).msgs \cup Carried(r)
      BY <2>1, <2>2 DEF Carried
    <2>4. \A i \in DOMAIN r : r[i].msgs \subseteq Carried(w) BY <2>1 DEF Carried
    <2>5. Head(w).msgs \subseteq Carried(w) BY <2>1 DEF Carried
    <2>6. Carried(w) \subseteq Head(w).msgs \cup Carried(r) BY <2>3 DEF Carried
    <2>7. Carried(r) \subseteq Carried(w) BY <2>4 DEF Carried
    <2> QED BY <2>5, <2>6, <2>7 DEF r
  <1> QED BY <1>1, <1>2, <1>3

LEMMA InFlightFacts ==
  ASSUME NEW s
  PROVE  InFlight(s) = Carried(wire[s]) /\ InFlight(s)' = Carried(wire'[s])
  BY DEF InFlight, Carried

LEMMA EmitFacts ==
  ASSUME TypeOK, NEW s \in Socket, NEW p \in Packet, wire' = Emit(s, p)
  PROVE  /\ \A t \in Socket : InFlight(t) \subseteq InFlight(t)'
                              /\ InFlight(t)' \subseteq InFlight(t) \cup p.msgs
         /\ s \in alive => p.msgs \subseteq InFlight(s)'
  <1>1. \A t \in Socket : wire[t] \in Seq(Packet) BY DEF TypeOK
  <1>2. \A t \in Socket : wire'[t] = wire[t] \/ wire'[t] = Append(wire[t], p)
    BY DEF Emit, TypeOK
  <1>3. s \in alive => wire'[s] = Append(wire[s], p) BY DEF Emit, TypeOK
  <1>4. \A t \in Socket : Carried(Append(wire[t], p)) = Carried(wire[t]) \cup p.msgs
    BY <1>1, CarriedFacts
  <1> QED BY <1>2, <1>3, <1>4, InFlightFacts

LEMMA BroadcastFacts ==
  ASSUME TypeOK, NEW m \in Message, Broadcast(m)
  PROVE  \A t \in Socket : /\ InFlight(t) \subseteq InFlight(t)'
                           /\ InFlight(t)' \subseteq InFlight(t) \cup {m}
                           /\ t \in alive \cap joined => m \in InFlight(t)'
  <1> DEFINE p == [kind |-> "message", msgs |-> {m}]
  <1>1. p \in Packet /\ p.msgs = {m} BY DEF Packet
  <1>2. \A t \in Socket : wire[t] \in Seq(Packet) BY DEF TypeOK
  <1>3. \A t \in Socket : wire'[t] = IF t \in alive \cap joined THEN Append(wire[t], p) ELSE wire[t]
    BY DEF Broadcast
  <1> HIDE DEF p
  <1> QED BY <1>1, <1>2, <1>3, CarriedFacts, InFlightFacts

-----------------------------------------------------------------------------
(* What a step must leave alone for each part of the invariant to survive.  *)

LEMMA SentKept ==
  ASSUME Sent, Saved' = Saved, UNCHANGED <<stamped, send, next>>
  PROVE  Sent'
  BY DEF Sent

LEMMA RealKept ==
  ASSUME Real, Saved' = Saved, UNCHANGED <<stamped, received>>,
         \A s \in Socket : /\ InFlight(s)' \subseteq InFlight(s)
                           /\ loc'[s].fetched = loc[s].fetched /\ loc'[s].now = loc[s].now,
         \A u \in User : ToSet(queue'[u]) \subseteq ToSet(queue[u])
  PROVE  Real'
  BY DEF Real

\* Nothing that counts as on its way, awaited or received is taken away.
LEMMA AccountedKept ==
  ASSUME Saved' = Saved, alive \subseteq alive', joined \subseteq joined',
         \A d \in Device : received[d] \subseteq received'[d] /\ lost[d] \subseteq lost'[d],
         \A s \in Socket : InFlight(s) \subseteq InFlight(s)' \cup received'[DeviceOf[s]],
         \A m \in Message : send'[m] # send[m] =>
           /\ send[m] \notin {"announce", "new", "stored"}
           /\ send'[m] \notin {"new", "save", "store"}
  PROVE  \A d \in Device, m \in Message : Accounted(d, m) => Accounted(d, m)'
  <1> SUFFICES ASSUME NEW d \in Device, NEW m \in Message, Accounted(d, m)
               PROVE  Accounted(d, m)'
    OBVIOUS
  <1>1. CASE m \in received[d] \cup lost[d] BY <1>1 DEF Accounted
  <1>2. CASE OnItsWay(d, m)
    <2>1. PICK s \in alive \cap SocketsOf(d) :
            m \in InFlight(s) \/ (send[m] = "announce" /\ s \in joined)
      BY <1>2 DEF OnItsWay
    <2>2. s \in Socket /\ DeviceOf[s] = d BY DEF SocketsOf
    <2>3. CASE m \in InFlight(s) BY <2>1, <2>2, <2>3 DEF Accounted, OnItsWay
    <2>4. CASE send[m] = "announce" /\ s \in joined
      BY <2>1, <2>2, <2>4 DEF Accounted, OnItsWay
    <2> QED BY <2>1, <2>3, <2>4
  <1>3. CASE Awaited(d, m)
    <2>1. m \notin Saved' /\ send'[m] \notin {"new", "store"} BY <1>3 DEF Awaited
    <2>2. send'[m] = "save" => send[m] = "save" OBVIOUS
    <2>3. alive \cap joined \cap SocketsOf(d) \subseteq alive' \cap joined' \cap SocketsOf(d)
      OBVIOUS
    <2> QED BY <1>3, <2>1, <2>2, <2>3 DEF Accounted, Awaited
  <1> QED BY <1>1, <1>2, <1>3 DEF Accounted

LEMMA CoveredKept ==
  ASSUME Covered,
         \A d \in Device, m \in Message : Accounted(d, m) => Accounted(d, m)',
         \A d \in Device : cursor'[d] = cursor[d],
         \A s \in Socket : loc'[s].since = loc[s].since
  PROVE  Covered'
  <1>1. \A d \in Device, m \in Message : Passed(d, m)' => Passed(d, m)
    BY ConstantFacts DEF Passed, SocketsOf
  <1> QED BY <1>1 DEF Covered

LEMMA SynchronisedKept ==
  ASSUME Synchronised, TypeOK, Saved' = Saved,
         \A d \in Device : received[d] \subseteq received'[d] /\ lost[d] \subseteq lost'[d],
         \A s \in Socket : InFlight(s) \subseteq InFlight(s)' \cup received'[DeviceOf[s]],
         \A m \in Message : send[m] \in {"announce", "stored"} => send'[m] = send[m],
         \A s \in alive' \cap (joined' \ late') : conn'[s] \in {"emit", "cursor"} =>
           s \in alive \cap (joined \ late) /\ conn'[s] = conn[s] /\ loc'[s] = loc[s]
  PROVE  Synchronised'
  <1> SUFFICES ASSUME NEW s \in alive' \cap (joined' \ late'), conn'[s] \in {"emit", "cursor"},
                      NEW m \in Message
               PROVE  /\ m \notin Saved => m \in loc'[s].unsaved
                      /\ m \in Saved /\ m > loc'[s].since => InHand(s, m)'
    BY DEF Synchronised, At, Saved
  <1>1. s \in alive \cap (joined \ late) /\ conn'[s] = conn[s] /\ loc'[s] = loc[s] OBVIOUS
  <1>2. /\ m \notin Saved => m \in loc[s].unsaved
        /\ m \in Saved /\ m > loc[s].since => InHand(s, m)
    BY <1>1 DEF Synchronised, At
  <1>3. s \in Socket /\ DeviceOf[s] \in Device
    BY <1>1, ConstantFacts DEF TypeOK
  <1> QED BY <1>1, <1>2, <1>3 DEF InHand, At

\* The three together, for the steps of which that is all there is to say.
LEMMA KeptStep ==
  ASSUME IInv, Saved' = Saved, alive \subseteq alive', joined \subseteq joined',
         UNCHANGED <<cursor, lost>>,
         \A d \in Device : received[d] \subseteq received'[d],
         \A s \in Socket : InFlight(s) \subseteq InFlight(s)' \cup received'[DeviceOf[s]],
         \A m \in Message : send'[m] # send[m] =>
           /\ send[m] \notin {"announce", "new", "stored"}
           /\ send'[m] \notin {"new", "save", "store"},
         \A s \in Socket : loc'[s].since = loc[s].since,
         \A s \in alive' \cap (joined' \ late') : conn'[s] \in {"emit", "cursor"} =>
           s \in alive \cap (joined \ late) /\ conn'[s] = conn[s] /\ loc'[s] = loc[s]
  PROVE  Covered' /\ Synchronised'
  <1>1. Covered' BY AccountedKept, CoveredKept DEF IInv
  <1>2. Synchronised' BY SynchronisedKept DEF IInv
  <1> QED BY <1>1, <1>2

LEMMA StatusFacts ==
  ASSUME IInv
  PROVE  /\ UNCHANGED status => Saved' = Saved
         /\ \A m \in Message : status' = Delivered(m) => Saved' = Saved
         /\ \A m \in Saved : status' = [status EXCEPT ![m] = "READ"] => Saved' = Saved
  BY DEF Saved, Delivered, IInv, TypeOK

-----------------------------------------------------------------------------
(* The steps of a send.                                                     *)

LEMMA StampKeeps ==
  ASSUME IInv, NEW m \in Message, SendMessage(m) \/ PostMessage(m)
  PROVE  Sent' /\ Real' /\ Covered' /\ Synchronised'
  <1> PICK l \in {"save", "store"} : send' = [send EXCEPT ![m] = l]
    BY DEF SendMessage, PostMessage, Continue
  <1>0. /\ TypeOK /\ Sent /\ Real /\ Covered /\ Synchronised
        /\ UNCHANGED <<status, queue, cursor, alive, wire, joined, late, conn, loc, received, lost, next>>
        /\ m = stamped + 1 /\ stamped' = m /\ send[m] = "new"
    BY DEF SendMessage, PostMessage, IInv, redis, network, rooms, connection
  <1>1. Saved' = Saved /\ m \notin Saved BY <1>0 DEF Saved, Sent
  <1>2. \A k \in Message : send'[k] = IF k = m THEN l ELSE send[k] BY <1>0 DEF TypeOK
  <1>3. stamped \in Nat /\ \A k \in Message : k \in Nat BY <1>0 DEF TypeOK, Message
  <1>4. Sent'
    <2>1. \A k \in Message : k > stamped' <=> send'[k] = "new" BY <1>0, <1>2, <1>3 DEF Sent
    <2> QED BY <1>0, <1>1, <1>2, <2>1 DEF Sent
  <1>5. \A s \in Socket : InFlight(s)' = InFlight(s) BY <1>0 DEF InFlight
  <1>6. Real'
    <2>1. \A s \in Socket : loc[s].now <= stamped'
      <3>1. \A s \in Socket : loc[s].now \in Nat BY <1>0 DEF TypeOK, Locals
      <3> QED BY <1>0, <1>3, <3>1 DEF Real
    <2> QED BY <1>0, <1>1, <1>5, <2>1 DEF Real
  <1>7. Covered'
    <2> SUFFICES ASSUME NEW d \in Device, NEW k \in Message, Passed(d, k) PROVE Accounted(d, k)'
      BY <1>0 DEF Covered, Passed, SocketsOf
    <2>1. Accounted(d, k) BY <1>0 DEF Covered
    <2>2. SocketsOf(d) \subseteq Socket BY DEF SocketsOf
    <2>3. CASE k = m
      <3>1. m \notin received[d] BY <1>0, <1>1 DEF Real
      <3>2. \A s \in SocketsOf(d) : m \notin InFlight(s) BY <1>0, <1>1, <2>2 DEF Real
      <3>3. m \in lost[d] BY <1>0, <2>1, <2>3, <3>1, <3>2 DEF Accounted, OnItsWay, Awaited
      <3> QED BY <1>0, <2>3, <3>3 DEF Accounted
    <2>4. CASE k # m
      <3>1. OnItsWay(d, k) => OnItsWay(d, k)' BY <1>0, <1>2, <1>5, <2>2, <2>4 DEF OnItsWay, SocketsOf
      <3>2. Awaited(d, k) => Awaited(d, k)' BY <1>0, <1>1, <1>2, <2>4 DEF Awaited, SocketsOf
      <3> QED BY <1>0, <2>1, <3>1, <3>2 DEF Accounted
    <2> QED BY <2>3, <2>4
  <1>8. Synchronised'
    <2>1. \A k \in Message : send[k] \in {"announce", "stored"} => send'[k] = send[k]
      BY <1>0, <1>2
    <2> QED BY <1>0, <1>1, <1>5, <2>1, SynchronisedKept
  <1> QED BY <1>4, <1>6, <1>7, <1>8

LEMMA SaveKeeps ==
  ASSUME IInv, NEW m \in Message, SaveMessage(m) \/ StoreMessage(m)
  PROVE  Sent' /\ Real' /\ Covered' /\ Synchronised'
  <1> DEFINE l == IF send[m] = "save" THEN "announce" ELSE "stored"
  <1>0. /\ TypeOK /\ Sent /\ Real /\ Covered /\ Synchronised
        /\ UNCHANGED <<stamped, queue, cursor, alive, wire, joined, late, conn, loc, received, lost, next>>
        /\ send[m] \in {"save", "store"}
        /\ \/ status' = [status EXCEPT ![m] = "SENT"] /\ send' = [send EXCEPT ![m] = l]
           \/ status' = status /\ send' = [send EXCEPT ![m] = "done"]
    BY DEF SaveMessage, StoreMessage, IInv, Continue, redis, network, rooms, connection
  <1>1. m \notin Saved /\ Saved \subseteq Message BY <1>0 DEF Saved, Sent
  <1>2. \A s \in Socket : InFlight(s)' = InFlight(s) BY <1>0 DEF InFlight
  <1>3. CASE status' = [status EXCEPT ![m] = "SENT"] /\ send' = [send EXCEPT ![m] = l]
    <2>1. Saved' = Saved \cup {m} BY <1>0, <1>3 DEF Saved, TypeOK
    <2>2. \A k \in Message : send'[k] = IF k = m THEN l ELSE send[k]
      BY <1>0, <1>3 DEF TypeOK
    <2>3. Sent' BY <1>0, <2>1, <2>2 DEF Sent
    <2>4. Real' BY <1>0, <1>2, <2>1 DEF Real
    <2>5. Covered'
      <3> SUFFICES ASSUME NEW d \in Device, NEW k \in Message, Passed(d, k) PROVE Accounted(d, k)'
        BY <1>0 DEF Covered, Passed, SocketsOf
      <3>1. Accounted(d, k) BY <1>0 DEF Covered
      <3>2. SocketsOf(d)' = SocketsOf(d) /\ SocketsOf(d) \subseteq Socket BY DEF SocketsOf
      <3>3. OnItsWay(d, k) => OnItsWay(d, k)' BY <1>0, <1>2, <2>2, <3>2 DEF OnItsWay
      <3>4. Awaited(d, k) => OnItsWay(d, k)' \/ Awaited(d, k)'
        <4>1. CASE k = m
          <5>1. Awaited(d, k) => l = "announce" /\ alive \cap joined \cap SocketsOf(d) # {}
            BY <1>0, <4>1 DEF Awaited
          <5> QED BY <1>0, <2>2, <3>2, <4>1, <5>1 DEF OnItsWay
        <4>2. CASE k # m BY <1>0, <2>1, <2>2, <3>2, <4>2 DEF Awaited
        <4> QED BY <4>1, <4>2
      <3> QED BY <1>0, <3>1, <3>3, <3>4 DEF Accounted
    <2>6. Synchronised'
      <3> SUFFICES ASSUME NEW s \in alive \cap (joined \ late), At(s, "emit") \/ At(s, "cursor"),
                          NEW k \in Saved', k > loc[s].since
                   PROVE  InHand(s, k)'
        BY <1>0, <2>1 DEF Synchronised, At
      <3>1. s \in Socket BY <1>0 DEF TypeOK
      <3>2. CASE k = m
        <4>1. m \in loc[s].unsaved BY <1>0, <1>1 DEF Synchronised
        <4> QED BY <1>0, <2>2, <3>2, <4>1 DEF InHand
      <3>3. CASE k # m
        <4>1. InHand(s, k) BY <1>0, <2>1, <3>3 DEF Synchronised
        <4> QED BY <1>0, <1>2, <1>1, <2>1, <2>2, <3>1, <3>3, <4>1 DEF InHand, At
      <3> QED BY <3>2, <3>3
    <2> QED BY <2>3, <2>4, <2>5, <2>6
  <1>4. CASE status' = status /\ send' = [send EXCEPT ![m] = "done"]
    <2>1. Saved' = Saved BY <1>4 DEF Saved
    <2>2. \A k \in Message : send'[k] = IF k = m THEN "done" ELSE send[k]
      BY <1>0, <1>4 DEF TypeOK
    <2>3. Sent' BY <1>0, <2>1, <2>2 DEF Sent
    <2>4. Real' BY <1>0, <1>2, <2>1 DEF Real
    <2>5. Covered' /\ Synchronised' BY <1>0, <1>2, <2>1, <2>2, KeptStep
    <2> QED BY <2>3, <2>4, <2>5
  <1> QED BY <1>0, <1>3, <1>4

LEMMA AnnounceKeeps ==
  ASSUME IInv, NEW m \in Message, Announce(m)
  PROVE  Sent' /\ Real' /\ Covered' /\ Synchronised'
  <1> PICK l \in {"participants", "stored"} :
        /\ send' = [send EXCEPT ![m] = l]
        /\ \/ l = "participants" /\ Broadcast(m) /\ lost' = lost
           \/ /\ l = "stored" /\ wire' = wire
              /\ lost' = [d \in Device |-> lost[d] \cup (Unreached(d) \cap {m})]
    BY DEF Announce, Continue
  <1>0. /\ TypeOK /\ Sent /\ Real /\ Covered /\ Synchronised
        /\ UNCHANGED <<stamped, status, queue, cursor, alive, joined, late, conn, loc, received, next>>
        /\ send[m] = "announce"
    BY DEF Announce, IInv, db, redis, rooms, connection
  <1>1. Saved' = Saved /\ m \in Saved BY <1>0 DEF Saved, Sent
  <1>2. \A k \in Message : send'[k] = IF k = m THEN l ELSE send[k]
    BY <1>0 DEF TypeOK
  <1>3. \A s \in Socket : /\ InFlight(s) \subseteq InFlight(s)'
                          /\ InFlight(s)' \subseteq InFlight(s) \cup {m}
                          /\ l = "participants" /\ s \in alive \cap joined => m \in InFlight(s)'
    <2>1. CASE Broadcast(m) BY <1>0, <2>1, BroadcastFacts
    <2>2. CASE l = "stored" /\ wire' = wire BY <2>2 DEF InFlight
    <2> QED BY <2>1, <2>2
  <1>4. \A d \in Device : /\ lost[d] \subseteq lost'[d]
                          /\ l = "stored" /\ Passed(d, m) => m \in received[d] \cup lost'[d]
    <2> SUFFICES ASSUME NEW d \in Device, l = "stored"
                 PROVE  /\ lost[d] \subseteq lost'[d]
                        /\ Passed(d, m) => m \in received[d] \cup lost'[d]
      OBVIOUS
    <2>1. lost'[d] = lost[d] \cup (Unreached(d) \cap {m}) OBVIOUS
    <2>2. Passed(d, m) => m \in 1 .. Claimed(d) BY <1>0, ClaimedFacts
    <2> QED BY <2>1, <2>2 DEF Unreached
  <1>5. Sent' BY <1>0, <1>1, <1>2 DEF Sent
  <1>6. Real' BY <1>0, <1>1, <1>3 DEF Real
  <1>7. Covered'
    <2> SUFFICES ASSUME NEW d \in Device, NEW k \in Message, Passed(d, k) PROVE Accounted(d, k)'
      BY <1>0 DEF Covered, Passed, SocketsOf
    <2>1. Accounted(d, k) BY <1>0 DEF Covered
    <2>2. SocketsOf(d)' = SocketsOf(d) /\ SocketsOf(d) \subseteq Socket BY DEF SocketsOf
    <2>3. CASE k = m /\ l = "stored" BY <1>0, <1>4, <2>3 DEF Accounted
    <2>4. CASE k # m \/ l = "participants"
      <3>1. OnItsWay(d, k) => OnItsWay(d, k)'
        <4> SUFFICES ASSUME NEW s \in alive \cap SocketsOf(d),
                            k \in InFlight(s) \/ (send[k] = "announce" /\ s \in joined)
                     PROVE  k \in InFlight(s)' \/ (send'[k] = "announce" /\ s \in joined')
          BY <1>0, <2>2 DEF OnItsWay
        <4> QED BY <1>0, <1>2, <1>3, <2>2, <2>4
      <3>2. Awaited(d, k) => Awaited(d, k)' BY <1>0, <1>1, <1>2, <2>2 DEF Awaited
      <3> QED BY <1>0, <1>4, <2>1, <3>1, <3>2 DEF Accounted
    <2> QED BY <2>3, <2>4
  <1>8. Synchronised'
    <2> SUFFICES ASSUME NEW s \in alive \cap (joined \ late), At(s, "emit") \/ At(s, "cursor"),
                        NEW k \in Saved, k > loc[s].since
                 PROVE  InHand(s, k)'
      BY <1>0, <1>1 DEF Synchronised, At
    <2>1. s \in Socket /\ k \in Message /\ DeviceOf[s] \in Device
      BY <1>0, ConstantFacts DEF TypeOK, Saved
    <2>2. InHand(s, k) BY <1>0 DEF Synchronised
    <2> QED BY <1>0, <1>2, <1>3, <1>4, <2>1, <2>2 DEF InHand, At
  <1> QED BY <1>5, <1>6, <1>7, <1>8

\* The steps of a send that move nothing a device counts on.
LEMMA QueueingKeeps ==
  ASSUME IInv, NEW m \in Message,
         GetParticipants(m) \/ CheckParticipants(m) \/ QueueMessage(m) \/ RetryDelivery(m)
  PROVE  Sent' /\ Real' /\ Covered' /\ Synchronised'
  <1>0. /\ TypeOK /\ Sent /\ Real
        /\ UNCHANGED <<stamped, status, cursor, alive, joined, late, conn, loc, received, lost>>
    BY DEF GetParticipants, CheckParticipants, QueueMessage, RetryDelivery, IInv,
           db, redis, network, rooms, connection
  <1>1. Saved' = Saved BY <1>0 DEF Saved
  <1>2. ASSUME NEW l \in {"participants", "check", "push"}, NEW l2 \in {"check", "push", "done"},
               send[m] = l, send' = [send EXCEPT ![m] = l2], wire' = wire
        PROVE  /\ Covered' /\ Synchronised' /\ m \in Saved
               /\ \A k \in Message : send'[k] = IF k = m THEN l2 ELSE send[k]
               /\ \A s \in Socket : InFlight(s)' = InFlight(s)
    <2>1. \A k \in Message : send'[k] = IF k = m THEN l2 ELSE send[k] BY <1>0, <1>2 DEF TypeOK
    <2>2. \A s \in Socket : InFlight(s)' = InFlight(s) BY <1>2 DEF InFlight
    <2>3. Covered' /\ Synchronised' BY <1>0, <1>1, <1>2, <2>1, <2>2, KeptStep
    <2>4. m \in Saved BY <1>0, <1>2 DEF Sent
    <2> QED BY <2>1, <2>2, <2>3, <2>4
  <1>3. CASE GetParticipants(m)
    <2>1. PICK l2 \in {"check", "done"} : send' = [send EXCEPT ![m] = l2]
      BY <1>3 DEF GetParticipants, Continue
    <2>2. UNCHANGED <<queue, wire, next>> /\ send[m] = "participants"
      BY <1>3 DEF GetParticipants, redis, network
    <2> QED BY <1>0, <1>1, <1>2, <2>1, <2>2 DEF Sent, Real
  <1>4. CASE CheckParticipants(m)
    <2> DEFINE offline == {u \in User : u >= next[m] /\ ~IsUserOnline(u)}
    <2>1. UNCHANGED <<queue, wire>> /\ send[m] = "check"
      BY <1>4 DEF CheckParticipants, redis, network
    <2>2. \/ send' = [send EXCEPT ![m] = "done"] /\ next' = next
          \/ /\ offline # {} /\ send' = [send EXCEPT ![m] = "push"]
             /\ next' = [next EXCEPT ![m] = Min(offline)]
      BY <1>4 DEF CheckParticipants, Continue
    <2>3. offline # {} => Min(offline) \in User
      <3>1. offline \in SUBSET Nat /\ offline \subseteq User BY DEF User
      <3> HIDE DEF offline
      <3> QED BY <3>1, LeastElement
    <2> HIDE DEF offline
    <2>4. PICK l2 \in {"done", "push"} : send' = [send EXCEPT ![m] = l2] BY <2>2
    <2>5. \A k \in Message : send'[k] = IF k = m THEN l2 ELSE send[k]
      BY <1>2, <2>1, <2>4
    <2>6. \A k \in Message : send'[k] = "push" => next'[k] \in User
      BY <1>0, <2>2, <2>3, <2>5 DEF Sent, TypeOK
    <2>7. Sent' BY <1>0, <1>1, <1>2, <2>1, <2>4, <2>5, <2>6 DEF Sent
    <2>8. Real' BY <1>0, <1>1, <1>2, <2>1, <2>4 DEF Real
    <2> QED BY <1>2, <2>1, <2>4, <2>7, <2>8
  <1>5. CASE QueueMessage(m)
    <2>1. /\ wire' = wire /\ send[m] = "push" /\ send' = [send EXCEPT ![m] = "check"]
          /\ next' = [next EXCEPT ![m] = @ + 1]
          /\ queue' = queue \/ queue' = [queue EXCEPT ![next[m]] = <<m>> \o @]
      BY <1>5 DEF QueueMessage, Continue, network
    <2>2. /\ Covered' /\ Synchronised' /\ m \in Saved
          /\ \A k \in Message : send'[k] = IF k = m THEN "check" ELSE send[k]
          /\ \A s \in Socket : InFlight(s)' = InFlight(s)
      BY <1>2, <2>1
    <2>3. \A k \in Message : k # m => next'[k] = next[k] BY <1>0, <2>1 DEF TypeOK
    <2>4. Sent' BY <1>0, <1>1, <2>2, <2>3 DEF Sent
    <2>5. \A u \in User : ToSet(queue'[u]) \subseteq ToSet(queue[u]) \cup {m}
      <3>1. next[m] \in User BY <1>0, <2>1 DEF Sent
      <3>2. ToSet(<<m>> \o queue[next[m]]) = ToSet(queue[next[m]]) \cup {m}
        BY <1>0, <3>1, ToSetFacts DEF TypeOK
      <3> QED BY <1>0, <2>1, <3>2 DEF TypeOK
    <2>6. Real' BY <1>0, <1>1, <2>2, <2>5 DEF Real
    <2> QED BY <2>2, <2>4, <2>6
  <1>6. CASE RetryDelivery(m)
    <2>1. Broadcast(m) /\ m \in Saved /\ UNCHANGED <<queue, send, next>>
      BY <1>6 DEF RetryDelivery, redis, sending
    <2>2. \A s \in Socket : /\ InFlight(s) \subseteq InFlight(s)'
                            /\ InFlight(s)' \subseteq InFlight(s) \cup {m}
      BY <1>0, <2>1, BroadcastFacts
    <2>3. Sent' BY <1>0, <1>1, <2>1, SentKept
    <2>4. Real' BY <1>0, <1>1, <2>1, <2>2 DEF Real
    <2>5. Covered' /\ Synchronised' BY <1>0, <1>1, <2>1, <2>2, KeptStep
    <2> QED BY <2>3, <2>4, <2>5
  <1> QED BY <1>3, <1>4, <1>5, <1>6

-----------------------------------------------------------------------------
(* The steps of a connection.                                               *)

\* What the steps before the query, and the ones after the cursor, leave alone.
LEMMA QuietConnection ==
  ASSUME IInv, NEW s \in Socket, Saved' = Saved,
         UNCHANGED <<stamped, cursor, alive, received, lost, send, next>>,
         joined \subseteq joined', joined' \ late' \subseteq (joined \ late) \cup {s},
         conn'[s] \notin {"emit", "cursor"},
         \A t \in Socket : t # s => conn'[t] = conn[t] /\ loc'[t] = loc[t],
         loc'[s].since = loc[s].since, loc'[s].now = loc[s].now, loc'[s].fetched = loc[s].fetched,
         \A t \in Socket : InFlight(t) \subseteq InFlight(t)' /\ InFlight(t)' \subseteq Saved,
         \A u \in User : ToSet(queue'[u]) \subseteq ToSet(queue[u])
  PROVE  Sent' /\ Real' /\ Covered' /\ Synchronised'
  <1>1. \A t \in Socket : /\ loc'[t].since = loc[t].since /\ loc'[t].now = loc[t].now
                          /\ loc'[t].fetched = loc[t].fetched
    OBVIOUS
  <1>2. alive \subseteq Socket BY DEF IInv, TypeOK
  <1>3. Covered' /\ Synchronised' BY <1>1, <1>2, KeptStep
  <1>4. Real' BY <1>1 DEF Real, IInv
  <1>5. Sent' BY SentKept DEF IInv
  <1> QED BY <1>3, <1>4, <1>5

\* A broken connection: what its device has passed and not got is let go.
LEMMA DisconnectKeeps ==
  ASSUME IInv, NEW s \in Socket, Disconnect(s),
         UNCHANGED <<status, stamped, queue, cursor, loc, send, next>>,
         \A t \in Socket : t # s => conn'[t] = conn[t]
  PROVE  Sent' /\ Real' /\ Covered' /\ Synchronised'
  <1> DEFINE d == DeviceOf[s]
  <1>0. /\ TypeOK /\ Sent /\ Real /\ Covered /\ Synchronised
        /\ alive' = alive \ {s} /\ joined' = joined /\ late' = late /\ received' = received
        /\ \A t \in Socket : wire'[t] = IF t = s THEN <<>> ELSE wire[t]
        /\ \A e \in Device : lost'[e] = IF e = d THEN lost[e] \cup Unreached(e) ELSE lost[e]
        /\ d \in Device
    BY ConstantFacts DEF Disconnect, IInv, TypeOK
  <1> HIDE DEF d
  <1>1. Saved' = Saved BY DEF Saved
  <1>2. InFlight(s)' = {} /\ \A t \in Socket : t # s => InFlight(t)' = InFlight(t)
    BY <1>0, CarriedFacts, InFlightFacts
  <1>3. Sent' BY <1>1, SentKept DEF IInv
  <1>4. Real' BY <1>0, <1>1, <1>2 DEF Real
  <1>5. Covered'
    <2> SUFFICES ASSUME NEW e \in Device, NEW m \in Message, Passed(e, m) PROVE Accounted(e, m)'
      BY DEF Covered, Passed, SocketsOf
    <2>1. CASE e = d
      <3>1. m \in 1 .. Claimed(d) BY <1>0, <2>1, ClaimedFacts
      <3> QED BY <1>0, <2>1, <3>1 DEF Accounted, Unreached
    <2>2. CASE e # d
      <3>1. Accounted(e, m) BY <1>0 DEF Covered
      <3>2. s \notin SocketsOf(e) BY <2>2 DEF SocketsOf, d
      <3>3. SocketsOf(e)' = SocketsOf(e) /\ SocketsOf(e) \subseteq Socket BY DEF SocketsOf
      <3>4. OnItsWay(e, m) => OnItsWay(e, m)' BY <1>0, <1>2, <3>2, <3>3 DEF OnItsWay
      <3>5. Awaited(e, m) => Awaited(e, m)' BY <1>0, <1>1, <3>2, <3>3 DEF Awaited
      <3> QED BY <1>0, <2>2, <3>1, <3>4, <3>5 DEF Accounted
    <2> QED BY <2>1, <2>2
  <1>6. Synchronised'
    <2> SUFFICES ASSUME NEW t \in alive' \cap (joined \ late), At(t, "emit")' \/ At(t, "cursor")',
                        NEW m \in Message
                 PROVE  /\ m \notin Saved => m \in loc[t].unsaved
                        /\ m \in Saved /\ m > loc[t].since => InHand(t, m)'
      BY <1>0, <1>1 DEF Synchronised, Saved
    <2>1. t \in Socket /\ t # s /\ t \in alive BY <1>0 DEF TypeOK
    <2>2. conn'[t] = conn[t] BY <2>1
    <2>3. /\ m \notin Saved => m \in loc[t].unsaved
          /\ m \in Saved /\ m > loc[t].since => InHand(t, m)
      BY <1>0, <2>1, <2>2 DEF Synchronised, At
    <2>4. DeviceOf[t] \in Device BY <2>1, ConstantFacts
    <2> QED BY <1>0, <1>2, <2>1, <2>2, <2>3, <2>4 DEF InHand, At
  <1> QED BY <1>3, <1>4, <1>5, <1>6

LEMMA EarlyStepsKeep ==
  ASSUME IInv, NEW s \in Socket,
         \/ RegisterDevice(s) \/ JoinRooms(s) \/ DeliverQueued(s) \/ ReadQueuedAgain(s)
         \/ MarkQueued(s) \/ ClearQueue(s) \/ SetPresence(s)
  PROVE  Sent' /\ Real' /\ Covered' /\ Synchronised'
  <1>0. /\ TypeOK /\ Real /\ UserOf(s) \in User
        /\ UNCHANGED <<stamped, cursor, send, next>>
    BY ConstantFacts
       DEF IInv, RegisterDevice, JoinRooms, DeliverQueued, ReadQueuedAgain, MarkQueued, ClearQueue,
           SetPresence, db, redis, sending
  <1>1. \A t \in Socket : InFlight(t) \subseteq Saved BY <1>0 DEF Real
  <1>2. UNCHANGED wire => \A t \in Socket : InFlight(t)' = InFlight(t) BY DEF InFlight
  <1>3. UNCHANGED status => Saved' = Saved BY DEF Saved
  <1>4. ASSUME NEW l \in ConnLabel, Goto(s, l)
        PROVE  conn'[s] = l /\ \A t \in Socket : t # s => conn'[t] = conn[t]
    BY <1>0, <1>4 DEF Goto, TypeOK
  <1>5. CASE RegisterDevice(s)
    <2>1. CASE Disconnect(s) /\ Goto(s, "done") /\ UNCHANGED <<db, redis, loc, sending>>
      BY <1>4, <2>1, DisconnectKeeps DEF db, redis, sending, ConnLabel
    <2>2. CASE Goto(s, "rooms") /\ UNCHANGED <<db, redis, loc, network, joined, late>>
      BY <1>0, <1>1, <1>2, <1>3, <1>4, <2>2, QuietConnection DEF db, redis, network, ConnLabel
    <2> QED BY <1>5, <2>1, <2>2 DEF RegisterDevice
  <1>6. CASE JoinRooms(s)
    <2>1. Goto(s, "batch") /\ UNCHANGED <<db, redis, network, loc>> BY <1>6 DEF JoinRooms
    <2>2. joined \subseteq joined' /\ joined' \ late' \subseteq (joined \ late) \cup {s}
      BY <1>6 DEF JoinRooms
    <2> QED BY <1>0, <1>1, <1>2, <1>3, <1>4, <2>1, <2>2, QuietConnection
            DEF db, redis, network, ConnLabel
  <1>7. CASE DeliverQueued(s)
    <2>1. Goto(s, "confirm") /\ UNCHANGED <<db, redis, alive, received, lost, rooms, loc>>
      BY <1>7 DEF DeliverQueued
    <2> DEFINE p == [kind |-> "batch", msgs |-> ToSet(queue[UserOf(s)])]
    <2>2. wire' = wire \/ wire' = Emit(s, p) BY <1>7 DEF DeliverQueued
    <2>3. p.msgs \subseteq Saved BY <1>0 DEF Real
    <2>4. p \in Packet BY <1>0, <2>3 DEF Packet, Saved
    <2> HIDE DEF p
    <2>5. \A t \in Socket : InFlight(t) \subseteq InFlight(t)' /\ InFlight(t)' \subseteq Saved
      BY <1>0, <1>1, <1>2, <2>2, <2>3, <2>4, EmitFacts
    <2> QED BY <1>0, <1>3, <1>4, <2>1, <2>5, QuietConnection DEF db, redis, rooms, ConnLabel
  <1>8. CASE ReadQueuedAgain(s)
    <2>1. /\ Goto(s, "mark") /\ UNCHANGED <<db, redis, network, rooms>>
          /\ loc' = loc \/ loc' = [loc EXCEPT ![s].queued = queue[UserOf(s)]]
      BY <1>8 DEF ReadQueuedAgain
    <2>2. /\ \A t \in Socket : t # s => loc'[t] = loc[t]
          /\ loc'[s].since = loc[s].since /\ loc'[s].now = loc[s].now /\ loc'[s].fetched = loc[s].fetched
      BY <1>0, <2>1 DEF TypeOK, Locals
    <2> QED BY <1>0, <1>1, <1>2, <1>3, <1>4, <2>1, <2>2, QuietConnection
            DEF db, redis, network, rooms, ConnLabel
  <1>9. CASE MarkQueued(s)
    <2>1. UNCHANGED <<stamped, redis, network, rooms>> /\ (Goto(s, "clear") \/ UNCHANGED conn)
          /\ At(s, "mark")
      BY <1>9 DEF MarkQueued
    <2>2. Saved' = Saved BY <1>9, StatusFacts DEF MarkQueued, Delivered, Saved, IInv, TypeOK
    <2>3. /\ \A t \in Socket : t # s => loc'[t] = loc[t]
          /\ loc'[s].since = loc[s].since /\ loc'[s].now = loc[s].now /\ loc'[s].fetched = loc[s].fetched
      <3>1. loc' = loc \/ loc' = [loc EXCEPT ![s].queued = Tail(@)] BY <1>9 DEF MarkQueued
      <3> QED BY <1>0, <3>1 DEF TypeOK, Locals
    <2>4. conn'[s] \in {"clear", "mark"} /\ \A t \in Socket : t # s => conn'[t] = conn[t]
      BY <1>4, <2>1 DEF At, ConnLabel
    <2> QED BY <1>0, <1>1, <1>2, <2>1, <2>2, <2>3, <2>4, QuietConnection DEF redis, network, rooms
  <1>10. CASE ClearQueue(s)
    <2>1. Goto(s, "since") /\ UNCHANGED <<db, network, rooms, loc>> BY <1>10 DEF ClearQueue
    <2>2. \A u \in User : ToSet(queue'[u]) \subseteq ToSet(queue[u])
      <3>1. ToSet(<<>>) = {} BY DEF ToSet
      <3> QED BY <1>0, <1>10, <3>1 DEF ClearQueue, TypeOK
    <2> QED BY <1>0, <1>1, <1>2, <1>3, <1>4, <2>1, <2>2, QuietConnection
            DEF db, network, rooms, ConnLabel
  <1>11. CASE SetPresence(s)
    <2>1. CASE Disconnect(s) /\ Goto(s, "done") /\ UNCHANGED <<db, redis, loc, sending>>
      BY <1>4, <2>1, DisconnectKeeps DEF db, redis, sending, ConnLabel
    <2>2. CASE Goto(s, "done") /\ UNCHANGED <<db, redis, loc, network, rooms>>
      BY <1>0, <1>1, <1>2, <1>3, <1>4, <2>2, QuietConnection DEF db, redis, network, rooms, ConnLabel
    <2> QED BY <1>11, <2>1, <2>2 DEF SetPresence
  <1> QED BY <1>5, <1>6, <1>7, <1>8, <1>9, <1>10, <1>11

LEMMA ReadCursorKeeps ==
  ASSUME IInv, NEW s \in Socket, ReadCursor(s)
  PROVE  Sent' /\ Real' /\ Covered' /\ Synchronised'
  <1>0. /\ TypeOK /\ Sent /\ Real /\ Covered /\ Synchronised
        /\ UNCHANGED <<status, stamped, queue, cursor, alive, wire, received, lost, joined, late, send, next>>
        /\ conn' = [conn EXCEPT ![s] = "fetch"]
        /\ loc' = loc \/ loc' = [loc EXCEPT ![s].since = cursor[DeviceOf[s]]]
    BY DEF ReadCursor, IInv, Goto, db, redis, network, rooms, sending
  <1>1. Saved' = Saved BY <1>0 DEF Saved
  <1>2. \A t \in Socket : InFlight(t)' = InFlight(t) BY <1>0 DEF InFlight
  <1>3. \A t \in Socket : /\ t # s => loc'[t] = loc[t] /\ conn'[t] = conn[t]
                          /\ loc'[t].since \in {loc[t].since, cursor[DeviceOf[t]]}
                          /\ loc'[t].fetched = loc[t].fetched /\ loc'[t].now = loc[t].now
    BY <1>0 DEF TypeOK, Locals
  <1>4. conn'[s] = "fetch" BY <1>0 DEF TypeOK
  <1>5. Sent' BY <1>0, <1>1, SentKept
  <1>6. Real' BY <1>0, <1>1, <1>2, <1>3 DEF Real
  <1>7. Covered'
    <2> SUFFICES ASSUME NEW d \in Device, NEW m \in Message, Passed(d, m)' PROVE Accounted(d, m)'
      BY DEF Covered
    <2>1. \A t \in SocketsOf(d) : t \in Socket /\ DeviceOf[t] = d BY DEF SocketsOf
    <2>2. Passed(d, m) BY <1>0, <1>3, <2>1 DEF Passed, SocketsOf
    <2>3. Accounted(d, m) BY <1>0, <2>2 DEF Covered
    <2> QED BY <1>0, <1>1, <1>2, <2>3, AccountedKept
  <1>8. Synchronised'
    <2>1. alive \subseteq Socket BY <1>0 DEF TypeOK
    <2> QED BY <1>0, <1>1, <1>2, <1>3, <1>4, <2>1, SynchronisedKept
  <1> QED BY <1>5, <1>6, <1>7, <1>8

\* The query finds everything after the cursor: it is fetched, or missing.
LEMMA FetchMissedKeeps ==
  ASSUME IInv, NEW s \in Socket, FetchMissed(s)
  PROVE  Sent' /\ Real' /\ Covered' /\ Synchronised'
  <1> DEFINE page == {m \in Newer(s) : InPage(m)}
  <1>0. /\ TypeOK /\ Sent /\ Real /\ Covered /\ Synchronised
        /\ UNCHANGED <<status, stamped, queue, cursor, alive, wire, received, lost, joined, late, send, next>>
        /\ conn' = [conn EXCEPT ![s] = "emit"]
        /\ \/ loc' = [loc EXCEPT ![s].fetched = page, ![s].missing = Newer(s) \ page,
                                 ![s].unsaved = Message \ Saved]
           \/ loc' = [loc EXCEPT ![s].missing = Newer(s), ![s].unsaved = Message \ Saved]
    BY DEF FetchMissed, IInv, Goto, db, redis, network, rooms, sending
  <1>1. Saved' = Saved BY <1>0 DEF Saved
  <1>2. \A t \in Socket : InFlight(t)' = InFlight(t) BY <1>0 DEF InFlight
  <1>3. page \subseteq Newer(s) /\ Newer(s) \subseteq Saved
        /\ \A m \in Saved : m > loc[s].since => m \in Newer(s)
    BY DEF Newer
  <1> HIDE DEF page
  <1>4. \A t \in Socket : /\ t # s => loc'[t] = loc[t] /\ conn'[t] = conn[t]
                          /\ loc'[t].since = loc[t].since /\ loc'[t].now = loc[t].now
    BY <1>0 DEF TypeOK, Locals
  <1>5. /\ loc'[s].fetched \in {page, loc[s].fetched}
        /\ Newer(s) \subseteq loc'[s].fetched \cup loc'[s].missing
        /\ loc'[s].unsaved = Message \ Saved
    BY <1>0 DEF TypeOK, Locals
  <1>6. Sent' BY <1>0, <1>1, SentKept
  <1>7. Real' BY <1>0, <1>1, <1>2, <1>3, <1>4, <1>5 DEF Real
  <1>8. Covered'
    <2>1. \A d \in Device, m \in Message : Accounted(d, m) => Accounted(d, m)'
      BY <1>0, <1>1, <1>2, AccountedKept
    <2> QED BY <1>0, <1>4, <2>1, CoveredKept
  <1>9. Synchronised'
    <2> SUFFICES ASSUME NEW t \in alive \cap (joined \ late), At(t, "emit")' \/ At(t, "cursor")',
                        NEW m \in Message
                 PROVE  /\ m \notin Saved => m \in loc'[t].unsaved
                        /\ m \in Saved /\ m > loc'[t].since => InHand(t, m)'
      BY <1>0, <1>1 DEF Synchronised, Saved
    <2>1. t \in Socket BY <1>0 DEF TypeOK
    <2>2. CASE t = s
      <3>1. m \in Saved /\ m > loc'[s].since => m \in loc'[s].fetched \cup loc'[s].missing
        BY <1>3, <1>4, <1>5
      <3>2. conn'[s] = "emit" BY <1>0 DEF TypeOK
      <3> QED BY <1>5, <2>2, <3>1, <3>2 DEF InHand, At
    <2>3. CASE t # s
      <3>1. conn'[t] = conn[t] /\ loc'[t] = loc[t] BY <1>4, <2>1, <2>3
      <3>2. /\ m \notin Saved => m \in loc[t].unsaved
            /\ m \in Saved /\ m > loc[t].since => InHand(t, m)
        BY <1>0, <3>1 DEF Synchronised, At
      <3> QED BY <1>0, <1>2, <2>1, <3>1, <3>2 DEF InHand, At
    <2> QED BY <2>2, <2>3
  <1> QED BY <1>6, <1>7, <1>8, <1>9

\* What was fetched is put on the way to a socket that is up.
LEMMA EmitMissedKeeps ==
  ASSUME IInv, NEW s \in Socket, EmitMissed(s)
  PROVE  Sent' /\ Real' /\ Covered' /\ Synchronised'
  <1> DEFINE p == [kind |-> "sync", msgs |-> loc[s].fetched]
  <1>0. /\ TypeOK /\ Sent /\ Real /\ Covered /\ Synchronised
        /\ UNCHANGED <<status, stamped, queue, cursor, alive, received, lost, joined, late, send, next>>
        /\ conn' = [conn EXCEPT ![s] = "cursor"] /\ loc' = [loc EXCEPT ![s].now = stamped]
        /\ conn[s] = "emit" /\ wire' = IF loc[s].fetched = {} THEN wire ELSE Emit(s, p)
    BY DEF EmitMissed, IInv, Goto, At, db, redis, rooms, sending
  <1>1. Saved' = Saved /\ \A m \in Saved : m \in Message BY <1>0 DEF Saved
  <1>2. p.msgs = loc[s].fetched /\ loc[s].fetched \subseteq Saved BY <1>0 DEF Real
  <1>3. p \in Packet BY <1>2 DEF Packet, Saved
  <1> HIDE DEF p
  <1>4. /\ \A t \in Socket : InFlight(t) \subseteq InFlight(t)' /\ InFlight(t)' \subseteq Saved
        /\ s \in alive => loc[s].fetched \subseteq InFlight(s)'
    <2>0. \A t \in Socket : InFlight(t) \subseteq Saved BY <1>0 DEF Real
    <2>1. CASE loc[s].fetched = {}
      <3>1. \A t \in Socket : InFlight(t)' = InFlight(t) BY <1>0, <2>1 DEF InFlight
      <3> QED BY <2>0, <2>1, <3>1
    <2>2. CASE loc[s].fetched # {}
      <3>1. wire' = Emit(s, p) BY <1>0, <2>2
      <3> QED BY <1>0, <1>2, <1>3, <2>0, <3>1, EmitFacts
    <2> QED BY <2>1, <2>2
  <1>5. \A t \in Socket : /\ t # s => loc'[t] = loc[t] /\ conn'[t] = conn[t]
                          /\ loc'[t].since = loc[t].since /\ loc'[t].fetched = loc[t].fetched
                          /\ loc'[t].missing = loc[t].missing /\ loc'[t].unsaved = loc[t].unsaved
                          /\ loc'[t].now \in {loc[t].now, stamped}
    BY <1>0 DEF TypeOK, Locals
  <1>6. Sent' BY <1>0, <1>1, SentKept
  <1>7. Real'
    <2>1. stamped <= stamped BY <1>0 DEF TypeOK
    <2> QED BY <1>0, <1>1, <1>4, <1>5, <2>1 DEF Real
  <1>8. Covered'
    <2>1. \A d \in Device, m \in Message : Accounted(d, m) => Accounted(d, m)'
      BY <1>0, <1>1, <1>4, AccountedKept
    <2> QED BY <1>0, <1>5, <2>1, CoveredKept
  <1>9. Synchronised'
    <2> SUFFICES ASSUME NEW t \in alive \cap (joined \ late), At(t, "emit")' \/ At(t, "cursor")',
                        NEW m \in Message
                 PROVE  /\ m \notin Saved => m \in loc'[t].unsaved
                        /\ m \in Saved /\ m > loc'[t].since => InHand(t, m)'
      BY <1>0, <1>1 DEF Synchronised
    <2>1. t \in Socket BY <1>0 DEF TypeOK
    <2>2. CASE t = s
      <3>1. /\ m \notin Saved => m \in loc[s].unsaved
            /\ m \in Saved /\ m > loc'[s].since => InHand(s, m)
        BY <1>0, <1>5, <2>2 DEF Synchronised, At
      <3> QED BY <1>0, <1>4, <1>5, <2>1, <2>2, <3>1 DEF InHand
    <2>3. CASE t # s
      <3>1. conn'[t] = conn[t] /\ loc'[t] = loc[t] BY <1>5, <2>1, <2>3
      <3>2. /\ m \notin Saved => m \in loc[t].unsaved
            /\ m \in Saved /\ m > loc[t].since => InHand(t, m)
        BY <1>0, <3>1 DEF Synchronised, At
      <3> QED BY <1>0, <1>4, <2>1, <3>1, <3>2 DEF InHand, At
    <2> QED BY <2>2, <2>3
  <1> QED BY <1>6, <1>7, <1>8, <1>9

\* The step that moves the cursor.  What it passes anew the socket has or gets, if it
\* is up and joined its room before the query; else the device is told to do without.
LEMMA WriteCursorKeeps ==
  ASSUME IInv, NEW s \in Socket, WriteCursor(s)
  PROVE  Sent' /\ Real' /\ Covered' /\ Synchronised'
  <1> DEFINE d == DeviceOf[s]
             good == s \in alive \cap (joined \ late)
             letGo == IF good THEN loc[s].missing \cup Overtaken(s) ELSE 1 .. loc[s].now
  <1>0. /\ TypeOK /\ Sent /\ Real /\ Covered /\ Synchronised /\ d \in Device
        /\ UNCHANGED <<status, stamped, queue, alive, wire, received, joined, late, send, next>>
        /\ conn' = [conn EXCEPT ![s] = "presence"] /\ loc' = [loc EXCEPT ![s] = NoLocals]
        /\ conn[s] = "cursor"
    BY ConstantFacts DEF WriteCursor, IInv, Goto, At, db, rooms, sending
  <1>1. PICK M \in {letGo, loc[s].missing} :
          /\ lost' = [lost EXCEPT ![d] = @ \cup (M \ received[d])]
          /\ \/ /\ cursor' = [cursor EXCEPT ![d] = loc[s].now]
                /\ M = letGo
             \/ UNCHANGED cursor
    <2>1. CASE /\ cursor' = [cursor EXCEPT ![d] = loc[s].now]
               /\ lost' = [lost EXCEPT ![d] = @ \cup (letGo \ received[d])]
      BY <2>1
    <2>2. CASE UNCHANGED cursor /\ lost' = [lost EXCEPT ![d] = @ \cup (loc[s].missing \ received[d])]
      BY <2>2
    <2> QED BY <2>1, <2>2, Zenon DEF WriteCursor
  <1> HIDE DEF good, d, letGo
  <1>2. Saved' = Saved /\ \A m \in Saved : m \in Message BY <1>0 DEF Saved
  <1>3. \A t \in Socket : InFlight(t)' = InFlight(t) BY <1>0 DEF InFlight
  <1>4. \A e \in Device : lost'[e] = IF e = d THEN lost[e] \cup (M \ received[e]) ELSE lost[e]
    BY <1>0, <1>1 DEF TypeOK
  <1>5. conn'[s] = "presence" /\ loc'[s] = NoLocals
        /\ \A t \in Socket : t # s => loc'[t] = loc[t] /\ conn'[t] = conn[t]
    BY <1>0 DEF TypeOK
  <1>6. Sent' BY <1>0, <1>2, SentKept
  <1>7. Real'
    <2>1. loc'[s].fetched = {} /\ loc'[s].now <= stamped BY <1>0, <1>5 DEF NoLocals, TypeOK
    <2> QED BY <1>0, <1>2, <1>3, <1>5, <2>1 DEF Real
  <1>8. \A e \in Device, m \in Message : Accounted(e, m) => Accounted(e, m)'
    BY <1>0, <1>2, <1>3, <1>4, AccountedKept
  <1>9. ASSUME cursor' = [cursor EXCEPT ![d] = loc[s].now],
               M = letGo,
               NEW m \in Message, m <= loc[s].now
        PROVE  Accounted(d, m)'
    <2>0. m \in Nat /\ m >= 1 /\ loc[s].now \in Nat /\ loc[s].since \in Nat /\ loc[s].now <= stamped
          /\ stamped \in Nat
      BY <1>0 DEF Message, TypeOK, Locals, Real
    <2>1. CASE ~good
      <3>1. m \in M BY <1>9, <2>0, <2>1 DEF letGo
      <3> QED BY <1>0, <1>4, <3>1 DEF Accounted
    <2>2. CASE good
      <3>0. s \in alive /\ s \in joined /\ s \notin late /\ s \in SocketsOf(d)
        BY <2>2, ConstantFacts DEF good, d
      <3>4. ASSUME m \in loc[s].unsaved, send[m] \in {"store", "stored"} PROVE Accounted(d, m)'
        <4>1. m \in Overtaken(s) BY <1>9, <3>4 DEF Overtaken, Untold
        <4> QED BY <1>0, <1>4, <1>9, <2>2, <4>1 DEF Accounted, letGo
      <3>1. CASE m <= loc[s].since
        <4>1. Passed(d, m) BY <3>0, <3>1 DEF Passed
        <4> QED BY <1>0, <1>8, <4>1 DEF Covered
      <3>2. CASE m > loc[s].since /\ m \in Saved
        <4>1. InHand(s, m) BY <1>0, <3>0, <3>2 DEF Synchronised, At
        <4>2. CASE m \in loc[s].missing
          BY <1>0, <1>4, <1>9, <2>2, <4>2 DEF Accounted, letGo
        <4>3. CASE m \in received[d] \cup lost[d]
          BY <1>0, <1>8, <4>3 DEF Accounted
        <4>4. CASE m \in InFlight(s) \/ send[m] = "announce"
          BY <1>8, <1>0, <3>0, <4>4 DEF Accounted, OnItsWay
        <4>5. CASE m \in loc[s].unsaved /\ send[m] = "stored"
          BY <3>4, <4>5
        <4> QED BY <1>0, <4>1, <4>2, <4>3, <4>4, <4>5 DEF InHand, At, d
      <3>3. CASE m \notin Saved
        <4>1. send[m] # "new" BY <1>0, <1>9, <2>0 DEF Sent
        <4>2. CASE send[m] = "store"
          <5>1. m \in loc[s].unsaved BY <1>0, <3>0, <3>3 DEF Synchronised, At
          <5> QED BY <3>4, <4>2, <5>1
        <4>3. CASE send[m] # "store"
          <5>1. Awaited(d, m) BY <3>0, <3>3, <4>1, <4>3 DEF Awaited
          <5> QED BY <1>0, <1>8, <5>1 DEF Accounted
        <4> QED BY <4>2, <4>3
      <3> QED BY <2>0, <3>1, <3>2, <3>3
    <2> QED BY <2>1, <2>2
  <1>10. Covered'
    <2> SUFFICES ASSUME NEW e \in Device, NEW m \in Message, Passed(e, m)' PROVE Accounted(e, m)'
      BY DEF Covered
    <2>1. m \in Nat /\ m >= 1 BY DEF Message
    <2>2. \A t \in SocketsOf(e)' : m <= loc'[t].since => t \in SocketsOf(e) /\ m <= loc[t].since
      <3> SUFFICES ASSUME NEW t \in Socket, DeviceOf[t] = e, m <= loc'[t].since
                   PROVE  m <= loc[t].since
        BY DEF SocketsOf
      <3>1. t # s BY <1>5, <2>1 DEF NoLocals
      <3> QED BY <1>5, <3>1
    <2>3. CASE Passed(e, m) BY <1>0, <1>8, <2>3 DEF Covered
    <2>4. CASE ~Passed(e, m)
      <3>1. m <= cursor'[e] /\ ~(m <= cursor[e]) BY <2>2, <2>4 DEF Passed
      <3>2. cursor' = [cursor EXCEPT ![d] = loc[s].now] /\ M = letGo
        BY <1>1, <3>1
      <3>3. e = d /\ cursor'[e] = loc[s].now BY <1>0, <3>1, <3>2 DEF TypeOK
      <3> QED BY <1>9, <3>1, <3>2, <3>3
    <2> QED BY <2>3, <2>4
  <1>11. Synchronised'
    <2>1. alive \subseteq Socket /\ \A e \in Device : lost[e] \subseteq lost'[e]
      BY <1>0, <1>4 DEF TypeOK
    <2> QED BY <1>0, <1>2, <1>3, <1>5, <2>1, SynchronisedKept
  <1> QED BY <1>6, <1>7, <1>10, <1>11

LEMMA ConnectionKeeps ==
  ASSUME IInv, NEW s \in Socket, ConnectionStep(s)
  PROVE  Sent' /\ Real' /\ Covered' /\ Synchronised'
  BY EarlyStepsKeep, ReadCursorKeeps, FetchMissedKeeps, EmitMissedKeeps, WriteCursorKeeps
     DEF ConnectionStep

-----------------------------------------------------------------------------
(* Clients, and the server's end.                                           *)

LEMMA ReceiveKeeps ==
  ASSUME IInv, NEW s \in Socket, Receive(s)
  PROVE  Sent' /\ Real' /\ Covered' /\ Synchronised'
  <1> DEFINE d == DeviceOf[s]
             p == Head(wire[s])
  <1>0. /\ TypeOK /\ Sent /\ Real /\ Covered /\ Synchronised /\ d \in Device
        /\ UNCHANGED <<status, stamped, queue, cursor, alive, lost, joined, late, conn, loc, send, next>>
        /\ wire[s] \in Seq(Packet) /\ wire[s] # <<>>
        /\ wire' = [wire EXCEPT ![s] = Tail(@)]
        /\ received' = [received EXCEPT ![d] = @ \cup p.msgs]
    BY ConstantFacts DEF Receive, IInv, TypeOK, db, redis, rooms, connection, sending
  <1> HIDE DEF d, p
  <1>1. Saved' = Saved BY <1>0 DEF Saved
  <1>2. InFlight(s) = p.msgs \cup InFlight(s)' /\ \A t \in Socket : t # s => InFlight(t)' = InFlight(t)
    <2>1. wire'[s] = Tail(wire[s]) /\ \A t \in Socket : t # s => wire'[t] = wire[t] BY <1>0 DEF TypeOK
    <2>2. Carried(wire[s]) = p.msgs \cup Carried(Tail(wire[s])) BY <1>0, CarriedFacts DEF p
    <2> QED BY <2>1, <2>2, InFlightFacts
  <1>3. \A e \in Device : received'[e] = IF e = d THEN received[e] \cup p.msgs ELSE received[e]
    BY <1>0 DEF TypeOK
  <1>4. Sent' BY <1>0, <1>1, SentKept
  <1>5. Real'
    <2>1. \A t \in Socket : InFlight(t)' \subseteq InFlight(t) BY <1>2
    <2>2. p.msgs \subseteq Saved BY <1>0, <1>2 DEF Real
    <2>3. \A e \in Device : received'[e] \subseteq Saved BY <1>0, <1>3, <2>2 DEF Real
    <2> QED BY <1>0, <1>1, <2>1, <2>3 DEF Real
  <1>6. Covered' /\ Synchronised'
    <2>1. \A e \in Device : received[e] \subseteq received'[e] BY <1>3
    <2>2. \A t \in Socket : InFlight(t) \subseteq InFlight(t)' \cup received'[DeviceOf[t]]
      <3>1. DeviceOf[s] = d BY DEF d
      <3>2. d \in Device BY <1>0
      <3>3. received'[d] = received[d] \cup p.msgs BY <1>3, <3>2
      <3>4. p.msgs \subseteq received'[d] BY <3>3
      <3> QED BY <1>2, <3>1, <3>4
    <2>3. alive \cap (joined \ late) \subseteq Socket BY <1>0 DEF TypeOK
    <2> QED BY <1>0, <1>1, <2>1, <2>2, <2>3, KeptStep
  <1> QED BY <1>4, <1>5, <1>6

LEMMA ClientsKeep ==
  ASSUME IInv, NEW s \in Socket,
         \/ Connect(s) \/ Drop(s) \/ JoinConversations(s) \/ ClearAcknowledged(s)
         \/ \E m \in Message : ConfirmDelivery(s, m) \/ MarkAsRead(s, m)
  PROVE  Sent' /\ Real' /\ Covered' /\ Synchronised'
  <1>0. TypeOK /\ Real /\ UserOf(s) \in User /\ DeviceOf[s] \in Device
    BY ConstantFacts DEF IInv
  <1>1. \A t \in Socket : InFlight(t) \subseteq Saved BY <1>0 DEF Real
  <1>2. UNCHANGED wire => \A t \in Socket : InFlight(t)' = InFlight(t) BY DEF InFlight
  <1>3. UNCHANGED status => Saved' = Saved BY DEF Saved
  <1>4. alive \subseteq Socket BY <1>0 DEF TypeOK
  <1>5. CASE Drop(s)
    BY <1>5, DisconnectKeeps DEF Drop, db, redis, connection, sending
  <1>6. CASE Connect(s)
    <2>1. UNCHANGED <<db, redis, wire, received, lost, rooms, loc, sending>>
          /\ alive' = alive \cup {s} /\ conn' = [conn EXCEPT ![s] = "register"]
      BY <1>6 DEF Connect, Goto
    <2>2. conn'[s] = "register" /\ \A t \in Socket : t # s => conn'[t] = conn[t]
      BY <1>0, <2>1 DEF TypeOK
    <2>3. Covered' /\ Synchronised'
      BY <1>2, <1>3, <1>4, <2>1, <2>2, KeptStep DEF db, redis, rooms, sending
    <2>4. Sent' BY <1>3, <2>1, SentKept DEF IInv, db, sending
    <2>5. Real' BY <1>0, <1>2, <1>3, <2>1, RealKept DEF db, redis
    <2> QED BY <2>3, <2>4, <2>5
  <1>7. CASE JoinConversations(s)
    <2>1. UNCHANGED <<db, redis, network, connection, sending>>
          /\ joined' = joined \cup {s} /\ late' = late \cup {s}
      BY <1>7 DEF JoinConversations
    <2>3. Covered' /\ Synchronised'
      BY <1>2, <1>3, <1>4, <2>1, KeptStep DEF db, redis, network, connection, sending
    <2>4. Sent' BY <1>3, <2>1, SentKept DEF IInv, db, sending
    <2>5. Real' BY <1>0, <1>2, <1>3, <2>1, RealKept DEF db, redis, network, connection
    <2> QED BY <2>3, <2>4, <2>5
  <1>8. CASE ClearAcknowledged(s)
    <2>1. UNCHANGED <<db, cursor, network, rooms, connection, sending>> BY <1>8 DEF ClearAcknowledged
    <2>2. \A u \in User : ToSet(queue'[u]) \subseteq ToSet(queue[u])
      <3>1. ToSet(<<>>) = {} BY DEF ToSet
      <3> QED BY <1>0, <1>8, <3>1 DEF ClearAcknowledged, TypeOK
    <2>3. Covered' /\ Synchronised'
      BY <1>2, <1>3, <1>4, <2>1, KeptStep DEF db, network, rooms, connection, sending
    <2>4. Sent' BY <1>3, <2>1, SentKept DEF IInv, db, sending
    <2>5. Real' BY <1>0, <1>2, <1>3, <2>1, <2>2, RealKept DEF db, network, connection
    <2> QED BY <2>3, <2>4, <2>5
  <1>9. ASSUME NEW m \in Message, ConfirmDelivery(s, m) \/ MarkAsRead(s, m)
        PROVE  Sent' /\ Real' /\ Covered' /\ Synchronised'
    <2>1. UNCHANGED <<stamped, redis, network, rooms, connection, sending>>
          /\ m \in received[DeviceOf[s]]
          /\ \/ status' = status \/ status' = Delivered(m)
             \/ status' = [status EXCEPT ![m] = "READ"]
      BY <1>9 DEF ConfirmDelivery, MarkAsRead
    <2>2. m \in Saved BY <1>0, <2>1 DEF Real
    <2>3. Saved' = Saved BY <2>1, <2>2, StatusFacts
    <2>4. Covered' /\ Synchronised'
      BY <1>2, <1>4, <2>1, <2>3, KeptStep DEF redis, network, rooms, connection, sending
    <2>5. Sent' BY <2>1, <2>3, SentKept DEF IInv, sending
    <2>6. Real' BY <1>0, <1>2, <2>1, <2>3, RealKept DEF redis, network, connection
    <2> QED BY <2>4, <2>5, <2>6
  <1> QED BY <1>5, <1>6, <1>7, <1>8, <1>9

LEMMA RemoveQueuedKeeps ==
  ASSUME IInv, NEW u \in User, NEW m \in Message, RemoveQueued(u, m)
  PROVE  Sent' /\ Real' /\ Covered' /\ Synchronised'
  <1>1. UNCHANGED <<db, cursor, network, rooms, connection, sending>> BY DEF RemoveQueued
  <1>2. Saved' = Saved /\ \A t \in Socket : InFlight(t)' = InFlight(t)
    BY <1>1 DEF Saved, InFlight, db, network
  <1>3. \A v \in User : ToSet(queue'[v]) \subseteq ToSet(queue[v])
    <2>1. ToSet(RemoveFirst(queue[u], m)) \subseteq ToSet(queue[u])
      BY RemoveFirstFacts DEF IInv, TypeOK
    <2> QED BY <2>1 DEF RemoveQueued, IInv, TypeOK
  <1>4. alive \subseteq Socket BY DEF IInv, TypeOK
  <1>5. Covered' /\ Synchronised'
    BY <1>1, <1>2, <1>4, KeptStep DEF network, rooms, connection, sending
  <1>6. Sent' BY <1>1, <1>2, SentKept DEF IInv, db, sending
  <1>7. Real' BY <1>1, <1>2, <1>3, RealKept DEF IInv, db, network, connection
  <1> QED BY <1>5, <1>6, <1>7

\* All sockets drop and all handlers end: what was passed and not got is let go.
LEMMA RestartKeeps ==
  ASSUME IInv, Restart
  PROVE  Sent' /\ Real' /\ Covered' /\ Synchronised'
  <1>0. /\ TypeOK /\ Sent /\ Real
        /\ UNCHANGED <<status, stamped, queue, cursor, received, next>>
        /\ alive' = {} /\ wire' = [s \in Socket |-> <<>>] /\ loc' = [s \in Socket |-> NoLocals]
        /\ lost' = [d \in Device |-> lost[d] \cup Unreached(d)]
        /\ send' = [m \in Message |-> IF send[m] \in {"new", "stored"} THEN send[m] ELSE "done"]
    BY DEF Restart, IInv, db, redis
  <1>1. Saved' = Saved BY <1>0 DEF Saved
  <1>2. \A s \in Socket : InFlight(s)' = {} BY <1>0, CarriedFacts, InFlightFacts
  <1>3. Sent' BY <1>0, <1>1 DEF Sent
  <1>4. Real'
    <2>1. \A s \in Socket : loc'[s].fetched = {} /\ loc'[s].now <= stamped
      BY <1>0 DEF NoLocals, TypeOK
    <2> QED BY <1>0, <1>1, <1>2, <2>1 DEF Real
  <1>5. Covered'
    <2> SUFFICES ASSUME NEW d \in Device, NEW m \in Message, Passed(d, m)' PROVE Accounted(d, m)'
      BY DEF Covered
    <2>1. m <= cursor[d]
      <3>1. \A s \in Socket : loc'[s].since = 0 BY <1>0 DEF NoLocals
      <3>2. ~(m <= 0) BY DEF Message
      <3> QED BY <1>0, <3>1, <3>2 DEF Passed, SocketsOf
    <2>2. m \in 1 .. Claimed(d) BY <1>0, <2>1, ClaimedFacts DEF Passed
    <2> QED BY <1>0, <2>2 DEF Accounted, Unreached
  <1>6. Synchronised' BY <1>0 DEF Synchronised
  <1> QED BY <1>3, <1>4, <1>5, <1>6

-----------------------------------------------------------------------------
(* The theorems.                                                            *)

LEMMA InitIInv == Init => IInv
  <1> SUFFICES ASSUME Init PROVE IInv OBVIOUS
  <1>1. TypeOK
    <2>1. NoLocals \in Locals BY ConstantFacts DEF NoLocals, Locals
    <2>2. \A m \in Message : 1 \in 1 .. NumUsers + 1 BY ConstantFacts
    <2>3. \A x : x \in {"none", "new", "unused"} => x \in {"none", "SENT", "DELIVERED", "READ"}
                                                  \/ x \in SendLabel \/ x \in ConnLabel
      BY DEF SendLabel, ConnLabel
    <2> QED BY <2>1, <2>2, ConstantFacts DEF Init, TypeOK, SendLabel, ConnLabel
  <1>2. Saved = {} BY DEF Init, Saved
  <1>3. Sent BY <1>2 DEF Init, Sent, Message
  <1>4. \A s \in Socket : InFlight(s) = {} BY DEF Init, InFlight
  <1>5. Real
    <2>1. \A u \in User : ToSet(queue[u]) = {} BY DEF Init, ToSet
    <2>2. \A s \in Socket : loc[s].fetched = {} /\ loc[s].now <= stamped BY DEF Init, NoLocals
    <2> QED BY <1>4, <2>1, <2>2 DEF Init, Real
  <1>6. Covered
    <2>1. \A m \in Message : ~(m <= 0) BY DEF Message
    <2>2. \A s \in Socket : loc[s].since = 0 BY DEF Init, NoLocals
    <2>3. \A d \in Device, m \in Message : ~Passed(d, m)
      BY <2>1, <2>2 DEF Init, Passed, SocketsOf
    <2> QED BY <2>3 DEF Covered
  <1>7. Synchronised BY DEF Init, Synchronised
  <1> QED BY <1>1, <1>3, <1>5, <1>6, <1>7 DEF IInv

LEMMA NextIInv ==
  ASSUME IInv, [Next]_vars
  PROVE  IInv'
  <1>1. TypeOK' BY TypeStep DEF IInv
  <1>2. CASE UNCHANGED vars
    <2>1. UNCHANGED <<stamped, status, queue, cursor, alive, wire, received, lost, joined, late,
                      conn, loc, send, next>>
      BY <1>2 DEF vars, db, redis, network, rooms, connection, sending
    <2>2. Saved' = Saved /\ \A s \in Socket : InFlight(s)' = InFlight(s)
      BY <2>1 DEF Saved, InFlight
    <2>3. alive \subseteq Socket BY DEF IInv, TypeOK
    <2>4. Covered' /\ Synchronised' BY <2>1, <2>2, <2>3, KeptStep
    <2> QED BY <1>1, <2>1, <2>2, <2>4 DEF IInv, Sent, Real
  <1>3. CASE Next
    <2> SUFFICES Sent' /\ Real' /\ Covered' /\ Synchronised' BY <1>1 DEF IInv
    <2>1. ASSUME NEW m \in Message,
                 SendMessage(m) \/ PostMessage(m) \/ SendStep(m) \/ RetryDelivery(m)
          PROVE Sent' /\ Real' /\ Covered' /\ Synchronised'
      BY <2>1, StampKeeps, SaveKeeps, AnnounceKeeps, QueueingKeeps DEF SendStep
    <2>2. ASSUME NEW s \in Socket,
                 \/ Connect(s) \/ ConnectionStep(s) \/ Drop(s) \/ Receive(s)
                 \/ JoinConversations(s) \/ ClearAcknowledged(s)
          PROVE Sent' /\ Real' /\ Covered' /\ Synchronised'
      BY <2>2, ConnectionKeeps, ReceiveKeeps, ClientsKeep
    <2>3. ASSUME NEW s \in Socket, NEW m \in Message, ConfirmDelivery(s, m) \/ MarkAsRead(s, m)
          PROVE Sent' /\ Real' /\ Covered' /\ Synchronised'
      BY <2>3, ClientsKeep
    <2> QED BY <1>3, <2>1, <2>2, <2>3, RemoveQueuedKeeps, RestartKeeps DEF Next
  <1> QED BY <1>2, <1>3

LEMMA Invariance == Spec => []IInv
  <1>1. IInv /\ [Next]_vars => IInv' BY NextIInv
  <1> QED BY InitIInv, <1>1, PTL DEF Spec

(* In every behaviour the stores, the sockets and the handlers of sends and  *)
(* connections hold what TypeOK says (chat.gateway.ts, message-queue.service *)
(* .ts, device-sync.service.ts).                                             *)
THEOREM TypeCorrect == Spec => []TypeOK
  <1>1. IInv => TypeOK BY DEF IInv
  <1> QED BY Invariance, <1>1, PTL

(* Whatever the interleaving of sends over sockets and over HTTP, of         *)
(* connections, drops and restarts, a stored message that the sync cursor of *)
(* a device has passed is with the device, on its way to it, or was let go   *)
(* (device-sync.service.ts syncDeviceOnConnect, chat.gateway.ts              *)
(* handleConnection): a connection broke, a query or an announcement failed, *)
(* a page was full, the socket was gone or in no room, or the message was    *)
(* stored over HTTP, and told nobody, while a synchronisation ran.           *)
THEOREM DeliveryNothingForgotten == Spec => []NothingForgotten
  <1>1. IInv => NothingForgotten
    <2> SUFFICES ASSUME IInv, NEW d \in Device, NEW m \in Saved, m <= cursor[d]
                 PROVE  m \in received[d] \cup lost[d] \/ OnItsWay(d, m)
      BY DEF NothingForgotten
    <2>1. m \in Message BY DEF Saved
    <2>2. Accounted(d, m) BY <2>1 DEF IInv, Covered, Passed
    <2> QED BY <2>2 DEF Accounted, Awaited
  <1> QED BY Invariance, <1>1, PTL

\* The ways a status is written.
LEMMA StatusWrites ==
  ASSUME TypeOK, [Next]_vars
  PROVE  \/ status' = status
         \/ \E m \in Message : \/ send[m] \in {"save", "store"} /\ status' = [status EXCEPT ![m] = "SENT"]
                               \/ status' = Delivered(m)
                               \/ status' = [status EXCEPT ![m] = "READ"]
  <1>1. ASSUME NEW m \in Message,
               SendMessage(m) \/ PostMessage(m) \/ SendStep(m) \/ RetryDelivery(m)
        PROVE  \/ status' = status
               \/ send[m] \in {"save", "store"} /\ status' = [status EXCEPT ![m] = "SENT"]
    BY <1>1 DEF SendMessage, PostMessage, SendStep, SaveMessage, Announce, GetParticipants,
                CheckParticipants, QueueMessage, StoreMessage, RetryDelivery, db
  <1>2. ASSUME NEW s \in Socket, MarkQueued(s)
        PROVE  status' = status \/ \E m \in Message : status' = Delivered(m)
    <2>1. loc[s].queued \in Seq(Message) BY DEF TypeOK, Locals
    <2>2. loc[s].queued # <<>> => Head(loc[s].queued) \in Message BY <2>1
    <2> QED BY <1>2, <2>2 DEF MarkQueued
  <1>3. ASSUME NEW s \in Socket, ConnectionStep(s), ~MarkQueued(s)
        PROVE  status' = status
    BY <1>3 DEF ConnectionStep, RegisterDevice, JoinRooms, DeliverQueued, ReadQueuedAgain,
                ClearQueue, ReadCursor, FetchMissed, EmitMissed, WriteCursor, SetPresence, db
  <1>4. ASSUME NEW s \in Socket,
               \/ Connect(s) \/ Drop(s) \/ Receive(s) \/ JoinConversations(s) \/ ClearAcknowledged(s)
        PROVE  status' = status
    BY <1>4 DEF Connect, Drop, Receive, JoinConversations, ClearAcknowledged, db
  <1>5. ASSUME NEW s \in Socket, NEW m \in Message, ConfirmDelivery(s, m) \/ MarkAsRead(s, m)
        PROVE  \/ status' = status \/ status' = Delivered(m)
               \/ status' = [status EXCEPT ![m] = "READ"]
    BY <1>5 DEF ConfirmDelivery, MarkAsRead
  <1>6. ASSUME NEW u \in User, NEW m \in Message, RemoveQueued(u, m) PROVE status' = status
    BY <1>6 DEF RemoveQueued, db
  <1>7. Restart \/ UNCHANGED vars => status' = status BY DEF Restart, vars, db
  <1> QED BY <1>1, <1>2, <1>3, <1>4, <1>5, <1>6, <1>7 DEF Next

(* No late confirmation, second reader, reconnection or retry takes a status *)
(* back: READ stays, DELIVERED only becomes READ (message.repository.ts      *)
(* markAsDelivered, markAsRead).                                             *)
THEOREM StatusesMoveOn == Spec => StatusNeverGoesBack
  <1>1. IInv /\ [Next]_vars => [\A m \in Message : Rank(status[m]) <= Rank(status'[m])]_vars
    <2> SUFFICES ASSUME IInv, [Next]_vars, NEW k \in Message
                 PROVE  Rank(status[k]) <= Rank(status'[k])
      OBVIOUS
    <2>1. Rank("none") = 0 /\ Rank("SENT") = 1 /\ Rank("DELIVERED") = 2 /\ Rank("READ") = 3
      BY DEF Rank
    <2>2. TypeOK /\ status[k] \in {"none", "SENT", "DELIVERED", "READ"} BY DEF IInv, TypeOK
    <2>3. CASE status' = status BY <2>1, <2>2, <2>3
    <2>4. ASSUME NEW m \in Message,
                 \/ send[m] \in {"save", "store"} /\ status' = [status EXCEPT ![m] = "SENT"]
                 \/ status' = Delivered(m)
                 \/ status' = [status EXCEPT ![m] = "READ"]
          PROVE  Rank(status[k]) <= Rank(status'[k])
      <3>1. send[m] \in {"save", "store"} => status[m] = "none" BY DEF IInv, Sent, Saved
      <3>2. \/ status'[k] = status[k]
            \/ status[k] = "none" /\ status'[k] = "SENT"
            \/ status[k] = "SENT" /\ status'[k] = "DELIVERED"
            \/ status'[k] = "READ"
        BY <2>2, <2>4, <3>1 DEF Delivered, TypeOK
      <3> QED BY <2>1, <2>2, <3>2
    <2> QED BY <2>2, <2>3, <2>4, StatusWrites
  <1> QED BY <1>1, Invariance, PTL DEF Spec, StatusNeverGoesBack
=============================================================================
