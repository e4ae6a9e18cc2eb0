---------------------------- MODULE PresenceProofs ----------------------------
(***************************************************************************)
(* Proofs about what the server believes of a user's connections, for any  *)
(* number of devices, connections, events and failures.                    *)
(***************************************************************************)
EXTENDS Presence, TLAPS

\* How far the two handlers of a socket have come, and what they leave in the maps.
HandledBy(s) ==
  /\ con[s] = "new" => s \notin alive /\ dis[s] = "none"
  /\ s \in alive => dis[s] = "none"
  /\ con[s] \notin {"new", "done"} /\ s \notin spoilt => s \in alive
  /\ con[s] \in {"new", "auth"} => s \notin tracked
  /\ s \in alive /\ con[s] \notin {"new", "auth"} => s \in tracked
  /\ con[s] \in {"new", "auth", "info", "add", "track"} => s \notin connected
  /\ con[s] \in {"new", "auth", "info"} => info[DeviceOf[s]].socket # s
  /\ s \notin spoilt =>
       /\ dis[s] # "none" => s \notin connected
       /\ dis[s] \in {"count", "offline", "seen", "tell", "done"} => info[DeviceOf[s]].socket # s
       /\ dis[s] = "done" => s \notin tracked

Handled == \A s \in Socket : HandledBy(s)

\* A device that never had two connections at a time has one handler at work at most.
Alone ==
  \A s, t \in Socket :
    /\ s # t /\ DeviceOf[s] = DeviceOf[t] /\ s \notin shared
    /\ s \in alive \/ ~AtRest(s)
    => t \notin alive /\ AtRest(t)

\* What handleConnection has registered stays.
RegisteredWith(s) ==
  s \in alive /\ s \notin shared \cup cleaned /\ con[s] \in {"add", "track", "online", "done"} =>
    /\ info[DeviceOf[s]].socket = s /\ info[DeviceOf[s]].active \in {"recent", "old"}
    /\ cleaning[DeviceOf[s]] = "rest"
    /\ con[s] # "add" => DeviceOf[s] \in devices

Registered == \A s \in Socket : RegisteredWith(s)

\* While a connected user is heard of, nothing is under way that would change his status.
HeardOf(s) ==
  Established(s) /\ s \notin shared \cup overruled \cup lapsed =>
    /\ presence.status = chosen
    /\ DeviceOf[s] \in listed /\ sweep = "rest" /\ \A t \in Socket : dis[t] # "offline"
    /\ sign < Stale /\ presence.seen <= sign /\ presence.age <= sign

Heard == \A s \in Socket : HeardOf(s)

IInv == TypeOK /\ Handled /\ Alone /\ Registered /\ Heard /\ TypingIsTimed

-----------------------------------------------------------------------------
(* Types.                                                                   *)

LEMMA PresenceFacts ==
  ASSUME TypeOK
  PROVE  /\ NoPresence \in UserPresence /\ NoPresence.status = "gone"
         /\ Seen \in UserPresence /\ Seen.seen = 0 /\ Seen.age = presence.age
         /\ Seen.status = IF presence.status = "gone" THEN "unset" ELSE presence.status
         /\ \A st \in PresenceStatus :
              LET p == [status |-> st, seen |-> 0, age |-> 0]
              IN p \in UserPresence /\ p.status = st /\ p.seen = 0 /\ p.age = 0
         /\ \A st \in PresenceStatus :
              LET p == [Seen EXCEPT !.status = st]
              IN p \in UserPresence /\ p.status = st /\ p.seen = 0 /\ p.age = presence.age
         /\ LET p == [Seen EXCEPT !.age = 0]
            IN p \in UserPresence /\ p.status = Seen.status /\ p.seen = 0 /\ p.age = 0
  <1>1. presence \in UserPresence BY DEF TypeOK
  <1>2. NoPresence \in UserPresence /\ NoPresence.status = "gone"
    BY DEF NoPresence, UserPresence, PresenceStatus, Stale, Life
  <1>3. /\ Seen \in UserPresence /\ Seen.seen = 0 /\ Seen.age = presence.age
        /\ Seen.status = IF presence.status = "gone" THEN "unset" ELSE presence.status
    <2> DEFINE st == IF presence.status = "gone" THEN "unset" ELSE presence.status
               N(q, n, new) == [q EXCEPT !.seen = n, !.status = new]
    <2>1. st \in PresenceStatus \cup {"gone", "unset"} BY <1>1 DEF UserPresence
    <2>2. Seen = N(presence, 0, st) BY DEF Seen
    <2>3. \A q \in UserPresence, n \in 0 .. Stale, new \in PresenceStatus \cup {"gone", "unset"} :
            /\ N(q, n, new) \in UserPresence /\ N(q, n, new).seen = n
            /\ N(q, n, new).age = q.age /\ N(q, n, new).status = new
      BY DEF UserPresence
    <2> HIDE DEF st, N
    <2>4. 0 \in 0 .. Stale BY DEF Stale
    <2> QED BY <1>1, <2>1, <2>2, <2>3, <2>4 DEF st
  <1>4. \A st \in PresenceStatus :
          LET p == [status |-> st, seen |-> 0, age |-> 0]
          IN p \in UserPresence /\ p.status = st /\ p.seen = 0 /\ p.age = 0
    BY DEF UserPresence, PresenceStatus, Stale, Life
  <1> HIDE DEF Seen
  <1>5. \A st \in PresenceStatus :
          LET p == [Seen EXCEPT !.status = st]
          IN p \in UserPresence /\ p.status = st /\ p.seen = 0 /\ p.age = presence.age
    BY <1>3 DEF UserPresence, PresenceStatus
  <1>6. LET p == [Seen EXCEPT !.age = 0]
        IN p \in UserPresence /\ p.status = Seen.status /\ p.seen = 0 /\ p.age = 0
    BY <1>3 DEF UserPresence, Life
  <1> QED BY <1>2, <1>3, <1>4, <1>5, <1>6

\* Where the device of a socket is.
LEMMA DeviceFacts ==
  /\ \A s \in Socket : DeviceOf[s] \in Device /\ s # 0
  /\ \A e \in Event : e # 0
  BY PresenceAssumption DEF Socket, Event

\* handleConnection, but for its answer to a failure.
LEMMA ConnectionType ==
  ASSUME TypeOK, NEW s \in Socket, Connect(s) \/ ConnectionStep(s)
  PROVE  TypeOK'
  <1> USE DeviceFacts
  <1>1. CASE Connect(s)
    BY <1>1 DEF Connect, ConStep, TypeOK, ConLabel, registry, status, typers, history, bounds
  <1>2. CASE Authenticate(s)
    BY <1>2 DEF Authenticate, ConStep, TypeOK, ConLabel, registry, status, typers, history, bounds
  <1>3. CASE RegisterInfo(s)
    <2>1. [socket |-> s, ids |-> TRUE, active |-> "recent"] \in DeviceInfo BY DEF DeviceInfo
    <2>2. info' \in [Device -> DeviceInfo] /\ cleaned' \subseteq Socket
      BY <1>3, <2>1 DEF RegisterInfo, TypeOK
    <2> QED
      BY <1>3, <2>2 DEF RegisterInfo, ConStep, TypeOK, ConLabel, sockets, status, typers, bounds
  <1>4. CASE RegisterDevice(s)
    BY <1>4 DEF RegisterDevice, ConStep, TypeOK, ConLabel, sockets, status, typers, history, bounds
  <1>5. CASE TrackConnection(s)
    BY <1>5 DEF TrackConnection, ConStep, TypeOK, ConLabel, registry, status, typers, history, bounds
  <1>6. CASE SetUserOnline(s)
    <2>1. /\ presence' \in UserPresence /\ sign' \in 0 .. Stale /\ chosen' \in PresenceStatus
          /\ overruled' \subseteq Socket
      BY <1>6, PresenceFacts DEF SetUserOnline, PresenceStatus, Stale, TypeOK
    <2> QED
      BY <1>6, <2>1 DEF SetUserOnline, ConStep, TypeOK, ConLabel, sockets, registry, typers, bounds
  <1> QED BY <1>1, <1>2, <1>3, <1>4, <1>5, <1>6 DEF ConnectionStep

\* What a failure leaves of the types.
LEMMA FaultType ==
  ASSUME TypeOK, Fault
  PROVE  events' \in 0 .. MaxEvents /\ faults' \in 0 .. MaxFaults
  BY PresenceAssumption DEF Fault, TypeOK

LEMMA DisconnectType ==
  ASSUME TypeOK, NEW s \in Socket,
         Drop(s) \/ FailConnection(s) \/ DisconnectStep(s) \/ FailDisconnect(s)
  PROVE  TypeOK'
  <1> USE DeviceFacts
  <1>1. CASE Drop(s)
    <2>1. events' \in 0 .. MaxEvents /\ faults' \in 0 .. MaxFaults /\ spoilt' \subseteq Socket
      BY <1>1, FaultType DEF Drop, Spoil, bounds, TypeOK
    <2> QED BY <1>1, <2>1 DEF Drop, BeginDisconnect, TypeOK, DisLabel, registry, status, typers
  <1>2. CASE FailConnection(s)
    <2>1. events' \in 0 .. MaxEvents /\ faults' \in 0 .. MaxFaults
      BY <1>2, FaultType DEF FailConnection
    <2>2. /\ alive' \subseteq Socket /\ tracked' \subseteq Socket /\ connected' \subseteq Socket
          /\ con' \in [Socket -> ConLabel] /\ dis' \in [Socket -> DisLabel]
      BY <1>2 DEF FailConnection, BeginDisconnect, TypeOK, ConLabel, DisLabel, sockets
    <2> QED BY <1>2, <2>1, <2>2 DEF FailConnection, TypeOK, registry, status, typers, history
  <1>3. CASE UnregisterDevice(s)
    BY <1>3 DEF UnregisterDevice, DisStep, TypeOK, DisLabel, sockets, status, typers, history, bounds
  <1>4. CASE ClearSocket(s)
    BY <1>4 DEF ClearSocket, DisStep, TypeOK, DisLabel, DeviceInfo, sockets, status, typers, history, bounds
  <1>5. CASE CountDevices(s)
    BY <1>5 DEF CountDevices, DisStep, TypeOK, DisLabel, sockets, registry, status, typers, history, bounds
  <1>6. CASE SetUserOffline(s)
    <2>1. presence' \in UserPresence BY <1>6, PresenceFacts DEF SetUserOffline, PresenceStatus
    <2>2. dis' \in [Socket -> DisLabel] /\ con' = con
      BY <1>6 DEF SetUserOffline, DisStep, TypeOK, DisLabel
    <2> QED BY <1>6, <2>1, <2>2 DEF SetUserOffline, TypeOK, sockets, registry, typers, history, bounds
  <1>7. CASE FinishDisconnect(s)
    BY <1>7 DEF FinishDisconnect, DisStep, TypeOK, DisLabel, registry, status, history, bounds
  <1>8. CASE FailDisconnect(s)
    <2>1. events' \in 0 .. MaxEvents /\ faults' \in 0 .. MaxFaults /\ spoilt' \subseteq Socket
      BY <1>8, FaultType DEF FailDisconnect, Spoil, TypeOK
    <2> QED
      BY <1>8, <2>1 DEF FailDisconnect, TypeOK, DisLabel, sockets, registry, status, typers
  <1> QED BY <1>1, <1>2, <1>3, <1>4, <1>5, <1>6, <1>7, <1>8 DEF DisconnectStep

\* A client event is one of those that are counted.
LEMMA RequestType ==
  ASSUME TypeOK, NEW t \in Tasks, Request(t)
  PROVE  TypeOK'
  <1>1. events' \in 0 .. MaxEvents /\ events + 1 \in Event
    BY PresenceAssumption DEF Request, TypeOK, Event
  <1>2. task' \in [Event -> Tasks] BY <1>1 DEF Request, TypeOK
  <1> QED BY <1>1, <1>2 DEF Request, TypeOK, sockets, handlers, registry, status, typers, history

LEMMA EventType ==
  ASSUME TypeOK,
         \/ \E s \in Socket : ClientEvent(s)
         \/ \E e \in Event : TaskStep(e)
         \/ \E t \in timers : TypingTimeout(t)
         \/ \E d \in Device : UpdateDeviceActivity(d)
  PROVE  TypeOK'
  <1>1. ASSUME NEW s \in Socket, TypingStart(s) \/ TypingStop(s) \/ UpdateUserStatus(s) PROVE TypeOK'
    <2>1. PICK t \in Tasks : Start(s, t) BY <1>1 DEF TypingStart, TypingStop, UpdateUserStatus, Tasks
    <2> QED BY <2>1, RequestType DEF Start
  <1>2. ASSUME NEW s \in Socket, Heartbeat(s) PROVE TypeOK'
    <2>1. presence' \in UserPresence /\ sign' \in 0 .. Stale
      BY <1>2, PresenceFacts DEF Heartbeat, Stale
    <2>2. events' \in 0 .. MaxEvents BY <1>2, PresenceAssumption DEF Heartbeat, TypeOK
    <2> QED BY <1>2, <2>1, <2>2 DEF Heartbeat, TypeOK, sockets, handlers, registry, typers,
                                         exempt
  <1>3. ASSUME NEW e \in Event, FinishTyping(e) PROVE TypeOK'
    <2>1. NoTask \in Tasks BY DEF NoTask, Tasks
    <2>2. task' \in [Event -> Tasks] BY <1>3, <2>1 DEF FinishTyping, TypeOK
    <2>3. task[e].do \in {"start", "stop"} => task[e].conv \in Conversation BY DEF TypeOK, Tasks
    <2>4. PICK c \in Conversation : SetUserTyping(e, c) \/ ClearUserTyping(c)
      BY <1>3, <2>3 DEF FinishTyping
    <2>5. /\ typing' \in [Conversation -> Event \cup {0}] /\ timers' \subseteq Timer
          /\ latest' \in Event \cup {0} /\ orphaned' \subseteq Conversation
      BY <2>4 DEF SetUserTyping, ClearUserTyping, Clear, Elsewhere, TypeOK, Timer
    <2> QED
      BY <1>3, <2>2, <2>5 DEF FinishTyping, TypeOK, sockets, handlers, registry, status, history, bounds
  <1>4. ASSUME NEW e \in Event, WriteStatus(e) PROVE TypeOK'
    <2>1. NoTask \in Tasks BY DEF NoTask, Tasks
    <2>2. task' \in [Event -> Tasks] BY <1>4, <2>1 DEF WriteStatus, TypeOK
    <2>3. task[e].status \in PresenceStatus BY <1>4 DEF WriteStatus, TypeOK, Tasks
    <2>4. presence' \in UserPresence /\ chosen' \in PresenceStatus
      BY <1>4, <2>3, PresenceFacts DEF WriteStatus
    <2> QED
      BY <1>4, <2>2, <2>4 DEF WriteStatus, TypeOK, sockets, handlers, registry, typers, exempt, bounds
  <1>5. ASSUME NEW t \in timers, TypingTimeout(t) PROVE TypeOK'
    <2>1. t.conv \in Conversation BY DEF TypeOK, Timer
    <2> QED
      BY <1>5, <2>1 DEF TypingTimeout, Elsewhere, TypeOK, sockets, handlers, registry, status, history,
                        bounds
  <1>6. ASSUME NEW e \in Event, WriteActivity(e) PROVE TypeOK'
    <2>1. NoTask \in Tasks BY DEF NoTask, Tasks
    <2>2. task' \in [Event -> Tasks] BY <1>6, <2>1 DEF WriteActivity, TypeOK
    <2>3. info' \in [Device -> DeviceInfo]
      <3>1. \A d \in Device : [info[d] EXCEPT !.active = "recent"] \in DeviceInfo BY DEF TypeOK, DeviceInfo
      <3> QED BY <1>6, <3>1 DEF WriteActivity, TypeOK
    <2> QED
      BY <1>6, <2>2, <2>3 DEF WriteActivity, TypeOK, sockets, handlers, status, typers, history, bounds
  <1>7. ASSUME NEW d \in Device, UpdateDeviceActivity(d) PROVE TypeOK'
    <2>1. [do |-> "touch", conv |-> "none", device |-> d] \in Tasks BY DEF Tasks
    <2> QED BY <1>7, <2>1, RequestType DEF UpdateDeviceActivity
  <1> QED BY <1>1, <1>2, <1>3, <1>4, <1>5, <1>6, <1>7 DEF ClientEvent, TaskStep

LEMMA ScheduledType ==
  ASSUME TypeOK, SweepStep \/ FailSweep \/ (\E d \in Device : CleanupStep(d)) \/ Tick \/ Day
  PROVE  TypeOK'
  <1>1. CASE SweepRead
    BY <1>1 DEF SweepRead, TypeOK, sockets, handlers, registry, typers, history, bounds
  <1>2. CASE SweepMark
    <2>1. presence' \in UserPresence BY <1>2, PresenceFacts DEF SweepMark, PresenceStatus
    <2> QED BY <1>2, <2>1 DEF SweepMark, TypeOK, sockets, handlers, registry, typers, history, bounds
  <1>3. CASE SweepClear
    BY <1>3 DEF SweepClear, TypeOK, sockets, handlers, registry, typers, history, bounds
  <1>4. CASE FailSweep
    BY <1>4, FaultType DEF FailSweep, TypeOK, sockets, handlers, registry, typers, history
  <1>5. ASSUME NEW d \in Device, CleanupStep(d) PROVE TypeOK'
    <2>1. cleaning' \in [Device -> {"rest", "srem", "del"}] /\ devices' \subseteq Device
      BY <1>5 DEF CleanupStep, CleanupRead, CleanupRemove, CleanupDelete, TypeOK
    <2>2. info' \in [Device -> DeviceInfo]
      <3>1. NoDevice \in DeviceInfo BY DEF NoDevice, DeviceInfo
      <3> QED BY <1>5, <3>1 DEF CleanupStep, CleanupRead, CleanupRemove, CleanupDelete, TypeOK
    <2>3. /\ UNCHANGED <<sockets, handlers, status, typers, task, bounds>>
          /\ UNCHANGED <<sign, lapsed, chosen, shared, overruled, spoilt>>
      BY <1>5 DEF CleanupStep, CleanupRead, CleanupRemove, CleanupDelete, history
    <2>4. cleaned' \subseteq Socket
      <3>1. info[d].socket \in Socket \cup {0} BY DEF TypeOK, DeviceInfo
      <3> QED
        BY <1>5, <3>1 DEF CleanupStep, CleanupRead, CleanupRemove, CleanupDelete, Expire, TypeOK, history
    <2> QED BY <2>1, <2>2, <2>3, <2>4 DEF TypeOK, sockets, handlers, status, typers, bounds
  <1>6. CASE Tick
    <2>1. presence \in UserPresence BY DEF TypeOK
    <2>2. presence.age + 1 # Life =>
            [presence EXCEPT !.age = @ + 1, !.seen = IF @ < Stale THEN @ + 1 ELSE @] \in UserPresence
      <3> DEFINE a == presence.age + 1
                 n == IF presence.seen < Stale THEN presence.seen + 1 ELSE presence.seen
      <3>1. presence.age \in 0 .. Life - 1 /\ presence.seen \in 0 .. Stale BY <2>1 DEF UserPresence
      <3>2. (a # Life => a \in 0 .. Life - 1) /\ n \in 0 .. Stale BY <3>1 DEF Life, Stale
      <3> HIDE DEF a, n
      <3>3. a # Life => [presence EXCEPT !.age = a, !.seen = n] \in UserPresence
        BY <2>1, <3>2 DEF UserPresence
      <3> QED BY <3>3 DEF a, n
    <2>3. presence' \in UserPresence /\ listed' \subseteq Device
      BY <1>6, <2>2, PresenceFacts DEF Tick, TypeOK
    <2>4. sign' \in 0 .. Stale /\ lapsed' \subseteq Socket BY <1>6 DEF Tick, TypeOK, Stale
    <2> QED BY <1>6, <2>3, <2>4 DEF Tick, TypeOK, sockets, handlers, registry, typers, exempt, bounds
  <1>7. CASE Day
    <2>1. events' \in 0 .. MaxEvents
      BY <1>7, PresenceAssumption DEF Day, TypeOK
    <2>2. info' \in [Device -> DeviceInfo]
      <3>1. \A d \in Device : [info[d] EXCEPT !.active = "old"] \in DeviceInfo BY DEF TypeOK, DeviceInfo
      <3> QED BY <1>7, <3>1 DEF Day, TypeOK
    <2> QED BY <1>7, <2>1, <2>2 DEF Day, TypeOK, sockets, handlers, status, typers, history
  <1> QED BY <1>1, <1>2, <1>3, <1>4, <1>5, <1>6, <1>7 DEF SweepStep

LEMMA TypeStep ==
  ASSUME TypeOK, [Next]_vars
  PROVE  TypeOK'
  <1>1. CASE UNCHANGED vars
    BY <1>1 DEF vars, sockets, handlers, registry, status, typers, history, bounds, TypeOK
  <1> QED BY <1>1, ConnectionType, DisconnectType, EventType, ScheduledType DEF Next

-----------------------------------------------------------------------------
(* The two handlers of a socket.                                            *)

\* A step that leaves the handlers, the maps and the registered sockets alone.
LEMMA HandledKept ==
  ASSUME Handled, UNCHANGED <<sockets, con, dis, spoilt>>,
         \A d \in Device : info'[d].socket \in {info[d].socket, 0}
  PROVE  Handled'
  <1>1. \A s \in Socket : info[DeviceOf[s]].socket # s => info'[DeviceOf[s]].socket # s
    BY DeviceFacts
  <1> QED BY <1>1 DEF Handled, HandledBy, sockets

LEMMA HandledConnection ==
  ASSUME TypeOK, Handled, NEW s \in Socket, Connect(s) \/ ConnectionStep(s) \/ FailConnection(s)
  PROVE  Handled'
  <1> USE DeviceFacts
  <1> SUFFICES ASSUME NEW x \in Socket PROVE HandledBy(x)'
    BY DEF Handled
  <1>1. CASE Connect(s)
    BY <1>1 DEF Connect, ConStep, TypeOK, Handled, HandledBy, registry
  <1>2. CASE Authenticate(s)
    BY <1>2 DEF Authenticate, ConStep, TypeOK, Handled, HandledBy, registry, history
  <1>3. CASE RegisterInfo(s)
    BY <1>3 DEF RegisterInfo, ConStep, TypeOK, Handled, HandledBy, sockets
  <1>4. CASE RegisterDevice(s)
    BY <1>4 DEF RegisterDevice, ConStep, TypeOK, Handled, HandledBy, sockets, history
  <1>5. CASE TrackConnection(s)
    BY <1>5 DEF TrackConnection, ConStep, TypeOK, Handled, HandledBy, registry, history
  <1>6. CASE SetUserOnline(s)
    BY <1>6 DEF SetUserOnline, ConStep, TypeOK, Handled, HandledBy, sockets, registry
  <1>7. CASE FailConnection(s)
    BY <1>7 DEF FailConnection, BeginDisconnect, TypeOK, Handled, HandledBy, sockets, registry, history
  <1> QED BY <1>1, <1>2, <1>3, <1>4, <1>5, <1>6, <1>7 DEF ConnectionStep

LEMMA HandledDisconnection ==
  ASSUME TypeOK, Handled, NEW s \in Socket, Drop(s) \/ DisconnectStep(s) \/ FailDisconnect(s)
  PROVE  Handled'
  <1> USE DeviceFacts
  <1> SUFFICES ASSUME NEW x \in Socket PROVE HandledBy(x)'
    BY DEF Handled
  <1>1. CASE Drop(s)
    BY <1>1 DEF Drop, Spoil, BeginDisconnect, TypeOK, Handled, HandledBy, registry
  <1>2. CASE UnregisterDevice(s)
    BY <1>2 DEF UnregisterDevice, DisStep, TypeOK, Handled, HandledBy, sockets, history
  <1>3. CASE ClearSocket(s)
    BY <1>3 DEF ClearSocket, DisStep, TypeOK, Handled, HandledBy, sockets, history
  <1>4. CASE CountDevices(s)
    BY <1>4 DEF CountDevices, DisStep, TypeOK, Handled, HandledBy, sockets, registry, history
  <1>5. CASE SetUserOffline(s)
    BY <1>5 DEF SetUserOffline, DisStep, TypeOK, Handled, HandledBy, sockets, registry, history
  <1>6. CASE FinishDisconnect(s)
    BY <1>6 DEF FinishDisconnect, DisStep, TypeOK, Handled, HandledBy, registry, history
  <1>7. CASE FailDisconnect(s)
    BY <1>7 DEF FailDisconnect, Spoil, TypeOK, Handled, HandledBy, sockets, registry
  <1> QED BY <1>1, <1>2, <1>3, <1>4, <1>5, <1>6, <1>7 DEF DisconnectStep

\* The steps of clients and of the scheduler touch no handler, and unregister a socket at most.
Aside ==
  \/ \E s \in Socket : ClientEvent(s)
  \/ \E e \in Event : TaskStep(e)
  \/ \E t \in timers : TypingTimeout(t)
  \/ SweepStep \/ FailSweep
  \/ \E d \in Device : CleanupStep(d) \/ UpdateDeviceActivity(d)
  \/ Tick \/ Day

LEMMA AsideFacts ==
  ASSUME TypeOK, Aside
  PROVE  /\ UNCHANGED <<sockets, con, dis, shared, spoilt>>
         /\ \A d \in Device : info'[d].socket \in {info[d].socket, 0}
  <1>1. ASSUME NEW s \in Socket, ClientEvent(s)
        PROVE  UNCHANGED <<sockets, con, dis, shared, spoilt, info>>
    BY <1>1 DEF ClientEvent, TypingStart, TypingStop, UpdateUserStatus, Start, Request, Heartbeat,
                handlers, registry, history, exempt
  <1>2. ASSUME NEW e \in Event, TaskStep(e)
        PROVE  /\ UNCHANGED <<sockets, con, dis, shared, spoilt>>
               /\ \A d \in Device : info'[d].socket = info[d].socket
    BY <1>2 DEF TaskStep, FinishTyping, WriteStatus, WriteActivity, TypeOK, DeviceInfo,
                handlers, registry, history, exempt
  <1>3. ASSUME NEW t \in timers, TypingTimeout(t)
        PROVE  UNCHANGED <<sockets, con, dis, shared, spoilt, info>>
    BY <1>3 DEF TypingTimeout, handlers, registry, history
  <1>4. CASE SweepStep \/ FailSweep
    BY <1>4 DEF SweepStep, SweepRead, SweepMark, SweepClear, FailSweep, handlers, registry, history
  <1>5. ASSUME NEW d \in Device, CleanupStep(d)
        PROVE  /\ UNCHANGED <<sockets, con, dis, shared, spoilt>>
               /\ \A x \in Device : info'[x].socket \in {info[x].socket, 0}
    BY <1>5 DEF CleanupStep, CleanupRead, CleanupRemove, CleanupDelete, NoDevice, TypeOK, handlers, history
  <1>6. CASE Tick
    BY <1>6 DEF Tick, handlers, registry, exempt
  <1>7. CASE Day
    <2>1. \A d \in Device : info'[d].socket = info[d].socket BY <1>7 DEF Day, TypeOK, DeviceInfo
    <2> QED BY <1>7, <2>1 DEF Day, handlers, history
  <1>8. ASSUME NEW d \in Device, UpdateDeviceActivity(d)
        PROVE  UNCHANGED <<sockets, con, dis, shared, spoilt, info>>
    BY <1>8 DEF UpdateDeviceActivity, Request, handlers, registry, history
  <1> QED BY <1>1, <1>2, <1>3, <1>4, <1>5, <1>6, <1>7, <1>8 DEF Aside

LEMMA NextSplit ==
  ASSUME Next
  PROVE  \/ \E s \in Socket : \/ Connect(s) \/ ConnectionStep(s) \/ FailConnection(s)
                              \/ Drop(s) \/ DisconnectStep(s) \/ FailDisconnect(s)
         \/ Aside
  BY DEF Next, Aside

LEMMA HandledStep ==
  ASSUME TypeOK, Handled, [Next]_vars
  PROVE  Handled'
  <1>1. CASE UNCHANGED vars
    BY <1>1, HandledKept DEF vars, handlers, registry, history
  <1>2. CASE Aside BY <1>2, AsideFacts, HandledKept
  <1> QED BY <1>1, <1>2, NextSplit, HandledConnection, HandledDisconnection

-----------------------------------------------------------------------------
(* The connections of one device.                                           *)

\* Only a connection being made wakes a socket that is at rest.
LEMMA AloneStep ==
  ASSUME TypeOK, Handled, Alone, [Next]_vars
  PROVE  Alone'
  <1> DEFINE Busy(s) == s \in alive \/ ~AtRest(s)
  <1>1. ASSUME UNCHANGED <<alive, con, dis, shared>> PROVE Alone' BY <1>1 DEF Alone, AtRest
  <1>2. CASE UNCHANGED vars BY <1>1, <1>2 DEF vars, sockets, handlers, history
  <1>3. CASE Aside BY <1>1, <1>3, AsideFacts DEF sockets
  <1>4. ASSUME NEW s \in Socket, ~Connect(s),
               \/ ConnectionStep(s) \/ FailConnection(s)
               \/ Drop(s) \/ DisconnectStep(s) \/ FailDisconnect(s)
        PROVE  /\ shared' = shared /\ alive' \subseteq alive /\ Busy(s)
               /\ \A t \in Socket \ {s} : con'[t] = con[t] /\ dis'[t] = dis[t]
    <2>1. CASE ConnectionStep(s)
      BY <2>1 DEF ConnectionStep, Authenticate, RegisterInfo, RegisterDevice, TrackConnection,
                  SetUserOnline, ConStep, AtRest, TypeOK, sockets, history
    <2>2. CASE FailConnection(s)
      BY <2>2 DEF FailConnection, BeginDisconnect, AtRest, TypeOK, sockets, history
    <2>3. CASE Drop(s) BY <2>3 DEF Drop, BeginDisconnect, TypeOK
    <2>4. CASE DisconnectStep(s)
      BY <2>4 DEF DisconnectStep, UnregisterDevice, ClearSocket, CountDevices, SetUserOffline,
                  FinishDisconnect, DisStep, AtRest, TypeOK, sockets, history
    <2>5. CASE FailDisconnect(s) BY <2>5 DEF FailDisconnect, AtRest, TypeOK, sockets
    <2> QED BY <1>4, <2>1, <2>2, <2>3, <2>4, <2>5
  <1>5. ASSUME NEW s \in Socket, shared' = shared, alive' \subseteq alive, Busy(s),
               \A t \in Socket \ {s} : con'[t] = con[t] /\ dis'[t] = dis[t]
        PROVE  Alone'
    BY <1>5 DEF Alone, AtRest
  <1>6. ASSUME NEW s \in Socket, Connect(s) PROVE Alone'
    <2>1. /\ alive' = alive \cup {s} /\ dis' = dis /\ con[s] = "new"
          /\ \A t \in Socket \ {s} : con'[t] = con[t]
      BY <1>6 DEF Connect, ConStep, TypeOK
    <2>2. /\ \A t \in Socket : t \in shared => t \in shared'
          /\ \A t \in Socket \ {s} : DeviceOf[t] = DeviceOf[s] /\ Busy(t) =>
               t \in shared' /\ s \in shared'
      BY <1>6 DEF Connect
    <2> QED BY <2>1, <2>2 DEF Alone, AtRest
  <1> QED BY <1>2, <1>3, <1>4, <1>5, <1>6, NextSplit

-----------------------------------------------------------------------------
(* What handleConnection registers, and the status it sets.                 *)

\* No handler of another socket of the device is under way.
LEMMA AloneFacts ==
  ASSUME Handled, Alone, NEW s \in Socket, NEW t \in Socket, s \in alive, s \notin shared, ~AtRest(t)
  PROVE  dis[s] = "none" /\ (DeviceOf[t] = DeviceOf[s] => t = s)
  BY DEF Handled, HandledBy, Alone

LEMMA RegisteredConnection ==
  ASSUME TypeOK, Handled, Alone, Registered, NEW s \in Socket,
         Connect(s) \/ ConnectionStep(s) \/ FailConnection(s)
  PROVE  Registered'
  <1> USE DeviceFacts
  <1> SUFFICES ASSUME NEW x \in Socket PROVE RegisteredWith(x)'
    BY DEF Registered
  <1>1. CASE Connect(s)
    BY <1>1 DEF Connect, ConStep, TypeOK, Registered, RegisteredWith, registry
  <1>2. CASE Authenticate(s)
    BY <1>2 DEF Authenticate, ConStep, TypeOK, Registered, RegisteredWith, registry, history
  <1>3. CASE RegisterInfo(s)
    <2>1. ~AtRest(s) BY <1>3 DEF RegisterInfo, ConStep, AtRest
    <2>2. CASE x = s
      BY <1>3, <2>2 DEF RegisterInfo, ConStep, TypeOK, RegisteredWith, sockets
    <2>3. CASE x # s
      BY <1>3, <2>1, <2>3, AloneFacts
         DEF RegisterInfo, ConStep, TypeOK, Registered, RegisteredWith, sockets
    <2> QED BY <2>2, <2>3
  <1>4. CASE RegisterDevice(s)
    BY <1>4 DEF RegisterDevice, ConStep, TypeOK, Registered, RegisteredWith, sockets, history
  <1>5. CASE TrackConnection(s)
    BY <1>5 DEF TrackConnection, ConStep, TypeOK, Registered, RegisteredWith, registry, history
  <1>6. CASE SetUserOnline(s)
    BY <1>6 DEF SetUserOnline, ConStep, TypeOK, Registered, RegisteredWith, sockets, registry
  <1>7. CASE FailConnection(s)
    BY <1>7 DEF FailConnection, BeginDisconnect, TypeOK, Registered, RegisteredWith,
                sockets, registry, history
  <1> QED BY <1>1, <1>2, <1>3, <1>4, <1>5, <1>6, <1>7 DEF ConnectionStep

LEMMA RegisteredDisconnection ==
  ASSUME TypeOK, Handled, Alone, Registered, NEW s \in Socket,
         Drop(s) \/ DisconnectStep(s) \/ FailDisconnect(s)
  PROVE  Registered'
  <1> USE DeviceFacts
  <1> SUFFICES ASSUME NEW x \in Socket PROVE RegisteredWith(x)'
    BY DEF Registered
  <1>1. CASE Drop(s)
    BY <1>1 DEF Drop, BeginDisconnect, TypeOK, Registered, RegisteredWith, registry
  <1>2. CASE UnregisterDevice(s) \/ ClearSocket(s)
    <2>1. dis[s] \in {"srem", "clear"} /\ ~AtRest(s)
      BY <1>2 DEF UnregisterDevice, ClearSocket, DisStep, AtRest
    <2>2. x \in alive /\ x \notin shared => DeviceOf[s] # DeviceOf[x] BY <2>1, AloneFacts
    <2> QED
      BY <1>2, <2>2 DEF UnregisterDevice, ClearSocket, DisStep, TypeOK, Registered, RegisteredWith,
                        sockets, history
  <1>3. CASE CountDevices(s) \/ SetUserOffline(s) \/ FinishDisconnect(s) \/ FailDisconnect(s)
    <2>1. UNCHANGED <<alive, con, registry, shared, cleaned>>
      BY <1>3 DEF CountDevices, SetUserOffline, FinishDisconnect, FailDisconnect, DisStep,
                  sockets, history
    <2> QED BY <2>1 DEF Registered, RegisteredWith, registry
  <1> QED BY <1>1, <1>2, <1>3 DEF DisconnectStep

\* The hourly cleanup passes by a device that has been active today; it may take another one
\* only by noting whose connection it undoes.
LEMMA RegisteredStep ==
  ASSUME TypeOK, Handled, Alone, Registered, [Next]_vars
  PROVE  Registered'
  <1> USE DeviceFacts
  <1>1. ASSUME UNCHANGED <<alive, con, shared, cleaned, registry>> PROVE Registered'
    BY <1>1 DEF Registered, RegisteredWith, registry
  <1>2. CASE UNCHANGED vars BY <1>1, <1>2 DEF vars, sockets, handlers, history
  <1>3. CASE Aside
    <2>1. UNCHANGED <<alive, con, shared>> BY <1>3, AsideFacts DEF sockets
    <2>2. ASSUME NEW s \in Socket, ClientEvent(s) PROVE Registered'
      BY <1>1, <2>1, <2>2 DEF ClientEvent, TypingStart, TypingStop, UpdateUserStatus, Start,
                              Request, Heartbeat, history, exempt
    <2>3. ASSUME NEW e \in Event, TaskStep(e) PROVE Registered'
      <3>1. UNCHANGED <<cleaned, cleaning, devices>> /\ info' \in [Device -> DeviceInfo]
        BY <2>3, EventType DEF TaskStep, FinishTyping, WriteStatus, WriteActivity, registry, history,
                               exempt, TypeOK
      <3>2. \A d \in Device : /\ info'[d].socket = info[d].socket
                             /\ info'[d].active \in {info[d].active, "recent"}
        BY <2>3 DEF TaskStep, FinishTyping, WriteStatus, WriteActivity, registry, TypeOK, DeviceInfo
      <3> QED BY <2>1, <3>1, <3>2 DEF Registered, RegisteredWith
    <2>4. ASSUME NEW t \in timers, TypingTimeout(t) PROVE Registered'
      BY <1>1, <2>1, <2>4 DEF TypingTimeout, history
    <2>5. CASE SweepStep \/ FailSweep \/ Tick
      BY <1>1, <2>1, <2>5 DEF SweepStep, SweepRead, SweepMark, SweepClear, FailSweep, Tick, history,
                              exempt
    <2>6. ASSUME NEW d \in Device, CleanupStep(d) PROVE Registered'
      <3> SUFFICES ASSUME NEW x \in Socket PROVE RegisteredWith(x)'
        BY DEF Registered
      <3> QED
        BY <2>1, <2>6 DEF CleanupStep, CleanupRead, CleanupRemove, CleanupDelete, Expire, TypeOK,
                          Registered, RegisteredWith, history
    <2>7. CASE Day
      <3>1. \A d \in Device : /\ info'[d].socket = info[d].socket
                             /\ info'[d].active \in {info[d].active, "old"}
        BY <2>7 DEF Day, TypeOK, DeviceInfo
      <3>2. UNCHANGED <<cleaned, cleaning, devices>> BY <2>7 DEF Day, history
      <3> QED BY <2>1, <3>1, <3>2 DEF Registered, RegisteredWith
    <2>8. ASSUME NEW d \in Device, UpdateDeviceActivity(d) PROVE Registered'
      BY <1>1, <2>1, <2>8 DEF UpdateDeviceActivity, Request, history
    <2> QED BY <1>3, <2>2, <2>3, <2>4, <2>5, <2>6, <2>7, <2>8 DEF Aside
  <1> QED BY <1>2, <1>3, NextSplit, RegisteredConnection, RegisteredDisconnection

LEMMA HeardConnection ==
  ASSUME TypeOK, Handled, Alone, Heard, NEW s \in Socket,
         Connect(s) \/ ConnectionStep(s) \/ FailConnection(s)
  PROVE  Heard'
  <1> USE DeviceFacts
  <1> SUFFICES ASSUME NEW x \in Socket PROVE HeardOf(x)'
    BY DEF Heard
  <1>1. CASE Connect(s)
    BY <1>1 DEF Connect, ConStep, TypeOK, Heard, HeardOf, Established, status
  <1>2. CASE Authenticate(s) \/ RegisterInfo(s) \/ RegisterDevice(s) \/ TrackConnection(s)
    BY <1>2 DEF Authenticate, RegisterInfo, RegisterDevice, TrackConnection, ConStep, TypeOK,
                Heard, HeardOf, Established, sockets, status, history
  <1>3. CASE SetUserOnline(s)
    <2>1. /\ presence'.status = "online" /\ presence'.seen = 0 /\ presence'.age = 0
          /\ sign' = 0 /\ 0 < Stale /\ chosen' = "online"
      BY <1>3 DEF SetUserOnline, Stale
    <2>2. /\ listed' = listed \cup {DeviceOf[s]} /\ alive' = alive /\ dis' = dis /\ sweep' = sweep
          /\ shared' = shared /\ lapsed' = lapsed
          /\ overruled' = IF sweep # "rest" \/ \E t \in Socket : dis[t] = "offline"
                          THEN overruled \cup {s} ELSE overruled
          /\ \A t \in Socket \ {s} : con'[t] = con[t]
      BY <1>3 DEF SetUserOnline, ConStep, TypeOK, sockets
    <2> QED BY <2>1, <2>2 DEF Heard, HeardOf, Established
  <1>4. CASE FailConnection(s)
    BY <1>4 DEF FailConnection, BeginDisconnect, TypeOK, Heard, HeardOf, Established,
                sockets, status, history
  <1> QED BY <1>1, <1>2, <1>3, <1>4 DEF ConnectionStep

LEMMA HeardDisconnection ==
  ASSUME TypeOK, Handled, Alone, Heard, NEW s \in Socket,
         Drop(s) \/ DisconnectStep(s) \/ FailDisconnect(s)
  PROVE  Heard'
  <1> USE DeviceFacts
  <1> SUFFICES ASSUME NEW x \in Socket PROVE HeardOf(x)'
    BY DEF Heard
  <1>1. CASE Drop(s)
    BY <1>1 DEF Drop, BeginDisconnect, TypeOK, Heard, HeardOf, Established, status
  <1>2. CASE UnregisterDevice(s) \/ ClearSocket(s) \/ FinishDisconnect(s) \/ FailDisconnect(s)
    BY <1>2 DEF UnregisterDevice, ClearSocket, FinishDisconnect, FailDisconnect, DisStep, TypeOK,
                Heard, HeardOf, Established, sockets, status, history
  <1>3. CASE CountDevices(s)
    BY <1>3 DEF CountDevices, DisStep, TypeOK, Heard, HeardOf, Established, sockets, status, history
  <1>4. CASE SetUserOffline(s)
    <2>1. ~AtRest(s) /\ dis[s] \in {"offline", "seen"} BY <1>4 DEF SetUserOffline, DisStep, AtRest
    <2>2. dis[s] = "seen" => /\ presence'.status = Seen.status
                             /\ presence'.seen = 0 /\ presence'.age = presence.age
      BY <1>4, PresenceFacts DEF SetUserOffline, DisStep
    <2>3. Seen.status = IF presence.status = "gone" THEN "unset" ELSE presence.status
      BY PresenceFacts
    <2>4. /\ listed' = listed \ {DeviceOf[s]} /\ alive' = alive /\ con' = con /\ sweep' = sweep
          /\ UNCHANGED <<shared, overruled, lapsed, sign, chosen>>
          /\ dis'[s] = "tell" /\ \A t \in Socket \ {s} : dis'[t] = dis[t]
      BY <1>4 DEF SetUserOffline, DisStep, TypeOK, sockets, history
    <2>5. x \in alive /\ x \notin shared => DeviceOf[s] # DeviceOf[x] BY <2>1, AloneFacts
    <2>6. sign \in 0 .. Stale /\ chosen # "gone" BY DEF TypeOK, PresenceStatus
    <2> QED BY <2>1, <2>2, <2>3, <2>4, <2>5, <2>6 DEF Heard, HeardOf, Established
  <1> QED BY <1>1, <1>2, <1>3, <1>4 DEF DisconnectStep

\* A sign of life comes before the sweep, and before the key expires.
LEMMA HeardStep ==
  ASSUME TypeOK, Handled, Alone, Heard, [Next]_vars
  PROVE  Heard'
  <1> USE DeviceFacts
  <1>1. ASSUME UNCHANGED <<alive, con, dis, shared, overruled, lapsed, sign, chosen>>,
               UNCHANGED <<presence, listed, sweep>>
        PROVE  Heard'
    BY <1>1 DEF Heard, HeardOf, Established
  <1>2. CASE UNCHANGED vars BY <1>1, <1>2 DEF vars, sockets, handlers, status, history
  <1>3. CASE Aside
    <2>1. UNCHANGED <<alive, con, dis, shared>> BY <1>3, AsideFacts DEF sockets
    <2>2. ASSUME NEW s \in Socket, TypingStart(s) \/ TypingStop(s) \/ UpdateUserStatus(s) PROVE Heard'
      BY <1>1, <2>1, <2>2 DEF TypingStart, TypingStop, UpdateUserStatus, Start, Request, status, history
    <2>3. ASSUME NEW s \in Socket, Heartbeat(s) PROVE Heard'
      <3>1. /\ presence'.status = IF presence.status = "gone" THEN "unset" ELSE presence.status
            /\ presence'.seen = 0 /\ presence'.age = 0 /\ sign' = 0 /\ 0 < Stale
        BY <2>3, PresenceFacts DEF Heartbeat, Stale
      <3>2. UNCHANGED <<overruled, lapsed, chosen, listed, sweep>> BY <2>3 DEF Heartbeat, exempt
      <3>3. chosen # "gone" BY DEF TypeOK, PresenceStatus
      <3> QED BY <2>1, <3>1, <3>2, <3>3 DEF Heard, HeardOf, Established
    <2>4. ASSUME NEW e \in Event, FinishTyping(e) PROVE Heard'
      BY <1>1, <2>1, <2>4 DEF FinishTyping, status, history
    <2>5. ASSUME NEW e \in Event, WriteStatus(e) PROVE Heard'
      <3>1. task[e].status \in PresenceStatus BY <2>5 DEF WriteStatus, TypeOK, Tasks
      <3>2. /\ presence'.status = chosen' /\ presence'.seen = 0 /\ presence'.age = presence.age
        BY <2>5, <3>1, PresenceFacts DEF WriteStatus
      <3>3. UNCHANGED <<overruled, lapsed, sign, listed, sweep>> BY <2>5 DEF WriteStatus, exempt
      <3>4. sign \in 0 .. Stale BY DEF TypeOK
      <3> QED BY <2>1, <3>1, <3>2, <3>3, <3>4 DEF Heard, HeardOf, Established
    <2>6. ASSUME NEW t \in timers, TypingTimeout(t) PROVE Heard'
      BY <1>1, <2>1, <2>6 DEF TypingTimeout, status, history
    <2>7. CASE SweepRead
      <3>1. presence.seen = Stale /\ UNCHANGED <<overruled, lapsed>> BY <2>7 DEF SweepRead, history
      <3>2. sign \in 0 .. Stale BY DEF TypeOK
      <3> QED BY <2>1, <3>1, <3>2 DEF Heard, HeardOf, Established, Stale
    <2>8. CASE SweepMark \/ SweepClear \/ FailSweep
      <3>1. sweep # "rest" /\ UNCHANGED <<overruled, lapsed>>
        BY <2>8 DEF SweepMark, SweepClear, FailSweep, history
      <3> QED BY <2>1, <3>1 DEF Heard, HeardOf, Established
    <2>9. ASSUME NEW d \in Device, CleanupStep(d) PROVE Heard'
      BY <1>1, <2>1, <2>9 DEF CleanupStep, CleanupRead, CleanupRemove, CleanupDelete, status, history
    <2>10. CASE Tick
      <3> SUFFICES ASSUME NEW x \in Socket, Established(x), x \notin shared \cup overruled \cup lapsed'
                   PROVE  HeardOf(x)'
        BY <2>1, <2>10 DEF Heard, HeardOf, Established, Tick, exempt
      <3>1. /\ x \notin lapsed /\ sign + 1 < Stale /\ sign' = sign + 1
        BY <2>10 DEF Tick, Established, TypeOK, Stale
      <3>2. /\ presence.status = chosen /\ DeviceOf[x] \in listed /\ sweep = "rest"
            /\ \A t \in Socket : dis[t] # "offline"
            /\ presence.seen <= sign /\ presence.age <= sign
        BY <3>1 DEF Heard, HeardOf
      <3>3. /\ presence \in UserPresence /\ presence.age \in 0 .. Life - 1 /\ presence.seen \in 0 .. Stale
            /\ sign \in 0 .. Stale
        BY DEF TypeOK, UserPresence
      <3>4. presence.age + 1 # Life /\ presence.seen < Stale BY <3>1, <3>2, <3>3 DEF Life, Stale
      <3>5. chosen' = chosen /\ chosen # "gone" BY <2>10 DEF Tick, TypeOK, PresenceStatus
      <3>6. presence' = [presence EXCEPT !.age = presence.age + 1, !.seen = presence.seen + 1]
            /\ listed' = listed /\ sweep' = sweep
        BY <2>10, <3>2, <3>4, <3>5 DEF Tick
      <3>7. /\ presence'.status = presence.status /\ presence'.age = presence.age + 1
            /\ presence'.seen = presence.seen + 1
        BY <3>3, <3>6 DEF UserPresence
      <3> QED BY <2>1, <3>1, <3>2, <3>3, <3>5, <3>6, <3>7 DEF HeardOf, Stale, Life
    <2>11. CASE Day
      BY <1>1, <2>1, <2>11 DEF Day, status, history
    <2>12. ASSUME NEW e \in Event, WriteActivity(e) PROVE Heard'
      BY <1>1, <2>1, <2>12 DEF WriteActivity, status, history
    <2>13. ASSUME NEW d \in Device, UpdateDeviceActivity(d) PROVE Heard'
      BY <1>1, <2>1, <2>13 DEF UpdateDeviceActivity, Request, status, history
    <2> QED
      BY <1>3, <2>2, <2>3, <2>4, <2>5, <2>6, <2>7, <2>8, <2>9, <2>10, <2>11, <2>12,
         <2>13 DEF Aside, ClientEvent, TaskStep, SweepStep
  <1> QED BY <1>2, <1>3, NextSplit, HeardConnection, HeardDisconnection

-----------------------------------------------------------------------------
(* Typing.                                                                  *)

LEMMA TypingStep ==
  ASSUME TypeOK, TypingIsTimed, [Next]_vars
  PROVE  TypingIsTimed'
  <1> USE DeviceFacts
  <1>1. ASSUME UNCHANGED typers PROVE TypingIsTimed' BY <1>1 DEF typers, TypingIsTimed
  <1>2. CASE UNCHANGED vars BY <1>1, <1>2 DEF vars
  <1>3. ASSUME NEW c \in Conversation, orphaned' = (orphaned \ {c}) \cup Elsewhere(c),
               \A x \in Conversation \ {c} : typing'[x] = typing[x],
               typing'[c] # 0 => [id |-> typing'[c], conv |-> c] \in timers'
        PROVE  TypingIsTimed'
    BY <1>3 DEF TypingIsTimed, Elsewhere
  <1>4. ASSUME NEW s \in Socket, Connect(s) \/ ConnectionStep(s) \/ FailConnection(s) PROVE UNCHANGED typers
    BY <1>4 DEF Connect, ConnectionStep, Authenticate, RegisterInfo, RegisterDevice, TrackConnection,
                SetUserOnline, FailConnection
  <1>5. ASSUME NEW s \in Socket, Drop(s) \/ DisconnectStep(s) \/ FailDisconnect(s) PROVE TypingIsTimed'
    <2>1. CASE FinishDisconnect(s) BY <2>1 DEF FinishDisconnect, TypingIsTimed
    <2>2. CASE ~FinishDisconnect(s)
      <3>1. UNCHANGED typers
        BY <1>5, <2>2 DEF Drop, DisconnectStep, UnregisterDevice, ClearSocket, CountDevices,
                          SetUserOffline, FailDisconnect
      <3> QED BY <1>1, <3>1
    <2> QED BY <2>1, <2>2
  <1>6. ASSUME NEW s \in Socket, ClientEvent(s) PROVE UNCHANGED typers
    BY <1>6 DEF ClientEvent, TypingStart, TypingStop, UpdateUserStatus, Start, Request, Heartbeat
  <1>7. ASSUME NEW e \in Event, FinishTyping(e) PROVE TypingIsTimed'
    <2>1. task[e].do \in {"start", "stop"} => task[e].conv \in Conversation BY DEF TypeOK, Tasks
    <2>2. PICK c \in Conversation : SetUserTyping(e, c) \/ ClearUserTyping(c)
      BY <1>7, <2>1 DEF FinishTyping
    <2>3. CASE SetUserTyping(e, c) BY <1>3, <2>3 DEF SetUserTyping, TypeOK
    <2>4. CASE ClearUserTyping(c) BY <1>3, <2>4 DEF ClearUserTyping, TypeOK
    <2> QED BY <2>2, <2>3, <2>4
  <1>8. ASSUME NEW e \in Event, WriteStatus(e) \/ WriteActivity(e) PROVE UNCHANGED typers
    BY <1>8 DEF WriteStatus, WriteActivity
  <1>9. ASSUME NEW t \in timers, TypingTimeout(t) PROVE TypingIsTimed'
    <2>1. t.conv \in Conversation BY DEF TypeOK, Timer
    <2> QED BY <1>3, <1>9, <2>1 DEF TypingTimeout, TypeOK
  <1>10. CASE \/ SweepStep \/ FailSweep \/ Tick \/ Day
              \/ \E d \in Device : CleanupStep(d) \/ UpdateDeviceActivity(d)
    <2>1. UNCHANGED typers
      BY <1>10 DEF SweepStep, SweepRead, SweepMark, SweepClear, FailSweep, CleanupStep, CleanupRead,
                   CleanupRemove, CleanupDelete, UpdateDeviceActivity, Request, Tick, Day
    <2> QED BY <1>1, <2>1
  <1> QED BY <1>1, <1>2, <1>4, <1>5, <1>6, <1>7, <1>8, <1>9, <1>10 DEF Next, TaskStep

-----------------------------------------------------------------------------
(* The theorems.                                                            *)

LEMMA InitIInv ==
  ASSUME Init
  PROVE  IInv
  <1>1. NoTask \in Tasks BY DEF NoTask, Tasks
  <1>2. NoPresence \in UserPresence BY DEF NoPresence, UserPresence, PresenceStatus, Stale, Life
  <1>3. \A d \in Device : info[d] \in DeviceInfo /\ info[d].socket = 0
    BY DEF Init, NoDevice, DeviceInfo
  <1>4. TypeOK
    <2>1. con \in [Socket -> ConLabel] /\ dis \in [Socket -> DisLabel] BY DEF Init, ConLabel, DisLabel
    <2>2. info \in [Device -> DeviceInfo] /\ cleaning \in [Device -> {"rest", "srem", "del"}]
      BY <1>3 DEF Init
    <2>3. task \in [Event -> Tasks] /\ typing \in [Conversation -> Event \cup {0}] BY <1>1 DEF Init
    <2>4. /\ sign \in 0 .. Stale /\ chosen \in PresenceStatus
          /\ events \in 0 .. MaxEvents /\ faults \in 0 .. MaxFaults
      BY PresenceAssumption DEF Init, Stale, PresenceStatus
    <2> QED BY <1>2, <2>1, <2>2, <2>3, <2>4 DEF Init, TypeOK
  <1>5. Handled BY <1>3, DeviceFacts DEF Init, Handled, HandledBy
  <1>6. Alone BY DEF Init, Alone, AtRest
  <1>7. Registered /\ Heard BY DEF Init, Registered, RegisteredWith, Heard, HeardOf, Established
  <1>8. TypingIsTimed BY DEF Init, TypingIsTimed
  <1> QED BY <1>4, <1>5, <1>6, <1>7, <1>8 DEF IInv

LEMMA Invariance == Spec => []IInv
  <1>1. Init => IInv BY InitIInv
  <1>2. IInv /\ [Next]_vars => IInv'
    BY TypeStep, HandledStep, AloneStep, RegisteredStep, HeardStep, TypingStep DEF IInv
  <1> QED BY <1>1, <1>2, PTL DEF Spec

\* The gateway's maps, the registry and the keys keep their shapes, whatever connects, drops
\* and fails (ChatGateway, SocketAuthService, PresenceService).
THEOREM TypeCorrect == Spec => []TypeOK
  <1>1. IInv => TypeOK BY DEF IInv
  <1> QED BY <1>1, Invariance, PTL

\* However many sockets and devices come and go, what handleConnection registered of a device
\* stays until that connection ends: no other device's handlers, no failure and no expired key
\* undo it.  Exempt are the three cases in which the code undoes it: the device had two
\* connections, or the handlers of two, at a time; it connected more than a day ago, which the
\* hourly cleanup takes for inactive; it registered while a cleanup was removing its old entry.
THEOREM ConnectedStaysRegistered == Spec => []ConnectedIsRegistered
  <1>1. IInv => ConnectedIsRegistered
    BY DEF IInv, Registered, RegisteredWith, ConnectedIsRegistered, Established
  <1> QED BY <1>1, Invariance, PTL

\* For any number of devices, a connected user who keeps sending heartbeats keeps the status he
\* gave himself last: no setUserOffline of another device, no sweep and no expiry of the key that
\* comes after he has connected changes it.  Exempt are the cases in which the code hides him: a
\* sweep, or the last step of another device's setUserOffline, had already decided for offline
\* when he connected; his device had two connections, or the handlers of two, at a time; nothing
\* was heard of him for two minutes.
THEOREM HeartbeatsKeepStatus == Spec => []HeartbeatKeepsStatus
  <1>1. IInv => HeartbeatKeepsStatus BY DEF IInv, Heard, HeardOf, HeartbeatKeepsStatus
  <1> QED BY <1>1, Invariance, PTL

\* However a user types in several conversations, setUserTyping and clearUserTyping leave a
\* timer for the entry of the conversation he typed in last.
THEOREM TypingStaysTimed == Spec => []TypingIsTimed
  <1>1. IInv => TypingIsTimed BY DEF IInv
  <1> QED BY <1>1, Invariance, PTL

\* A socket that was connected and disconnected in order is gone from every map, wherever the
\* handlers of the other sockets stand.
THEOREM GoneStaysForgotten == Spec => []GoneIsForgotten
  <1>1. IInv => GoneIsForgotten BY DEF IInv, Handled, HandledBy, GoneIsForgotten
  <1> QED BY <1>1, Invariance, PTL
=============================================================================
