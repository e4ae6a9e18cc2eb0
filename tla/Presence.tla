------------------------------- MODULE Presence -------------------------------
(***************************************************************************)
(* What the server believes of one user's connections: the gateway's maps, *)
(* the device registry of SocketAuthService, the status PresenceService    *)
(* keeps with a time to live, and the typing indicators.                   *)
(*                                                                         *)
(* A socket has two handlers, handleConnection and handleDisconnect, which *)
(* run at the same time when it drops early; both, the scheduled sweeps    *)
(* and the events of other sockets interleave at every await.  Time        *)
(* passes only between handlers: an await is short against a tick.         *)
(***************************************************************************)
EXTENDS Integers, FiniteSets

CONSTANTS Device,
          NumSockets,    \* bound: connections opened
          DeviceOf,      \* the device that opens a connection
          Conversation,
          MaxEvents,     \* bound: client events
          MaxLoad,       \* bound: connections, client events and faults together
          MaxFaults      \* bound: commands that fail, and connections that drop early

Socket == 1 .. NumSockets
Event  == 1 .. MaxEvents

ASSUME PresenceAssumption ==
  /\ NumSockets \in Nat /\ DeviceOf \in [Socket -> Device]
  /\ MaxEvents \in Nat /\ MaxLoad \in Nat /\ MaxFaults \in Nat

Stale == 2  \* ticks of 100 seconds after which a user is taken for gone (two minutes)
Life  == 3  \* ticks after which a presence key has expired (five minutes)

VARIABLES
  alive,                    \* sockets that are up
  tracked, connected,       \* gateway: socketToUser, connectedUsers
  con, dis,                 \* per socket: handleConnection, handleDisconnect
  devices, info, cleaning,  \* user_devices, device_info, its hourly cleanup
  presence, listed, sweep,  \* presence:user, presence:devices, their sweep
  typing, timers, latest,   \* typingUsers, timers scheduled, userTypingTimeouts
  task,                     \* client events past their first await
  sign, lapsed,             \* history: ticks since a sign of life; it came too late
  shared, spoilt, orphaned, \* history: see Connect; dropped early, or failed; see SetUserTyping
  cleaned, overruled,       \* history: see RegisterInfo and CleanupRead; SetUserOnline
  chosen,                   \* history: the status the user has last given himself
  events, faults

sockets  == <<alive, tracked, connected>>
handlers == <<con, dis>>
registry == <<devices, info, cleaning>>
status   == <<presence, listed, sweep>>
typers   == <<typing, timers, latest, orphaned>>
exempt   == <<shared, cleaned, overruled, spoilt>>
history  == <<sign, lapsed, chosen, shared, cleaned, overruled, spoilt>>
bounds   == <<events, faults>>
vars == <<sockets, handlers, registry, status, typers, task, history, bounds>>

PresenceStatus == {"online", "away", "busy", "offline"}
UserPresence == [status : PresenceStatus \cup {"gone", "unset"}, seen : 0 .. Stale, age : 0 .. Life - 1]
NoPresence   == [status |-> "gone", seen |-> Stale, age |-> 0]
\* ids: deviceId and userId are there
DeviceInfo   == [socket : Socket \cup {0}, ids : BOOLEAN, active : {"none", "recent", "old"}]
NoDevice     == [socket |-> 0, ids |-> FALSE, active |-> "none"]
Tasks  == [do : {"none"}, conv : {"none"}] \cup [do : {"start", "stop"}, conv : Conversation]
            \cup [do : {"status"}, conv : {"none"}, status : PresenceStatus]
            \cup [do : {"touch"}, conv : {"none"}, device : Device]
NoTask == [do |-> "none", conv |-> "none"]

Init ==
  /\ alive = {} /\ tracked = {} /\ connected = {}
  /\ con = [s \in Socket |-> "new"] /\ dis = [s \in Socket |-> "none"]
  /\ devices = {} /\ info = [d \in Device |-> NoDevice]
  /\ cleaning = [d \in Device |-> "rest"]
  /\ presence = NoPresence /\ listed = {} /\ sweep = "rest"
  /\ typing = [c \in Conversation |-> 0] /\ timers = {} /\ latest = 0
  /\ task = [e \in Event |-> NoTask]
  /\ sign = Stale /\ lapsed = {} /\ chosen = "online" /\ shared = {}
  /\ cleaned = {} /\ overruled = {} /\ spoilt = {} /\ orphaned = {}
  /\ events = 0 /\ faults = 0

ConStep(s, from, to) == con[s] = from /\ con' = [con EXCEPT ![s] = to] /\ UNCHANGED dis
DisStep(s, from, to) == dis[s] = from /\ dis' = [dis EXCEPT ![s] = to] /\ UNCHANGED con

AtRest(s) == con[s] \in {"new", "done"} /\ dis[s] \in {"none", "done"}
MayAct == Cardinality({s \in Socket : con[s] # "new"}) + events + faults < MaxLoad

Fault == faults < MaxFaults /\ MayAct /\ faults' = faults + 1 /\ UNCHANGED events
Spoil(s) == Fault /\ spoilt' = spoilt \cup {s}

-----------------------------------------------------------------------------
(* handleConnection *)

\* shared: sockets of a device that had two at a time, or that connected again before the
\* handlers of its last connection were through.
Connect(s) ==
  /\ MayAct
  /\ \A t \in Socket : t < s /\ DeviceOf[t] = DeviceOf[s] => con[t] # "new"
  /\ LET others == {t \in Socket \ {s} : /\ DeviceOf[t] = DeviceOf[s]
                                         /\ t \in alive \/ ~AtRest(t)}
     IN shared' = IF others = {} THEN shared ELSE shared \cup others \cup {s}
  /\ alive' = alive \cup {s}
  /\ ConStep(s, "new", "auth")
  /\ UNCHANGED <<tracked, connected, registry, status, typers, task,
                 sign, lapsed, chosen, cleaned, overruled, spoilt, bounds>>

\* The maps are set without looking whether the socket is still up.
Authenticate(s) ==
  /\ ConStep(s, "auth", "info")
  /\ tracked' = tracked \cup {s}
  /\ UNCHANGED <<alive, connected, registry, status, typers, task, history, bounds>>

\* registerDeviceConnection.  cleaned: it crosses a cleanup of the device.
RegisterInfo(s) ==
  LET d == DeviceOf[s]
  IN /\ ConStep(s, "info", "add")
     /\ info' = [info EXCEPT ![d] = [socket |-> s, ids |-> TRUE, active |-> "recent"]]
     /\ cleaned' = IF cleaning[d] # "rest" THEN cleaned \cup {s} ELSE cleaned
     /\ UNCHANGED <<sockets, devices, cleaning, status, typers, task,
                    sign, lapsed, chosen, shared, overruled, spoilt, bounds>>

RegisterDevice(s) ==
  /\ ConStep(s, "add", "track")
  /\ devices' = devices \cup {DeviceOf[s]}
  /\ UNCHANGED <<sockets, info, cleaning, status, typers, task, history, bounds>>

\* connectedUsers; then the rooms, the queue and the synchronisation.
TrackConnection(s) ==
  /\ ConStep(s, "track", "online")
  /\ connected' = connected \cup {s}
  /\ UNCHANGED <<alive, tracked, registry, status, typers, task, history, bounds>>

\* mutant: the socket is listed in place of the device
SetUserOnlineSocket(s) ==
  /\ ConStep(s, "online", "done")
  /\ presence' = [status |-> "online", seen |-> 0, age |-> 0]
  /\ listed' = listed \cup {s}
  /\ sign' = 0 /\ chosen' = "online"
  /\ UNCHANGED <<sockets, registry, sweep, typers, task, lapsed, exempt, bounds>>

\* One pipeline.  overruled: a sweep or a disconnect has already decided for offline.
SetUserOnline(s) ==
  /\ ConStep(s, "online", "done")
  /\ presence' = [status |-> "online", seen |-> 0, age |-> 0]
  /\ listed' = listed \cup {DeviceOf[s]}
  /\ sign' = 0 /\ chosen' = "online"
  /\ overruled' = IF sweep # "rest" \/ \E t \in Socket : dis[t] = "offline"
                  THEN overruled \cup {s} ELSE overruled
  /\ UNCHANGED <<sockets, registry, sweep, typers, task, lapsed, shared, cleaned, spoilt, bounds>>

-----------------------------------------------------------------------------
(* handleDisconnect *)

\* Up to its first await; a socket that is not tracked yet is not cleaned up after.
BeginDisconnect(s) ==
  /\ alive' = alive \ {s}
  /\ connected' = connected \ {s}
  /\ dis' = [dis EXCEPT ![s] = IF s \in tracked THEN "srem" ELSE "done"]
  /\ UNCHANGED tracked

Drop(s) ==
  /\ s \in alive
  /\ IF con[s] = "done" THEN UNCHANGED <<spoilt, bounds>> ELSE Spoil(s)
  /\ BeginDisconnect(s)
  /\ UNCHANGED <<con, registry, status, typers, task, sign, lapsed, chosen, shared, cleaned, overruled>>

\* An error in handleConnection, or a refused token, disconnects the client.
FailConnection(s) ==
  /\ con[s] \in {"auth", "info", "add", "track", "online"} /\ Fault
  /\ con' = [con EXCEPT ![s] = "done"]
  /\ IF s \in alive THEN BeginDisconnect(s) ELSE UNCHANGED <<sockets, dis>>
  /\ UNCHANGED <<registry, status, typers, task, history>>

UnregisterDevice(s) ==
  /\ DisStep(s, "srem", "clear")
  /\ devices' = devices \ {DeviceOf[s]}
  /\ UNCHANGED <<sockets, info, cleaning, status, typers, task, history, bounds>>

\* mutant: the device keeps its socket
ClearSocketNot(s) ==
  /\ DisStep(s, "clear", "count")
  /\ info' = [info EXCEPT ![DeviceOf[s]].active = "recent"]
  /\ UNCHANGED <<sockets, devices, cleaning, status, typers, task, history, bounds>>

\* Whatever socket the device is registered with.
ClearSocket(s) ==
  /\ DisStep(s, "clear", "count")
  /\ info' = [info EXCEPT ![DeviceOf[s]].socket = 0, ![DeviceOf[s]].active = "recent"]
  /\ UNCHANGED <<sockets, devices, cleaning, status, typers, task, history, bounds>>

\* setUserOffline: SCARD runs at once, before the SREM queued in the pipeline.
CountDevices(s) ==
  /\ DisStep(s, "count", IF listed = {} THEN "offline" ELSE "seen")
  /\ UNCHANGED <<sockets, registry, status, typers, task, history, bounds>>

Seen == [presence EXCEPT !.seen = 0, !.status = IF @ = "gone" THEN "unset" ELSE @]

SetUserOffline(s) ==
  /\ \/ /\ DisStep(s, "offline", "tell")
        /\ presence' = [status |-> "offline", seen |-> 0, age |-> 0]
     \/ /\ DisStep(s, "seen", "tell")
        /\ presence' = Seen
  /\ listed' = listed \ {DeviceOf[s]}
  /\ UNCHANGED <<sockets, registry, sweep, typers, task, history, bounds>>

\* An error in handleDisconnect: the rest of it is not done.
FailDisconnect(s) ==
  /\ dis[s] \in {"srem", "clear", "count", "offline", "seen"} /\ Spoil(s)
  /\ dis' = [dis EXCEPT ![s] = "done"]
  /\ UNCHANGED <<sockets, con, registry, status, typers, task,
                 sign, lapsed, chosen, shared, cleaned, overruled>>

-----------------------------------------------------------------------------
(* Typing: the entry of a conversation holds the timer that will remove it, *)
(* and userTypingTimeouts the last timer of the user, of any conversation.  *)

Clear(t) == {timer \in timers : timer.id # t}

\* orphaned: entries of other conversations, whose timer this may have cancelled.
Elsewhere(c) == {x \in Conversation \ {c} : typing[x] # 0}

ClearUserTyping(c) ==
  /\ typing' = [typing EXCEPT ![c] = 0]
  /\ timers' = {timer \in timers : timer.id \notin {typing[c], latest}}
  /\ latest' = 0
  /\ orphaned' = (orphaned \ {c}) \cup Elsewhere(c)

\* mutant: the timer is not kept with the entry's conversation
SetUserTypingUntimed(e, c) ==
  /\ typing' = [typing EXCEPT ![c] = e]
  /\ timers' = Clear(latest)
  /\ latest' = e
  /\ orphaned' = (orphaned \ {c}) \cup Elsewhere(c)

SetUserTyping(e, c) ==
  /\ typing' = [typing EXCEPT ![c] = e]
  /\ timers' = Clear(latest) \cup {[id |-> e, conv |-> c]}
  /\ latest' = e
  /\ orphaned' = (orphaned \ {c}) \cup Elsewhere(c)

TypingTimeout(t) ==
  /\ t \in timers
  /\ typing' = [typing EXCEPT ![t.conv] = 0]
  /\ timers' = {timer \in timers : timer.id \notin {t.id, typing[t.conv], latest}}
  /\ latest' = 0
  /\ orphaned' = (orphaned \ {t.conv}) \cup Elsewhere(t.conv)
  /\ UNCHANGED <<sockets, handlers, registry, status, task, history, bounds>>

\* The end of handleDisconnect: contacts are clearAllUserTyping, and the maps.
FinishDisconnect(s) ==
  /\ DisStep(s, "tell", "done")
  /\ typing' = [c \in Conversation |-> 0]
  /\ timers' = {timer \in timers : timer.id # latest /\ \A c \in Conversation : timer.id # typing[c]}
  /\ latest' = 0 /\ orphaned' = {}
  /\ tracked' = tracked \ {s}
  /\ UNCHANGED <<alive, connected, registry, status, task, history, bounds>>

-----------------------------------------------------------------------------
(* Client events.  All but a heartbeat go on after an await. *)

Request(t) ==
  /\ events < MaxEvents /\ MayAct
  /\ events' = events + 1
  /\ task' = [task EXCEPT ![events + 1] = t]
  /\ UNCHANGED <<sockets, handlers, registry, status, typers, history, faults>>

Start(s, t) == s \in alive \cap tracked /\ Request(t)

TypingStart(s) == \E c \in Conversation : Start(s, [do |-> "start", conv |-> c])
TypingStop(s)  == \E c \in Conversation : Start(s, [do |-> "stop", conv |-> c])

\* update_presence: any status, offline too; nothing is done for a user without a presence key.
UpdateUserStatus(s) ==
  /\ presence.status # "gone"
  /\ \E new \in PresenceStatus :
       Start(s, [do |-> "status", conv |-> "none", status |-> new])

\* mutant: the key is kept alive, and not the time of the last sign
HeartbeatExpireOnly(s) ==
  /\ s \in alive \cap tracked /\ events < MaxEvents /\ MayAct
  /\ events' = events + 1
  /\ presence' = [presence EXCEPT !.age = 0]
  /\ sign' = 0
  /\ UNCHANGED <<sockets, handlers, registry, listed, sweep, typers, task,
                 lapsed, chosen, exempt, faults>>

\* updateHeartbeat makes a key without a status when there is none.
Heartbeat(s) ==
  /\ s \in alive \cap tracked /\ events < MaxEvents /\ MayAct
  /\ events' = events + 1
  /\ presence' = [Seen EXCEPT !.age = 0]
  /\ sign' = 0
  /\ UNCHANGED <<sockets, handlers, registry, listed, sweep, typers, task,
                 lapsed, chosen, exempt, faults>>

\* The endpoint for tests: EXISTS, and then HSET.
UpdateDeviceActivity(d) ==
  /\ info[d].active # "none"
  /\ Request([do |-> "touch", conv |-> "none", device |-> d])

FinishTyping(e) ==
  /\ \/ task[e].do = "start" /\ SetUserTyping(e, task[e].conv)
     \/ task[e].do = "stop" /\ ClearUserTyping(task[e].conv)
  /\ task' = [task EXCEPT ![e] = NoTask]
  /\ UNCHANGED <<sockets, handlers, registry, status, history, bounds>>

WriteStatus(e) ==
  /\ task[e].do = "status"
  /\ presence' = [Seen EXCEPT !.status = task[e].status]
  /\ chosen' = task[e].status
  /\ task' = [task EXCEPT ![e] = NoTask]
  /\ UNCHANGED <<sockets, handlers, registry, listed, sweep, typers, sign, lapsed, exempt, bounds>>

WriteActivity(e) ==
  /\ task[e].do = "touch"
  /\ info' = [info EXCEPT ![task[e].device].active = "recent"]
  /\ task' = [task EXCEPT ![e] = NoTask]
  /\ UNCHANGED <<sockets, handlers, devices, cleaning, status, typers, history, bounds>>

-----------------------------------------------------------------------------
(* Scheduled work, and time *)

\* cleanupStaleConnections: HGET lastSeen, then HSET, then DEL of the devices.
SweepRead ==
  /\ sweep = "rest" /\ presence.status # "gone" /\ presence.seen = Stale
  /\ sweep' = "mark"
  /\ UNCHANGED <<sockets, handlers, registry, presence, listed, typers, task,
                 history, bounds>>

SweepMark ==
  /\ sweep = "mark"
  /\ presence' = [Seen EXCEPT !.status = "offline"]
  /\ sweep' = "clear"
  /\ UNCHANGED <<sockets, handlers, registry, listed, typers, task, history, bounds>>

SweepClear ==
  /\ sweep = "clear"
  /\ listed' = {} /\ sweep' = "rest"
  /\ UNCHANGED <<sockets, handlers, registry, presence, typers, task, history, bounds>>

\* The sweep gives up for this time.
FailSweep ==
  /\ sweep # "rest" /\ Fault
  /\ sweep' = "rest"
  /\ UNCHANGED <<sockets, handlers, registry, presence, listed, typers, task, history>>

\* cleaned: the socket of a device that registered a day ago, connected or not.
Expire(d) == cleaned' = IF info[d].active = "old" THEN cleaned \cup ({info[d].socket} \ {0}) ELSE cleaned

\* mutant: however old
CleanupReadAny(d) ==
  /\ cleaning[d] = "rest" /\ info[d].active # "none"
  /\ cleaning' = [cleaning EXCEPT ![d] = IF info[d].ids THEN "srem" ELSE "del"]
  /\ Expire(d)
  /\ UNCHANGED <<sockets, handlers, devices, info, status, typers, task,
                 sign, lapsed, chosen, shared, overruled, spoilt, bounds>>

\* cleanupExpiredConnections: a device not active for a day leaves the set, then its hash goes.
CleanupRead(d) ==
  /\ cleaning[d] = "rest" /\ info[d].active = "old"
  /\ cleaning' = [cleaning EXCEPT ![d] = IF info[d].ids THEN "srem" ELSE "del"]
  /\ Expire(d)
  /\ UNCHANGED <<sockets, handlers, devices, info, status, typers, task,
                 sign, lapsed, chosen, shared, overruled, spoilt, bounds>>

CleanupRemove(d) ==
  /\ cleaning[d] = "srem"
  /\ cleaning' = [cleaning EXCEPT ![d] = "del"]
  /\ devices' = devices \ {d}
  /\ UNCHANGED <<sockets, handlers, info, status, typers, task, history, bounds>>

CleanupDelete(d) ==
  /\ cleaning[d] = "del"
  /\ cleaning' = [cleaning EXCEPT ![d] = "rest"]
  /\ info' = [info EXCEPT ![d] = NoDevice]
  /\ UNCHANGED <<sockets, handlers, devices, status, typers, task, history, bounds>>

Quiet == /\ \A s \in Socket : AtRest(s)
         /\ \A e \in Event : task[e] = NoTask
         /\ sweep = "rest"

\* lapsed: sockets of a user from whom nothing has been heard for too long.
Tick ==
  /\ Quiet
  /\ IF presence.status = "gone" \/ presence.age + 1 = Life
     THEN presence' = NoPresence /\ listed' = {}
     ELSE /\ presence' = [presence EXCEPT !.age = @ + 1,
                                          !.seen = IF @ < Stale THEN @ + 1 ELSE @]
          /\ UNCHANGED listed
  /\ sign' = IF sign < Stale THEN sign + 1 ELSE sign
  /\ lapsed' = IF sign + 1 >= Stale THEN lapsed \cup alive ELSE lapsed
  /\ UNCHANGED <<sockets, handlers, registry, sweep, typers, task, chosen, exempt, bounds>>

\* A day, heartbeats and all.
Day ==
  /\ Quiet
  /\ events < MaxEvents /\ MayAct
  /\ events' = events + 1
  /\ info' = [d \in Device |-> IF info[d].active = "recent"
                               THEN [info[d] EXCEPT !.active = "old"] ELSE info[d]]
  /\ UNCHANGED <<sockets, handlers, devices, cleaning, status, typers, task, history, faults>>

-----------------------------------------------------------------------------
ConnectionStep(s) ==
  \/ Authenticate(s) \/ RegisterInfo(s) \/ RegisterDevice(s) \/ TrackConnection(s)
  \/ SetUserOnline(s)

DisconnectStep(s) ==
  \/ UnregisterDevice(s) \/ ClearSocket(s) \/ CountDevices(s) \/ SetUserOffline(s)
  \/ FinishDisconnect(s)

ClientEvent(s) == TypingStart(s) \/ TypingStop(s) \/ UpdateUserStatus(s) \/ Heartbeat(s)

TaskStep(e) == FinishTyping(e) \/ WriteStatus(e) \/ WriteActivity(e)

SweepStep == SweepRead \/ SweepMark \/ SweepClear

CleanupStep(d) == CleanupRead(d) \/ CleanupRemove(d) \/ CleanupDelete(d)

Timer == [id : Event, conv : Conversation]

Next ==
  \/ \E s \in Socket : \/ Connect(s) \/ ConnectionStep(s) \/ FailConnection(s)
                       \/ Drop(s) \/ DisconnectStep(s) \/ FailDisconnect(s) \/ ClientEvent(s)
  \/ \E e \in Event : TaskStep(e)
  \/ \E t \in timers : TypingTimeout(t)
  \/ SweepStep \/ FailSweep
  \/ \E d \in Device : CleanupStep(d) \/ UpdateDeviceActivity(d)
  \/ Tick \/ Day

Spec == Init /\ [][Next]_vars

-----------------------------------------------------------------------------
ConLabel == {"new", "auth", "info", "add", "track", "online", "done"}
DisLabel == {"none", "srem", "clear", "count", "offline", "seen", "tell", "done"}

\* The shape of the maps, the keys, the handlers and the history.
TypeOK ==
  /\ alive \subseteq Socket /\ tracked \subseteq Socket /\ connected \subseteq Socket
  /\ con \in [Socket -> ConLabel] /\ dis \in [Socket -> DisLabel]
  /\ devices \subseteq Device /\ info \in [Device -> DeviceInfo]
  /\ cleaning \in [Device -> {"rest", "srem", "del"}]
  /\ presence \in UserPresence /\ listed \subseteq Device
  /\ sweep \in {"rest", "mark", "clear"}
  /\ typing \in [Conversation -> Event \cup {0}] /\ timers \subseteq Timer
  /\ latest \in Event \cup {0} /\ task \in [Event -> Tasks]
  /\ sign \in 0 .. Stale /\ lapsed \subseteq Socket /\ chosen \in PresenceStatus
  /\ shared \subseteq Socket /\ cleaned \subseteq Socket /\ overruled \subseteq Socket
  /\ spoilt \subseteq Socket /\ orphaned \subseteq Conversation
  /\ events \in 0 .. MaxEvents /\ faults \in 0 .. MaxFaults

Established(s) == s \in alive /\ con[s] = "done"

\* A connected device is registered, with the socket it is connected by: no handler of an
\* earlier connection or of another device, no failure and no cleanup has undone it.  Three
\* cases are exempt, and in each the code does undo it.  The device had two connections, or
\* the handlers of two, at a time: the end of the older one unregisters it.  It connected more
\* than a day ago: the hourly cleanup takes it for inactive, since nothing but an endpoint for
\* tests moves lastActiveAt meanwhile.  It registered while the cleanup was removing an entry
\* of a day ago.
ConnectedIsRegistered ==
  \A s \in Socket : Established(s) /\ s \notin shared \cup cleaned =>
    DeviceOf[s] \in devices /\ info[DeviceOf[s]].socket = s

\* A connected user who sends heartbeats keeps the status he last gave himself, by connecting
\* or by update_presence: no disconnect of another device, no sweep and no expiry that comes
\* after he connected changes it.  Exempt are a socket whose device had two connections, or the
\* handlers of two, at a time (the end of the older one takes the device out of the list); one
\* that connected while a sweep, or the last step of another device's setUserOffline, had
\* decided for offline and not yet written it, which the write then hides for good; and a user
\* not heard of for two minutes.
HeartbeatKeepsStatus ==
  \A s \in Socket : Established(s) /\ s \notin shared \cup overruled \cup lapsed =>
    presence.status = chosen

\* A user shown as typing will be cleared by a timer, unless he has typed elsewhere since:
\* one map of timers serves all his conversations.
TypingIsTimed ==
  \A c \in Conversation : typing[c] # 0 /\ c \notin orphaned =>
    [id |-> typing[c], conv |-> c] \in timers

\* A socket whose handlers are through is known to nobody any more: not to the gateway's
\* maps, and not to its device's entry.  (One that drops while it is being connected, or
\* whose disconnect fails, is.)
GoneIsForgotten ==
  \A s \in Socket : con[s] = "done" /\ dis[s] = "done" /\ s \notin spoilt =>
    s \notin tracked \cup connected /\ info[DeviceOf[s]].socket # s

\* When the last device of a user has disconnected, the user is not shown as online.
LastDisconnectIsOffline ==
  Quiet /\ alive = {} /\ spoilt = {} => presence.status # "online"
=============================================================================
