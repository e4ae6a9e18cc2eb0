---------------------------- MODULE CallSignaling ----------------------------
(***************************************************************************)
(* The socket call path: the call:* handlers of ChatGateway over           *)
(* WebRTCSignalingService, the gateway's 30 second ring timer and the      *)
(* cleanup a disconnect runs.                                              *)
(*                                                                         *)
(* SDP, ICE candidates and media state are payload: they are stored and    *)
(* relayed, never read by the server.  What is kept of them is whether the *)
(* key call:signaling:{callId} exists, since acceptCall fails without it.  *)
(***************************************************************************)
EXTENDS CallStore

CONSTANTS MaxEvents,       \* bound: call:* events the clients send in a run
          MaxDisconnects,  \* bound: sockets that drop in a run
          MaxErrors        \* bound: storage commands that fail in a run

ASSUME CallSignalingAssumption ==
  /\ MaxEvents \in Nat /\ MaxDisconnects \in Nat /\ MaxErrors \in Nat

VARIABLES
  callTimer,    \* calls whose ring timer is scheduled (callTimeouts)
  events, disconnects, errors,
  abandoned     \* history: calls whose handler failed, or whose timer a
                \* disconnect took away

signalingVars == <<callTimer, events, disconnects, errors, abandoned>>
socketVars == <<store, signalingVars>>

SignalingTypeOK ==
  /\ callTimer \in SUBSET Call
  /\ events \in 0..MaxEvents
  /\ disconnects \in 0..MaxDisconnects
  /\ errors \in 0..MaxErrors
  /\ abandoned \in SUBSET Call

(* Type correctness of the store and of the socket path. *)
SocketTypeOK == StoreTypeOK /\ SignalingTypeOK

SignalingInit ==
  /\ callTimer = {}
  /\ events = 0
  /\ disconnects = 0
  /\ errors = 0
  /\ abandoned = {}

SocketInit == StoreInit /\ SignalingInit

Event == events < MaxEvents /\ events' = events + 1

WriteRecord(p, r) == record' = [record EXCEPT ![loc[p].call] = r]

\* call:incoming and call:initiated go out when initiateCall has returned.
Announced(c) ==
  /\ record[c] # NoRecord
  /\ \A p \in Proc : /\ loc[p].call = c
                     /\ loc[p].op \in {"s_initiate", "initiate"}
                     => pc[p] = "si_arm"

-----------------------------------------------------------------------------
(* call:initiate *)

SocketInitiate(p, u, v) ==
  /\ Event
  /\ u # v
  /\ Begin(p, "si_self", [NoLocals EXCEPT !.op = "s_initiate", !.user = u, !.peer = v])
  /\ UNCHANGED <<record, keys, callTimer, disconnects, errors, abandoned>>

\* validateUserCallAvailability reads both statuses before it checks either.
ReadCaller(p) ==
  /\ At(p, "si_self")
  /\ Goto(p, "si_peer")
  /\ loc' = [loc EXCEPT ![p].want = IF userStatus[loc[p].user].status = "idle"
                                    THEN "none" ELSE "failed"]
  /\ UNCHANGED <<record, keys, signalingVars>>

ReadTarget(p) ==
  /\ At(p, "si_peer")
  /\ IF loc[p].want = "none" /\ userStatus[loc[p].peer].status = "idle"
     THEN /\ \E c \in Call :
               /\ record[c] = NoRecord
               /\ c \notin abandoned
               /\ \A q \in Proc : loc[q].call # c
               /\ loc' = [loc EXCEPT ![p].call = c]
          /\ Goto(p, "si_save")
     ELSE Finish(p)
  /\ UNCHANGED <<record, keys, signalingVars>>

\* Mutant: the users are marked without waiting for the document to be saved.
CreateRecordLater(p) ==
  /\ At(p, "si_save")
  /\ Goto(p, "si_sig")
  /\ UNCHANGED <<record, keys, loc, signalingVars>>

CreateRecord(p) ==
  /\ At(p, "si_save")
  /\ WriteRecord(p, NewRecord(loc[p].user, loc[p].peer))
  /\ Goto(p, "si_sig")
  /\ UNCHANGED <<keys, loc, signalingVars>>

StoreSignaling(p) ==
  /\ At(p, "si_sig")
  /\ signaling' = signaling \cup {loc[p].call}
  /\ Goto(p, "si_user")
  /\ UNCHANGED <<record, active, userStatus, userCalls, loc, signalingVars>>

MarkCaller(p) ==
  /\ At(p, "si_user")
  /\ SetUser(loc[p].user, "initiating", loc[p].call)
  /\ Goto(p, "si_target")
  /\ UNCHANGED <<record, active, userCalls, signaling, loc, signalingVars>>

MarkTarget(p) ==
  /\ At(p, "si_target")
  /\ SetUser(loc[p].peer, "ringing", loc[p].call)
  /\ Enter(p, "ca_set", "si_arm")
  /\ UNCHANGED <<record, active, userCalls, signaling, signalingVars>>

\* Mutant: the timer is never scheduled.
ArmRingTimerForgotten(p) ==
  /\ At(p, "si_arm")
  /\ Finish(p)
  /\ UNCHANGED <<record, keys, signalingVars>>

\* The handler joins the sockets to the room, emits, and only then schedules
\* the timer.
ArmRingTimer(p) ==
  /\ At(p, "si_arm")
  /\ callTimer' = callTimer \cup {loc[p].call}
  /\ Finish(p)
  /\ UNCHANGED <<record, keys, events, disconnects, errors, abandoned>>

-----------------------------------------------------------------------------
(* call:accept.  Any participant may accept, the caller too. *)

\* Mutant: the gateway clears the ring timer before the service has accepted.
SocketAcceptClearsFirst(p, c, u) ==
  /\ Event
  /\ Announced(c)
  /\ Begin(p, "sa_find", [NoLocals EXCEPT !.op = "s_accept", !.call = c, !.user = u])
  /\ callTimer' = callTimer \ {c}
  /\ UNCHANGED <<record, keys, disconnects, errors, abandoned>>

SocketAccept(p, c, u) ==
  /\ Event
  /\ Announced(c)
  /\ Begin(p, "sa_find", [NoLocals EXCEPT !.op = "s_accept", !.call = c, !.user = u])
  /\ UNCHANGED <<record, keys, callTimer, disconnects, errors, abandoned>>

FindAccepted(p) ==
  /\ At(p, "sa_find")
  /\ LET r == record[loc[p].call] IN
       IF loc[p].user \in Participants(loc[p].call) /\ r.status = "initiating"
       THEN Goto(p, "sa_mongo") /\ loc' = [loc EXCEPT ![p].peer = r.caller]
       ELSE Finish(p)
  /\ UNCHANGED <<record, keys, signalingVars>>

WriteAccepted(p) ==
  /\ At(p, "sa_mongo")
  /\ WriteRecord(p, [WithPart(record[loc[p].call], loc[p].user, "joined")
                       EXCEPT !.status = "active"])
  /\ Goto(p, "sa_sig")
  /\ UNCHANGED <<keys, loc, signalingVars>>

\* updateSignalingData throws when the key is gone: nothing is undone.
ReadSignaling(p) ==
  /\ At(p, "sa_sig")
  /\ IF loc[p].call \in signaling
     THEN Goto(p, "sa_put") /\ UNCHANGED loc
     ELSE Finish(p)
  /\ UNCHANGED <<record, keys, signalingVars>>

WriteSignaling(p) ==
  /\ At(p, "sa_put")
  /\ signaling' = signaling \cup {loc[p].call}
  /\ Goto(p, "sa_peer")
  /\ UNCHANGED <<record, active, userStatus, userCalls, loc, signalingVars>>

MarkInitiatorInCall(p) ==
  /\ At(p, "sa_peer")
  /\ SetUser(loc[p].peer, "in_call", loc[p].call)
  /\ Goto(p, "sa_user")
  /\ UNCHANGED <<record, active, userCalls, signaling, loc, signalingVars>>

MarkAccepterInCall(p) ==
  /\ At(p, "sa_user")
  /\ SetUser(loc[p].user, "in_call", loc[p].call)
  /\ pc' = [pc EXCEPT ![p] = "us_get"]
  /\ loc' = [loc EXCEPT ![p].want = "active", ![p].ret = "sa_clear"]
  /\ UNCHANGED <<record, active, userCalls, signaling, signalingVars>>

ClearOnAccept(p) ==
  /\ At(p, "sa_clear")
  /\ callTimer' = callTimer \ {loc[p].call}
  /\ Finish(p)
  /\ UNCHANGED <<record, keys, events, disconnects, errors, abandoned>>

-----------------------------------------------------------------------------
(* call:decline, call:hangup, and the hangup of the ring timer.  The state *)
(* of the call is not looked at.                                           *)

SocketDecline(p, c, u) ==
  /\ Event
  /\ Announced(c)
  /\ Begin(p, "sx_find", [NoLocals EXCEPT !.op = "s_decline", !.call = c, !.user = u,
                                          !.why = "declined"])
  /\ UNCHANGED <<record, keys, callTimer, disconnects, errors, abandoned>>

SocketHangup(p, c, u) ==
  /\ Event
  /\ Announced(c)
  /\ Begin(p, "sx_find", [NoLocals EXCEPT !.op = "s_hangup", !.call = c, !.user = u,
                                          !.why = "completed"])
  /\ UNCHANGED <<record, keys, callTimer, disconnects, errors, abandoned>>

FindEnded(p) ==
  /\ At(p, "sx_find")
  /\ IF loc[p].user \in Participants(loc[p].call)
     THEN Goto(p, "sx_mongo") /\ UNCHANGED loc
     ELSE Finish(p)
  /\ UNCHANGED <<record, keys, signalingVars>>

\* Mutant: the end reason is written into the status.
WriteEndedStatus(p) ==
  /\ At(p, "sx_mongo")
  /\ WriteRecord(p, [record[loc[p].call] EXCEPT !.status = loc[p].why])
  /\ Goto(p, "sx_get")
  /\ UNCHANGED <<keys, loc, signalingVars>>

WriteEnded(p) ==
  /\ At(p, "sx_mongo")
  /\ LET how == IF loc[p].op = "s_decline" THEN "declined" ELSE "left" IN
       WriteRecord(p, [WithPart(record[loc[p].call], loc[p].user, how)
                         EXCEPT !.status = "ended", !.reason = loc[p].why])
  /\ Goto(p, "sx_get")
  /\ UNCHANGED <<keys, loc, signalingVars>>

(* cleanupCallState *)

ReadMembers(p) ==
  /\ At(p, "sx_get")
  /\ pc' = [pc EXCEPT ![p] = "sx_idle"]
  /\ loc' = [loc EXCEPT ![p].todo = active[loc[p].call].members]
  /\ UNCHANGED <<record, keys, signalingVars>>

\* Each member goes idle, whichever call the status names.
IdleMembers(p) ==
  /\ At(p, "sx_idle")
  /\ \/ /\ loc[p].todo = {}
        /\ Enter(p, "ec_get", "sx_sig")
        /\ UNCHANGED userStatus
     \/ \E u \in loc[p].todo :
          /\ SetUser(u, "idle", NoCall)
          /\ loc' = [loc EXCEPT ![p].todo = @ \ {u}]
          /\ UNCHANGED pc
  /\ UNCHANGED <<record, active, userCalls, signaling, signalingVars>>

DeleteSignaling(p) ==
  /\ At(p, "sx_sig")
  /\ signaling' = signaling \ {loc[p].call}
  /\ Goto(p, "sx_clear")
  /\ UNCHANGED <<record, active, userStatus, userCalls, loc, signalingVars>>

ClearOnEnd(p) ==
  /\ At(p, "sx_clear")
  /\ callTimer' = callTimer \ {loc[p].call}
  /\ Finish(p)
  /\ UNCHANGED <<record, keys, events, disconnects, errors, abandoned>>

(* The ring timer: 30 seconds after the call was announced. *)

RingTimeout(p, c) ==
  /\ c \in callTimer
  /\ callTimer' = callTimer \ {c}
  /\ Begin(p, "st_get", [NoLocals EXCEPT !.op = "s_timeout", !.call = c,
                           !.user = record[c].caller, !.why = "timeout"])
  /\ UNCHANGED <<record, keys, events, disconnects, errors, abandoned>>

\* Mutant: the timer looks for the status ringing, which this path never sets.
CheckStillRinging(p) ==
  /\ At(p, "st_get")
  /\ IF active[loc[p].call].status = "ringing"
     THEN Goto(p, "sx_find") /\ UNCHANGED loc
     ELSE Finish(p)
  /\ UNCHANGED <<record, keys, signalingVars>>

CheckUnanswered(p) ==
  /\ At(p, "st_get")
  /\ IF active[loc[p].call].status = "initiating"
     THEN Goto(p, "sx_find") /\ UNCHANGED loc
     ELSE Finish(p)
  /\ UNCHANGED <<record, keys, signalingVars>>

-----------------------------------------------------------------------------
(* A socket drops: handleDisconnect runs cleanupUserCallState for its user, *)
(* whether or not the user has another socket.  MongoDB is not touched.     *)

Disconnect(p, u) ==
  /\ disconnects < MaxDisconnects
  /\ disconnects' = disconnects + 1
  /\ Begin(p, "dc_list", [NoLocals EXCEPT !.op = "disconnect", !.user = u])
  /\ UNCHANGED <<record, keys, callTimer, events, errors, abandoned>>

ReadActiveCalls(p) ==
  /\ At(p, "dc_list")
  /\ Goto(p, "dc_next")
  /\ loc' = [loc EXCEPT ![p].calls = userCalls[loc[p].user]]
  /\ UNCHANGED <<record, keys, signalingVars>>

LeaveNextCall(p) ==
  /\ At(p, "dc_next")
  /\ \/ /\ loc[p].calls = {}
        /\ Finish(p)
        /\ UNCHANGED <<callTimer, abandoned>>
     \/ \E c \in loc[p].calls :
          /\ callTimer' = callTimer \ {c}
          /\ abandoned' = abandoned \cup {c}
          /\ pc' = [pc EXCEPT ![p] = "rp_get"]
          /\ loc' = [loc EXCEPT ![p].call = c, ![p].calls = @ \ {c}, ![p].ret = "dc_check"]
  /\ UNCHANGED <<record, keys, events, disconnects, errors>>

EndIfAlone(p) ==
  /\ At(p, "dc_check")
  /\ LET call == active[loc[p].call] IN
       IF call # Absent /\ Cardinality(call.members) <= 1
       THEN Enter(p, "ec_get", "dc_next")
       ELSE Goto(p, "dc_next") /\ UNCHANGED loc
  /\ UNCHANGED <<record, keys, signalingVars>>

-----------------------------------------------------------------------------
(* A storage command fails and the handler throws: the gateway answers     *)
(* call:error, and what was written stays.                                 *)

StorageError(p) ==
  /\ errors < MaxErrors
  /\ errors' = errors + 1
  /\ pc[p] \in {"si_save", "si_sig", "ca_set", "sa_find", "sa_mongo", "sa_sig",
                "sa_put", "us_set", "sx_find", "sx_mongo", "sx_sig"}
  /\ abandoned' = abandoned \cup {loc[p].call}
  /\ Finish(p)
  /\ UNCHANGED <<record, keys, callTimer, events, disconnects>>

SocketHandler(p) ==
  \/ ReadCaller(p) \/ ReadTarget(p) \/ CreateRecord(p) \/ StoreSignaling(p)
  \/ MarkCaller(p) \/ MarkTarget(p) \/ ArmRingTimer(p)
  \/ FindAccepted(p) \/ WriteAccepted(p) \/ ReadSignaling(p) \/ WriteSignaling(p)
  \/ MarkInitiatorInCall(p) \/ MarkAccepterInCall(p) \/ ClearOnAccept(p)
  \/ FindEnded(p) \/ WriteEnded(p) \/ ReadMembers(p) \/ IdleMembers(p)
  \/ DeleteSignaling(p) \/ ClearOnEnd(p) \/ CheckUnanswered(p)
  \/ ReadActiveCalls(p) \/ LeaveNextCall(p) \/ EndIfAlone(p)

SocketSharedStep(p) == StoreStep(p) /\ UNCHANGED signalingVars

SocketClient(p) ==
  \/ \E u, v \in User : SocketInitiate(p, u, v)
  \/ \E c \in Call, u \in User :
       SocketAccept(p, c, u) \/ SocketDecline(p, c, u) \/ SocketHangup(p, c, u)
  \/ \E u \in User : Disconnect(p, u)

SocketNext ==
  \E p \in Proc :
    \/ SocketClient(p) \/ SocketHandler(p) \/ SocketSharedStep(p) \/ StorageError(p)
    \/ \E c \in Call : RingTimeout(p, c)

SocketSpec == SocketInit /\ [][SocketNext]_socketVars

-----------------------------------------------------------------------------
(* What the socket path guarantees *)

\* Handler p will arm or consume the ring timer of its call, or answer it.
Ringing(p) ==
  \/ loc[p].op = "s_initiate"
  \/ loc[p].op = "s_timeout" /\ pc[p] \in {"st_get", "sx_find", "sx_mongo"}

(* A call nobody answered is never left ringing by the handlers themselves: *)
(* while its document says initiating, its timer is scheduled or its        *)
(* handler is in flight, unless a storage error or a disconnect took the    *)
(* timer away.  Accept, decline, hangup and the timer race for the same     *)
(* document and the same timer.                                             *)
NoForgottenRing ==
  \A c \in Call : record[c].status = "initiating" /\ c \notin abandoned =>
    c \in callTimer \/ \E p \in Proc : loc[p].call = c /\ Ringing(p)

(* Marking users busy is ordered after saving the call they are busy with:  *)
(* no interleaving or failure leaves a user busy with a call that has no    *)
(* document, or with somebody else's call.                                  *)
BusyWithOwnCall ==
  \A u \in User : userStatus[u].call # NoCall =>
    u \in Participants(userStatus[u].call)

\* Handler p is about to take its call off u's list.
Unlisting(p, u) ==
  \/ pc[p] \in {"rp_set", "rp_user", "rp_list"} /\ loc[p].user = u
  \/ pc[p] = "ec_users" /\ u \in loc[p].snap.members

(* The list a disconnect walks never dangles: a call on it is in Redis, or  *)
(* a handler about to take it off is in flight.  endCall unlists before it  *)
(* deletes, removeParticipant writes the call back before it unlists.       *)
ListedCallIsActive ==
  \A u \in User : \A c \in userCalls[u] :
    \/ active[c] # Absent
    \/ \E p \in Proc : loc[p].call = c /\ Unlisting(p, u)
=============================================================================
