---------------------------- MODULE CallLifecycle ----------------------------
(***************************************************************************)
(* The REST call path: CallsController and CallLifecycleService with their *)
(* ringing, connecting and max-duration timers.                            *)
(*                                                                         *)
(* An HTTP request, a timer callback or a scheduled cleanup occupies a     *)
(* slot of Proc until it returns.  One action per storage command: the     *)
(* local code up to a command (clearing timers, checks) happens with it.   *)
(***************************************************************************)
EXTENDS CallStore

CONSTANTS MaxRequests,  \* bound: HTTP requests the clients send in a run
          MaxFaults     \* bound: storage commands that fail in a run

ASSUME CallLifecycleAssumption == MaxRequests \in Nat /\ MaxFaults \in Nat

VARIABLES
  timer,     \* timer[c][k]: the timer activeTimeouts maps c:k to is scheduled
  stray,     \* stray[c][k]: scheduled timers the map no longer refers to
  pending,   \* pending[c]: cleanups scheduled five seconds ahead
  requests,  \* requests sent so far
  faults,    \* commands failed so far
  closing    \* history: calls for which endCall or handleCallFailure has begun

timers == <<timer, stray, pending>>
lifecycleVars == <<timer, stray, pending, requests, faults, closing>>
restVars == <<store, lifecycleVars>>

Kind == {"ringing", "connecting", "max_duration"}

LifecycleTypeOK ==
  /\ timer \in [Call -> [Kind -> BOOLEAN]]
  /\ stray \in [Call -> [Kind -> Nat]]
  /\ pending \in [Call -> Nat]
  /\ requests \in 0..MaxRequests
  /\ faults \in 0..MaxFaults
  /\ closing \in SUBSET Call

(* Type correctness of the store and of the REST path. *)
RestTypeOK == StoreTypeOK /\ LifecycleTypeOK

LifecycleInit ==
  /\ timer = [c \in Call |-> [k \in Kind |-> FALSE]]
  /\ stray = [c \in Call |-> [k \in Kind |-> 0]]
  /\ pending = [c \in Call |-> 0]
  /\ requests = 0
  /\ faults = 0
  /\ closing = {}

RestInit == StoreInit /\ LifecycleInit

-----------------------------------------------------------------------------
(* activeTimeouts: set overwrites the entry, so a timer that was there     *)
(* stays scheduled and can no longer be cleared.                           *)

Arm(c, k) ==
  /\ timer' = [timer EXCEPT ![c][k] = TRUE]
  /\ stray' = IF timer[c][k] THEN [stray EXCEPT ![c][k] = @ + 1] ELSE stray
  /\ UNCHANGED pending

Clear(c, k) ==
  /\ timer' = [timer EXCEPT ![c][k] = FALSE]
  /\ UNCHANGED <<stray, pending>>

ClearAll(c) == timer' = [timer EXCEPT ![c] = [k \in Kind |-> FALSE]]

\* updateOne matches nothing when the document was never saved.
Write(p, r) ==
  record' = IF record[loc[p].call].status = "none" THEN record
            ELSE [record EXCEPT ![loc[p].call] = r]

Request == requests < MaxRequests /\ requests' = requests + 1

-----------------------------------------------------------------------------
(* POST /calls/initiate *)

InitiateCall(p, u, v) ==
  /\ Request
  /\ u # v
  /\ Begin(p, "i_self", [NoLocals EXCEPT !.op = "initiate", !.user = u, !.peer = v])
  /\ UNCHANGED <<record, keys, timers, faults, closing>>

CheckInitiator(p) ==
  /\ At(p, "i_self")
  /\ IF userStatus[loc[p].user].status = "idle"
     THEN Goto(p, "i_peer") /\ UNCHANGED loc
     ELSE Finish(p)
  /\ UNCHANGED <<record, keys, lifecycleVars>>

\* A fresh callId is generated.
Proceed(p) ==
  /\ \E c \in Call :
       /\ record[c] = NoRecord
       /\ c \notin closing
       /\ \A q \in Proc : loc[q].call # c
       /\ loc' = [loc EXCEPT ![p].call = c]
  /\ Goto(p, "i_save")

CheckTarget(p) ==
  /\ At(p, "i_peer")
  /\ IF userStatus[loc[p].peer].status = "idle" THEN Proceed(p) ELSE Finish(p)
  /\ UNCHANGED <<record, keys, lifecycleVars>>

SaveRecord(p) ==
  /\ At(p, "i_save")
  /\ record' = [record EXCEPT ![loc[p].call] = NewRecord(loc[p].user, loc[p].peer)]
  /\ pc' = [pc EXCEPT ![p] = "ca_set"]
  /\ loc' = [loc EXCEPT ![p].ret = "us_mongo", ![p].want = "ringing"]
  /\ UNCHANGED <<keys, lifecycleVars>>

(* updateCallStatus: MongoDB first, then Redis; what follows depends on who *)
(* called it.                                                               *)

AfterStatus(l) ==
  CASE l.op = "initiate" -> "arm_ring"
    [] l.op = "accept"   -> "arm_conn"
    [] l.op = "connect"  -> "c_started"
    [] l.op \in {"decline", "hangup"} -> "e_part"
    [] OTHER -> "e_sched"

StatusMongo(p) ==
  /\ At(p, "us_mongo")
  /\ Write(p, [record[loc[p].call] EXCEPT !.status = loc[p].want])
  /\ Enter(p, "us_get", IF loc[p].want = "failed" THEN "f_mongo" ELSE AfterStatus(loc[p]))
  /\ UNCHANGED <<keys, lifecycleVars>>

ArmRinging(p) ==
  /\ At(p, "arm_ring")
  /\ Arm(loc[p].call, "ringing")
  /\ Finish(p)
  /\ UNCHANGED <<record, keys, requests, faults, closing>>

\* A client learns a callId from the response to initiate or, earlier, from
\* the status of a user who is in the call.
Known(c) ==
  /\ record[c] # NoRecord
  /\ \/ \A p \in Proc : loc[p].call = c => loc[p].op \notin {"initiate", "s_initiate"}
     \/ \E u \in User : userStatus[u].call = c

-----------------------------------------------------------------------------
(* PATCH /calls/:callId/accept.  The status read from Redis is checked     *)
(* before the awaits of the transition, not again after them.              *)

AcceptCall(p, c, u) ==
  /\ Request
  /\ Known(c)
  /\ Begin(p, "a_get", [NoLocals EXCEPT !.op = "accept", !.call = c, !.user = u])
  /\ UNCHANGED <<record, keys, timers, faults, closing>>

\* Mutant: the participant check of the controller is dropped.
CheckRingingOnly(p) ==
  /\ At(p, "a_get")
  /\ IF active[loc[p].call].status = "ringing"
     THEN Goto(p, "a_part") /\ UNCHANGED loc
     ELSE Finish(p)
  /\ UNCHANGED <<record, keys, lifecycleVars>>

CheckRinging(p) ==
  /\ At(p, "a_get")
  /\ LET call == active[loc[p].call] IN
       IF loc[p].user \in call.members /\ call.status = "ringing"
       THEN Goto(p, "a_part") /\ UNCHANGED loc
       ELSE Finish(p)
  /\ UNCHANGED <<record, keys, lifecycleVars>>

JoinParticipant(p) ==
  /\ At(p, "a_part")
  /\ Clear(loc[p].call, "ringing")
  /\ Write(p, WithPart(record[loc[p].call], loc[p].user, "joined"))
  /\ Goto(p, "us_mongo")
  /\ loc' = [loc EXCEPT ![p].want = "connecting"]
  /\ UNCHANGED <<keys, requests, faults, closing>>

\* Mutant: transitionToConnecting returns without scheduling its timer.
ArmConnectingForgotten(p) ==
  /\ At(p, "arm_conn")
  /\ Finish(p)
  /\ UNCHANGED <<record, keys, lifecycleVars>>

ArmConnecting(p) ==
  /\ At(p, "arm_conn")
  /\ Arm(loc[p].call, "connecting")
  /\ Finish(p)
  /\ UNCHANGED <<record, keys, requests, faults, closing>>

(* PATCH /calls/:callId/connected: nothing is checked. *)

MarkConnected(p, c, u) ==
  /\ Request
  /\ Known(c)
  /\ Begin(p, "us_mongo", [NoLocals EXCEPT !.op = "connect", !.call = c, !.user = u,
                                           !.want = "active"])
  /\ Clear(c, "connecting")
  /\ UNCHANGED <<record, keys, faults, closing>>

\* startedAt is written; durations are not modelled.
RecordStarted(p) ==
  /\ At(p, "c_started")
  /\ Goto(p, "arm_max")
  /\ UNCHANGED <<record, keys, loc, lifecycleVars>>

ArmMaxDuration(p) ==
  /\ At(p, "arm_max")
  /\ Arm(loc[p].call, "max_duration")
  /\ Finish(p)
  /\ UNCHANGED <<record, keys, requests, faults, closing>>

-----------------------------------------------------------------------------
(* Declining and hanging up: endCall.  Neither checks who calls or what    *)
(* state the call is in.                                                   *)

DeclineCall(p, c, u) ==
  /\ Request
  /\ Known(c)
  /\ Begin(p, "d_part", [NoLocals EXCEPT !.op = "decline", !.call = c, !.user = u,
                                         !.why = "declined"])
  /\ UNCHANGED <<record, keys, timers, faults, closing>>

DeclineParticipant(p) ==
  /\ At(p, "d_part")
  /\ Write(p, WithPart(record[loc[p].call], loc[p].user, "declined"))
  /\ Goto(p, "e_find")
  /\ UNCHANGED <<keys, loc, lifecycleVars>>

HangupCall(p, c, u) ==
  /\ Request
  /\ Known(c)
  /\ Begin(p, "e_find", [NoLocals EXCEPT !.op = "hangup", !.call = c, !.user = u,
                                         !.why = "user_hangup"])
  /\ UNCHANGED <<record, keys, timers, faults, closing>>

\* endCall begins: every timer of the call the map knows is cleared and the
\* document looked up.
EndFind(p) ==
  /\ At(p, "e_find")
  /\ ClearAll(loc[p].call)
  /\ closing' = closing \cup {loc[p].call}
  /\ Goto(p, "e_mongo")
  /\ UNCHANGED <<record, keys, loc, stray, pending, requests, faults>>

\* Mutant: endReason is left out of the update.
EndRecordNoReason(p) ==
  /\ At(p, "e_mongo")
  /\ Write(p, [record[loc[p].call] EXCEPT !.status = "ended"])
  /\ Goto(p, "us_mongo")
  /\ loc' = [loc EXCEPT ![p].want = "ended"]
  /\ UNCHANGED <<keys, lifecycleVars>>

EndRecord(p) ==
  /\ At(p, "e_mongo")
  /\ Write(p, [record[loc[p].call] EXCEPT !.status = "ended", !.reason = loc[p].why])
  /\ Goto(p, "us_mongo")
  /\ loc' = [loc EXCEPT ![p].want = "ended"]
  /\ UNCHANGED <<keys, lifecycleVars>>

EndParticipant(p) ==
  /\ At(p, "e_part")
  /\ Write(p, WithPart(record[loc[p].call], loc[p].user, "left"))
  /\ Goto(p, "e_sched")
  /\ UNCHANGED <<keys, loc, lifecycleVars>>

EndSchedule(p) ==
  /\ At(p, "e_sched")
  /\ pending' = [pending EXCEPT ![loc[p].call] = @ + 1]
  /\ Finish(p)
  /\ UNCHANGED <<record, keys, timer, stray, requests, faults, closing>>

-----------------------------------------------------------------------------
(* handleCallFailure and the three timeout handlers.  A callback does not  *)
(* look at the call before it acts.                                        *)

FailBegin(p) ==
  /\ At(p, "f_begin")
  /\ ClearAll(loc[p].call)
  /\ closing' = closing \cup {loc[p].call}
  /\ Goto(p, "us_mongo")
  /\ loc' = [loc EXCEPT ![p].want = "failed"]
  /\ UNCHANGED <<record, keys, stray, pending, requests, faults>>

FailRecord(p) ==
  /\ At(p, "f_mongo")
  /\ Write(p, [record[loc[p].call] EXCEPT !.status = "failed", !.reason = loc[p].why])
  /\ Goto(p, "f_sched")
  /\ UNCHANGED <<keys, loc, lifecycleVars>>

FailSchedule(p) ==
  /\ At(p, "f_sched")
  /\ pending' = [pending EXCEPT ![loc[p].call] = @ + 1]
  /\ Finish(p)
  /\ UNCHANGED <<record, keys, timer, stray, requests, faults, closing>>

Fire(c, k) ==
  \/ /\ timer[c][k]
     /\ timer' = [timer EXCEPT ![c][k] = FALSE]
     /\ UNCHANGED stray
  \/ /\ stray[c][k] > 0
     /\ stray' = [stray EXCEPT ![c][k] = @ - 1]
     /\ UNCHANGED timer

RingingTimeout(p, c) ==
  /\ Fire(c, "ringing")
  /\ Begin(p, "f_begin", [NoLocals EXCEPT !.op = "ring_timeout", !.call = c,
                                          !.why = "timeout"])
  /\ UNCHANGED <<record, keys, pending, requests, faults, closing>>

ConnectingTimeout(p, c) ==
  /\ Fire(c, "connecting")
  /\ Begin(p, "f_begin", [NoLocals EXCEPT !.op = "connect_timeout", !.call = c,
                                          !.why = "connection_timeout"])
  /\ UNCHANGED <<record, keys, pending, requests, faults, closing>>

MaxDurationTimeout(p, c) ==
  /\ Fire(c, "max_duration")
  /\ Begin(p, "e_find", [NoLocals EXCEPT !.op = "max_timeout", !.call = c,
                                         !.why = "max_duration_reached"])
  /\ UNCHANGED <<record, keys, pending, requests, faults, closing>>

-----------------------------------------------------------------------------
(* The scheduled cleanup.  CallStateService.cleanupCall deletes call:active *)
(* and only then reads it for the users to reset.                           *)

CleanupCall(p, c) ==
  /\ pending[c] > 0
  /\ pending' = [pending EXCEPT ![c] = @ - 1]
  /\ ClearAll(c)
  /\ Begin(p, "cl_del", [NoLocals EXCEPT !.op = "cleanup", !.call = c])
  /\ UNCHANGED <<record, keys, stray, requests, faults, closing>>

CleanupDelete(p) ==
  /\ At(p, "cl_del")
  /\ active' = [active EXCEPT ![loc[p].call] = Absent]
  /\ Goto(p, "cl_get")
  /\ UNCHANGED <<record, userStatus, userCalls, signaling, loc, lifecycleVars>>

CleanupGet(p) ==
  /\ At(p, "cl_get")
  /\ loc' = [loc EXCEPT ![p].todo = active[loc[p].call].members]
  /\ Goto(p, "cl_srem")
  /\ UNCHANGED <<record, keys, lifecycleVars>>

CleanupUnlist(p) ==
  /\ At(p, "cl_srem")
  /\ \/ /\ loc[p].todo = {}
        /\ Finish(p)
        /\ UNCHANGED userCalls
     \/ \E u \in loc[p].todo :
          /\ userCalls' = [userCalls EXCEPT ![u] = @ \ {loc[p].call}]
          /\ Goto(p, "cl_stat")
          /\ loc' = [loc EXCEPT ![p].user = u, ![p].todo = @ \ {u}]
  /\ UNCHANGED <<record, active, userStatus, signaling, lifecycleVars>>

CleanupReadUser(p) ==
  /\ At(p, "cl_stat")
  /\ Goto(p, IF userStatus[loc[p].user].call = loc[p].call THEN "cl_idle" ELSE "cl_srem")
  /\ UNCHANGED <<record, keys, loc, lifecycleVars>>

CleanupIdle(p) ==
  /\ At(p, "cl_idle")
  /\ SetUser(loc[p].user, "idle", NoCall)
  /\ Goto(p, "cl_srem")
  /\ UNCHANGED <<record, active, userCalls, signaling, loc, lifecycleVars>>

-----------------------------------------------------------------------------
(* A storage command fails.  initiateCall, acceptCall and                  *)
(* establishConnection fail the call; endCall and declineCall rethrow to   *)
(* the controller; handleCallFailure and cleanupCall only log.             *)

\* Mutant: the error's message is recorded in place of the reason.
FailureMessage(l) == "error_message"

FailureReason(l) ==
  CASE l.op = "initiate" -> "initialization_failed"
    [] l.op = "accept"   -> "accept_failed"
    [] OTHER             -> "connection_failed"

Throws  == {"i_save", "ca_set", "us_mongo", "us_set", "a_part", "c_started",
            "d_part", "e_find", "e_mongo", "e_part", "f_mongo", "cl_del"}

Fault(p) ==
  /\ faults < MaxFaults
  /\ faults' = faults + 1
  /\ pc[p] \in Throws
  /\ \/ /\ loc[p].op \in {"initiate", "accept", "connect"}
        /\ loc[p].want # "failed"
        /\ Goto(p, "f_begin")
        /\ loc' = [loc EXCEPT ![p].why = FailureReason(loc[p])]
     \/ /\ loc[p].op \notin {"initiate", "accept", "connect"} \/ loc[p].want = "failed"
        /\ Finish(p)
  \* The local code before the command has run all the same.
  /\ CASE pc[p] = "a_part" -> Clear(loc[p].call, "ringing") /\ UNCHANGED closing
       [] pc[p] = "e_find" -> /\ ClearAll(loc[p].call)
                              /\ closing' = closing \cup {loc[p].call}
                              /\ UNCHANGED <<stray, pending>>
       [] OTHER -> UNCHANGED <<timers, closing>>
  /\ UNCHANGED <<record, keys, requests>>

\* CallStateService logs these errors and answers as if the key were missing
\* (getUserCallStatus, getActiveCall) or had been written.
SilentFault(p) ==
  /\ faults < MaxFaults
  /\ faults' = faults + 1
  /\ \/ At(p, "i_self") /\ Goto(p, "i_peer") /\ UNCHANGED loc
     \/ At(p, "i_peer") /\ Proceed(p)
     \/ At(p, "ca_user") /\ Goto(p, "ca_list") /\ UNCHANGED loc
     \/ pc[p] \in {"ca_list", "us_get"} /\ Return(p) /\ UNCHANGED loc
     \/ At(p, "a_get") /\ Finish(p)
  /\ UNCHANGED <<record, keys, timers, requests, closing>>

-----------------------------------------------------------------------------
Handler(p) ==
  \/ CheckInitiator(p) \/ CheckTarget(p) \/ SaveRecord(p) \/ StatusMongo(p)
  \/ ArmRinging(p) \/ CheckRinging(p) \/ JoinParticipant(p) \/ ArmConnecting(p)
  \/ RecordStarted(p) \/ ArmMaxDuration(p) \/ DeclineParticipant(p)
  \/ EndFind(p) \/ EndRecord(p) \/ EndParticipant(p) \/ EndSchedule(p)
  \/ FailBegin(p) \/ FailRecord(p) \/ FailSchedule(p)
  \/ CleanupDelete(p) \/ CleanupGet(p) \/ CleanupUnlist(p)
  \/ CleanupReadUser(p) \/ CleanupIdle(p)

RestSharedStep(p) == StoreStep(p) /\ UNCHANGED lifecycleVars

Client(p) ==
  \/ \E u, v \in User : InitiateCall(p, u, v)
  \/ \E c \in Call, u \in User :
       \/ AcceptCall(p, c, u) \/ MarkConnected(p, c, u)
       \/ DeclineCall(p, c, u) \/ HangupCall(p, c, u)

Clock(p) ==
  \E c \in Call : \/ RingingTimeout(p, c) \/ ConnectingTimeout(p, c)
                  \/ MaxDurationTimeout(p, c) \/ CleanupCall(p, c)

RestNext == \E p \in Proc : Client(p) \/ Clock(p) \/ Handler(p) \/ RestSharedStep(p)
                      \/ Fault(p) \/ SilentFault(p)

RestSpec == RestInit /\ [][RestNext]_restVars

-----------------------------------------------------------------------------
(* What the REST path guarantees *)

Exists(c) == record[c].status # "none"
Timed(c)  == \E k \in Kind : timer[c][k] \/ stray[c][k] > 0

\* Handler p is on its way to arm a timer for its call or to close it.
Driving(p) ==
  \/ /\ loc[p].op \in {"initiate", "accept", "connect"}
     /\ pc[p] \notin {"idle", "i_self", "i_peer", "a_get"}
  \/ pc[p] \in {"f_begin", "e_find"}

(* No call is left to ring, connect or talk unwatched: until somebody       *)
(* begins to end it, a timer is scheduled for it or a handler that will arm *)
(* one, or close the call, is in flight.  The transitions clear one timer   *)
(* several awaits before they arm the next, and any other request, timeout  *)
(* or failure may come in between.                                          *)
NoUnwatchedCall ==
  \A c \in Call : Exists(c) /\ c \notin closing =>
    Timed(c) \/ \E p \in Proc : loc[p].call = c /\ Driving(p)

(* An ended call says why.  endCall writes the status twice, the first time *)
(* with its reason; updateCallStatus writes it alone.                       *)
EndedHasReason ==
  \A c \in Call : record[c].status = "ended" => record[c].reason # "none"

(* Only a participant's accept moves a call to connecting; the check was    *)
(* made on Redis several awaits before the document is written.             *)
OnlyParticipantsConnect ==
  [][\A c \in Call :
       record'[c].status = "connecting" /\ record[c].status # "connecting" =>
         \E p \in Proc : /\ loc[p].op = "accept" /\ loc[p].call = c
                         /\ loc[p].user \in Participants(c)]_restVars

-----------------------------------------------------------------------------
(* "Reset user call status if this was their current call": once a call is  *)
(* cleaned up no user's status names it.  The code does not keep this.      *)
CleanedUserIsFree ==
  \A p \in Proc, u \in User :
    At(p, "cl_srem") /\ loc[p].todo = {} => userStatus[u].call # loc[p].call
=============================================================================
