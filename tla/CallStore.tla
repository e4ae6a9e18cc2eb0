------------------------------ MODULE CallStore ------------------------------
(***************************************************************************)
(* The storage both call paths of the backend share, and the routines of   *)
(* CallStateService that run over it.                                      *)
(*                                                                         *)
(*   record      the Mongo document of a call           (calls collection) *)
(*   active      the Redis value call:active:{callId}                      *)
(*   userStatus  the Redis value call:user:{userId}                        *)
(*   userCalls   the Redis set   call:user_active:{userId}                 *)
(*   signaling   the calls whose key call:signaling:{callId} exists        *)
(*                                                                         *)
(* The backend is one Node process: a handler runs without interruption    *)
(* from one await to the next.  A handler invocation is a member of Proc,  *)
(* pc[p] names the storage command it issues next and loc[p] holds its     *)
(* local variables; between two of its steps any other invocation may run. *)
(* A label of a shared routine returns to loc[p].ret.                      *)
(***************************************************************************)
EXTENDS Naturals, FiniteSets

CONSTANTS User, Call, Proc, NoUser, NoCall

ASSUME CallStoreAssumption ==
  /\ NoUser \notin User
  /\ NoCall \notin Call

VARIABLES record, active, userStatus, userCalls, signaling, pc, loc

keys  == <<active, userStatus, userCalls, signaling>>
store == <<record, active, userStatus, userCalls, signaling, pc, loc>>

-----------------------------------------------------------------------------
(* The values *)

OpenStatus     == {"initiating", "ringing", "connecting", "active"}
TerminalStatus == {"ended", "failed"}
Status         == OpenStatus \cup TerminalStatus
PartStatus     == {"none", "invited", "joined", "left", "declined"}
Reason         == {"none", "declined", "completed", "timeout", "user_hangup",
                   "max_duration_reached", "connection_timeout",
                   "initialization_failed", "accept_failed", "connection_failed"}

Record == [status : Status \cup {"none"}, reason : Reason,
           caller : User \cup {NoUser}, callee : User \cup {NoUser},
           part : [User -> PartStatus]]

ActiveState == [status : Status \cup {"none"}, members : SUBSET User]

UserState == [status : {"idle", "initiating", "ringing", "in_call"},
              call : Call \cup {NoCall}]

Absent == [status |-> "none", members |-> {}]
Idle   == [status |-> "idle", call |-> NoCall]

NoRecord == [status |-> "none", reason |-> "none", caller |-> NoUser,
             callee |-> NoUser, part |-> [u \in User |-> "none"]]

RestOp   == {"initiate", "accept", "connect", "decline", "hangup",
             "ring_timeout", "connect_timeout", "max_timeout", "cleanup"}
SocketOp == {"s_initiate", "s_accept", "s_decline", "s_hangup", "s_timeout",
             "disconnect"}

StoreLabel  == {"ca_set", "ca_user", "ca_list", "us_get", "us_set",
                "rp_get", "rp_set", "rp_user", "rp_list",
                "ec_get", "ec_users", "ec_del"}
RestLabel   == {"i_self", "i_peer", "i_save", "us_mongo", "arm_ring", "arm_conn",
                "arm_max", "a_get", "a_part", "c_started", "d_part", "e_find",
                "e_mongo", "e_part", "e_sched", "f_begin", "f_mongo", "f_sched",
                "cl_del", "cl_get", "cl_srem", "cl_stat", "cl_idle"}
SocketLabel == {"si_self", "si_peer", "si_save", "si_sig", "si_user", "si_target",
                "si_arm", "sa_find", "sa_mongo", "sa_sig", "sa_put", "sa_user",
                "sa_peer", "sa_clear", "sx_find", "sx_mongo", "sx_get", "sx_idle",
                "sx_sig", "sx_clear", "st_get", "dc_list", "dc_next", "dc_check"}
Label       == {"idle"} \cup StoreLabel \cup RestLabel \cup SocketLabel

Locals == [op : {"none"} \cup RestOp \cup SocketOp,
           call : Call \cup {NoCall}, user : User \cup {NoUser},
           peer : User \cup {NoUser}, want : Status \cup {"none"}, why : Reason,
           snap : ActiveState, todo : SUBSET User, calls : SUBSET Call,
           ret : Label]

NoLocals == [op |-> "none", call |-> NoCall, user |-> NoUser, peer |-> NoUser,
             want |-> "none", why |-> "none", snap |-> Absent, todo |-> {},
             calls |-> {}, ret |-> "idle"]

StoreTypeOK ==
  /\ record \in [Call -> Record]
  /\ active \in [Call -> ActiveState]
  /\ userStatus \in [User -> UserState]
  /\ userCalls \in [User -> SUBSET Call]
  /\ signaling \in SUBSET Call
  /\ pc \in [Proc -> Label]
  /\ loc \in [Proc -> Locals]

StoreInit ==
  /\ record = [c \in Call |-> NoRecord]
  /\ active = [c \in Call |-> Absent]
  /\ userStatus = [u \in User |-> Idle]
  /\ userCalls = [u \in User |-> {}]
  /\ signaling = {}
  /\ pc = [p \in Proc |-> "idle"]
  /\ loc = [p \in Proc |-> NoLocals]

-----------------------------------------------------------------------------
(* Control of a handler invocation *)

At(p, l)   == pc[p] = l
Goto(p, l) == pc' = [pc EXCEPT ![p] = l]
Finish(p)  == /\ pc' = [pc EXCEPT ![p] = "idle"]
              /\ loc' = [loc EXCEPT ![p] = NoLocals]

\* The next free slot takes a request: its locals start from NoLocals.
Begin(p, l, locals) ==
  /\ pc[p] = "idle"
  /\ pc' = [pc EXCEPT ![p] = l]
  /\ loc' = [loc EXCEPT ![p] = locals]

\* Enter a shared routine and come back to r.
Enter(p, l, r) ==
  /\ pc' = [pc EXCEPT ![p] = l]
  /\ loc' = [loc EXCEPT ![p].ret = r]

Return(p) == Goto(p, loc[p].ret)

NewRecord(u, v) ==
  [status |-> "initiating", reason |-> "none", caller |-> u, callee |-> v,
   part |-> [w \in User |-> CASE w = u -> "joined"
                              [] w = v /\ w # u -> "invited"
                              [] OTHER -> "none"]]

Participants(c) == {record[c].caller, record[c].callee} \ {NoUser}

\* updateOne / findByIdAndUpdate with a filter on the participant: a user who
\* is not in the document changes nothing.
WithPart(r, u, s) ==
  IF u \in User /\ r.part[u] # "none" THEN [r EXCEPT !.part[u] = s] ELSE r

\* call:user:{u} := status; "idle" deletes the key, whatever call it names.
SetUser(u, status, c) ==
  userStatus' = [userStatus EXCEPT
                   ![u] = IF status = "idle" THEN Idle
                          ELSE [status |-> status, call |-> c]]

-----------------------------------------------------------------------------
(* createActiveCall: three Redis commands; only the initiator is marked and *)
(* listed.                                                                  *)

CreateActiveSet(p) ==
  /\ At(p, "ca_set")
  /\ active' = [active EXCEPT ![loc[p].call] =
                  [status |-> "initiating", members |-> {loc[p].user, loc[p].peer}]]
  /\ Goto(p, "ca_user")
  /\ UNCHANGED <<record, userStatus, userCalls, signaling, loc>>

CreateActiveUser(p) ==
  /\ At(p, "ca_user")
  /\ SetUser(loc[p].user, "initiating", loc[p].call)
  /\ Goto(p, "ca_list")
  /\ UNCHANGED <<record, active, userCalls, signaling, loc>>

CreateActiveList(p) ==
  /\ At(p, "ca_list")
  /\ userCalls' = [userCalls EXCEPT ![loc[p].user] = @ \cup {loc[p].call}]
  /\ Return(p)
  /\ UNCHANGED <<record, active, userStatus, signaling, loc>>

(* updateCallStatus: reads call:active, then writes the whole value back.  *)

UpdateStatusGet(p) ==
  /\ At(p, "us_get")
  /\ \/ /\ active[loc[p].call] = Absent
        /\ Return(p)
        /\ UNCHANGED loc
     \/ /\ active[loc[p].call] # Absent
        /\ Goto(p, "us_set")
        /\ loc' = [loc EXCEPT ![p].snap = active[loc[p].call]]
  /\ UNCHANGED <<record, keys>>

UpdateStatusSet(p) ==
  /\ At(p, "us_set")
  /\ active' = [active EXCEPT ![loc[p].call] =
                  [loc[p].snap EXCEPT !.status = loc[p].want]]
  /\ Return(p)
  /\ loc' = [loc EXCEPT ![p].snap = Absent]
  /\ UNCHANGED <<record, userStatus, userCalls, signaling>>

(* removeParticipant(loc.call, loc.user): read, write back, idle, unlist.  *)

RemoveGet(p) ==
  /\ At(p, "rp_get")
  /\ \/ /\ active[loc[p].call] = Absent
        /\ Return(p)
        /\ UNCHANGED loc
     \/ /\ active[loc[p].call] # Absent
        /\ Goto(p, "rp_set")
        /\ loc' = [loc EXCEPT ![p].snap = active[loc[p].call]]
  /\ UNCHANGED <<record, keys>>

RemoveSet(p) ==
  /\ At(p, "rp_set")
  /\ active' = [active EXCEPT ![loc[p].call] =
                  [loc[p].snap EXCEPT !.members = @ \ {loc[p].user}]]
  /\ Goto(p, "rp_user")
  /\ loc' = [loc EXCEPT ![p].snap = Absent]
  /\ UNCHANGED <<record, userStatus, userCalls, signaling>>

RemoveUser(p) ==
  /\ At(p, "rp_user")
  /\ SetUser(loc[p].user, "idle", NoCall)
  /\ Goto(p, "rp_list")
  /\ UNCHANGED <<record, active, userCalls, signaling, loc>>

RemoveList(p) ==
  /\ At(p, "rp_list")
  /\ userCalls' = [userCalls EXCEPT ![loc[p].user] = @ \ {loc[p].call}]
  /\ Return(p)
  /\ UNCHANGED <<record, active, userStatus, signaling, loc>>

(* endCall: the members of the value read go idle and lose the call, in one *)
(* pipelined batch (Promise.all), then the key is deleted.                  *)

EndGet(p) ==
  /\ At(p, "ec_get")
  /\ \/ /\ active[loc[p].call] = Absent
        /\ Return(p)
        /\ UNCHANGED loc
     \/ /\ active[loc[p].call] # Absent
        /\ Goto(p, "ec_users")
        /\ loc' = [loc EXCEPT ![p].snap = active[loc[p].call]]
  /\ UNCHANGED <<record, keys>>

\* Mutant: endCall forgets the active-call lists.
EndUsersKeepLists(p) ==
  /\ At(p, "ec_users")
  /\ userStatus' = [u \in User |-> IF u \in loc[p].snap.members THEN Idle ELSE userStatus[u]]
  /\ Goto(p, "ec_del")
  /\ loc' = [loc EXCEPT ![p].snap = Absent]
  /\ UNCHANGED <<record, active, userCalls, signaling>>

EndUsers(p) ==
  /\ At(p, "ec_users")
  /\ LET gone == loc[p].snap.members IN
       /\ userStatus' = [u \in User |-> IF u \in gone THEN Idle ELSE userStatus[u]]
       /\ userCalls' = [u \in User |-> IF u \in gone THEN userCalls[u] \ {loc[p].call}
                                       ELSE userCalls[u]]
  /\ Goto(p, "ec_del")
  /\ loc' = [loc EXCEPT ![p].snap = Absent]
  /\ UNCHANGED <<record, active, signaling>>

EndDel(p) ==
  /\ At(p, "ec_del")
  /\ active' = [active EXCEPT ![loc[p].call] = Absent]
  /\ Return(p)
  /\ UNCHANGED <<record, userStatus, userCalls, signaling, loc>>

StoreStep(p) ==
  \/ CreateActiveSet(p) \/ CreateActiveUser(p) \/ CreateActiveList(p)
  \/ UpdateStatusGet(p) \/ UpdateStatusSet(p)
  \/ RemoveGet(p) \/ RemoveSet(p) \/ RemoveUser(p) \/ RemoveList(p)
  \/ EndGet(p) \/ EndUsers(p) \/ EndDel(p)

=============================================================================
