----------------------------- MODULE CallsProofs -----------------------------
(***************************************************************************)
(* Proofs about the socket call path, and about both call paths over one    *)
(* store, for every set of users, calls and handler slots and every number *)
(* of requests, events, disconnects and failing commands.  What a step of  *)
(* one invocation relies on and what it keeps is stated per slot, so that   *)
(* the lemmas on each path serve the two together as well.                  *)
(***************************************************************************)
EXTENDS Calls, CallLifecycleProofs

(* Labels: of initiateCall while nobody else knows the call, and after the *)
(* document is saved; of acceptCall and of endCall once the document says  *)
(* that the call was answered or is over; of a disconnect in one call.     *)
Unannounced == {"si_save", "si_sig", "si_user", "si_target", "ca_set", "ca_user", "ca_list"}
Initiating  == (Unannounced \ {"si_save"}) \cup {"si_arm"}
Accepting   == {"sa_sig", "sa_put", "sa_peer", "sa_user", "us_get", "us_set", "sa_clear"}
Ending      == {"sx_get", "sx_idle", "sx_sig", "sx_clear"}
EndingRedis == {"ec_get", "ec_users", "ec_del"}
Leaving     == {"rp_get", "rp_set", "rp_user", "rp_list", "dc_check"}

\* What a label says about the locals of its invocation.
SocketLabelOK(k, l) ==
  /\ k \in {"idle"} \cup StoreLabel \cup SocketLabel
  /\ k \notin {"idle", "si_self", "si_peer", "dc_list", "dc_next"} => l.call \in Call
  /\ k \in {"idle", "si_self", "si_peer"} => l.call = NoCall
  /\ l.op # "disconnect" \/ k = "dc_list" => l.calls = {}
  /\ l.op = "s_initiate" <=> k \in {"si_self", "si_peer", "si_save"} \cup Initiating
  /\ l.op = "s_accept" <=> k \in {"sa_find", "sa_mongo"} \cup Accepting
  /\ l.op = "disconnect" => k \in {"dc_list", "dc_next"} \cup Leaving \cup EndingRedis
  /\ k \in {"dc_list", "dc_next"} \cup Leaving => l.op = "disconnect"
  /\ k = "st_get" => l.op = "s_timeout"
  /\ l.op \in {"s_initiate", "disconnect"} => l.user \in User
  /\ l.op = "s_initiate" => l.peer \in User
  /\ k \in {"ca_set", "ca_user", "ca_list"} => l.ret = "si_arm"
  /\ k \in {"us_get", "us_set"} => l.ret = "sa_clear" /\ l.want = "active"
  /\ k \in {"rp_get", "rp_set", "rp_user", "rp_list"} => l.ret = "dc_check"
  /\ k \in EndingRedis => l.ret = IF l.op = "disconnect" THEN "dc_next" ELSE "sx_sig"

Saved(c)    == record[c] # NoRecord
Answered(c) == record[c].status \notin {"none", "initiating"}

\* What an invocation knows of the call it works on.
Informed(p) ==
  LET k == pc[p]
      l == loc[p]
  IN /\ l.call \in Call => (Saved(l.call) <=> k # "si_save")
     /\ \A c \in l.calls : Saved(c)
     /\ k \in Initiating => record[l.call].caller = l.user /\ record[l.call].callee = l.peer
     /\ k \in {"sa_mongo"} \cup Accepting => {l.user, l.peer} \subseteq Participants(l.call)
     /\ k = "sx_mongo" => l.user \in Participants(l.call)
     /\ l.op = "s_timeout" /\ k \in {"st_get", "sx_find"} => l.user = record[l.call].caller
     /\ k \in Accepting \cup Ending => Answered(l.call)
     /\ k \in EndingRedis /\ l.op # "disconnect" => Answered(l.call)
     /\ k \in EndingRedis \cup Leaving /\ l.op = "disconnect" => l.call \in abandoned

Knows(p) == SocketLabelOK(pc[p], loc[p]) /\ Informed(p)
Knowing  == \A p \in Proc : Knows(p)

\* A document has both participants, and no timer, list or status names a call without one.
Documented ==
  /\ \A c \in Call : Saved(c) => /\ record[c].caller \in User /\ record[c].callee \in User
                                 /\ record[c].status # "none"
  /\ \A c \in callTimer : Saved(c)
  /\ \A u \in User : \A c \in userCalls[u] : Saved(c)

\* A call is one handler's own until it is announced, and has no timer before.
Private ==
  \A p \in Proc : loc[p].op = "s_initiate" /\ loc[p].call \in Call =>
    /\ loc[p].call \notin callTimer
    /\ \A q \in Proc \ {p} : loc[q].call = loc[p].call =>
         pc[p] = "si_arm" /\ loc[q].op # "s_initiate" /\ pc[q] # "st_get"
    /\ pc[p] \in Unannounced => /\ \A u \in User : loc[p].call \notin userCalls[u]
                                /\ \A q \in Proc : loc[p].call \notin loc[q].calls
    /\ pc[p] \in {"ca_user", "ca_list"} => loc[p].user \in active[loc[p].call].members

\* Until x has announced its call no timer and no other invocation that began it names it; while
\* x has not saved it, nobody else does.
OwnRing(x) ==
  loc[x].op = "s_initiate" /\ loc[x].call \in Call =>
    /\ loc[x].call \notin callTimer
    /\ \A q \in Proc \ {x} : loc[q].call = loc[x].call =>
         loc[q].op # "s_initiate" /\ pc[q] # "st_get" /\ pc[x] # "si_save"

\* Handler p is about to write to Redis that call c rings.
Starting(p, c) ==
  /\ loc[p].call = c /\ loc[p].op = "s_initiate"
  /\ pc[p] \in {"si_sig", "si_user", "si_target", "ca_set"}

\* While c rings, what the timer will look at says so, and somebody follows it up.
StillRingingOf(c) ==
  record[c].status = "initiating" /\ c \notin abandoned =>
    active[c].status = "initiating" \/ \E p \in Proc : Starting(p, c)

FollowedUp(c) ==
  record[c].status = "initiating" /\ c \notin abandoned =>
    c \in callTimer \/ \E p \in Proc : loc[p].call = c /\ Ringing(p)

StillRinging == \A c \in Call : StillRingingOf(c)

\* u is not on the list of c, or is about to be taken off.
Unlisted(c, u) == c \notin userCalls[u] \/ \E p \in Proc : loc[p].call = c /\ Unlisting(p, u)

\* Whoever is on the list of a call is one of its members, and so in every copy of them that
\* a handler may still write back, or tell everyone in.
Listed ==
  /\ \A c \in Call, u \in User : u \in active[c].members \/ Unlisted(c, u)
  /\ \A p \in Proc, u \in User :
       /\ pc[p] \in {"us_set", "rp_set", "ec_users"} =>
            u \in loc[p].snap.members \/ Unlisted(loc[p].call, u)
       /\ pc[p] = "ec_del" => Unlisted(loc[p].call, u)

SocketInv == /\ SocketTypeOK /\ Knowing /\ Documented /\ Private
        /\ StillRinging /\ NoForgottenRing /\ BusyWithOwnCall /\ Listed

\* What invocation p may do, and what no step of it touches.
SocketSteps(p) ==
  \/ SocketClient(p) \/ SocketHandler(p) \/ SocketSharedStep(p) \/ StorageError(p)
  \/ \E c \in Call : RingTimeout(p, c)

Others(p) == \A q \in Proc \ {p} : pc'[q] = pc[q] /\ loc'[q] = loc[q]

-----------------------------------------------------------------------------
(* Types.                                                                   *)

LEMMA NewRecordFacts ==
  ASSUME NEW u \in User, NEW v \in User
  PROVE  /\ NewRecord(u, v) \in Record /\ NewRecord(u, v) # NoRecord
         /\ NewRecord(u, v).caller = u /\ NewRecord(u, v).callee = v
         /\ NewRecord(u, v).status = "initiating"
  BY DEF NewRecord, NoRecord, Record, PartStatus, Status, OpenStatus, Reason

LEMMA RecordTypes ==
  ASSUME NEW u \in User, NEW r \in Record, NEW s \in PartStatus
  PROVE  /\ WithPart(r, u, s) \in Record
         /\ [WithPart(r, u, s) EXCEPT !.status = "active"] \in Record
         /\ \A w \in Reason : [WithPart(r, u, s) EXCEPT !.status = "ended", !.reason = w] \in Record
         /\ WithPart(r, u, s).caller = r.caller /\ WithPart(r, u, s).callee = r.callee
  <1>2. /\ WithPart(r, u, s) \in Record
        /\ WithPart(r, u, s).caller = r.caller /\ WithPart(r, u, s).callee = r.callee
    BY DEF WithPart, Record
  <1> HIDE DEF WithPart
  <1>3. [WithPart(r, u, s) EXCEPT !.status = "active"] \in Record
    BY <1>2 DEF Record, Status, OpenStatus
  <1>4. \A w \in Reason : [WithPart(r, u, s) EXCEPT !.status = "ended", !.reason = w] \in Record
    BY <1>2 DEF Record, Status, TerminalStatus
  <1> QED BY <1>2, <1>3, <1>4

\* One assignment to the locals of an invocation.
LEMMA SocketLocalsType ==
  ASSUME NEW l \in Locals
  PROVE  /\ \A s \in Status \cup {"none"} : [l EXCEPT !.want = s] \in Locals
         /\ \A x \in ActiveState : [l EXCEPT !.snap = x] \in Locals
         /\ \A c \in Call : [l EXCEPT !.call = c] \in Locals
         /\ \A u \in User \cup {NoUser} : [l EXCEPT !.peer = u] \in Locals
         /\ \A T \in SUBSET User : [l EXCEPT !.todo = T] \in Locals
         /\ \A T \in SUBSET Call : [l EXCEPT !.calls = T] \in Locals
         /\ \A r \in Label : [l EXCEPT !.ret = r] \in Locals
         /\ \A r \in Label, s \in Status : [l EXCEPT !.want = s, !.ret = r] \in Locals
         /\ \A r \in Label, c \in Call, T \in SUBSET Call :
              [l EXCEPT !.call = c, !.calls = T, !.ret = r] \in Locals
  <1>1. \A s \in Status \cup {"none"} : [l EXCEPT !.want = s] \in Locals BY DEF Locals
  <1>2. \A x \in ActiveState : [l EXCEPT !.snap = x] \in Locals BY DEF Locals
  <1>3. \A c \in Call : [l EXCEPT !.call = c] \in Locals BY DEF Locals
  <1>4. \A u \in User \cup {NoUser} : [l EXCEPT !.peer = u] \in Locals BY DEF Locals
  <1>5. \A T \in SUBSET User : [l EXCEPT !.todo = T] \in Locals BY DEF Locals
  <1>6. \A T \in SUBSET Call : [l EXCEPT !.calls = T] \in Locals BY DEF Locals
  <1>7. \A r \in Label : [l EXCEPT !.ret = r] \in Locals BY DEF Locals
  <1>8. \A r \in Label, s \in Status : [l EXCEPT !.want = s, !.ret = r] \in Locals BY DEF Locals
  <1>9. \A r \in Label, c \in Call, T \in SUBSET Call :
          [l EXCEPT !.call = c, !.calls = T, !.ret = r] \in Locals
    BY DEF Locals
  <1> QED BY <1>1, <1>2, <1>3, <1>4, <1>5, <1>6, <1>7, <1>8, <1>9

LEMMA StartTypes ==
  /\ \A u, v \in User : [NoLocals EXCEPT !.op = "s_initiate", !.user = u, !.peer = v] \in Locals
  /\ \A u \in User : [NoLocals EXCEPT !.op = "disconnect", !.user = u] \in Locals
  /\ \A c \in Call, u \in User \cup {NoUser} :
       /\ [NoLocals EXCEPT !.op = "s_accept", !.call = c, !.user = u] \in Locals
       /\ \A op \in SocketOp, w \in Reason :
            [NoLocals EXCEPT !.op = op, !.call = c, !.user = u, !.why = w] \in Locals
  <1> PICK l \in Locals : l = NoLocals BY NoLocalsType
  <1>1. "s_initiate" \in SocketOp /\ "disconnect" \in SocketOp /\ "s_accept" \in SocketOp
    BY DEF SocketOp
  <1>2. \A op \in SocketOp, u, v \in User : [l EXCEPT !.op = op, !.user = u, !.peer = v] \in Locals
    BY DEF Locals
  <1>3. \A op \in SocketOp, u \in User : [l EXCEPT !.op = op, !.user = u] \in Locals BY DEF Locals
  <1>4. \A op \in SocketOp, c \in Call, u \in User \cup {NoUser} :
          [l EXCEPT !.op = op, !.call = c, !.user = u] \in Locals
    BY DEF Locals
  <1>5. \A op \in SocketOp, c \in Call, u \in User \cup {NoUser}, w \in Reason :
          [l EXCEPT !.op = op, !.call = c, !.user = u, !.why = w] \in Locals
    BY DEF Locals
  <1> QED BY <1>1, <1>2, <1>3, <1>4, <1>5

LEMMA BeginAt ==
  ASSUME StoreTypeOK, NEW p \in Proc, NEW k \in Label, NEW l \in Locals, Begin(p, k, l)
  PROVE  /\ pc[p] = "idle" /\ pc'[p] = k /\ loc'[p] = l /\ Others(p)
         /\ pc' \in [Proc -> Label] /\ loc' \in [Proc -> Locals]
  BY DEF Begin, StoreTypeOK, Others

LEMMA ReturnFacts ==
  ASSUME StoreTypeOK, NEW p \in Proc, Return(p)
  PROVE  /\ pc'[p] = loc[p].ret /\ pc' \in [Proc -> Label]
         /\ \A q \in Proc \ {p} : pc'[q] = pc[q]
  BY DEF Return, Goto, StoreTypeOK, Locals

LEMMA FinishAt ==
  ASSUME StoreTypeOK, NEW p \in Proc, Finish(p)
  PROVE  /\ pc'[p] = "idle" /\ loc'[p] = NoLocals /\ Others(p)
         /\ pc' \in [Proc -> Label] /\ loc' \in [Proc -> Locals]
  BY NoLocalsType DEF Finish, Label, StoreTypeOK, Others

LEMMA EnterFacts ==
  ASSUME StoreTypeOK, NEW p \in Proc, NEW k \in Label, NEW r \in Label, Enter(p, k, r)
  PROVE  /\ pc'[p] = k /\ loc'[p] = [loc[p] EXCEPT !.ret = r] /\ Others(p)
         /\ pc' \in [Proc -> Label] /\ loc' \in [Proc -> Locals]
  BY SocketLocalsType DEF Enter, StoreTypeOK, Others

\* The labels of the socket path and of the store, for the leaves that need to know them.
LEMMA Labels == {"idle"} \cup StoreLabel \cup SocketLabel \subseteq Label
  BY DEF Label

LEMMA SetUserType ==
  ASSUME StoreTypeOK, NEW u \in User, NEW s \in {"idle", "initiating", "ringing", "in_call"},
         NEW c \in Call \cup {NoCall}, SetUser(u, s, c)
  PROVE  /\ userStatus' \in [User -> UserState]
         /\ userStatus'[u].call = IF s = "idle" THEN NoCall ELSE c
         /\ \A v \in User \ {u} : userStatus'[v] = userStatus[v]
  BY DEF SetUser, StoreTypeOK, UserState, Idle

LEMMA KnowsAll ==
  ASSUME Knowing, NEW p \in Proc
  PROVE  Knows(p)
  BY DEF Knowing

\* What holds of an invocation wherever it stands.
LEMMA AtFacts ==
  ASSUME SocketTypeOK, NEW p \in Proc, Knows(p)
  PROVE  /\ StoreTypeOK /\ SignalingTypeOK /\ SocketLabelOK(pc[p], loc[p]) /\ Informed(p)
         /\ loc[p] \in Locals /\ pc[p] \in Label
         /\ loc[p].call \in Call \cup {NoCall} /\ loc[p].ret \in Label
         /\ loc[p].user \in User \cup {NoUser} /\ loc[p].peer \in User \cup {NoUser}
         /\ loc[p].snap \in ActiveState /\ loc[p].todo \subseteq User /\ loc[p].calls \subseteq Call
         /\ loc[p].why \in Reason /\ loc[p].want \in Status \cup {"none"}
  BY DEF SocketTypeOK, StoreTypeOK, Knows, Locals

\* A participant is a user.
LEMMA ParticipantFacts ==
  ASSUME StoreTypeOK, NEW c \in Call
  PROVE  /\ Participants(c) \subseteq User
         /\ record[c] \in Record
         /\ record[c].caller \in User \cup {NoUser} /\ record[c].callee \in User \cup {NoUser}
  BY DEF StoreTypeOK, Participants, Record

LEMMA EventTypes ==
  ASSUME SignalingTypeOK
  PROVE  /\ Event => events' \in 0 .. MaxEvents
         /\ disconnects < MaxDisconnects => disconnects + 1 \in 0 .. MaxDisconnects
         /\ errors < MaxErrors => errors + 1 \in 0 .. MaxErrors
  BY CallSignalingAssumption DEF SignalingTypeOK, Event

\* A step that moves from one label to another, writing the document or not.
LEMMA GotoType ==
  ASSUME SocketTypeOK, NEW p \in Proc, NEW k \in Label, Goto(p, k),
         loc' \in [Proc -> Locals], record' \in [Call -> Record], UNCHANGED <<keys, signalingVars>>
  PROVE  SocketTypeOK'
  BY DEF SocketTypeOK, StoreTypeOK, SignalingTypeOK, Goto, keys, signalingVars

LEMMA FinishType ==
  ASSUME SocketTypeOK, NEW p \in Proc, Finish(p), SignalingTypeOK', UNCHANGED <<record, keys>>
  PROVE  SocketTypeOK'
  BY FinishAt DEF SocketTypeOK, StoreTypeOK, keys

LEMMA BeginType ==
  ASSUME SocketTypeOK, NEW p \in Proc, NEW k \in Label, NEW l \in Locals, Begin(p, k, l),
         SignalingTypeOK', UNCHANGED <<record, keys>>
  PROVE  SocketTypeOK'
  BY BeginAt DEF SocketTypeOK, StoreTypeOK, keys

LEMMA ClientType ==
  ASSUME SocketTypeOK, NEW p \in Proc, Knows(p),
         SocketClient(p) \/ (\E c \in Call : RingTimeout(p, c)) \/ StorageError(p)
  PROVE  SocketTypeOK'
  <1> USE DEF SignalingTypeOK
  <1>0. StoreTypeOK /\ SignalingTypeOK /\ {"si_self", "sa_find", "sx_find", "st_get", "dc_list"} \subseteq Label
    BY DEF SocketTypeOK, Label, SocketLabel
  <1>1. {"s_decline", "s_hangup", "s_timeout"} \subseteq SocketOp BY DEF SocketOp
  <1>2. {"declined", "completed", "timeout"} \subseteq Reason BY DEF Reason
  <1>3. ASSUME NEW u \in User, NEW v \in User, SocketInitiate(p, u, v) PROVE SocketTypeOK'
    <2>1. SignalingTypeOK' BY <1>0, <1>3, EventTypes DEF SocketInitiate
    <2> QED BY <1>0, <1>3, <2>1, StartTypes, BeginType DEF SocketInitiate
  <1>4. ASSUME NEW c \in Call, NEW u \in User,
               SocketAccept(p, c, u) \/ SocketDecline(p, c, u) \/ SocketHangup(p, c, u)
        PROVE  SocketTypeOK'
    <2>1. SignalingTypeOK' BY <1>0, <1>4, EventTypes DEF SocketAccept, SocketDecline, SocketHangup
    <2> QED
      BY <1>0, <1>1, <1>2, <1>4, <2>1, StartTypes, BeginType DEF SocketAccept, SocketDecline, SocketHangup
  <1>5. ASSUME NEW u \in User, Disconnect(p, u) PROVE SocketTypeOK'
    <2>1. SignalingTypeOK' BY <1>0, <1>5, EventTypes DEF Disconnect
    <2> QED BY <1>0, <1>5, <2>1, StartTypes, BeginType DEF Disconnect
  <1>6. ASSUME NEW c \in Call, RingTimeout(p, c) PROVE SocketTypeOK'
    <2>1. SignalingTypeOK' BY <1>0, <1>6 DEF RingTimeout
    <2>2. record[c].caller \in User \cup {NoUser} BY <1>0, ParticipantFacts
    <2> QED BY <1>0, <1>1, <1>2, <1>6, <2>1, <2>2, StartTypes, BeginType DEF RingTimeout
  <1>7. CASE StorageError(p)
    <2>1. loc[p].call \in Call BY <1>7, AtFacts DEF StorageError, SocketLabelOK
    <2>2. SignalingTypeOK' BY <1>0, <1>7, <2>1, EventTypes DEF StorageError
    <2> QED BY <1>7, <2>2, FinishType DEF StorageError
  <1> QED BY <1>3, <1>4, <1>5, <1>6, <1>7 DEF SocketClient

LEMMA InitiateType ==
  ASSUME SocketTypeOK, NEW p \in Proc, Knows(p),
         \/ ReadCaller(p) \/ ReadTarget(p) \/ CreateRecord(p) \/ StoreSignaling(p)
         \/ MarkCaller(p) \/ MarkTarget(p) \/ ArmRingTimer(p)
  PROVE  SocketTypeOK'
  <1>0. /\ StoreTypeOK /\ SignalingTypeOK /\ loc[p] \in Locals
        /\ {"si_peer", "si_save", "si_sig", "si_user", "si_target", "si_arm", "ca_set"} \subseteq Label
    BY AtFacts DEF Label, SocketLabel, StoreLabel
  <1>1. SocketLabelOK(pc[p], loc[p]) BY AtFacts
  <1>2. loc[p].op = "s_initiate" => loc[p].user \in User /\ loc[p].peer \in User
    BY <1>1 DEF SocketLabelOK
  <1>3. pc[p] \in {"si_save", "si_sig", "si_user", "si_target", "si_arm"} =>
          loc[p].op = "s_initiate" /\ loc[p].call \in Call
    BY <1>1 DEF SocketLabelOK, Initiating, Unannounced
  <1>4. CASE ReadCaller(p)
    <2>1. "none" \in Status \cup {"none"} /\ "failed" \in Status \cup {"none"}
      BY DEF Status, TerminalStatus
    <2>2. loc' \in [Proc -> Locals] BY <1>0, <1>4, <2>1, SocketLocalsType DEF ReadCaller, StoreTypeOK
    <2> QED BY <1>0, <1>4, <2>2, GotoType DEF ReadCaller, StoreTypeOK
  <1>5. CASE ReadTarget(p)
    <2>1. CASE Finish(p) BY <1>0, <1>5, <2>1, FinishType DEF ReadTarget, SignalingTypeOK, signalingVars
    <2>2. CASE ~Finish(p)
      <3>1. loc' \in [Proc -> Locals] BY <1>0, <1>5, <2>2, SocketLocalsType DEF ReadTarget, StoreTypeOK
      <3> QED BY <1>0, <1>5, <2>2, <3>1, GotoType DEF ReadTarget, StoreTypeOK
    <2> QED BY <2>1, <2>2
  <1>6. CASE CreateRecord(p)
    <2>1. NewRecord(loc[p].user, loc[p].peer) \in Record
      BY <1>2, <1>3, <1>6, NewRecordFacts DEF CreateRecord, At
    <2> QED BY <1>0, <1>6, <2>1, GotoType DEF CreateRecord, WriteRecord, StoreTypeOK
  <1>7. CASE StoreSignaling(p)
    BY <1>0, <1>3, <1>7
       DEF StoreSignaling, At, Goto, SocketTypeOK, StoreTypeOK, SignalingTypeOK, signalingVars
  <1>8. CASE MarkCaller(p)
    <2>1. userStatus' \in [User -> UserState]
      BY <1>0, <1>2, <1>3, <1>8, SetUserType DEF MarkCaller, At
    <2> QED BY <1>0, <1>8, <2>1 DEF MarkCaller, Goto, SocketTypeOK, StoreTypeOK, SignalingTypeOK, signalingVars
  <1>9. CASE MarkTarget(p)
    <2>1. userStatus' \in [User -> UserState]
      BY <1>0, <1>2, <1>3, <1>9, SetUserType DEF MarkTarget, At
    <2> QED
      BY <1>0, <1>9, <2>1, EnterFacts DEF MarkTarget, SocketTypeOK, StoreTypeOK, SignalingTypeOK, signalingVars
  <1>10. CASE ArmRingTimer(p)
    <2>1. SignalingTypeOK' BY <1>0, <1>3, <1>10 DEF ArmRingTimer, At, SignalingTypeOK
    <2> QED BY <1>10, <2>1, FinishType DEF ArmRingTimer
  <1> QED BY <1>4, <1>5, <1>6, <1>7, <1>8, <1>9, <1>10

LEMMA AcceptType ==
  ASSUME SocketTypeOK, NEW p \in Proc, Knows(p),
         \/ FindAccepted(p) \/ WriteAccepted(p) \/ ReadSignaling(p) \/ WriteSignaling(p)
         \/ MarkInitiatorInCall(p) \/ MarkAccepterInCall(p) \/ ClearOnAccept(p)
  PROVE  SocketTypeOK'
  <1>0. /\ StoreTypeOK /\ SignalingTypeOK /\ loc[p] \in Locals
        /\ {"sa_mongo", "sa_sig", "sa_put", "sa_peer", "sa_user", "us_get", "sa_clear"} \subseteq Label
    BY AtFacts DEF Label, SocketLabel, StoreLabel
  <1>1. SocketLabelOK(pc[p], loc[p]) /\ Informed(p) BY AtFacts
  <1>2. pc[p] \in {"sa_find", "sa_mongo", "sa_sig", "sa_put", "sa_peer", "sa_user", "sa_clear"} =>
          loc[p].call \in Call
    BY <1>1 DEF SocketLabelOK
  <1>3. pc[p] \in {"sa_mongo", "sa_peer", "sa_user"} => loc[p].user \in User /\ loc[p].peer \in User
    BY <1>0, <1>1, <1>2, ParticipantFacts DEF Informed, Accepting
  <1>4. CASE FindAccepted(p)
    <2>1. CASE Finish(p) BY <1>0, <1>4, <2>1, FinishType DEF FindAccepted, SignalingTypeOK, signalingVars
    <2>2. CASE ~Finish(p)
      <3>1. record[loc[p].call].caller \in User \cup {NoUser}
        BY <1>0, <1>2, <1>4, ParticipantFacts DEF FindAccepted, At
      <3>2. [loc[p] EXCEPT !.peer = record[loc[p].call].caller] \in Locals
        BY <1>0, <3>1, SocketLocalsType
      <3>3. loc' \in [Proc -> Locals] BY <1>0, <1>4, <2>2, <3>2 DEF FindAccepted, StoreTypeOK
      <3> QED BY <1>0, <1>4, <2>2, <3>3, GotoType DEF FindAccepted, StoreTypeOK
    <2> QED BY <2>1, <2>2
  <1>5. CASE WriteAccepted(p)
    <2>1. record[loc[p].call] \in Record /\ "joined" \in PartStatus
      BY <1>0, <1>2, <1>5, ParticipantFacts DEF WriteAccepted, At, PartStatus
    <2>2. [WithPart(record[loc[p].call], loc[p].user, "joined") EXCEPT !.status = "active"] \in Record
      BY <1>3, <1>5, <2>1, RecordTypes DEF WriteAccepted, At
    <2> QED BY <1>0, <1>5, <2>2, GotoType DEF WriteAccepted, WriteRecord, StoreTypeOK
  <1>6. CASE ReadSignaling(p)
    <2>1. CASE Finish(p) BY <1>0, <1>6, <2>1, FinishType DEF ReadSignaling, SignalingTypeOK, signalingVars
    <2>2. CASE ~Finish(p) BY <1>0, <1>6, <2>2, GotoType DEF ReadSignaling, StoreTypeOK
    <2> QED BY <2>1, <2>2
  <1>7. CASE WriteSignaling(p)
    BY <1>0, <1>2, <1>7
       DEF WriteSignaling, At, Goto, SocketTypeOK, StoreTypeOK, SignalingTypeOK, signalingVars
  <1>8. CASE MarkInitiatorInCall(p)
    <2>1. userStatus' \in [User -> UserState]
      BY <1>0, <1>2, <1>3, <1>8, SetUserType DEF MarkInitiatorInCall, At
    <2> QED
      BY <1>0, <1>8, <2>1 DEF MarkInitiatorInCall, Goto, SocketTypeOK, StoreTypeOK, SignalingTypeOK, signalingVars
  <1>9. CASE MarkAccepterInCall(p)
    <2>1. userStatus' \in [User -> UserState]
      BY <1>0, <1>2, <1>3, <1>9, SetUserType DEF MarkAccepterInCall, At
    <2>2. [loc[p] EXCEPT !.want = "active", !.ret = "sa_clear"] \in Locals
      BY <1>0, SocketLocalsType DEF Status, OpenStatus
    <2>3. pc' \in [Proc -> Label] /\ loc' \in [Proc -> Locals]
      BY <1>0, <1>9, <2>2 DEF MarkAccepterInCall, StoreTypeOK
    <2> QED BY <1>9, <2>1, <2>3 DEF MarkAccepterInCall, SocketTypeOK, StoreTypeOK, SignalingTypeOK, signalingVars
  <1>10. CASE ClearOnAccept(p)
    <2>1. SignalingTypeOK' BY <1>0, <1>10 DEF ClearOnAccept, SignalingTypeOK
    <2> QED BY <1>10, <2>1, FinishType DEF ClearOnAccept
  <1> QED BY <1>4, <1>5, <1>6, <1>7, <1>8, <1>9, <1>10

LEMMA EndType ==
  ASSUME SocketTypeOK, NEW p \in Proc, Knows(p),
         \/ FindEnded(p) \/ WriteEnded(p) \/ ReadMembers(p) \/ IdleMembers(p)
         \/ DeleteSignaling(p) \/ ClearOnEnd(p) \/ CheckUnanswered(p)
  PROVE  SocketTypeOK'
  <1>0. /\ StoreTypeOK /\ SignalingTypeOK /\ loc[p] \in Locals
        /\ loc[p].todo \subseteq User /\ loc[p].why \in Reason
        /\ {"sx_find", "sx_mongo", "sx_get", "sx_idle", "sx_sig", "sx_clear", "ec_get"} \subseteq Label
    BY AtFacts DEF Label, SocketLabel, StoreLabel
  <1>1. SocketLabelOK(pc[p], loc[p]) /\ Informed(p) BY AtFacts
  <1>2. pc[p] \in {"sx_find", "sx_mongo", "sx_get", "sx_idle", "sx_sig", "sx_clear", "st_get"} =>
          loc[p].call \in Call
    BY <1>1 DEF SocketLabelOK
  <1>3. CASE FindEnded(p)
    <2>1. CASE Finish(p) BY <1>0, <1>3, <2>1, FinishType DEF FindEnded, SignalingTypeOK, signalingVars
    <2>2. CASE ~Finish(p) BY <1>0, <1>3, <2>2, GotoType DEF FindEnded, StoreTypeOK
    <2> QED BY <2>1, <2>2
  <1>4. CASE WriteEnded(p)
    <2> DEFINE how == IF loc[p].op = "s_decline" THEN "declined" ELSE "left"
               r == [WithPart(record[loc[p].call], loc[p].user, how)
                       EXCEPT !.status = "ended", !.reason = loc[p].why]
    <2>1. record[loc[p].call] \in Record /\ how \in PartStatus /\ loc[p].user \in User
      BY <1>0, <1>1, <1>2, <1>4, ParticipantFacts DEF WriteEnded, At, PartStatus, Informed
    <2>2. r \in Record BY <1>0, <2>1, RecordTypes
    <2>3. WriteRecord(p, r) BY <1>4 DEF WriteEnded
    <2> HIDE DEF r
    <2>4. record' \in [Call -> Record] BY <1>0, <2>2, <2>3 DEF WriteRecord, StoreTypeOK
    <2>5. Goto(p, "sx_get") /\ UNCHANGED <<keys, loc, signalingVars>> BY <1>4 DEF WriteEnded
    <2> QED BY <1>0, <2>4, <2>5, GotoType DEF StoreTypeOK
  <1>5. CASE ReadMembers(p)
    <2>1. active[loc[p].call].members \subseteq User
      BY <1>0, <1>2, <1>5 DEF ReadMembers, At, StoreTypeOK, ActiveState
    <2>2. [loc[p] EXCEPT !.todo = active[loc[p].call].members] \in Locals BY <1>0, <2>1, SocketLocalsType
    <2>3. loc' \in [Proc -> Locals] BY <1>0, <1>5, <2>2 DEF ReadMembers, StoreTypeOK
    <2> QED BY <1>0, <1>5, <2>3, GotoType DEF ReadMembers, Goto, StoreTypeOK
  <1>6. CASE IdleMembers(p)
    <2>1. CASE Enter(p, "ec_get", "sx_sig") /\ UNCHANGED userStatus
      BY <1>0, <1>6, <2>1, EnterFacts
         DEF IdleMembers, SocketTypeOK, StoreTypeOK, SignalingTypeOK, signalingVars
    <2>2. ASSUME NEW u \in loc[p].todo, SetUser(u, "idle", NoCall),
                 loc' = [loc EXCEPT ![p].todo = @ \ {u}], UNCHANGED pc
          PROVE  SocketTypeOK'
      <3>1. u \in User BY <1>0
      <3>2. userStatus' \in [User -> UserState] BY <1>0, <2>2, <3>1, SetUserType
      <3>3. loc' \in [Proc -> Locals] BY <1>0, <2>2, SocketLocalsType DEF StoreTypeOK
      <3> QED
        BY <1>6, <2>2, <3>2, <3>3 DEF IdleMembers, SocketTypeOK, StoreTypeOK, SignalingTypeOK, signalingVars
    <2> QED BY <1>6, <2>1, <2>2 DEF IdleMembers
  <1>7. CASE DeleteSignaling(p)
    BY <1>0, <1>7 DEF DeleteSignaling, Goto, SocketTypeOK, StoreTypeOK, SignalingTypeOK, signalingVars
  <1>8. CASE ClearOnEnd(p)
    <2>1. SignalingTypeOK' BY <1>0, <1>8 DEF ClearOnEnd, SignalingTypeOK
    <2> QED BY <1>8, <2>1, FinishType DEF ClearOnEnd
  <1>9. CASE CheckUnanswered(p)
    <2>1. CASE Finish(p) BY <1>0, <1>9, <2>1, FinishType DEF CheckUnanswered, SignalingTypeOK, signalingVars
    <2>2. CASE ~Finish(p) BY <1>0, <1>9, <2>2, GotoType DEF CheckUnanswered, StoreTypeOK
    <2> QED BY <2>1, <2>2
  <1> QED BY <1>3, <1>4, <1>5, <1>6, <1>7, <1>8, <1>9

LEMMA LeaveType ==
  ASSUME SocketTypeOK, NEW p \in Proc, Knows(p), ReadActiveCalls(p) \/ LeaveNextCall(p) \/ EndIfAlone(p)
  PROVE  SocketTypeOK'
  <1>0. /\ StoreTypeOK /\ SignalingTypeOK /\ loc[p] \in Locals /\ loc[p].calls \subseteq Call
        /\ {"dc_next", "rp_get", "dc_check", "ec_get"} \subseteq Label
    BY AtFacts DEF Label, SocketLabel, StoreLabel
  <1>1. SocketLabelOK(pc[p], loc[p]) BY AtFacts
  <1>2. CASE ReadActiveCalls(p)
    <2>1. loc[p].user \in User BY <1>1, <1>2 DEF ReadActiveCalls, At, SocketLabelOK
    <2>2. userCalls[loc[p].user] \subseteq Call BY <1>0, <2>1 DEF StoreTypeOK
    <2>3. [loc[p] EXCEPT !.calls = userCalls[loc[p].user]] \in Locals BY <1>0, <2>2, SocketLocalsType
    <2>4. loc' \in [Proc -> Locals] BY <1>0, <1>2, <2>3 DEF ReadActiveCalls, StoreTypeOK
    <2> QED BY <1>0, <1>2, <2>4, GotoType DEF ReadActiveCalls, StoreTypeOK
  <1>3. CASE LeaveNextCall(p)
    <2>1. CASE Finish(p) /\ UNCHANGED <<callTimer, abandoned>>
      BY <1>0, <1>3, <2>1, FinishType DEF LeaveNextCall, SignalingTypeOK
    <2>2. ASSUME NEW c \in loc[p].calls, callTimer' = callTimer \ {c}, abandoned' = abandoned \cup {c},
                 pc' = [pc EXCEPT ![p] = "rp_get"],
                 loc' = [loc EXCEPT ![p].call = c, ![p].calls = @ \ {c}, ![p].ret = "dc_check"]
          PROVE  SocketTypeOK'
      <3>1. c \in Call /\ SignalingTypeOK' BY <1>0, <1>3, <2>2 DEF LeaveNextCall, SignalingTypeOK
      <3>2. [loc[p] EXCEPT !.call = c, !.calls = loc[p].calls \ {c}, !.ret = "dc_check"] \in Locals
        BY <1>0, <3>1, SocketLocalsType
      <3>3. loc' \in [Proc -> Locals] /\ pc' \in [Proc -> Label]
        BY <1>0, <2>2, <3>2 DEF StoreTypeOK
      <3> QED BY <1>0, <1>3, <3>1, <3>3 DEF LeaveNextCall, SocketTypeOK, StoreTypeOK, keys
    <2> QED BY <1>3, <2>1, <2>2 DEF LeaveNextCall
  <1>4. CASE EndIfAlone(p)
    <2>1. CASE Enter(p, "ec_get", "dc_next")
      BY <1>0, <1>4, <2>1, EnterFacts
         DEF EndIfAlone, SocketTypeOK, StoreTypeOK, SignalingTypeOK, signalingVars, keys
    <2>2. CASE Goto(p, "dc_next") /\ UNCHANGED loc
      BY <1>0, <1>4, <2>2, GotoType DEF EndIfAlone, StoreTypeOK
    <2> QED BY <1>4, <2>1, <2>2 DEF EndIfAlone
  <1> QED BY <1>2, <1>3, <1>4

LEMMA StoreType ==
  ASSUME SocketTypeOK, NEW p \in Proc, Knows(p), SocketSharedStep(p)
  PROVE  SocketTypeOK'
  <1>0. /\ StoreTypeOK /\ SignalingTypeOK /\ SignalingTypeOK' /\ StoreStep(p)
        /\ loc[p] \in Locals /\ loc[p].snap \in ActiveState /\ loc[p].ret \in Label
        /\ StoreLabel \subseteq Label /\ Absent \in ActiveState
    BY AtFacts DEF SocketSharedStep, SignalingTypeOK, signalingVars, Label, Absent, ActiveState
  <1>1. SocketLabelOK(pc[p], loc[p]) BY AtFacts
  <1>2. pc[p] \in StoreLabel => loc[p].call \in Call BY <1>1 DEF SocketLabelOK, StoreLabel
  <1>3. pc[p] \in {"ca_set", "ca_user", "ca_list", "rp_set", "rp_user", "rp_list"} => loc[p].user \in User
    BY <1>1 DEF SocketLabelOK, Initiating, Unannounced, Leaving
  <1>4. pc[p] = "ca_set" => loc[p].peer \in User BY <1>1 DEF SocketLabelOK, Initiating, Unannounced
  <1>5. pc[p] = "us_set" => loc[p].want = "active" BY <1>1 DEF SocketLabelOK
  <1>6. \A l \in StoreLabel : Goto(p, l) => pc' \in [Proc -> Label]
    BY <1>0 DEF Goto, StoreTypeOK
  <1>7. Return(p) => pc' \in [Proc -> Label] BY <1>0, ReturnFacts
  <1>8. \A x \in ActiveState : [loc EXCEPT ![p].snap = x] \in [Proc -> Locals]
    BY <1>0, SocketLocalsType DEF StoreTypeOK
  <1>9. pc' \in [Proc -> Label]
    BY <1>0, <1>6, <1>7
       DEF StoreStep, CreateActiveSet, CreateActiveUser, CreateActiveList, UpdateStatusGet, UpdateStatusSet,
           RemoveGet, RemoveSet, RemoveUser, RemoveList, EndGet, EndUsers, EndDel, StoreLabel
  <1>10. loc' \in [Proc -> Locals]
    <2>1. pc[p] \in StoreLabel => active[loc[p].call] \in ActiveState BY <1>0, <1>2 DEF StoreTypeOK
    <2>2. pc[p] \in StoreLabel
      BY <1>0 DEF StoreStep, CreateActiveSet, CreateActiveUser, CreateActiveList, UpdateStatusGet,
           UpdateStatusSet, RemoveGet, RemoveSet, RemoveUser, RemoveList, EndGet, EndUsers, EndDel,
           At, StoreLabel
    <2>3. loc' = loc \/ \E x \in ActiveState : loc' = [loc EXCEPT ![p].snap = x]
      BY <1>0, <2>1, <2>2
         DEF StoreStep, CreateActiveSet, CreateActiveUser, CreateActiveList, UpdateStatusGet,
             UpdateStatusSet, RemoveGet, RemoveSet, RemoveUser, RemoveList, EndGet, EndUsers, EndDel
    <2> QED BY <1>0, <1>8, <2>3 DEF StoreTypeOK
  <1>11. active' \in [Call -> ActiveState]
    <2>1. CASE CreateActiveSet(p)
      <3>1. [status |-> "initiating", members |-> {loc[p].user, loc[p].peer}] \in ActiveState
        BY <1>3, <1>4, <2>1 DEF CreateActiveSet, At, ActiveState, Status, OpenStatus
      <3> QED BY <1>0, <2>1, <3>1 DEF CreateActiveSet, StoreTypeOK
    <2>2. CASE UpdateStatusSet(p)
      <3>1. [loc[p].snap EXCEPT !.status = loc[p].want] \in ActiveState
        BY <1>0, <1>5, <2>2 DEF UpdateStatusSet, At, ActiveState, Status, OpenStatus
      <3> QED BY <1>0, <2>2, <3>1 DEF UpdateStatusSet, StoreTypeOK
    <2>3. CASE RemoveSet(p)
      <3>1. [loc[p].snap EXCEPT !.members = @ \ {loc[p].user}] \in ActiveState
        BY <1>0 DEF ActiveState
      <3> QED BY <1>0, <2>3, <3>1 DEF RemoveSet, StoreTypeOK
    <2>4. CASE EndDel(p) BY <1>0, <2>4 DEF EndDel, StoreTypeOK
    <2>5. CASE ~(CreateActiveSet(p) \/ UpdateStatusSet(p) \/ RemoveSet(p) \/ EndDel(p))
      BY <1>0, <2>5 DEF StoreStep, CreateActiveUser, CreateActiveList, UpdateStatusGet,
                        RemoveGet, RemoveUser, RemoveList, EndGet, EndUsers, keys, StoreTypeOK
    <2> QED BY <2>1, <2>2, <2>3, <2>4, <2>5
  <1>12. userStatus' \in [User -> UserState]
    <2>1. CASE CreateActiveUser(p)
      BY <1>0, <1>2, <1>3, <2>1, SetUserType DEF CreateActiveUser, At, StoreLabel
    <2>2. CASE RemoveUser(p)
      BY <1>0, <1>3, <2>2, SetUserType DEF RemoveUser, At
    <2>3. CASE EndUsers(p)
      <3>1. Idle \in UserState BY DEF Idle, UserState
      <3> QED BY <1>0, <2>3, <3>1 DEF EndUsers, StoreTypeOK
    <2>4. CASE ~(CreateActiveUser(p) \/ RemoveUser(p) \/ EndUsers(p))
      BY <1>0, <2>4 DEF StoreStep, CreateActiveSet, CreateActiveList, UpdateStatusGet, UpdateStatusSet,
                        RemoveGet, RemoveSet, RemoveList, EndGet, EndDel, keys, StoreTypeOK
    <2> QED BY <2>1, <2>2, <2>3, <2>4
  <1>13. userCalls' \in [User -> SUBSET Call]
    <2>1. CASE CreateActiveList(p)
      BY <1>0, <1>2, <2>1 DEF CreateActiveList, At, StoreLabel, StoreTypeOK
    <2>2. CASE RemoveList(p) BY <1>0, <2>2 DEF RemoveList, StoreTypeOK
    <2>3. CASE EndUsers(p) BY <1>0, <2>3 DEF EndUsers, StoreTypeOK
    <2>4. CASE ~(CreateActiveList(p) \/ RemoveList(p) \/ EndUsers(p))
      BY <1>0, <2>4 DEF StoreStep, CreateActiveSet, CreateActiveUser, UpdateStatusGet, UpdateStatusSet,
                        RemoveGet, RemoveSet, RemoveUser, EndGet, EndDel, keys, StoreTypeOK
    <2> QED BY <2>1, <2>2, <2>3, <2>4
  <1>14. record' = record /\ signaling' = signaling
    BY <1>0 DEF StoreStep, CreateActiveSet, CreateActiveUser, CreateActiveList, UpdateStatusGet,
                UpdateStatusSet, RemoveGet, RemoveSet, RemoveUser, RemoveList, EndGet, EndUsers, EndDel, keys
  <1> QED BY <1>0, <1>9, <1>10, <1>11, <1>12, <1>13, <1>14 DEF SocketTypeOK, StoreTypeOK

LEMMA SlotType ==
  ASSUME SocketTypeOK, NEW p \in Proc, Knows(p), SocketSteps(p)
  PROVE  SocketTypeOK'
  BY ClientType, InitiateType, AcceptType, EndType, LeaveType, StoreType DEF SocketSteps, SocketHandler

LEMMA TypeStep ==
  ASSUME SocketTypeOK, Knowing, [SocketNext]_socketVars
  PROVE  SocketTypeOK'
  <1>1. CASE UNCHANGED socketVars
    BY <1>1 DEF socketVars, store, signalingVars, SocketTypeOK, StoreTypeOK, SignalingTypeOK
  <1>2. ASSUME NEW p \in Proc, SocketSteps(p) PROVE SocketTypeOK'
    BY KnowsAll, <1>2, SlotType
  <1> QED BY <1>1, <1>2 DEF SocketNext, SocketSteps

-----------------------------------------------------------------------------
(* Where a step leads.                                                      *)

LEMMA LabelSets ==
  /\ Initiating = {"si_sig", "si_user", "si_target", "ca_set", "ca_user", "ca_list", "si_arm"}
  /\ Unannounced = {"si_save"} \cup (Initiating \ {"si_arm"})
  BY DEF Initiating, Unannounced

LEMMA FinishLabel == SocketLabelOK("idle", NoLocals)
  BY LabelSets DEF SocketLabelOK, NoLocals, Accepting, EndingRedis, Leaving, StoreLabel, SocketLabel

LEMMA InitiateLabel ==
  ASSUME SocketTypeOK, NEW p \in Proc, Knows(p),
         \/ ReadCaller(p) \/ ReadTarget(p) \/ CreateRecord(p) \/ StoreSignaling(p)
         \/ MarkCaller(p) \/ MarkTarget(p) \/ ArmRingTimer(p)
  PROVE  SocketLabelOK(pc'[p], loc'[p]) /\ Others(p)
  <1>0. /\ StoreTypeOK /\ loc[p] \in Locals /\ SocketLabelOK(pc[p], loc[p]) /\ loc[p].calls \subseteq Call
        /\ pc \in [Proc -> Label] /\ loc \in [Proc -> Locals]
    BY AtFacts DEF StoreTypeOK
  <1> USE <1>0, LabelSets
      DEF At, Goto, Others, SocketLabelOK, Accepting, EndingRedis, Leaving, StoreLabel, SocketLabel
  <1>1. CASE ReadCaller(p) BY <1>1 DEF ReadCaller, Locals
  <1>2. CASE ReadTarget(p) 
    <2>1. CASE Finish(p) BY <1>0, <2>1, FinishAt, FinishLabel
    <2>2. CASE ~Finish(p) BY <1>2, <2>2 DEF ReadTarget, Locals
    <2> QED BY <2>1, <2>2
  <1>3. CASE CreateRecord(p) BY <1>3 DEF CreateRecord
  <1>4. CASE StoreSignaling(p) BY <1>4 DEF StoreSignaling
  <1>5. CASE MarkCaller(p) BY <1>5 DEF MarkCaller
  <1>6. CASE MarkTarget(p) BY <1>6 DEF MarkTarget, Enter, Locals
  <1>7. CASE ArmRingTimer(p) BY <1>0, <1>7, FinishAt, FinishLabel DEF ArmRingTimer
  <1> QED BY <1>1, <1>2, <1>3, <1>4, <1>5, <1>6, <1>7

LEMMA AcceptLabel ==
  ASSUME SocketTypeOK, NEW p \in Proc, Knows(p),
         \/ FindAccepted(p) \/ WriteAccepted(p) \/ ReadSignaling(p) \/ WriteSignaling(p)
         \/ MarkInitiatorInCall(p) \/ MarkAccepterInCall(p) \/ ClearOnAccept(p)
  PROVE  SocketLabelOK(pc'[p], loc'[p]) /\ Others(p)
  <1>0. /\ StoreTypeOK /\ loc[p] \in Locals /\ SocketLabelOK(pc[p], loc[p]) /\ loc[p].calls \subseteq Call
        /\ pc \in [Proc -> Label] /\ loc \in [Proc -> Locals]
    BY AtFacts DEF StoreTypeOK
  <1> USE <1>0, LabelSets
      DEF At, Goto, Others, SocketLabelOK, Accepting, EndingRedis, Leaving, StoreLabel, SocketLabel
  <1>1. CASE FindAccepted(p) 
    <2>1. CASE Finish(p) BY <1>0, <2>1, FinishAt, FinishLabel
    <2>2. CASE ~Finish(p) BY <1>1, <2>2 DEF FindAccepted, Locals
    <2> QED BY <2>1, <2>2
  <1>2. CASE WriteAccepted(p) BY <1>2 DEF WriteAccepted
  <1>3. CASE ReadSignaling(p) 
    <2>1. CASE Finish(p) BY <1>0, <2>1, FinishAt, FinishLabel
    <2>2. CASE ~Finish(p) BY <1>3, <2>2 DEF ReadSignaling
    <2> QED BY <2>1, <2>2
  <1>4. CASE WriteSignaling(p) BY <1>4 DEF WriteSignaling
  <1>5. CASE MarkInitiatorInCall(p) BY <1>5 DEF MarkInitiatorInCall
  <1>6. CASE MarkAccepterInCall(p) BY <1>6 DEF MarkAccepterInCall, Locals
  <1>7. CASE ClearOnAccept(p) BY <1>0, <1>7, FinishAt, FinishLabel DEF ClearOnAccept
  <1> QED BY <1>1, <1>2, <1>3, <1>4, <1>5, <1>6, <1>7

LEMMA EndLabel ==
  ASSUME SocketTypeOK, NEW p \in Proc, Knows(p),
         \/ FindEnded(p) \/ WriteEnded(p) \/ ReadMembers(p) \/ IdleMembers(p)
         \/ DeleteSignaling(p) \/ ClearOnEnd(p) \/ CheckUnanswered(p)
  PROVE  SocketLabelOK(pc'[p], loc'[p]) /\ Others(p)
  <1>0. /\ StoreTypeOK /\ loc[p] \in Locals /\ SocketLabelOK(pc[p], loc[p]) /\ loc[p].calls \subseteq Call
        /\ pc \in [Proc -> Label] /\ loc \in [Proc -> Locals]
    BY AtFacts DEF StoreTypeOK
  <1> USE <1>0, LabelSets
      DEF At, Goto, Others, SocketLabelOK, Accepting, EndingRedis, Leaving, StoreLabel, SocketLabel
  <1>1. CASE FindEnded(p) 
    <2>1. CASE Finish(p) BY <1>0, <2>1, FinishAt, FinishLabel
    <2>2. CASE ~Finish(p) BY <1>1, <2>2 DEF FindEnded
    <2> QED BY <2>1, <2>2
  <1>2. CASE WriteEnded(p) BY <1>2 DEF WriteEnded
  <1>3. CASE ReadMembers(p) BY <1>3 DEF ReadMembers, Locals
  <1>4. CASE IdleMembers(p) BY <1>4 DEF IdleMembers, Enter, Locals
  <1>5. CASE DeleteSignaling(p) BY <1>5 DEF DeleteSignaling
  <1>6. CASE ClearOnEnd(p) BY <1>0, <1>6, FinishAt, FinishLabel DEF ClearOnEnd
  <1>7. CASE CheckUnanswered(p) 
    <2>1. CASE Finish(p) BY <1>0, <2>1, FinishAt, FinishLabel
    <2>2. CASE ~Finish(p) BY <1>7, <2>2 DEF CheckUnanswered
    <2> QED BY <2>1, <2>2
  <1> QED BY <1>1, <1>2, <1>3, <1>4, <1>5, <1>6, <1>7

LEMMA LeaveLabel ==
  ASSUME SocketTypeOK, NEW p \in Proc, Knows(p),
         ReadActiveCalls(p) \/ LeaveNextCall(p) \/ EndIfAlone(p)
  PROVE  SocketLabelOK(pc'[p], loc'[p]) /\ Others(p)
  <1>0. /\ StoreTypeOK /\ loc[p] \in Locals /\ SocketLabelOK(pc[p], loc[p]) /\ loc[p].calls \subseteq Call
        /\ pc \in [Proc -> Label] /\ loc \in [Proc -> Locals]
    BY AtFacts DEF StoreTypeOK
  <1> USE <1>0, LabelSets
      DEF At, Goto, Others, SocketLabelOK, Accepting, EndingRedis, Leaving, StoreLabel, SocketLabel
  <1>1. CASE ReadActiveCalls(p) BY <1>1 DEF ReadActiveCalls, Locals
  <1>2. CASE LeaveNextCall(p) 
    <2>1. CASE Finish(p) BY <1>0, <2>1, FinishAt, FinishLabel
    <2>2. CASE ~Finish(p)
      <3> HIDE DEF SocketLabelOK
      <3>1. PICK c \in loc[p].calls :
              /\ pc' = [pc EXCEPT ![p] = "rp_get"]
              /\ loc' = [loc EXCEPT ![p].call = c, ![p].calls = @ \ {c}, ![p].ret = "dc_check"]
        BY <1>2, <2>2 DEF LeaveNextCall
      <3>2. pc[p] = "dc_next" /\ c \in Call BY <1>2 DEF LeaveNextCall
      <3>3. \A l \in Locals, x \in Call, T \in SUBSET Call : SocketLabelOK("dc_next", l) =>
              SocketLabelOK("rp_get", [l EXCEPT !.call = x, !.calls = T, !.ret = "dc_check"])
        BY DEF SocketLabelOK, Locals
      <3> QED BY <3>1, <3>2, <3>3
    <2> QED BY <2>1, <2>2
  <1>3. CASE EndIfAlone(p) BY <1>3 DEF EndIfAlone, Enter, Locals
  <1> QED BY <1>1, <1>2, <1>3

LEMMA ClientLabel ==
  ASSUME SocketTypeOK, NEW p \in Proc, Knows(p), SocketClient(p) \/ (\E c \in Call : RingTimeout(p, c)) \/ StorageError(p)
  PROVE  SocketLabelOK(pc'[p], loc'[p]) /\ Others(p)
  <1>0. /\ StoreTypeOK /\ loc[p] \in Locals /\ SocketLabelOK(pc[p], loc[p]) /\ loc[p].calls \subseteq Call
        /\ pc \in [Proc -> Label] /\ loc \in [Proc -> Locals]
    BY AtFacts DEF StoreTypeOK
  <1> USE <1>0, LabelSets
      DEF At, Goto, Others, SocketLabelOK, Accepting, EndingRedis, Leaving, StoreLabel, SocketLabel
  <1>1. ASSUME NEW u \in User, NEW v \in User, SocketInitiate(p, u, v) PROVE SocketLabelOK(pc'[p], loc'[p]) /\ Others(p)
    BY <1>1 DEF SocketInitiate, Begin, NoLocals
  <1>2. ASSUME NEW u \in User, NEW c \in Call, SocketAccept(p, c, u) PROVE SocketLabelOK(pc'[p], loc'[p]) /\ Others(p)
    BY <1>2 DEF SocketAccept, Begin, NoLocals
  <1>3. ASSUME NEW u \in User, NEW c \in Call, SocketDecline(p, c, u) PROVE SocketLabelOK(pc'[p], loc'[p]) /\ Others(p)
    BY <1>3 DEF SocketDecline, Begin, NoLocals
  <1>4. ASSUME NEW u \in User, NEW c \in Call, SocketHangup(p, c, u) PROVE SocketLabelOK(pc'[p], loc'[p]) /\ Others(p)
    BY <1>4 DEF SocketHangup, Begin, NoLocals
  <1>5. ASSUME NEW u \in User, Disconnect(p, u) PROVE SocketLabelOK(pc'[p], loc'[p]) /\ Others(p)
    BY <1>5 DEF Disconnect, Begin, NoLocals
  <1>6. ASSUME NEW c \in Call, RingTimeout(p, c) PROVE SocketLabelOK(pc'[p], loc'[p]) /\ Others(p)
    BY <1>6 DEF RingTimeout, Begin, NoLocals
  <1>7. CASE StorageError(p) BY <1>0, <1>7, FinishAt, FinishLabel DEF StorageError
  <1> QED BY <1>1, <1>2, <1>3, <1>4, <1>5, <1>6, <1>7 DEF SocketClient

LEMMA StoreLabels ==
  ASSUME SocketTypeOK, NEW p \in Proc, Knows(p), StoreStep(p)
  PROVE  SocketLabelOK(pc'[p], loc'[p]) /\ Others(p)
  <1>0. /\ StoreTypeOK /\ loc[p] \in Locals /\ SocketLabelOK(pc[p], loc[p]) /\ loc[p].calls \subseteq Call
        /\ pc \in [Proc -> Label] /\ loc \in [Proc -> Locals]
    BY AtFacts DEF StoreTypeOK
  <1> USE <1>0, LabelSets
      DEF At, Goto, Others, SocketLabelOK, Accepting, EndingRedis, Leaving, StoreLabel, SocketLabel
  <1>1. CASE CreateActiveSet(p) BY <1>1 DEF CreateActiveSet, Return, Locals
  <1>2. CASE CreateActiveUser(p) BY <1>2 DEF CreateActiveUser, Return, Locals
  <1>3. CASE CreateActiveList(p) BY <1>3 DEF CreateActiveList, Return, Locals
  <1>4. CASE UpdateStatusGet(p) BY <1>4 DEF UpdateStatusGet, Return, Locals
  <1>5. CASE UpdateStatusSet(p) BY <1>5 DEF UpdateStatusSet, Return, Locals
  <1>6. CASE RemoveGet(p) BY <1>6 DEF RemoveGet, Return, Locals
  <1>7. CASE RemoveSet(p) BY <1>7 DEF RemoveSet, Return, Locals
  <1>8. CASE RemoveUser(p) BY <1>8 DEF RemoveUser, Return, Locals
  <1>9. CASE RemoveList(p) BY <1>9 DEF RemoveList, Return, Locals
  <1>13. \A k \in {"ec_get", "ec_del"}, l \in Locals : SocketLabelOK(k, l) => SocketLabelOK(l.ret, l)
    <2>1. ASSUME NEW k \in {"ec_get", "ec_del"}, NEW l \in Locals, SocketLabelOK(k, l), l.op = "disconnect"
          PROVE  SocketLabelOK("dc_next", l) /\ l.ret = "dc_next"
      <3>1. l.user \in User /\ l.ret = "dc_next" /\ l.call # NoCall BY <2>1, CallStoreAssumption
      <3> QED BY <2>1, <3>1
    <2>2. \A k \in {"ec_get", "ec_del"}, l \in Locals :
            SocketLabelOK(k, l) /\ l.op # "disconnect" => SocketLabelOK("sx_sig", l) /\ l.ret = "sx_sig"
      OBVIOUS
    <2> HIDE DEF SocketLabelOK
    <2> QED BY <2>1, <2>2
  <1>10. CASE EndGet(p)
    <2>1. CASE Return(p) /\ loc' = loc
      <3> HIDE DEF SocketLabelOK
      <3> QED BY <1>10, <1>13, <2>1 DEF EndGet, Return
    <2>2. CASE ~(Return(p) /\ loc' = loc) BY <1>10, <2>2 DEF EndGet, Locals
    <2> QED BY <2>1, <2>2
  <1>11. CASE EndUsers(p) BY <1>11 DEF EndUsers, Return, Locals
  <1>12. CASE EndDel(p)
    <2> HIDE DEF SocketLabelOK
    <2> QED BY <1>12, <1>13 DEF EndDel, Return
  <1> QED BY <1>1, <1>2, <1>3, <1>4, <1>5, <1>6, <1>7, <1>8, <1>9, <1>10, <1>11, <1>12 DEF StoreStep

LEMMA StepLabel ==
  ASSUME SocketTypeOK, NEW p \in Proc, Knows(p), SocketSteps(p)
  PROVE  SocketLabelOK(pc'[p], loc'[p]) /\ Others(p)
  BY ClientLabel, InitiateLabel, AcceptLabel, EndLabel, LeaveLabel, StoreLabels
     DEF SocketSteps, SocketHandler, SocketSharedStep

-----------------------------------------------------------------------------
(* What a step writes.                                                      *)

\* A step that leaves every document, list, status, timer and active call alone.
Quiet == UNCHANGED <<record, active, userStatus, userCalls, callTimer, abandoned>>

LEMMA QuietSteps ==
  ASSUME NEW p \in Proc,
         \/ SocketClient(p) \/ ReadCaller(p) \/ ReadTarget(p) \/ StoreSignaling(p)
         \/ FindAccepted(p) \/ ReadSignaling(p) \/ WriteSignaling(p)
         \/ FindEnded(p) \/ ReadMembers(p) \/ DeleteSignaling(p) \/ CheckUnanswered(p)
         \/ ReadActiveCalls(p) \/ EndIfAlone(p)
         \/ (UpdateStatusGet(p) \/ RemoveGet(p) \/ EndGet(p)) /\ SocketSharedStep(p)
  PROVE  Quiet
  <1> USE DEF Quiet, keys, signalingVars
  <1>1. CASE SocketClient(p)
    BY <1>1 DEF SocketClient, SocketInitiate, SocketAccept, SocketDecline, SocketHangup, Disconnect
  <1>2. CASE ReadCaller(p) \/ ReadTarget(p) \/ StoreSignaling(p)
    BY <1>2 DEF ReadCaller, ReadTarget, StoreSignaling
  <1>3. CASE FindAccepted(p) \/ ReadSignaling(p) \/ WriteSignaling(p)
    BY <1>3 DEF FindAccepted, ReadSignaling, WriteSignaling
  <1>4. CASE FindEnded(p) \/ ReadMembers(p) \/ DeleteSignaling(p) \/ CheckUnanswered(p)
    BY <1>4 DEF FindEnded, ReadMembers, DeleteSignaling, CheckUnanswered
  <1>5. CASE ReadActiveCalls(p) \/ EndIfAlone(p) BY <1>5 DEF ReadActiveCalls, EndIfAlone
  <1>6. CASE (UpdateStatusGet(p) \/ RemoveGet(p) \/ EndGet(p)) /\ SocketSharedStep(p)
    BY <1>6 DEF UpdateStatusGet, RemoveGet, EndGet, SocketSharedStep
  <1> QED BY <1>1, <1>2, <1>3, <1>4, <1>5, <1>6

\* The others, by what they write.
Marking(p) ==
  \/ MarkCaller(p) \/ MarkTarget(p) \/ MarkInitiatorInCall(p) \/ MarkAccepterInCall(p) \/ IdleMembers(p)
Recording(p) == CreateRecord(p) \/ WriteAccepted(p) \/ WriteEnded(p)
Timing(p) ==
  \/ ArmRingTimer(p) \/ ClearOnAccept(p) \/ ClearOnEnd(p) \/ LeaveNextCall(p)
  \/ \E c \in Call : RingTimeout(p, c)
Storing(p) ==
  /\ SocketSharedStep(p)
  /\ \/ CreateActiveSet(p) \/ CreateActiveUser(p) \/ CreateActiveList(p) \/ UpdateStatusSet(p)
     \/ RemoveSet(p) \/ RemoveUser(p) \/ RemoveList(p) \/ EndUsers(p) \/ EndDel(p)

LEMMA StepSplit ==
  ASSUME NEW p \in Proc, SocketSteps(p)
  PROVE  \/ Quiet \/ Marking(p) \/ Recording(p) \/ Timing(p) \/ Storing(p) \/ StorageError(p)
  BY QuietSteps DEF SocketSteps, SocketHandler, SocketSharedStep, StoreStep, Marking, Recording, Timing, Storing

LEMMA Writes ==
  ASSUME NEW p \in Proc
  PROVE  /\ Marking(p) => UNCHANGED <<record, active, userCalls, callTimer, abandoned>>
         /\ Recording(p) => UNCHANGED <<active, userStatus, userCalls, callTimer, abandoned>>
         /\ Timing(p) => UNCHANGED <<record, active, userStatus, userCalls>>
         /\ Storing(p) => UNCHANGED <<record, callTimer, abandoned>>
         /\ StorageError(p) => UNCHANGED <<record, active, userStatus, userCalls, callTimer>>
  <1> USE DEF keys, signalingVars
  <1>1. Marking(p) => UNCHANGED <<record, active, userCalls, callTimer, abandoned>>
    BY DEF Marking, MarkCaller, MarkTarget, MarkInitiatorInCall, MarkAccepterInCall, IdleMembers
  <1>2. Recording(p) => UNCHANGED <<active, userStatus, userCalls, callTimer, abandoned>>
    BY DEF Recording, CreateRecord, WriteAccepted, WriteEnded
  <1>3. Timing(p) => UNCHANGED <<record, active, userStatus, userCalls>>
    BY DEF Timing, ArmRingTimer, ClearOnAccept, ClearOnEnd, LeaveNextCall, RingTimeout
  <1>4. Storing(p) => UNCHANGED <<record, callTimer, abandoned>>
    BY DEF Storing, SocketSharedStep, CreateActiveSet, CreateActiveUser, CreateActiveList, UpdateStatusSet,
           RemoveSet, RemoveUser, RemoveList, EndUsers, EndDel
  <1>5. StorageError(p) => UNCHANGED <<record, active, userStatus, userCalls, callTimer>>
    BY DEF StorageError
  <1> QED BY <1>1, <1>2, <1>3, <1>4, <1>5

LEMMA CallFacts ==
  ASSUME SocketTypeOK, NEW p \in Proc, Knows(p)
  PROVE  /\ pc[p] \notin {"idle", "si_self", "si_peer", "dc_list", "dc_next"} => loc[p].call \in Call
         /\ pc[p] \in Unannounced \cup {"si_arm"} =>
              loc[p].op = "s_initiate" /\ loc[p].user \in User /\ loc[p].peer \in User
         /\ pc[p] \in {"rp_set", "rp_user", "rp_list"} => loc[p].user \in User
  <1>1. SocketLabelOK(pc[p], loc[p]) BY AtFacts
  <1>2. loc[p].op = "s_initiate" => loc[p].user \in User /\ loc[p].peer \in User BY <1>1 DEF SocketLabelOK
  <1>3. pc[p] \in Unannounced \cup {"si_arm"} => loc[p].op = "s_initiate"
    BY <1>1, LabelSets DEF SocketLabelOK
  <1>4. pc[p] \in {"rp_set", "rp_user", "rp_list"} => loc[p].user \in User
    BY <1>1 DEF SocketLabelOK, Leaving
  <1>5. pc[p] \notin {"idle", "si_self", "si_peer", "dc_list", "dc_next"} => loc[p].call \in Call
    BY <1>1 DEF SocketLabelOK
  <1> QED BY <1>2, <1>3, <1>4, <1>5

\* A document, once saved, keeps its participants, and once answered never rings again.
LEMMA RecordStep ==
  ASSUME SocketTypeOK, NEW p \in Proc, Knows(p), SocketSteps(p), NEW c \in Call
  PROVE  /\ Saved(c) => /\ Saved(c)' /\ record'[c].caller = record[c].caller
                        /\ record'[c].callee = record[c].callee
                        /\ Answered(c) => Answered(c)'
                        /\ record[c].status # "none" => record'[c].status # "none"
                        /\ record'[c].status = "initiating" => record'[c] = record[c]
         /\ record'[c].status = "ringing" => record[c].status = "ringing"
         /\ Saved(c)' /\ ~Saved(c) =>
              /\ loc[p].call = c /\ pc[p] = "si_save" /\ pc'[p] = "si_sig" /\ loc' = loc
              /\ record'[c] = NewRecord(loc[p].user, loc[p].peer)
  <1>1. CASE record' = record BY <1>1 DEF Saved, Answered
  <1>2. CASE record' # record
    <2>0. Recording(p) BY <1>2, StepSplit, Writes DEF Quiet
    <2>1. StoreTypeOK /\ SocketLabelOK(pc[p], loc[p]) /\ Informed(p) BY AtFacts
    <2> DEFINE d == loc[p].call
    <2>2. d \in Call /\ record[d] \in Record BY <2>0, <2>1, CallFacts, ParticipantFacts
          DEF Recording, CreateRecord, WriteAccepted, WriteEnded, At
    <2>3. CASE CreateRecord(p)
      <3>1. ~Saved(d) /\ loc[p].user \in User /\ loc[p].peer \in User
        BY <2>1, <2>2, <2>3, CallFacts DEF CreateRecord, At, Informed, Unannounced
      <3>2. pc[p] = "si_save" /\ pc'[p] = "si_sig" /\ loc' = loc
        BY <2>1, <2>3 DEF CreateRecord, At, Goto, StoreTypeOK
      <3>3. record' = [record EXCEPT ![d] = NewRecord(loc[p].user, loc[p].peer)]
        BY <2>3 DEF CreateRecord, WriteRecord
      <3>6. NewRecord(loc[p].user, loc[p].peer).status = "initiating" BY DEF NewRecord
      <3>4. CASE c = d BY <2>1, <2>2, <3>1, <3>2, <3>3, <3>4, <3>6 DEF StoreTypeOK, Saved
      <3>5. CASE c # d BY <2>1, <2>2, <3>3, <3>5 DEF StoreTypeOK, Saved, Answered
      <3> QED BY <3>4, <3>5
    <2>4. ASSUME NEW r, record' = [record EXCEPT ![d] = r], Saved(d),
                 r.caller = record[d].caller, r.callee = record[d].callee,
                 r.status \in {"active", "ended"}
          PROVE  \/ /\ Saved(c) /\ Saved(c)' /\ record'[c].caller = record[c].caller
                    /\ record'[c].status = "ringing" => record[c].status = "ringing"
                    /\ record'[c].callee = record[c].callee
                    /\ Answered(c) => Answered(c)'
                    /\ record[c].status # "none" => record'[c].status # "none"
                    /\ record'[c].status = "initiating" => record'[c] = record[c]
                 \/ record'[c] = record[c] /\ ~Saved(c)
      <3>1. NoRecord.status = "none" BY DEF NoRecord
      <3>2. CASE c = d BY <2>1, <2>2, <2>4, <3>1, <3>2 DEF StoreTypeOK, Saved, Answered
      <3>3. CASE c # d BY <2>1, <2>2, <2>4, <3>3 DEF StoreTypeOK, Saved, Answered
      <3> QED BY <3>2, <3>3
    <2>5. CASE WriteAccepted(p)
      <3> DEFINE w == WithPart(record[d], loc[p].user, "joined")
                 r == [w EXCEPT !.status = "active"]
      <3>1. Saved(d) /\ loc[p].user \in User
        BY <2>1, <2>2, <2>5, ParticipantFacts DEF WriteAccepted, At, Informed
      <3>2. w \in Record /\ w.caller = record[d].caller /\ w.callee = record[d].callee
        BY <2>2, <3>1, RecordTypes DEF PartStatus
      <3>3. record' = [record EXCEPT ![d] = r] BY <2>5 DEF WriteAccepted, WriteRecord
      <3> HIDE DEF w
      <3>4. r.caller = record[d].caller /\ r.callee = record[d].callee /\ r.status = "active"
        BY <3>2 DEF Record
      <3> HIDE DEF r
      <3> QED BY <2>4, <3>1, <3>3, <3>4 DEF Saved
    <2>6. CASE WriteEnded(p)
      <3> DEFINE how == IF loc[p].op = "s_decline" THEN "declined" ELSE "left"
                 w == WithPart(record[d], loc[p].user, how)
                 r == [w EXCEPT !.status = "ended", !.reason = loc[p].why]
      <3>1. Saved(d) /\ loc[p].user \in User
        BY <2>1, <2>2, <2>6, ParticipantFacts DEF WriteEnded, At, Informed
      <3>2. w \in Record /\ w.caller = record[d].caller /\ w.callee = record[d].callee
        BY <2>2, <3>1, RecordTypes DEF PartStatus
      <3>3. record' = [record EXCEPT ![d] = r] BY <2>6 DEF WriteEnded, WriteRecord
      <3> HIDE DEF w
      <3>4. r.caller = record[d].caller /\ r.callee = record[d].callee /\ r.status = "ended"
        BY <3>2 DEF Record
      <3> HIDE DEF r
      <3> QED BY <2>4, <3>1, <3>3, <3>4 DEF Saved
    <2> QED BY <2>0, <2>3, <2>5, <2>6 DEF Recording
  <1> QED BY <1>1, <1>2

-----------------------------------------------------------------------------
(* What an invocation knows.                                                *)

LEMMA AbandonedGrows ==
  ASSUME NEW p \in Proc, SocketSteps(p)
  PROVE  abandoned \subseteq abandoned'
  <1>1. Timing(p) => abandoned \subseteq abandoned'
    BY DEF Timing, ArmRingTimer, ClearOnAccept, ClearOnEnd, LeaveNextCall, RingTimeout
  <1>2. StorageError(p) => abandoned \subseteq abandoned' BY DEF StorageError
  <1> QED BY <1>1, <1>2, StepSplit, Writes DEF Quiet

\* What q knows outlives a step that leaves q and the participants and answers of calls alone.
LEMMA InformedStays ==
  ASSUME NEW q \in Proc, Knows(q), pc'[q] = pc[q], loc'[q] = loc[q], loc[q].calls \subseteq Call,
         abandoned \subseteq abandoned',
         \A c \in Call : Saved(c) => /\ Saved(c)' /\ record'[c].caller = record[c].caller
                                     /\ record'[c].callee = record[c].callee
                                     /\ Answered(c) => Answered(c)',
         \A c \in Call : loc[q].call = c => (Saved(c)' <=> Saved(c))
  PROVE  Informed(q)'
  <1>1. Informed(q) /\ SocketLabelOK(pc[q], loc[q]) BY DEF Knows
  <1>2. \A c \in Call : Saved(c) => Saved(c)' /\ Participants(c)' = Participants(c)
                                    /\ record'[c].caller = record[c].caller
                                    /\ record'[c].callee = record[c].callee
                                    /\ (Answered(c) => Answered(c)')
    BY DEF Participants
  <1>3. loc[q].call \in Call \/ pc[q] \in {"idle", "si_self", "si_peer", "dc_list", "dc_next"}
    BY <1>1 DEF SocketLabelOK
  <1>4. CASE loc[q].call \in Call
    <2> PICK c \in Call : c = loc[q].call BY <1>4
    <2>1. (Saved(c)' <=> Saved(c)) /\ (Saved(c) <=> pc[q] # "si_save")
      BY <1>1 DEF Informed, Saved
    <2>2. Saved(c) => Participants(c)' = Participants(c) /\ record'[c].caller = record[c].caller
                      /\ record'[c].callee = record[c].callee /\ (Answered(c) => Answered(c)')
      BY <1>2
    <2> HIDE DEF Saved, Participants, Answered
    <2> QED
      BY <1>1, <1>2, <2>1, <2>2, LabelSets DEF Informed, Accepting, Ending, EndingRedis, Leaving
  <1>5. CASE loc[q].call \notin Call
    BY <1>1, <1>2, <1>3, <1>5, LabelSets DEF Informed, Accepting, Ending, EndingRedis, Leaving
  <1> QED BY <1>4, <1>5

LEMMA InformedOther ==
  ASSUME SocketTypeOK, NEW p \in Proc, Knows(p), SocketSteps(p), NEW q \in Proc \ {p}, Knows(q),
         pc[p] = "si_save" => loc[q].call # loc[p].call
  PROVE  Informed(q)'
  <1>1. pc'[q] = pc[q] /\ loc'[q] = loc[q] BY StepLabel DEF Others
  <1>2. loc[q].calls \subseteq Call BY AtFacts
  <1>3. \A c \in Call : Saved(c) => /\ Saved(c)' /\ record'[c].caller = record[c].caller
                                    /\ record'[c].callee = record[c].callee
                                    /\ (Answered(c) => Answered(c)')
    BY RecordStep
  <1>4. ASSUME NEW c \in Call, loc[q].call = c PROVE Saved(c)' <=> Saved(c)
    <2> SUFFICES ASSUME Saved(c)', ~Saved(c) PROVE FALSE
      BY <1>3
    <2>1. loc[p].call = c /\ pc[p] = "si_save" BY RecordStep
    <2> QED BY <1>4, <2>1
  <1> QED BY <1>1, <1>2, <1>3, <1>4, AbandonedGrows, InformedStays

\* An invocation that is over knows nothing, and needs to.
LEMMA InformedOver ==
  ASSUME NEW p \in Proc, pc'[p] = "idle", loc'[p] = NoLocals
  PROVE  Informed(p)'
  BY CallStoreAssumption, LabelSets DEF Informed, NoLocals, Accepting, Ending, EndingRedis, Leaving

LEMMA InformedInitiate ==
  ASSUME SocketTypeOK, Documented, NEW p \in Proc, Knows(p),
         \/ ReadCaller(p) \/ ReadTarget(p) \/ CreateRecord(p) \/ StoreSignaling(p)
         \/ MarkCaller(p) \/ MarkTarget(p) \/ ArmRingTimer(p)
  PROVE  Informed(p)'
  <1>0. /\ StoreTypeOK /\ loc[p] \in Locals /\ SocketLabelOK(pc[p], loc[p]) /\ Informed(p)
        /\ loc[p].calls \subseteq Call
        /\ pc \in [Proc -> Label] /\ loc \in [Proc -> Locals]
    BY AtFacts DEF StoreTypeOK
  <1> USE <1>0, LabelSets
      DEF At, Goto, Informed, Saved, Answered, Participants, Accepting, Ending, EndingRedis, Leaving,
          keys, signalingVars
  <1>1. CASE ReadCaller(p) BY <1>1 DEF ReadCaller, Locals, SocketLabelOK
  <1>2. CASE ReadTarget(p) 
    <2>1. CASE Finish(p) BY <1>0, <2>1, FinishAt, InformedOver
    <2>2. CASE ~Finish(p) BY <1>2, <2>2 DEF ReadTarget, Locals, SocketLabelOK
    <2> QED BY <2>1, <2>2
  <1>3. CASE CreateRecord(p) 
    <2>1. PICK c \in Call : c = loc[p].call BY <1>3 DEF CreateRecord, SocketLabelOK
    <2>2. /\ pc[p] = "si_save" /\ pc'[p] = "si_sig" /\ loc' = loc
          /\ loc[p].op = "s_initiate" /\ loc[p].calls = {}
      BY <1>3 DEF CreateRecord, SocketLabelOK
    <2>3. record'[c] = NewRecord(loc[p].user, loc[p].peer)
      BY <1>3, <2>1 DEF CreateRecord, WriteRecord, StoreTypeOK
    <2>4. loc[p].user \in User /\ loc[p].peer \in User BY <2>2 DEF SocketLabelOK
    <2> QED BY <2>1, <2>2, <2>3, <2>4, NewRecordFacts
  <1>4. CASE StoreSignaling(p) BY <1>4 DEF StoreSignaling
  <1>5. CASE MarkCaller(p) BY <1>5 DEF MarkCaller
  <1>6. CASE MarkTarget(p) BY <1>6 DEF MarkTarget, Enter, Locals
  <1>7. CASE ArmRingTimer(p) BY <1>0, <1>7, FinishAt, InformedOver DEF ArmRingTimer
  <1> QED BY <1>1, <1>2, <1>3, <1>4, <1>5, <1>6, <1>7

LEMMA InformedAccept ==
  ASSUME SocketTypeOK, Documented, NEW p \in Proc, Knows(p),
         \/ FindAccepted(p) \/ WriteAccepted(p) \/ ReadSignaling(p) \/ WriteSignaling(p)
         \/ MarkInitiatorInCall(p) \/ MarkAccepterInCall(p) \/ ClearOnAccept(p)
  PROVE  Informed(p)'
  <1>0. /\ StoreTypeOK /\ loc[p] \in Locals /\ SocketLabelOK(pc[p], loc[p]) /\ Informed(p)
        /\ loc[p].calls \subseteq Call
        /\ pc \in [Proc -> Label] /\ loc \in [Proc -> Locals]
    BY AtFacts DEF StoreTypeOK
  <1> USE <1>0, LabelSets
      DEF At, Goto, Informed, Saved, Answered, Participants, Accepting, Ending, EndingRedis, Leaving,
          keys, signalingVars
  <1>1. CASE FindAccepted(p) 
    <2>1. CASE Finish(p) BY <1>0, <2>1, FinishAt, InformedOver
    <2>2. CASE ~Finish(p)
      <3>1. PICK c \in Call : c = loc[p].call BY <1>1 DEF FindAccepted, SocketLabelOK
      <3>2. /\ pc[p] = "sa_find" /\ pc'[p] = "sa_mongo" /\ UNCHANGED <<record, abandoned>>
            /\ loc[p].user \in Participants(c) /\ loc[p].op = "s_accept" /\ loc[p].calls = {}
            /\ loc'[p] = [loc[p] EXCEPT !.peer = record[c].caller]
        BY <1>1, <2>2, <3>1 DEF FindAccepted, SocketLabelOK
      <3>3. /\ loc'[p].call = c /\ loc'[p].user = loc[p].user /\ loc'[p].peer = record[c].caller
            /\ loc'[p].op = "s_accept" /\ loc'[p].calls = {}
        BY <3>1, <3>2 DEF Locals
      <3>4. record[c].caller \in Participants(c) /\ Saved(c)
        BY <3>1, <3>2, CallStoreAssumption DEF Documented
      <3> QED BY <3>2, <3>3, <3>4
    <2> QED BY <2>1, <2>2
  <1>2. CASE WriteAccepted(p) 
    <2>1. PICK c \in Call : c = loc[p].call BY <1>2 DEF WriteAccepted, SocketLabelOK
    <2>2. pc'[p] = "sa_sig" /\ loc' = loc /\ loc[p].op \notin {"s_initiate", "disconnect"} /\ loc[p].calls = {}
      BY <1>2 DEF WriteAccepted, SocketLabelOK
    <2>3. Saved(c) /\ (pc[p] = "sa_mongo" => {loc[p].user, loc[p].peer} \subseteq Participants(c))
      BY <1>2, <2>1 DEF WriteAccepted
    <2>4. record'[c].status = "active"
      <3>1. WithPart(record[c], loc[p].user, "joined") \in Record
        BY <2>1, <2>3, <1>2, ParticipantFacts, RecordTypes DEF WriteAccepted, PartStatus
      <3>2. record'[c] = [WithPart(record[c], loc[p].user, "joined") EXCEPT !.status = "active"]
        BY <1>2, <2>1 DEF WriteAccepted, WriteRecord, StoreTypeOK
      <3> QED BY <3>1, <3>2 DEF Record
    <2>5. Saved(c)' /\ record'[c].caller = record[c].caller /\ record'[c].callee = record[c].callee
      BY <1>2, <2>1, <2>3, RecordStep DEF SocketSteps, SocketHandler
    <2>6. pc[p] = "sa_mongo" /\ {loc[p].user, loc[p].peer} \subseteq Participants(c)'
      BY <1>2, <2>3, <2>5 DEF WriteAccepted
    <2>7. Saved(c)' /\ Answered(c)' /\ loc'[p].call = c BY <2>1, <2>2, <2>4, <2>5
    <2> HIDE DEF Saved, Answered, Participants
    <2> QED BY <2>2, <2>6, <2>7
  <1>3. CASE ReadSignaling(p) 
    <2>1. CASE Finish(p) BY <1>0, <2>1, FinishAt, InformedOver
    <2>2. CASE ~Finish(p) BY <1>3, <2>2 DEF ReadSignaling
    <2> QED BY <2>1, <2>2
  <1>4. CASE WriteSignaling(p) BY <1>4 DEF WriteSignaling
  <1>5. CASE MarkInitiatorInCall(p) BY <1>5 DEF MarkInitiatorInCall
  <1>6. CASE MarkAccepterInCall(p) BY <1>6 DEF MarkAccepterInCall, Locals
  <1>7. CASE ClearOnAccept(p) BY <1>0, <1>7, FinishAt, InformedOver DEF ClearOnAccept
  <1> QED BY <1>1, <1>2, <1>3, <1>4, <1>5, <1>6, <1>7

LEMMA InformedEnd ==
  ASSUME SocketTypeOK, Documented, NEW p \in Proc, Knows(p),
         \/ FindEnded(p) \/ WriteEnded(p) \/ ReadMembers(p) \/ IdleMembers(p)
         \/ DeleteSignaling(p) \/ ClearOnEnd(p) \/ CheckUnanswered(p)
  PROVE  Informed(p)'
  <1>0. /\ StoreTypeOK /\ loc[p] \in Locals /\ SocketLabelOK(pc[p], loc[p]) /\ Informed(p)
        /\ loc[p].calls \subseteq Call
        /\ pc \in [Proc -> Label] /\ loc \in [Proc -> Locals]
    BY AtFacts DEF StoreTypeOK
  <1> USE <1>0, LabelSets
      DEF At, Goto, Informed, Saved, Answered, Participants, Accepting, Ending, EndingRedis, Leaving,
          keys, signalingVars
  <1>1. CASE FindEnded(p) 
    <2>1. CASE Finish(p) BY <1>0, <2>1, FinishAt, InformedOver
    <2>2. CASE ~Finish(p) BY <1>1, <2>2 DEF FindEnded, SocketLabelOK
    <2> QED BY <2>1, <2>2
  <1>2. CASE WriteEnded(p) 
    <2>1. PICK c \in Call : c = loc[p].call BY <1>2 DEF WriteEnded, SocketLabelOK
    <2>2. pc'[p] = "sx_get" /\ loc' = loc /\ loc[p].op \notin {"s_initiate", "disconnect"} /\ loc[p].calls = {}
      BY <1>2 DEF WriteEnded, SocketLabelOK
    <2>3. Saved(c) /\ (pc[p] = "sa_mongo" => {loc[p].user, loc[p].peer} \subseteq Participants(c))
      BY <1>2, <2>1 DEF WriteEnded
    <2>4. record'[c].status = "ended"
      <3> DEFINE w == WithPart(record[c], loc[p].user, IF loc[p].op = "s_decline" THEN "declined" ELSE "left")
      <3>1. w \in Record
        BY <2>1, <1>2, ParticipantFacts, RecordTypes DEF WriteEnded, PartStatus
      <3>2. record'[c] = [w EXCEPT !.status = "ended", !.reason = loc[p].why]
        BY <1>2, <2>1 DEF WriteEnded, WriteRecord, StoreTypeOK
      <3> HIDE DEF w
      <3> QED BY <3>1, <3>2 DEF Record
    <2>5. Saved(c)' /\ record'[c].caller = record[c].caller /\ record'[c].callee = record[c].callee
      BY <1>2, <2>1, <2>3, RecordStep DEF SocketSteps, SocketHandler
    <2> QED BY <2>1, <2>2, <2>3, <2>4, <2>5
  <1>3. CASE ReadMembers(p) BY <1>3 DEF ReadMembers, Locals, SocketLabelOK
  <1>4. CASE IdleMembers(p) BY <1>4 DEF IdleMembers, Enter, Locals, SocketLabelOK
  <1>5. CASE DeleteSignaling(p) BY <1>5 DEF DeleteSignaling, SocketLabelOK
  <1>6. CASE ClearOnEnd(p) BY <1>0, <1>6, FinishAt, InformedOver DEF ClearOnEnd
  <1>7. CASE CheckUnanswered(p) 
    <2>1. CASE Finish(p) BY <1>0, <2>1, FinishAt, InformedOver
    <2>2. CASE ~Finish(p) BY <1>7, <2>2 DEF CheckUnanswered
    <2> QED BY <2>1, <2>2
  <1> QED BY <1>1, <1>2, <1>3, <1>4, <1>5, <1>6, <1>7

LEMMA InformedLeave ==
  ASSUME SocketTypeOK, Documented, NEW p \in Proc, Knows(p),
         ReadActiveCalls(p) \/ LeaveNextCall(p) \/ EndIfAlone(p)
  PROVE  Informed(p)'
  <1>0. /\ StoreTypeOK /\ loc[p] \in Locals /\ SocketLabelOK(pc[p], loc[p]) /\ Informed(p)
        /\ loc[p].calls \subseteq Call
        /\ pc \in [Proc -> Label] /\ loc \in [Proc -> Locals]
    BY AtFacts DEF StoreTypeOK
  <1> USE <1>0, LabelSets
      DEF At, Goto, Informed, Saved, Answered, Participants, Accepting, Ending, EndingRedis, Leaving,
          keys, signalingVars
  <1>1. CASE ReadActiveCalls(p) 
    <2>1. loc[p].user \in User BY <1>1 DEF ReadActiveCalls, SocketLabelOK
    <2>2. \A c \in userCalls[loc[p].user] : Saved(c) BY <2>1 DEF Documented
    <2>3. /\ pc[p] = "dc_list" /\ pc'[p] = "dc_next" /\ UNCHANGED <<record, abandoned>>
          /\ loc'[p] = [loc[p] EXCEPT !.calls = userCalls[loc[p].user]]
      BY <1>1 DEF ReadActiveCalls
    <2>4. loc'[p].calls = userCalls[loc[p].user] /\ loc'[p].call = loc[p].call /\ loc'[p].op = loc[p].op
      BY <2>3 DEF Locals
    <2>5. loc[p].call \in Call => Saved(loc[p].call) BY <2>3
    <2> QED BY <2>2, <2>3, <2>4, <2>5
  <1>2. CASE LeaveNextCall(p) 
    <2>1. CASE Finish(p) BY <1>0, <2>1, FinishAt, InformedOver
    <2>2. CASE ~Finish(p)
      <3>1. PICK c \in loc[p].calls :
              /\ pc' = [pc EXCEPT ![p] = "rp_get"] /\ abandoned' = abandoned \cup {c} /\ record' = record
              /\ loc' = [loc EXCEPT ![p].call = c, ![p].calls = @ \ {c}, ![p].ret = "dc_check"]
        BY <1>2, <2>2 DEF LeaveNextCall
      <3>2. pc'[p] = "rp_get" BY <3>1
      <3>3. loc'[p].call = c /\ loc'[p].calls \subseteq loc[p].calls /\ loc'[p].op = loc[p].op
        BY <3>1 DEF Locals
      <3>4. loc[p].op = "disconnect" BY <1>2 DEF LeaveNextCall, SocketLabelOK
      <3> QED BY <3>1, <3>2, <3>3, <3>4
    <2> QED BY <2>1, <2>2
  <1>3. CASE EndIfAlone(p) BY <1>3 DEF EndIfAlone, Enter, Locals, SocketLabelOK
  <1> QED BY <1>1, <1>2, <1>3

LEMMA InformedClient ==
  ASSUME SocketTypeOK, Documented, NEW p \in Proc, Knows(p),
         SocketClient(p) \/ (\E c \in Call : RingTimeout(p, c)) \/ StorageError(p)
  PROVE  Informed(p)'
  <1>0. /\ StoreTypeOK /\ loc[p] \in Locals /\ SocketLabelOK(pc[p], loc[p]) /\ Informed(p)
        /\ loc[p].calls \subseteq Call
        /\ pc \in [Proc -> Label] /\ loc \in [Proc -> Locals]
    BY AtFacts DEF StoreTypeOK
  <1> USE <1>0, LabelSets
      DEF At, Goto, Informed, Saved, Answered, Participants, Accepting, Ending, EndingRedis, Leaving,
          keys, signalingVars
  <1>1. ASSUME NEW u \in User, NEW v \in User, SocketInitiate(p, u, v) PROVE Informed(p)'
    BY <1>1, CallStoreAssumption DEF SocketInitiate, Begin, NoLocals
  <1>2. ASSUME NEW u \in User, NEW c \in Call, SocketAccept(p, c, u) PROVE Informed(p)'
    BY <1>2 DEF SocketAccept, Begin, NoLocals, Announced
  <1>3. ASSUME NEW u \in User, NEW c \in Call, SocketDecline(p, c, u) PROVE Informed(p)'
    BY <1>3 DEF SocketDecline, Begin, NoLocals, Announced
  <1>4. ASSUME NEW u \in User, NEW c \in Call, SocketHangup(p, c, u) PROVE Informed(p)'
    BY <1>4 DEF SocketHangup, Begin, NoLocals, Announced
  <1>5. ASSUME NEW u \in User, Disconnect(p, u) PROVE Informed(p)'
    BY <1>5, CallStoreAssumption DEF Disconnect, Begin, NoLocals
  <1>6. ASSUME NEW c \in Call, RingTimeout(p, c) PROVE Informed(p)'
    BY <1>6 DEF RingTimeout, Begin, NoLocals, Documented
  <1>7. CASE StorageError(p) BY <1>0, <1>7, FinishAt, InformedOver DEF StorageError
  <1> QED BY <1>1, <1>2, <1>3, <1>4, <1>5, <1>6, <1>7 DEF SocketClient

LEMMA InformedStore ==
  ASSUME SocketTypeOK, Documented, NEW p \in Proc, Knows(p),
         SocketSharedStep(p)
  PROVE  Informed(p)'
  <1>0. /\ StoreTypeOK /\ loc[p] \in Locals /\ SocketLabelOK(pc[p], loc[p]) /\ Informed(p)
        /\ loc[p].calls \subseteq Call
        /\ pc \in [Proc -> Label] /\ loc \in [Proc -> Locals]
    BY AtFacts DEF StoreTypeOK
  <1> USE <1>0, LabelSets
      DEF At, Goto, Informed, Saved, Answered, Participants, Accepting, Ending, EndingRedis, Leaving,
          keys, signalingVars
  <1> USE DEF SocketSharedStep
  <1>1. CASE CreateActiveSet(p) BY <1>1 DEF CreateActiveSet, Return, Locals, SocketLabelOK
  <1>2. CASE CreateActiveUser(p) BY <1>2 DEF CreateActiveUser, Return, Locals, SocketLabelOK
  <1>3. CASE CreateActiveList(p) BY <1>3 DEF CreateActiveList, Return, Locals, SocketLabelOK
  <1>4. CASE UpdateStatusGet(p) BY <1>4 DEF UpdateStatusGet, Return, Locals, SocketLabelOK
  <1>5. CASE UpdateStatusSet(p) BY <1>5 DEF UpdateStatusSet, Return, Locals, SocketLabelOK
  <1>6. CASE RemoveGet(p) BY <1>6 DEF RemoveGet, Return, Locals, SocketLabelOK
  <1>7. CASE RemoveSet(p) BY <1>7 DEF RemoveSet, Return, Locals, SocketLabelOK
  <1>8. CASE RemoveUser(p) BY <1>8 DEF RemoveUser, Return, Locals, SocketLabelOK
  <1>9. CASE RemoveList(p) BY <1>9 DEF RemoveList, Return, Locals, SocketLabelOK
  <1>10. CASE EndGet(p) BY <1>10 DEF EndGet, Return, Locals, SocketLabelOK
  <1>11. CASE EndUsers(p) BY <1>11 DEF EndUsers, Return, Locals, SocketLabelOK
  <1>12. CASE EndDel(p) BY <1>12 DEF EndDel, Return, Locals, SocketLabelOK
  <1> QED BY <1>1, <1>2, <1>3, <1>4, <1>5, <1>6, <1>7, <1>8, <1>9, <1>10, <1>11, <1>12 DEF SocketSharedStep, StoreStep

LEMMA KnowsStep ==
  ASSUME SocketTypeOK, Documented, NEW p \in Proc, Knows(p), SocketSteps(p)
  PROVE  Knows(p)'
  <1>1. SocketLabelOK(pc'[p], loc'[p]) BY StepLabel
  <1>2. Informed(p)'
    BY InformedClient, InformedInitiate, InformedAccept, InformedEnd, InformedLeave, InformedStore
       DEF SocketSteps, SocketHandler
  <1> QED BY <1>1, <1>2 DEF Knows

LEMMA KnowingStep ==
  ASSUME SocketTypeOK, Knowing, Documented, Private, NEW p \in Proc, SocketSteps(p)
  PROVE  Knowing'
  <1>1. Knows(p)' BY KnowsAll, KnowsStep
  <1>2. ASSUME NEW q \in Proc \ {p} PROVE Knows(q)'
    <2>1. Knows(p) /\ Knows(q) BY KnowsAll
    <2>2. pc[p] = "si_save" => loc[q].call # loc[p].call
      <3>1. pc[p] = "si_save" => loc[p].op = "s_initiate" /\ loc[p].call \in Call
        BY <2>1, CallFacts, LabelSets
      <3> QED BY <3>1 DEF Private
    <2>3. SocketLabelOK(pc'[q], loc'[q]) BY <2>1, StepLabel DEF Others, Knows
    <2> QED BY <2>1, <2>2, <2>3, InformedOther DEF Knows
  <1> QED BY <1>1, <1>2 DEF Knowing

-----------------------------------------------------------------------------
(* Documents come first, and calls start out as one handler's own.          *)

LEMMA DocumentedStep ==
  ASSUME SocketTypeOK, Documented, NEW p \in Proc, Knows(p), SocketSteps(p)
  PROVE  Documented'
  <1>1. ASSUME NEW c \in Call, Saved(c)'
        PROVE  record'[c].caller \in User /\ record'[c].callee \in User /\ record'[c].status # "none"
    <2>1. CASE Saved(c) BY <2>1, RecordStep DEF Documented
    <2>2. CASE ~Saved(c)
      <3>1. pc[p] = "si_save" /\ record'[c] = NewRecord(loc[p].user, loc[p].peer)
        BY <1>1, <2>2, RecordStep
      <3>2. loc[p].user \in User /\ loc[p].peer \in User BY <3>1, CallFacts, LabelSets
      <3> QED BY <3>1, <3>2, NewRecordFacts
    <2> QED BY <2>1, <2>2
  <1>2. \A c \in Call : Saved(c) => Saved(c)' BY RecordStep
  <1>3. StoreTypeOK /\ SignalingTypeOK /\ Informed(p) BY AtFacts
  <1>4. pc[p] \in {"si_arm", "ca_list"} => loc[p].call \in Call /\ Saved(loc[p].call)
    BY <1>3, CallFacts DEF Informed
  <1>5. \A c \in callTimer' : c \in callTimer \/ (c = loc[p].call /\ pc[p] = "si_arm")
    <2>1. CASE Timing(p)
      BY <2>1 DEF Timing, ArmRingTimer, ClearOnAccept, ClearOnEnd, LeaveNextCall, RingTimeout, At
    <2> QED BY <2>1, StepSplit, Writes DEF Quiet
  <1>6. \A u \in User : \A c \in userCalls'[u] :
          c \in userCalls[u] \/ (c = loc[p].call /\ pc[p] = "ca_list")
    <2>1. CASE Storing(p)
      BY <1>3, <2>1 DEF Storing, CreateActiveSet, CreateActiveUser, CreateActiveList, UpdateStatusSet,
                        RemoveSet, RemoveUser, RemoveList, EndUsers, EndDel, At, StoreTypeOK
    <2> QED BY <2>1, StepSplit, Writes DEF Quiet
  <1>7. callTimer \subseteq Call /\ \A u \in User : userCalls[u] \subseteq Call
    BY <1>3 DEF StoreTypeOK, SignalingTypeOK
  <1>8. \A c \in callTimer' : Saved(c)' BY <1>2, <1>4, <1>5, <1>7 DEF Documented
  <1>9. \A u \in User : \A c \in userCalls'[u] : Saved(c)' BY <1>2, <1>4, <1>6, <1>7 DEF Documented
  <1> QED BY <1>1, <1>8, <1>9 DEF Documented

\* How an invocation comes to a call, and to a list of calls.
Fresh(c) == ~Saved(c) /\ \A q \in Proc : loc[q].call # c

Comes(p) ==
  \/ /\ loc'[p].call = loc[p].call /\ loc'[p].op = loc[p].op /\ pc'[p] # "st_get"
     /\ \/ loc'[p].calls = {} \/ loc'[p].calls = loc[p].calls
        \/ loc[p].user \in User /\ loc'[p].calls = userCalls[loc[p].user]
  \/ loc'[p].call = NoCall /\ loc'[p].calls = {}
  \/ \E c \in Call : /\ loc'[p].call = c
                     /\ \/ Announced(c) /\ pc'[p] \in {"sa_find", "sx_find"} /\ loc'[p].calls = {}
                        \/ c \in callTimer /\ loc'[p].op = "s_timeout" /\ loc'[p].calls = {}
                        \/ Fresh(c) /\ pc'[p] = "si_save" /\ loc'[p].calls = {}
                        \/ /\ c \in loc[p].calls /\ loc'[p].calls \subseteq loc[p].calls
                           /\ pc'[p] = "rp_get"

LEMMA ComesClient ==
  ASSUME SocketTypeOK, NEW p \in Proc, Knows(p), SocketClient(p) \/ (\E c \in Call : RingTimeout(p, c)) \/ StorageError(p)
  PROVE  Comes(p)
  <1>0. /\ StoreTypeOK /\ loc[p] \in Locals /\ SocketLabelOK(pc[p], loc[p])
        /\ loc[p].calls \subseteq Call
        /\ pc \in [Proc -> Label] /\ loc \in [Proc -> Locals]
    BY AtFacts DEF StoreTypeOK
  <1> USE <1>0 DEF Comes, At, Goto
  <1>a. Finish(p) => Comes(p) BY FinishAt DEF NoLocals
  <1>1. ASSUME NEW u \in User, NEW v \in User, SocketInitiate(p, u, v) PROVE Comes(p)
    BY <1>1 DEF SocketInitiate, Begin, NoLocals
  <1>2. ASSUME NEW c \in Call, NEW u \in User, SocketAccept(p, c, u) \/ SocketDecline(p, c, u) \/ SocketHangup(p, c, u)
        PROVE Comes(p)
    
    <2>1. /\ Announced(c) /\ pc'[p] \in {"sa_find", "sx_find"}
          /\ \/ loc'[p] = [NoLocals EXCEPT !.op = "s_accept", !.call = c, !.user = u]
             \/ loc'[p] = [NoLocals EXCEPT !.op = "s_decline", !.call = c, !.user = u, !.why = "declined"]
             \/ loc'[p] = [NoLocals EXCEPT !.op = "s_hangup", !.call = c, !.user = u, !.why = "completed"]
      BY <1>2 DEF SocketAccept, SocketDecline, SocketHangup, Begin
    <2>2. loc'[p].call = c /\ loc'[p].calls = {} BY <2>1 DEF NoLocals
    <2> QED BY <2>1, <2>2 DEF Comes
  <1>3. ASSUME NEW u \in User, Disconnect(p, u) PROVE Comes(p)
    BY <1>3 DEF Disconnect, Begin, NoLocals
  <1>4. ASSUME NEW c \in Call, RingTimeout(p, c) PROVE Comes(p)
    BY <1>4 DEF RingTimeout, Begin, NoLocals
  <1>5. CASE StorageError(p) 
    BY <1>a, <1>5 DEF StorageError
  <1> QED BY <1>1, <1>2, <1>3, <1>4, <1>5 DEF SocketClient

LEMMA ComesSocket ==
  ASSUME SocketTypeOK, NEW p \in Proc, Knows(p), SocketHandler(p)
  PROVE  Comes(p)
  <1>0. /\ StoreTypeOK /\ loc[p] \in Locals /\ SocketLabelOK(pc[p], loc[p])
        /\ loc[p].calls \subseteq Call
        /\ pc \in [Proc -> Label] /\ loc \in [Proc -> Locals]
    BY AtFacts DEF StoreTypeOK
  <1> USE <1>0 DEF Comes, At, Goto
  <1>a. Finish(p) => Comes(p) BY FinishAt DEF NoLocals
  <1>1. CASE CreateRecord(p) \/ StoreSignaling(p) \/ MarkCaller(p) \/ WriteAccepted(p)
           \/ WriteSignaling(p) \/ MarkInitiatorInCall(p) 
    BY <1>a, <1>1 DEF CreateRecord, StoreSignaling, MarkCaller, WriteAccepted, WriteSignaling, MarkInitiatorInCall
  <1>2. CASE WriteEnded(p) \/ DeleteSignaling(p) \/ ArmRingTimer(p) \/ ClearOnAccept(p)
           \/ ClearOnEnd(p) 
    BY <1>a, <1>2 DEF WriteEnded, DeleteSignaling, ArmRingTimer, ClearOnAccept, ClearOnEnd
  <1>3. CASE ReadSignaling(p) \/ FindEnded(p) \/ CheckUnanswered(p) 
    BY <1>a, <1>3 DEF ReadSignaling, FindEnded, CheckUnanswered
  <1>4. CASE ReadCaller(p) \/ FindAccepted(p) \/ ReadMembers(p) 
    BY <1>a, <1>4 DEF ReadCaller, FindAccepted, ReadMembers, Locals
  <1>5. CASE MarkTarget(p) \/ MarkAccepterInCall(p) \/ IdleMembers(p) \/ EndIfAlone(p) 
    BY <1>a, <1>5 DEF MarkTarget, MarkAccepterInCall, IdleMembers, EndIfAlone, Enter, Locals
  <1>6. CASE ReadActiveCalls(p) BY <1>6 DEF ReadActiveCalls, SocketLabelOK, Locals
  <1>7. CASE ReadTarget(p) 
    <2>1. CASE ~Finish(p)
      <3>1. PICK c \in Call : /\ record[c] = NoRecord /\ \A q \in Proc : loc[q].call # c
                              /\ loc' = [loc EXCEPT ![p].call = c] /\ Goto(p, "si_save")
        BY <1>7, <2>1 DEF ReadTarget
      <3>2. loc'[p].call = c /\ loc'[p].calls = loc[p].calls /\ loc[p].calls = {} /\ pc'[p] = "si_save"
        BY <1>7, <3>1 DEF ReadTarget, SocketLabelOK, Locals
      <3> QED BY <3>1, <3>2 DEF Fresh, Saved
    <2> QED BY <1>a, <2>1
  <1>8. CASE LeaveNextCall(p) 
    <2>1. CASE ~Finish(p)
      <3> HIDE DEF Comes
      <3>1. PICK c \in loc[p].calls :
              /\ pc' = [pc EXCEPT ![p] = "rp_get"]
              /\ loc' = [loc EXCEPT ![p].call = c, ![p].calls = @ \ {c}, ![p].ret = "dc_check"]
        BY <1>8, <2>1 DEF LeaveNextCall
      <3>2. pc'[p] = "rp_get" /\ loc'[p].call = c /\ loc'[p].calls = loc[p].calls \ {c}
        BY <3>1 DEF Locals
      <3> QED BY <3>1, <3>2 DEF Comes
    <2> QED BY <1>a, <2>1
  <1> QED BY <1>1, <1>2, <1>3, <1>4, <1>5, <1>6, <1>7, <1>8 DEF SocketHandler

LEMMA ComesStore ==
  ASSUME SocketTypeOK, NEW p \in Proc, Knows(p), SocketSharedStep(p)
  PROVE  Comes(p)
  <1>0. /\ StoreTypeOK /\ loc[p] \in Locals /\ SocketLabelOK(pc[p], loc[p])
        /\ loc[p].calls \subseteq Call
        /\ pc \in [Proc -> Label] /\ loc \in [Proc -> Locals]
    BY AtFacts DEF StoreTypeOK
  <1> USE <1>0 DEF Comes, At, Goto
  <1>a. Finish(p) => Comes(p) BY FinishAt DEF NoLocals
  <1>1. CASE CreateActiveSet(p) \/ CreateActiveUser(p) 
    BY <1>a, <1>1 DEF CreateActiveSet, CreateActiveUser
  <1>2. CASE UpdateStatusGet(p) \/ UpdateStatusSet(p) \/ RemoveGet(p) \/ RemoveSet(p)
           \/ RemoveUser(p) \/ RemoveList(p) \/ EndGet(p) \/ EndUsers(p) \/ EndDel(p) \/ CreateActiveList(p) 
    BY <1>a, <1>2 DEF UpdateStatusGet, UpdateStatusSet, RemoveGet, RemoveSet, RemoveUser, RemoveList, EndGet, EndUsers, EndDel, CreateActiveList, Return, SocketLabelOK, EndingRedis, Leaving, Locals
  <1> QED BY <1>1, <1>2 DEF SocketSharedStep, StoreStep

LEMMA ComesStep ==
  ASSUME SocketTypeOK, NEW p \in Proc, Knows(p), SocketSteps(p)
  PROVE  Comes(p)
  BY ComesClient, ComesSocket, ComesStore DEF SocketSteps

\* What initiateCall does between finding both users idle and scheduling the timer.
Initiator(p) ==
  \/ CreateRecord(p) \/ StoreSignaling(p) \/ MarkCaller(p) \/ MarkTarget(p)
  \/ CreateActiveSet(p) \/ CreateActiveUser(p) \/ CreateActiveList(p) \/ ArmRingTimer(p)
  \/ StorageError(p)

LEMMA InitiatorSteps ==
  ASSUME NEW p \in Proc, SocketSteps(p), pc[p] \in Unannounced \cup {"si_arm"}
  PROVE  Initiator(p)
  <1> USE LabelSets DEF At
  <1>1. ~SocketClient(p) /\ \A c \in Call : ~RingTimeout(p, c)
    BY DEF SocketClient, SocketInitiate, SocketAccept, SocketDecline, SocketHangup, Disconnect,
           RingTimeout, Begin
  <1>2. SocketHandler(p) => Initiator(p)
    BY DEF SocketHandler, Initiator, ReadCaller, ReadTarget, FindAccepted, WriteAccepted, ReadSignaling,
           WriteSignaling, MarkInitiatorInCall, MarkAccepterInCall, ClearOnAccept, FindEnded,
           WriteEnded, ReadMembers, IdleMembers, DeleteSignaling, ClearOnEnd, CheckUnanswered,
           ReadActiveCalls, LeaveNextCall, EndIfAlone
  <1>3. SocketSharedStep(p) => Initiator(p)
    BY DEF SocketSharedStep, StoreStep, Initiator, UpdateStatusGet, UpdateStatusSet,
           RemoveGet, RemoveSet, RemoveUser, RemoveList, EndGet, EndUsers, EndDel
  <1> QED BY <1>1, <1>2, <1>3 DEF SocketSteps, Initiator

\* Only the handler of an announced call, or its timer, may come to a call another one began.
LEMMA PrivateStep ==
  ASSUME SocketTypeOK, Knowing, Documented, Private, NEW p \in Proc, SocketSteps(p)
  PROVE  Private'
  <1> SUFFICES ASSUME NEW x \in Proc, NEW c \in Call, loc'[x].op = "s_initiate", loc'[x].call = c
               PROVE  /\ c \notin callTimer'
                      /\ \A q \in Proc \ {x} : loc'[q].call = c =>
                           pc'[x] = "si_arm" /\ loc'[q].op # "s_initiate" /\ pc'[q] # "st_get"
                      /\ pc'[x] \in Unannounced => /\ \A u \in User : c \notin userCalls'[u]
                                                   /\ \A q \in Proc : c \notin loc'[q].calls
                      /\ pc'[x] \in {"ca_user", "ca_list"} => loc'[x].user \in active'[c].members
    BY DEF Private
  <1>0. /\ StoreTypeOK /\ SignalingTypeOK /\ Others(p) /\ Comes(p)
        /\ SocketLabelOK(pc[p], loc[p]) /\ SocketLabelOK(pc'[p], loc'[p]) /\ SocketLabelOK(pc[x], loc[x])
    BY KnowsAll, AtFacts, StepLabel, ComesStep
  <1>1. \A d \in callTimer' : d \in callTimer \/ (d = loc[p].call /\ pc[p] = "si_arm" /\ pc'[p] = "idle")
    <2>1. CASE Timing(p)
      BY <1>0, <2>1, FinishAt
         DEF Timing, ArmRingTimer, ClearOnAccept, ClearOnEnd, LeaveNextCall, RingTimeout, At
    <2> QED BY <2>1, StepSplit, Writes DEF Quiet
  <1>2. \A u \in User : \A d \in userCalls'[u] :
          d \in userCalls[u] \/ (d = loc[p].call /\ pc[p] = "ca_list" /\ pc'[p] = "si_arm")
    <2>1. CASE CreateActiveList(p)
      <3>1. pc[p] = "ca_list" /\ pc'[p] = loc[p].ret
        BY <1>0, <2>1, ReturnFacts DEF CreateActiveList, At
      <3>2. loc[p].ret = "si_arm" BY <1>0, <3>1 DEF SocketLabelOK
      <3> QED BY <1>0, <2>1, <3>1, <3>2 DEF CreateActiveList, StoreTypeOK
    <2>2. CASE Storing(p) /\ ~CreateActiveList(p)
      BY <1>0, <2>2 DEF Storing, CreateActiveSet, CreateActiveUser, UpdateStatusSet,
                        RemoveSet, RemoveUser, RemoveList, EndUsers, EndDel, StoreTypeOK
    <2> QED BY <2>1, <2>2, StepSplit, Writes DEF Quiet
  <1>3. active'[c] # active[c] => loc[p].call = c /\ pc[p] \in {"ca_set", "us_set", "rp_set", "ec_del"}
    <2>1. CASE Storing(p)
      BY <1>0, <2>1 DEF Storing, CreateActiveSet, CreateActiveUser, CreateActiveList, UpdateStatusSet,
                        RemoveSet, RemoveUser, RemoveList, EndUsers, EndDel, At, StoreTypeOK
    <2> QED BY <2>1, StepSplit, Writes DEF Quiet
  <1>4. \A q \in Proc : loc'[q].calls = {} \/ loc'[q].calls \subseteq loc[q].calls
                        \/ \E u \in User : loc'[q].calls = userCalls[u]
    BY <1>0 DEF Comes, Others
  <1>5. CASE x # p
    <2>1. loc[x].op = "s_initiate" /\ loc[x].call = c /\ pc'[x] = pc[x] /\ loc'[x] = loc[x]
      BY <1>0, <1>5 DEF Others
    <2>2. /\ c \notin callTimer
          /\ \A q \in Proc \ {x} : loc[q].call = c =>
               pc[x] = "si_arm" /\ loc[q].op # "s_initiate" /\ pc[q] # "st_get"
          /\ pc[x] \in Unannounced => /\ \A u \in User : c \notin userCalls[u]
                                      /\ \A q \in Proc : c \notin loc[q].calls
          /\ pc[x] \in {"ca_user", "ca_list"} => loc[x].user \in active[c].members
      BY <2>1 DEF Private
    <2>3. pc[x] \in Unannounced \/ pc[x] = "si_arm"
      BY <1>0, <2>1, CallStoreAssumption, LabelSets DEF SocketLabelOK
    <2>4. loc[p].call = c => /\ pc[x] = "si_arm" /\ loc[p].op # "s_initiate"
                             /\ pc[p] \notin {"si_arm", "ca_list", "ca_set"}
      <3>1. pc[p] \in {"si_arm", "ca_list", "ca_set"} => loc[p].op = "s_initiate"
        BY KnowsAll, CallFacts, LabelSets
      <3> QED BY <1>5, <2>2, <3>1
    <2>5. c \notin callTimer' BY <1>1, <2>2, <2>4
    <2>6. loc'[p].call = c => pc'[x] = "si_arm" /\ loc'[p].op # "s_initiate" /\ pc'[p] # "st_get"
      <3> SUFFICES ASSUME loc'[p].call = c
                   PROVE  pc[x] = "si_arm" /\ loc'[p].op # "s_initiate" /\ pc'[p] # "st_get"
        BY <2>1
      <3>1. CASE loc[p].call = c /\ loc'[p].op = loc[p].op /\ pc'[p] # "st_get" BY <2>4, <3>1
      <3>2. CASE Announced(c) /\ pc'[p] \in {"sa_find", "sx_find"}
        <4>1. pc[x] = "si_arm" BY <2>1, <3>2 DEF Announced
        <4>2. loc'[p].op # "s_initiate" BY <1>0, <3>2, LabelSets DEF SocketLabelOK
        <4> QED BY <3>2, <4>1, <4>2
      <3>3. CASE c \in callTimer BY <2>2, <3>3
      <3>4. CASE Fresh(c) BY <2>1, <3>4 DEF Fresh
      <3>5. CASE c \in loc[p].calls /\ pc'[p] = "rp_get"
        <4>1. pc[x] = "si_arm" BY <2>2, <2>3, <3>5
        <4>2. loc'[p].op # "s_initiate" BY <1>0, <3>5, LabelSets DEF SocketLabelOK
        <4> QED BY <3>5, <4>1, <4>2
      <3> QED BY <1>0, <3>1, <3>2, <3>3, <3>4, <3>5, CallStoreAssumption DEF Comes
    <2>7. \A q \in Proc \ {x} : loc'[q].call = c =>
            pc'[x] = "si_arm" /\ loc'[q].op # "s_initiate" /\ pc'[q] # "st_get"
      BY <1>0, <2>1, <2>2, <2>6 DEF Others
    <2>8. pc'[x] \in Unannounced => /\ \A u \in User : c \notin userCalls'[u]
                                    /\ \A q \in Proc : c \notin loc'[q].calls
      BY <1>2, <1>4, <2>1, <2>2, <2>4, LabelSets
    <2>9. pc'[x] \in {"ca_user", "ca_list"} => loc'[x].user \in active'[c].members
      BY <1>3, <2>1, <2>2, <2>4
    <2> QED BY <2>5, <2>7, <2>8, <2>9
  <1>6. CASE x = p
    <2>1. \A q \in Proc \ {x} : pc'[q] = pc[q] /\ loc'[q] = loc[q] BY <1>0, <1>6 DEF Others
    <2>2. pc'[p] \in Unannounced \/ pc'[p] = "si_arm"
      BY <1>0, <1>6, CallStoreAssumption, LabelSets DEF SocketLabelOK
    <2>3. CASE Fresh(c) /\ pc'[p] = "si_save"
      <3>1. c \notin callTimer /\ (\A u \in User : c \notin userCalls[u])
            /\ \A q \in Proc : c \notin loc[q].calls
        <4>1. \A q \in Proc : Informed(q) BY KnowsAll, AtFacts
        <4> QED BY <2>3, <4>1 DEF Documented, Fresh, Informed
      <3>2. loc[p].call # c BY <2>3 DEF Fresh
      <3>3. \A q \in Proc \ {x} : loc'[q].call # c BY <2>1, <2>3 DEF Fresh
      <3> QED BY <1>1, <1>2, <1>4, <1>6, <2>3, <3>1, <3>2, <3>3
    <2>4. CASE loc[p].call = c /\ loc[p].op = "s_initiate"
      <3>1. /\ c \notin callTimer
            /\ \A q \in Proc \ {p} : loc[q].call = c => pc[p] = "si_arm"
            /\ pc[p] \in Unannounced => /\ \A u \in User : c \notin userCalls[u]
                                        /\ \A q \in Proc : c \notin loc[q].calls
            /\ pc[p] \in {"ca_user", "ca_list"} => loc[p].user \in active[c].members
        BY <2>4 DEF Private
      <3>2. pc[p] # "si_arm"
        <4> SUFFICES ASSUME pc[p] = "si_arm" PROVE FALSE OBVIOUS
        <4>1. Finish(p)
          BY InitiatorSteps DEF Initiator, ArmRingTimer, StorageError, At,
             CreateRecord, StoreSignaling, MarkCaller, MarkTarget, CreateActiveSet, CreateActiveUser,
             CreateActiveList
        <4> QED BY <1>0, <1>6, <4>1, FinishAt, CallStoreAssumption DEF NoLocals
      <3>3. pc[p] \in Unannounced
        BY <1>0, <2>4, <3>2, CallStoreAssumption, LabelSets DEF SocketLabelOK
      <3>4. \A q \in Proc \ {x} : loc'[q].call # c BY <1>6, <2>1, <3>1, <3>2
      <3>5. c \notin callTimer' BY <1>1, <3>1, <3>2
      <3>6. pc'[p] \in Unannounced => /\ \A u \in User : c \notin userCalls'[u]
                                      /\ \A q \in Proc : c \notin loc'[q].calls
        BY <1>2, <1>4, <3>1, <3>3, LabelSets
      <3>7. pc'[p] \in {"ca_user", "ca_list"} => loc'[p].user \in active'[c].members
        <4>1. CASE CreateActiveSet(p)
          BY <1>0, <2>4, <4>1 DEF CreateActiveSet, StoreTypeOK
        <4>2. CASE CreateActiveUser(p)
          BY <1>0, <2>4, <3>1, <4>2 DEF CreateActiveUser, StoreTypeOK, At
        <4>3. CASE ~CreateActiveSet(p) /\ ~CreateActiveUser(p)
          <5>1. pc'[p] \notin {"ca_user", "ca_list"}
            BY <1>0, <3>3, <4>3, InitiatorSteps, FinishAt, LabelSets
               DEF Initiator, CreateRecord, StoreSignaling, MarkCaller, MarkTarget, ArmRingTimer, StorageError,
                   CreateActiveList, Enter, Goto, StoreTypeOK, At, Return, SocketLabelOK
          <5> QED BY <5>1
        <4> QED BY <4>1, <4>2, <4>3
      <3> QED BY <1>6, <3>4, <3>5, <3>6, <3>7
    <2> QED
      <3>1. pc'[p] \in {"sa_find", "sx_find", "rp_get"} => loc'[p].op # "s_initiate"
        BY <1>0, LabelSets DEF SocketLabelOK
      <3> QED BY <1>0, <1>6, <2>3, <2>4, <3>1, CallStoreAssumption DEF Comes
  <1> QED BY <1>5, <1>6

-----------------------------------------------------------------------------
(* Rings and statuses.                                                      *)

LEMMA BusyStep ==
  ASSUME SocketTypeOK, Knowing, Documented, BusyWithOwnCall, NEW p \in Proc, SocketSteps(p)
  PROVE  BusyWithOwnCall'
  <1> SUFFICES ASSUME NEW u \in User, userStatus'[u].call # NoCall
               PROVE  u \in Participants(userStatus[u].call)'
    BY DEF BusyWithOwnCall
  <1>0. StoreTypeOK /\ StoreTypeOK' /\ Informed(p) BY KnowsAll, AtFacts, TypeStep DEF SocketTypeOK, SocketSteps, SocketNext
  <1>1. PICK c \in Call : c = userStatus'[u].call BY <1>0 DEF StoreTypeOK, UserState
  <1> SUFFICES u \in Participants(c)'
    BY <1>1 DEF Participants
  <1>2. u \in Participants(c) => u \in Participants(c)'
    <2>1. Participants(c) \subseteq User /\ (Saved(c) \/ Participants(c) = {})
      BY <1>0, ParticipantFacts DEF Saved, Participants, NoRecord
    <2>2. Saved(c) => record'[c].caller = record[c].caller /\ record'[c].callee = record[c].callee
      BY KnowsAll, RecordStep
    <2> QED BY <2>1, <2>2 DEF Participants
  <1>3. CASE userStatus'[u] = userStatus[u]
    BY <1>1, <1>2, <1>3 DEF BusyWithOwnCall
  <1>4. CASE userStatus'[u] # userStatus[u]
    <2>1. Marking(p) \/ Storing(p) BY <1>4, StepSplit, Writes DEF Quiet
    <2>2. \/ /\ MarkCaller(p) \/ CreateActiveUser(p)
             /\ u = loc[p].user /\ c = loc[p].call
          \/ MarkTarget(p) /\ u = loc[p].peer /\ c = loc[p].call
          \/ MarkInitiatorInCall(p) /\ u = loc[p].peer /\ c = loc[p].call
          \/ MarkAccepterInCall(p) /\ u = loc[p].user /\ c = loc[p].call
      <3>1. Idle.call = NoCall /\ c # NoCall BY CallStoreAssumption DEF Idle
      <3>2. CASE Marking(p)
        BY <1>0, <1>1, <1>4, <3>1, <3>2
           DEF Marking, MarkCaller, MarkTarget, MarkInitiatorInCall, MarkAccepterInCall, IdleMembers,
               SetUser, StoreTypeOK
      <3>3. CASE Storing(p)
        BY <1>0, <1>1, <1>4, <3>1, <3>3
           DEF Storing, CreateActiveSet, CreateActiveUser, CreateActiveList, UpdateStatusSet,
               RemoveSet, RemoveUser, RemoveList, EndUsers, EndDel, SetUser, StoreTypeOK
      <3> QED BY <2>1, <3>2, <3>3
    <2>3. u \in {record[c].caller, record[c].callee} \/ u \in Participants(c)
      BY <1>0, <2>2, LabelSets
         DEF Informed, Accepting, MarkCaller, MarkTarget, MarkInitiatorInCall, MarkAccepterInCall,
             CreateActiveUser, At
    <2>4. u \in Participants(c) BY <2>3, CallStoreAssumption DEF Participants
    <2> QED BY <1>2, <2>4
  <1> QED BY <1>3, <1>4

\* What an invocation that finishes, or writes the active call, has seen to.
LEMMA AnsweredAt ==
  ASSUME SocketTypeOK, NEW p \in Proc, Knows(p), pc[p] \in Accepting \cup Ending \cup EndingRedis \cup {"rp_set"}
  PROVE  Answered(loc[p].call) \/ loc[p].call \in abandoned
  <1>1. Informed(p) /\ SocketLabelOK(pc[p], loc[p]) BY AtFacts
  <1> QED BY <1>1 DEF Informed, SocketLabelOK, Leaving

LEMMA StillRingingStep ==
  ASSUME SocketTypeOK, NEW p \in Proc, Knows(p), SocketSteps(p), NEW c \in Call, StillRingingOf(c)
  PROVE  StillRingingOf(c)'
  <1> SUFFICES ASSUME record'[c].status = "initiating", c \notin abandoned'
               PROVE  active'[c].status = "initiating" \/ \E q \in Proc : Starting(q, c)'
    BY DEF StillRingingOf
  <1>0. StoreTypeOK /\ StoreTypeOK' /\ Others(p) /\ c \notin abandoned
    BY AtFacts, SlotType, StepLabel, AbandonedGrows DEF SocketTypeOK
  <1>1. CASE ~Saved(c)
    <2>1. Saved(c)' BY <1>0 DEF Saved, NoRecord
    <2>2. loc[p].call = c /\ pc[p] = "si_save" /\ pc'[p] = "si_sig" /\ loc' = loc
      BY <1>1, <2>1, RecordStep
    <2>3. loc[p].op = "s_initiate" BY <2>2, CallFacts, LabelSets
    <2> QED BY <2>2, <2>3 DEF Starting
  <1>2. CASE Saved(c)
    <2>1. record[c].status = "initiating" BY <1>2, RecordStep
    <2>2. CASE active[c].status = "initiating"
      <3>1. CASE active'[c] = active[c] BY <2>2, <3>1
      <3>2. CASE active'[c] # active[c]
        <4>1. Storing(p) BY <3>2, StepSplit, Writes DEF Quiet
        <4>2. \/ CreateActiveSet(p)
              \/ pc[p] \in {"us_set", "rp_set", "ec_del"} /\ loc[p].call = c
          BY <1>0, <3>2, <4>1
             DEF Storing, CreateActiveUser, CreateActiveList, UpdateStatusSet,
                 RemoveSet, RemoveUser, RemoveList, EndUsers, EndDel, StoreTypeOK, At
        <4>3. pc[p] \in {"us_set", "rp_set", "ec_del"} => Answered(loc[p].call) \/ loc[p].call \in abandoned
          BY AnsweredAt DEF Accepting, EndingRedis
        <4>4. CreateActiveSet(p) BY <1>0, <2>1, <4>2, <4>3 DEF Answered
        <4> QED BY <1>0, <3>2, <4>4 DEF CreateActiveSet, StoreTypeOK
      <3> QED BY <3>1, <3>2
    <2>3. ASSUME NEW q \in Proc, Starting(q, c)
          PROVE  active'[c].status = "initiating" \/ Starting(q, c)'
      <3> USE DEF Starting
      <3>1. CASE q # p BY <1>0, <2>3, <3>1 DEF Others
      <3>2. CASE q = p
        <4>1. StoreSignaling(p) \/ MarkCaller(p) \/ MarkTarget(p) \/ CreateActiveSet(p) \/ StorageError(p)
          BY <2>3, <3>2, InitiatorSteps, LabelSets
             DEF Initiator, CreateRecord, CreateActiveUser, CreateActiveList, ArmRingTimer, At
        <4>2. ~StorageError(p) BY <1>0, <2>3, <3>2 DEF StorageError
        <4>3. CASE StoreSignaling(p) \/ MarkCaller(p)
          BY <1>0, <2>3, <3>2, <4>3 DEF StoreSignaling, MarkCaller, Goto, At, StoreTypeOK
        <4>4. CASE MarkTarget(p)
          <5>1. loc[p] \in Locals BY AtFacts
          <5> QED BY <1>0, <2>3, <3>2, <4>4, <5>1 DEF MarkTarget, Enter, At, StoreTypeOK, Locals
        <4>5. CASE CreateActiveSet(p) BY <1>0, <2>3, <3>2, <4>5 DEF CreateActiveSet, StoreTypeOK
        <4> QED BY <4>1, <4>2, <4>3, <4>4, <4>5
      <3> QED BY <3>1, <3>2
    <2> QED BY <1>0, <2>1, <2>2, <2>3 DEF StillRingingOf
  <1> QED BY <1>1, <1>2

\* Which steps start from, or lead to, the labels that matter below.
LEMMA EndingSteps ==
  ASSUME NEW p \in Proc, SocketSteps(p), pc[p] \in {"st_get", "sx_find", "sx_mongo"}
  PROVE  CheckUnanswered(p) \/ FindEnded(p) \/ WriteEnded(p) \/ StorageError(p)
  <1> USE DEF At
  <1>1. ~SocketClient(p) /\ \A c \in Call : ~RingTimeout(p, c)
    BY DEF SocketClient, SocketInitiate, SocketAccept, SocketDecline, SocketHangup, Disconnect,
           RingTimeout, Begin
  <1>2. SocketHandler(p) => CheckUnanswered(p) \/ FindEnded(p) \/ WriteEnded(p)
    BY DEF SocketHandler, ReadCaller, ReadTarget, CreateRecord, StoreSignaling, MarkCaller, MarkTarget,
           ArmRingTimer, FindAccepted, WriteAccepted, ReadSignaling, WriteSignaling, MarkInitiatorInCall,
           MarkAccepterInCall, ClearOnAccept, ReadMembers, IdleMembers, DeleteSignaling, ClearOnEnd,
           ReadActiveCalls, LeaveNextCall, EndIfAlone
  <1>3. ~SocketSharedStep(p)
    BY DEF SocketSharedStep, StoreStep, CreateActiveSet, CreateActiveUser, CreateActiveList, UpdateStatusGet,
           UpdateStatusSet, RemoveGet, RemoveSet, RemoveUser, RemoveList, EndGet, EndUsers, EndDel
  <1> QED BY <1>1, <1>2, <1>3 DEF SocketSteps

LEMMA UnlistingSteps ==
  ASSUME NEW p \in Proc, SocketSteps(p), pc[p] \in {"rp_set", "rp_user", "rp_list", "ec_users"}
  PROVE  RemoveSet(p) \/ RemoveUser(p) \/ RemoveList(p) \/ EndUsers(p)
  <1> USE DEF At
  <1>1. ~SocketClient(p) /\ ~StorageError(p) /\ \A c \in Call : ~RingTimeout(p, c)
    BY DEF SocketClient, SocketInitiate, SocketAccept, SocketDecline, SocketHangup, Disconnect,
           RingTimeout, Begin, StorageError
  <1>2. ~SocketHandler(p)
    BY DEF SocketHandler, ReadCaller, ReadTarget, CreateRecord, StoreSignaling, MarkCaller, MarkTarget,
           ArmRingTimer, FindAccepted, WriteAccepted, ReadSignaling, WriteSignaling, MarkInitiatorInCall,
           MarkAccepterInCall, ClearOnAccept, FindEnded, WriteEnded, ReadMembers, IdleMembers,
           DeleteSignaling, ClearOnEnd, CheckUnanswered, ReadActiveCalls, LeaveNextCall, EndIfAlone
  <1>3. SocketSharedStep(p) => RemoveSet(p) \/ RemoveUser(p) \/ RemoveList(p) \/ EndUsers(p)
    BY DEF SocketSharedStep, StoreStep, CreateActiveSet, CreateActiveUser, CreateActiveList, UpdateStatusGet,
           UpdateStatusSet, RemoveGet, EndGet, EndDel
  <1> QED BY <1>1, <1>2, <1>3 DEF SocketSteps

LEMMA SnapSteps ==
  ASSUME SocketTypeOK, NEW p \in Proc, Knows(p), SocketSteps(p), pc'[p] \in {"us_set", "rp_set", "ec_users", "ec_del"}
  PROVE  \/ UpdateStatusGet(p) /\ active[loc[p].call] # Absent
         \/ RemoveGet(p) /\ active[loc[p].call] # Absent
         \/ EndGet(p) /\ active[loc[p].call] # Absent
         \/ EndUsers(p)
  <1>0. StoreTypeOK /\ SocketLabelOK(pc[p], loc[p]) BY AtFacts
  <1> USE <1>0 DEF StoreTypeOK
  <1>1. ~Finish(p) BY FinishAt
  <1>2. ~SocketClient(p) /\ ~StorageError(p) /\ \A c \in Call : ~RingTimeout(p, c)
    BY <1>1 DEF SocketClient, SocketInitiate, SocketAccept, SocketDecline, SocketHangup, Disconnect,
                RingTimeout, Begin, StorageError
  <1>3. ~SocketHandler(p)
    <2>1. ~(\/ ReadCaller(p) \/ ReadTarget(p) \/ CreateRecord(p) \/ StoreSignaling(p)
            \/ MarkCaller(p) \/ MarkTarget(p) \/ ArmRingTimer(p))
      BY <1>1 DEF ReadCaller, ReadTarget, CreateRecord, StoreSignaling, MarkCaller, MarkTarget, ArmRingTimer,
                  Goto, Enter
    <2>2. ~(\/ FindAccepted(p) \/ WriteAccepted(p) \/ ReadSignaling(p) \/ WriteSignaling(p)
            \/ MarkInitiatorInCall(p) \/ MarkAccepterInCall(p) \/ ClearOnAccept(p))
      BY <1>1 DEF FindAccepted, WriteAccepted, ReadSignaling, WriteSignaling, MarkInitiatorInCall,
                  MarkAccepterInCall, ClearOnAccept, Goto
    <2>3. ~(\/ FindEnded(p) \/ WriteEnded(p) \/ ReadMembers(p) \/ IdleMembers(p)
            \/ DeleteSignaling(p) \/ ClearOnEnd(p) \/ CheckUnanswered(p))
      BY <1>1 DEF FindEnded, WriteEnded, ReadMembers, IdleMembers, DeleteSignaling, ClearOnEnd,
                  CheckUnanswered, Goto, Enter, At
    <2>4. ~(ReadActiveCalls(p) \/ LeaveNextCall(p) \/ EndIfAlone(p))
      BY <1>1 DEF ReadActiveCalls, LeaveNextCall, EndIfAlone, Goto, Enter
    <2> QED BY <2>1, <2>2, <2>3, <2>4 DEF SocketHandler
  <1>4. Return(p) =>
          pc[p] \notin {"ca_list", "us_get", "us_set", "rp_get", "rp_list", "ec_get", "ec_del"}
    BY ReturnFacts DEF SocketLabelOK, EndingRedis
  <1>5. SocketSharedStep(p) => \/ UpdateStatusGet(p) /\ active[loc[p].call] # Absent
                               \/ RemoveGet(p) /\ active[loc[p].call] # Absent
                               \/ EndGet(p) /\ active[loc[p].call] # Absent
                               \/ EndUsers(p)
    BY <1>4 DEF SocketSharedStep, StoreStep, CreateActiveSet, CreateActiveUser, CreateActiveList, UpdateStatusGet,
           UpdateStatusSet, RemoveGet, RemoveSet, RemoveUser, RemoveList, EndGet, EndDel, Goto, At
  <1> QED BY <1>2, <1>3, <1>5 DEF SocketSteps

LEMMA FollowedUpStep ==
  ASSUME SocketTypeOK, Documented, NEW p \in Proc, Knows(p), SocketSteps(p), \A x \in Proc : OwnRing(x),
         NEW c \in Call, StillRingingOf(c), FollowedUp(c)
  PROVE  FollowedUp(c)'
  <1> SUFFICES ASSUME record'[c].status = "initiating", c \notin abandoned'
               PROVE  c \in callTimer' \/ \E q \in Proc : loc'[q].call = c /\ Ringing(q)'
    BY DEF FollowedUp
  <1>0. /\ StoreTypeOK /\ StoreTypeOK' /\ Others(p) /\ c \notin abandoned /\ Informed(p)
        /\ SocketLabelOK(pc[p], loc[p]) /\ SocketLabelOK(pc'[p], loc'[p]) /\ loc[p] \in Locals
    BY AtFacts, SlotType, StepLabel, AbandonedGrows DEF SocketTypeOK
  <1>1. CASE ~Saved(c)
    <2>1. Saved(c)' BY <1>0 DEF Saved, NoRecord
    <2>2. loc[p].call = c /\ pc'[p] = "si_sig" /\ loc' = loc BY <1>1, <2>1, RecordStep
    <2>3. loc'[p].op = "s_initiate" BY <1>0, <2>2, LabelSets DEF SocketLabelOK
    <2> QED BY <2>2, <2>3 DEF Ringing
  <1>2. CASE Saved(c)
    <2>1. record[c].status = "initiating" /\ ~Answered(c)
      BY <1>2, RecordStep DEF Answered
    <2>2. CASE c \in callTimer
      <3>1. CASE c \in callTimer' BY <3>1
      <3>2. CASE c \notin callTimer'
        <4>1. Timing(p) BY <2>2, <3>2, StepSplit, Writes DEF Quiet
        <4>2. CASE RingTimeout(p, c)
          <5>1. pc'[p] = "st_get" /\ loc'[p].call = c /\ loc'[p].op = "s_timeout"
            BY <1>0, <4>2 DEF RingTimeout, Begin, StoreTypeOK, NoLocals
          <5> QED BY <5>1 DEF Ringing
        <4>3. CASE ~RingTimeout(p, c)
          <5>1. pc[p] \in {"sa_clear", "sx_clear"} /\ loc[p].call = c
            BY <1>0, <2>2, <3>2, <4>1, <4>3
               DEF Timing, ArmRingTimer, ClearOnAccept, ClearOnEnd, LeaveNextCall, RingTimeout, At
          <5> QED BY <1>0, <2>1, <5>1, AnsweredAt DEF Accepting, Ending
        <4> QED BY <4>2, <4>3
      <3> QED BY <3>1, <3>2
    <2>3. ASSUME NEW q \in Proc, q # p, loc[q].call = c, Ringing(q)
          PROVE  loc'[q].call = c /\ Ringing(q)'
      BY <1>0, <2>3 DEF Others, Ringing
    <2>4. CASE loc[p].call = c /\ loc[p].op = "s_initiate"
      <3>1. pc[p] \in Unannounced \cup {"si_arm"}
        BY <1>0, <2>4, CallStoreAssumption, LabelSets DEF SocketLabelOK
      <3>2. Initiator(p) BY <3>1, InitiatorSteps
      <3>3. CASE ArmRingTimer(p) BY <2>4, <3>3 DEF ArmRingTimer
      <3>4. CASE ~ArmRingTimer(p)
        <4>1. ~StorageError(p) BY <1>0, <2>4 DEF StorageError
        <4>2. CASE MarkTarget(p)
          BY <1>0, <2>4, <4>2 DEF MarkTarget, Enter, StoreTypeOK, Locals, Ringing
        <4>3. CASE ~MarkTarget(p)
          <5>1. loc' = loc
            BY <3>2, <3>4, <4>1, <4>3
               DEF Initiator, CreateRecord, StoreSignaling, MarkCaller, CreateActiveSet, CreateActiveUser,
                   CreateActiveList
          <5> QED BY <2>4, <5>1 DEF Ringing
        <4> QED BY <4>2, <4>3
      <3> QED BY <3>3, <3>4
    <2>5. CASE /\ loc[p].call = c /\ loc[p].op = "s_timeout"
               /\ pc[p] \in {"st_get", "sx_find", "sx_mongo"}
      <3>1. CheckUnanswered(p) \/ FindEnded(p) \/ WriteEnded(p) \/ StorageError(p)
        BY <2>5, EndingSteps
      <3>2. ~StorageError(p) BY <1>0, <2>5 DEF StorageError
      <3>3. CASE CheckUnanswered(p)
        <4>1. pc[p] = "st_get" BY <3>3 DEF CheckUnanswered, At
        <4>2. active[c].status = "initiating"
          <5>1. ASSUME NEW x \in Proc, Starting(x, c) PROVE FALSE
            <6>1. loc[x].call = c /\ loc[x].op = "s_initiate" /\ x # p
              BY <2>5, <5>1 DEF Starting
            <6> QED BY <2>5, <4>1, <6>1 DEF OwnRing
          <5> QED BY <1>0, <2>1, <5>1 DEF StillRingingOf
        <4> QED BY <1>0, <2>5, <3>3, <4>2 DEF CheckUnanswered, Goto, StoreTypeOK, Ringing
      <3>4. CASE FindEnded(p)
        <4>1. loc[p].user \in Participants(c)
          <5>1. loc[p].user = record[c].caller BY <1>0, <2>5, <3>4 DEF Informed, FindEnded, At
          <5>2. record[c].caller \in User BY <1>2 DEF Documented
          <5> QED BY <5>1, <5>2, CallStoreAssumption DEF Participants
        <4> QED BY <1>0, <2>5, <3>4, <4>1 DEF FindEnded, Goto, StoreTypeOK, Ringing
      <3>5. CASE WriteEnded(p)
        <4>1. record'[c] # record[c] \/ record'[c].status # "initiating"
          <5>1. record[c] \in Record /\ loc[p].user \in User
            BY <1>0, <2>5, <3>5, ParticipantFacts DEF WriteEnded, At, Informed
          <5> DEFINE w == WithPart(record[c], loc[p].user,
                                   IF loc[p].op = "s_decline" THEN "declined" ELSE "left")
          <5>2. w \in Record BY <5>1, RecordTypes DEF PartStatus
          <5>3. record'[c] = [w EXCEPT !.status = "ended", !.reason = loc[p].why]
            BY <1>0, <2>5, <3>5 DEF WriteEnded, WriteRecord, StoreTypeOK
          <5> HIDE DEF w
          <5> QED BY <5>2, <5>3 DEF Record
        <4> QED BY <1>2, <2>1, <4>1, RecordStep
      <3> QED BY <3>1, <3>2, <3>3, <3>4, <3>5
    <2> QED BY <1>0, <2>1, <2>2, <2>3, <2>4, <2>5 DEF FollowedUp, Ringing
  <1> QED BY <1>1, <1>2

-----------------------------------------------------------------------------
(* The lists a disconnect walks.                                            *)

\* Who is off a list, or about to be, stays so until a call is put on it.
LEMMA UnlistedStays ==
  ASSUME SocketTypeOK, Knowing, NEW p \in Proc, SocketSteps(p), NEW c \in Call, NEW u \in User, Unlisted(c, u)
  PROVE  Unlisted(c, u)' \/ (CreateActiveList(p) /\ loc[p].call = c /\ loc[p].user = u)
  <1>0. StoreTypeOK /\ StoreTypeOK' /\ Others(p) /\ loc[p] \in Locals
    BY KnowsAll, AtFacts, TypeStep, StepLabel DEF SocketTypeOK, SocketSteps, SocketNext
  <1>1. CASE c \notin userCalls[u]
    <2>1. CASE Storing(p) /\ ~CreateActiveList(p)
      <3>1. c \notin userCalls'[u]
        BY <1>0, <1>1, <2>1 DEF Storing, CreateActiveSet, CreateActiveUser, UpdateStatusSet,
                                RemoveSet, RemoveUser, RemoveList, EndUsers, EndDel, StoreTypeOK
      <3> QED BY <3>1 DEF Unlisted
    <2>2. CASE CreateActiveList(p)
      <3>1. c \notin userCalls'[u] \/ (loc[p].call = c /\ loc[p].user = u)
        BY <1>0, <1>1, <2>2 DEF CreateActiveList, StoreTypeOK
      <3> QED BY <2>2, <3>1 DEF Unlisted
    <2>3. CASE userCalls' = userCalls BY <1>1, <2>3 DEF Unlisted
    <2> QED BY <2>1, <2>2, <2>3, StepSplit, Writes DEF Quiet
  <1>2. ASSUME NEW q \in Proc, q # p, loc[q].call = c, Unlisting(q, u) PROVE Unlisted(c, u)'
    <2>1. loc'[q].call = c /\ Unlisting(q, u)' BY <1>0, <1>2 DEF Others, Unlisting
    <2> QED BY <2>1 DEF Unlisted
  <1>3. CASE loc[p].call = c /\ Unlisting(p, u)
    <2>1. RemoveSet(p) \/ RemoveUser(p) \/ RemoveList(p) \/ EndUsers(p)
      BY <1>3, UnlistingSteps DEF Unlisting
    <2>2. CASE RemoveSet(p)
      <3>1. pc'[p] = "rp_user" /\ loc'[p].user = u /\ loc'[p].call = c
        BY <1>0, <1>3, <2>2 DEF RemoveSet, Unlisting, Goto, At, StoreTypeOK, Locals
      <3> QED BY <3>1 DEF Unlisted, Unlisting
    <2>3. CASE RemoveUser(p)
      <3>1. pc'[p] = "rp_list" /\ loc' = loc /\ loc[p].user = u
        BY <1>0, <1>3, <2>3 DEF RemoveUser, Unlisting, Goto, At, StoreTypeOK
      <3> QED BY <1>3, <3>1 DEF Unlisted, Unlisting
    <2>4. CASE RemoveList(p)
      <3>1. c \notin userCalls'[u]
        BY <1>0, <1>3, <2>4 DEF RemoveList, Unlisting, At, StoreTypeOK
      <3> QED BY <3>1 DEF Unlisted
    <2>5. CASE EndUsers(p)
      <3>1. c \notin userCalls'[u]
        BY <1>0, <1>3, <2>5 DEF EndUsers, Unlisting, At, StoreTypeOK
      <3> QED BY <3>1 DEF Unlisted
    <2> QED BY <2>1, <2>2, <2>3, <2>4, <2>5
  <1> QED BY <1>1, <1>2, <1>3 DEF Unlisted

LEMMA ListedStep ==
  ASSUME SocketTypeOK, Knowing, Private, Listed, NEW p \in Proc, SocketSteps(p)
  PROVE  Listed'
  <1>0. /\ StoreTypeOK /\ StoreTypeOK' /\ Others(p) /\ loc[p] \in Locals /\ loc[p].snap \in ActiveState
        /\ \A c \in Call : active[c] \in ActiveState
        /\ \A q \in Proc : SocketLabelOK(pc[q], loc[q])
    BY KnowsAll, AtFacts, TypeStep, StepLabel DEF SocketTypeOK, SocketSteps, SocketNext, StoreTypeOK
  <1>1. CreateActiveList(p) =>
          /\ loc[p].user \in active[loc[p].call].members
          /\ \A q \in Proc \ {p} : loc[q].call # loc[p].call
          /\ active' = active /\ pc'[p] = "si_arm"
    <2> SUFFICES ASSUME CreateActiveList(p)
                 PROVE  /\ loc[p].user \in active[loc[p].call].members
                        /\ \A q \in Proc \ {p} : loc[q].call # loc[p].call
                        /\ active' = active /\ pc'[p] = "si_arm"
      OBVIOUS
    <2>1. pc[p] = "ca_list" /\ active' = active /\ pc'[p] = loc[p].ret
      BY <1>0, ReturnFacts DEF CreateActiveList, At
    <2>2. loc[p].op = "s_initiate" /\ loc[p].call \in Call BY KnowsAll, <2>1, CallFacts, LabelSets
    <2>3. loc[p].ret = "si_arm" BY <1>0, <2>1 DEF SocketLabelOK
    <2> QED BY <2>1, <2>2, <2>3 DEF Private
  <1>2. ASSUME NEW c \in Call, NEW u \in User PROVE u \in active'[c].members \/ Unlisted(c, u)'
    <2>1. CASE CreateActiveList(p) /\ loc[p].call = c /\ loc[p].user = u
      BY <1>1, <2>1
    <2>2. CASE ~(CreateActiveList(p) /\ loc[p].call = c /\ loc[p].user = u)
      <3>1. Unlisted(c, u) => Unlisted(c, u)' BY <2>2, UnlistedStays
      <3>2. CASE active'[c] = active[c] BY <3>1, <3>2 DEF Listed
      <3>3. CASE active'[c] # active[c]
        <4>1. Storing(p) BY <3>3, StepSplit, Writes DEF Quiet
        <4>2. /\ CreateActiveSet(p) \/ UpdateStatusSet(p) \/ RemoveSet(p) \/ EndDel(p)
              /\ loc[p].call = c
          BY <1>0, <3>3, <4>1 DEF Storing, CreateActiveUser, CreateActiveList, RemoveUser, RemoveList, EndUsers,
                                  CreateActiveSet, UpdateStatusSet, RemoveSet, EndDel, StoreTypeOK
        <4>3. CASE CreateActiveSet(p)
          <5>1. pc[p] = "ca_set" BY <4>3 DEF CreateActiveSet, At
          <5>2. loc[p].op = "s_initiate" BY KnowsAll, <5>1, CallFacts, LabelSets
          <5>3. c \notin userCalls[u] BY <4>2, <5>1, <5>2, LabelSets DEF Private
          <5> QED BY <3>1, <5>3 DEF Unlisted
        <4>4. CASE UpdateStatusSet(p)
          <5>1. u \in loc[p].snap.members \/ Unlisted(c, u)
            BY <4>2, <4>4 DEF Listed, UpdateStatusSet, At
          <5>2. active'[c] = [loc[p].snap EXCEPT !.status = loc[p].want]
            BY <1>0, <4>2, <4>4 DEF UpdateStatusSet, StoreTypeOK
          <5>3. active'[c].members = loc[p].snap.members BY <1>0, <5>2 DEF ActiveState
          <5> QED BY <3>1, <5>1, <5>3
        <4>5. CASE RemoveSet(p)
          <5>1. u \in loc[p].snap.members \/ Unlisted(c, u)
            BY <4>2, <4>5 DEF Listed, RemoveSet, At
          <5>2. active'[c] = [loc[p].snap EXCEPT !.members = @ \ {loc[p].user}]
            BY <1>0, <4>2, <4>5 DEF RemoveSet, StoreTypeOK
          <5>3. active'[c].members = loc[p].snap.members \ {loc[p].user} BY <1>0, <5>2 DEF ActiveState
          <5>4. pc'[p] = "rp_user" /\ loc'[p].user = loc[p].user /\ loc'[p].call = c
            BY <1>0, <4>2, <4>5 DEF RemoveSet, Goto, StoreTypeOK, Locals
          <5>5. loc[p].user = u => Unlisted(c, u)' BY <5>4 DEF Unlisted, Unlisting
          <5> QED BY <3>1, <5>1, <5>3, <5>5
        <4>6. CASE EndDel(p)
          <5>1. Unlisted(c, u) BY <4>2, <4>6 DEF Listed, EndDel, At
          <5> QED BY <3>1, <5>1
        <4> QED BY <4>2, <4>3, <4>4, <4>5, <4>6
      <3> QED BY <3>2, <3>3
    <2> QED BY <2>1, <2>2
  <1>3. ASSUME NEW q \in Proc \ {p}, NEW c \in Call, loc[q].call = c, NEW u \in User, Unlisted(c, u)
        PROVE  Unlisted(c, u)'
    BY <1>1, <1>3, UnlistedStays
  <1>4. ASSUME NEW q \in Proc, NEW u \in User
        PROVE  /\ pc'[q] \in {"us_set", "rp_set", "ec_users"} =>
                    u \in loc'[q].snap.members \/ Unlisted(loc[q].call, u)'
               /\ pc'[q] = "ec_del" => Unlisted(loc[q].call, u)'
    <2>1. CASE q # p
      <3>1. pc'[q] = pc[q] /\ loc'[q] = loc[q] BY <1>0, <2>1 DEF Others
      <3> SUFFICES ASSUME pc[q] \in {"us_set", "rp_set", "ec_users", "ec_del"}
                   PROVE  /\ pc[q] # "ec_del" => u \in loc'[q].snap.members \/ Unlisted(loc[q].call, u)'
                          /\ pc[q] = "ec_del" => Unlisted(loc[q].call, u)'
        BY <3>1
      <3>2. PICK c \in Call : c = loc[q].call BY <1>0 DEF SocketLabelOK
      <3>3. /\ pc[q] # "ec_del" => u \in loc[q].snap.members \/ Unlisted(c, u)
            /\ pc[q] = "ec_del" => Unlisted(c, u)
        BY <3>2 DEF Listed
      <3>4. Unlisted(c, u) => Unlisted(c, u)' BY <1>3, <2>1, <3>2
      <3>5. Unlisted(c, u)' => Unlisted(loc[q].call, u)' BY <3>1, <3>2 DEF Unlisted
      <3> QED BY <3>1, <3>3, <3>4, <3>5
    <2>2. CASE q = p
      <3> SUFFICES ASSUME pc'[p] \in {"us_set", "rp_set", "ec_users", "ec_del"}
                   PROVE  /\ pc'[p] # "ec_del" => u \in loc'[p].snap.members \/ Unlisted(loc[p].call, u)'
                          /\ pc'[p] = "ec_del" => Unlisted(loc[p].call, u)'
        BY <2>2
      <3>1. UpdateStatusGet(p) \/ RemoveGet(p) \/ EndGet(p) \/ EndUsers(p)
        BY KnowsAll, SnapSteps
      <3>2. PICK c \in Call : c = loc[p].call
        BY <1>0, <3>1 DEF SocketLabelOK, UpdateStatusGet, RemoveGet, EndGet, EndUsers, At
      <3>3. loc'[p].call = c
        BY <1>0, <3>1, <3>2 DEF UpdateStatusGet, RemoveGet, EndGet, EndUsers, StoreTypeOK, Locals
      <3>4. Unlisted(c, u)' => Unlisted(loc[p].call, u)' BY <3>3 DEF Unlisted
      <3>5. ~CreateActiveList(p)
        BY <3>1 DEF UpdateStatusGet, RemoveGet, EndGet, EndUsers, CreateActiveList, At
      <3>6. Unlisted(c, u) => Unlisted(c, u)' BY <3>5, UnlistedStays
      <3>7. CASE EndUsers(p)
        <4>1. pc[p] = "ec_users" /\ pc'[p] = "ec_del"
          BY <1>0, <3>7 DEF EndUsers, At, Goto, StoreTypeOK
        <4>2. u \in loc[p].snap.members => c \notin userCalls'[u] BY <1>0, <3>2, <3>7 DEF EndUsers
        <4>3. u \in loc[p].snap.members \/ Unlisted(c, u) BY <3>2, <4>1 DEF Listed
        <4>4. Unlisted(c, u)' BY <3>6, <4>2, <4>3 DEF Unlisted
        <4> QED BY <3>4, <4>1, <4>4
      <3>8. CASE ~EndUsers(p)
        <4>1. pc'[p] # "ec_del" /\ loc'[p].snap = active[c]
          BY KnowsAll, <1>0, <3>1, <3>2, <3>8, SnapSteps
             DEF UpdateStatusGet, RemoveGet, EndGet, StoreTypeOK, Locals, Return, Goto, At, SocketLabelOK,
                 EndingRedis, Leaving
        <4>2. u \in active[c].members \/ Unlisted(c, u) BY DEF Listed
        <4> QED BY <3>4, <3>6, <4>1, <4>2
      <3> QED BY <3>7, <3>8
    <2> QED BY <2>1, <2>2
  <1> QED BY <1>2, <1>4 DEF Listed

-----------------------------------------------------------------------------
(* The theorems.                                                            *)

LEMMA InitSocketInv ==
  ASSUME SocketInit
  PROVE  SocketInv
  <1> USE DEF SocketInit, StoreInit, SignalingInit
  <1>1. SocketTypeOK
    <2>1. /\ NoRecord \in Record /\ Absent \in ActiveState /\ Idle \in UserState
          /\ NoLocals \in Locals /\ "idle" \in Label
      BY NoLocalsType DEF NoRecord, Record, Reason, PartStatus, Absent, ActiveState, Idle, UserState, Label
    <2>2. StoreTypeOK BY <2>1 DEF StoreTypeOK
    <2>3. SignalingTypeOK BY CallSignalingAssumption DEF SignalingTypeOK
    <2> QED BY <2>2, <2>3 DEF SocketTypeOK
  <1>2. Knowing
    <2>1. ASSUME NEW p \in Proc PROVE SocketLabelOK(pc[p], loc[p]) BY FinishLabel
    <2>2. ASSUME NEW p \in Proc PROVE Informed(p)
      BY CallStoreAssumption, LabelSets
         DEF Informed, NoLocals, Accepting, Ending, EndingRedis, Leaving
    <2> QED BY <2>1, <2>2 DEF Knowing, Knows
  <1>3. Documented BY DEF Documented, Saved
  <1>4. Private BY DEF Private, NoLocals
  <1>5. StillRinging /\ NoForgottenRing BY DEF StillRinging, StillRingingOf, NoForgottenRing, NoRecord
  <1>6. BusyWithOwnCall BY DEF BusyWithOwnCall, Idle
  <1>7. Listed BY DEF Listed, Unlisted
  <1> QED BY <1>1, <1>2, <1>3, <1>4, <1>5, <1>6, <1>7 DEF SocketInv

LEMMA SocketInvStep ==
  ASSUME SocketInv, [SocketNext]_socketVars
  PROVE  SocketInv'
  <1>1. CASE UNCHANGED socketVars
    <2>1. UNCHANGED <<record, active, userStatus, userCalls, signaling, pc, loc, callTimer, events,
                      disconnects, errors, abandoned>>
      BY <1>1 DEF socketVars, store, signalingVars
    <2>2. SocketTypeOK' BY <1>1, TypeStep DEF SocketInv
    <2>3. Knowing' /\ Documented' BY <2>1 DEF SocketInv, Knowing, Knows, Informed, Documented, Saved, Answered, Participants
    <2>4. Private' /\ StillRinging' BY <2>1 DEF SocketInv, Private, StillRinging, StillRingingOf, Starting
    <2>5. NoForgottenRing' /\ BusyWithOwnCall'
      BY <2>1 DEF SocketInv, NoForgottenRing, Ringing, BusyWithOwnCall, Participants
    <2>6. Listed' BY <2>1 DEF SocketInv, Listed, Unlisted, Unlisting
    <2> QED BY <2>2, <2>3, <2>4, <2>5, <2>6 DEF SocketInv
  <1>2. ASSUME NEW p \in Proc, SocketSteps(p) PROVE SocketInv'
    <2>1. SocketTypeOK' BY <1>2, TypeStep DEF SocketInv, SocketSteps, SocketNext
    <2>2. Knows(p) /\ SocketTypeOK /\ Documented BY <1>2, KnowsAll DEF SocketInv
    <2>3. \A x \in Proc : OwnRing(x) BY DEF SocketInv, Private, OwnRing, Unannounced
    <2>4. StillRinging'
      BY <1>2, <2>2, StillRingingStep DEF SocketInv, StillRinging
    <2>5. NoForgottenRing'
      <3>1. \A c \in Call : FollowedUp(c) BY DEF SocketInv, NoForgottenRing, FollowedUp
      <3>2. \A c \in Call : FollowedUp(c)'
        BY <1>2, <2>2, <2>3, <3>1, FollowedUpStep DEF SocketInv, StillRinging
      <3> QED BY <3>2 DEF NoForgottenRing, FollowedUp
    <2>6. Knowing' /\ Documented' /\ Private' /\ BusyWithOwnCall' /\ Listed'
      BY <1>2, <2>2, KnowingStep, DocumentedStep, PrivateStep, BusyStep, ListedStep DEF SocketInv
    <2> QED BY <2>1, <2>4, <2>5, <2>6 DEF SocketInv
  <1> QED BY <1>1, <1>2 DEF SocketNext, SocketSteps

LEMMA SocketInvariance == SocketSpec => []SocketInv
  BY InitSocketInv, SocketInvStep, PTL DEF SocketSpec

\* The documents, the Redis values, the handlers' locals and the timers keep their shapes,
\* whatever the clients send and whatever drops or fails (ChatGateway, WebRTCSignalingService,
\* CallStateService).
THEOREM SocketTypeCorrect == SocketSpec => []SocketTypeOK
  <1>1. SocketInv => SocketTypeOK BY DEF SocketInv
  <1> QED BY <1>1, SocketInvariance, PTL

\* However many handlers of accept, decline, hangup and the ring timer race for a call, it is
\* not left ringing without a timer or a handler, but for a storage error or a disconnect.
THEOREM RingsAreFollowedUp == SocketSpec => []NoForgottenRing
  <1>1. SocketInv => NoForgottenRing BY DEF SocketInv
  <1> QED BY <1>1, SocketInvariance, PTL

\* Nobody is ever marked busy with a call that has no document or is somebody else's, whichever
\* handlers interleave and wherever they fail (initiateCall, acceptCall, createActiveCall).
THEOREM BusyIsWithOwnCall == SocketSpec => []BusyWithOwnCall
  <1>1. SocketInv => BusyWithOwnCall BY DEF SocketInv
  <1> QED BY <1>1, SocketInvariance, PTL

\* The list a disconnect walks names no call that is gone from Redis, unless a handler is about
\* to take it off: endCall, removeParticipant and updateCallStatus write back what they read,
\* but never without somebody who is still listed.
THEOREM ListedCallsAreActive == SocketSpec => []ListedCallIsActive
  <1>1. ASSUME SocketInv PROVE ListedCallIsActive
    <2> SUFFICES ASSUME NEW u \in User, NEW c \in userCalls[u], active[c] = Absent
                 PROVE  \E p \in Proc : loc[p].call = c /\ Unlisting(p, u)
      BY DEF ListedCallIsActive
    <2>1. c \in Call /\ u \notin active[c].members
      BY <1>1 DEF SocketInv, SocketTypeOK, StoreTypeOK, Absent
    <2> QED BY <1>1, <2>1 DEF SocketInv, Listed, Unlisted
  <1> QED BY <1>1, SocketInvariance, PTL

-----------------------------------------------------------------------------
(* Both paths together.  A slot belongs to one path at a time: which one,   *)
(* its operation and its label say alike.                                   *)

\* Somebody of the REST path watches c, or has begun to close it.
Watched(c) == c \in closing \/ Timed(c) \/ \E p \in Proc : loc[p].call = c /\ Driving(p)

\* What is known of a slot that serves an HTTP request, a timer or a cleanup.
RestSlot(p) ==
  /\ loc[p].op \in RestOp \cup {"none"}
  /\ RestLabelOK(pc[p], loc[p]) /\ ClosingOK(pc[p], loc[p], closing)
  /\ FreshOf(p) /\ HeldOf(p) /\ WantOf(p)
  /\ loc[p].want # "initiating"
  /\ pc[p] \in {"ca_set", "ca_user", "ca_list"} => Saved(loc[p].call)
  /\ pc[p] = "cl_del" => loc[p].call \in closing

\* What is known of a slot that serves an event, the ring timer or a disconnect.
SocketSlot(p) ==
  /\ loc[p].op \in SocketOp \cup {"none"}
  /\ Knows(p) /\ OwnRing(p)
  /\ pc[p] = "si_save" => loc[p].call \notin closing

SlotOK(p) ==
  /\ RestSlot(p) \/ SocketSlot(p)
  /\ loc[p].op = "none" \/ pc[p] = "idle" => pc[p] = "idle" /\ loc[p] = NoLocals

\* A call the REST path does not watch rings under the socket path's timer, if at all.
RingOK(c) ==
  \/ Watched(c)
  \/ record[c].status # "ringing" /\ StillRingingOf(c) /\ FollowedUp(c)

(* The inductive invariant of both paths together.                          *)
CallsInv ==
  /\ TypeOK /\ CleanupsKnown /\ Untimed /\ Documented
  /\ \A p \in Proc : SlotOK(p)
  /\ \A c \in Call : RingOK(c)

\* A turn of either path, on a slot of its own.
RestTurn(p) == RestSlot(p) /\ RestSteps(p) /\ UNCHANGED signalingVars
SocketTurn(p) ==
  /\ SocketSlot(p) /\ SocketSteps(p) /\ UNCHANGED lifecycleVars
  /\ pc'[p] = "si_save" => loc'[p].call \notin closing

LEMMA Paths ==
  /\ \A k : k \in RestLabel => k \notin SocketLabel \cup StoreLabel \cup {"idle"}
  /\ \A k : k \in SocketLabel => k \notin StoreLabel \cup {"idle"}
  /\ \A o : o \in RestOp => o \notin SocketOp \cup {"none"}
  /\ "none" \notin SocketOp
  BY DEF RestLabel, SocketLabel, StoreLabel, RestOp, SocketOp

LEMMA RestHandlerLabel ==
  ASSUME NEW p \in Proc, Handler(p)
  PROVE  pc[p] \in RestLabel \cup {"us_mongo"}
  BY DEF Handler, CheckInitiator, CheckTarget, SaveRecord, StatusMongo, ArmRinging, CheckRinging,
         JoinParticipant, ArmConnecting, RecordStarted, ArmMaxDuration, DeclineParticipant, EndFind,
         EndRecord, EndParticipant, EndSchedule, FailBegin, FailRecord, FailSchedule, CleanupDelete,
         CleanupGet, CleanupUnlist, CleanupReadUser, CleanupIdle, At, RestLabel

LEMMA SocketHandlerLabel ==
  ASSUME NEW p \in Proc, SocketHandler(p)
  PROVE  pc[p] \in SocketLabel
  BY DEF SocketHandler, ReadCaller, ReadTarget, CreateRecord, StoreSignaling, MarkCaller, MarkTarget,
         ArmRingTimer, FindAccepted, WriteAccepted, ReadSignaling, WriteSignaling, MarkInitiatorInCall,
         MarkAccepterInCall, ClearOnAccept, FindEnded, WriteEnded, ReadMembers, IdleMembers,
         DeleteSignaling, ClearOnEnd, CheckUnanswered, ReadActiveCalls, LeaveNextCall, EndIfAlone,
         At, SocketLabel

LEMMA StoreStepLabel ==
  ASSUME NEW p \in Proc, StoreStep(p)
  PROVE  pc[p] \in StoreLabel
  BY DEF StoreStep, CreateActiveSet, CreateActiveUser, CreateActiveList, UpdateStatusGet, UpdateStatusSet,
         RemoveGet, RemoveSet, RemoveUser, RemoveList, EndGet, EndUsers, EndDel, At, StoreLabel

\* A free slot is ready for either path.
LEMMA FreeSlot ==
  ASSUME NEW p \in Proc, pc[p] = "idle", loc[p] = NoLocals
  PROVE  RestSlot(p) /\ SocketSlot(p)
  <1>1. RestLabelOK("idle", NoLocals) /\ ClosingOK("idle", NoLocals, closing)
    BY DEF RestLabelOK, ClosingOK, NoLocals, TerminalStatus
  <1>2. NoLocals.op = "none" /\ NoLocals.call = NoCall /\ NoLocals.want = "none" /\ NoLocals.calls = {}
    BY DEF NoLocals
  <1>3. RestSlot(p)
    BY <1>1, <1>2, CallStoreAssumption DEF RestSlot, FreshOf, HeldOf, WantOf
  <1>4. Informed(p)
    BY <1>2, CallStoreAssumption, LabelSets DEF Informed, Accepting, Ending, EndingRedis, Leaving
  <1> QED BY <1>2, <1>3, <1>4, FinishLabel DEF SocketSlot, Knows, OwnRing

\* Whoever takes a step is on its own path.
LEMMA Turns ==
  ASSUME NEW p \in Proc, TypeOK, SlotOK(p), RestStep(p) \/ SocketStep(p) \/ SharedStep(p)
  PROVE  RestTurn(p) \/ SocketTurn(p)
  <1>1. pc[p] = "idle" => RestSlot(p) /\ SocketSlot(p) BY FreeSlot DEF SlotOK
  <1>2. pc[p] \in RestLabel => RestSlot(p)
    BY Paths DEF SlotOK, SocketSlot, Knows, SocketLabelOK
  <1>3. pc[p] \in SocketLabel => SocketSlot(p)
    <2>1. \A k : k \in SocketLabel => k \notin RestLabel \cup {"ca_set", "ca_user", "ca_list", "us_get", "us_set", "idle"}
      BY DEF RestLabel, SocketLabel
    <2> QED BY <2>1 DEF SlotOK, RestSlot, RestLabelOK
  <1>4. loc[p].op \in RestOp => RestSlot(p) BY Paths DEF SlotOK, SocketSlot
  <1>5. loc[p].op \in SocketOp => SocketSlot(p) BY Paths DEF SlotOK, RestSlot
  <1>6. CASE RestStep(p)
    <2>1. Client(p) \/ Clock(p) => pc[p] = "idle"
      BY DEF Client, InitiateCall, AcceptCall, MarkConnected, DeclineCall, HangupCall, Clock, RingingTimeout,
             ConnectingTimeout, MaxDurationTimeout, CleanupCall, Begin
    <2>2. Handler(p) => pc[p] \in RestLabel BY RestHandlerLabel DEF RestLabel
    <2>3. RestSlot(p) BY <1>1, <1>2, <1>4, <1>6, <2>1, <2>2 DEF RestStep
    <2> QED BY <1>6, <2>3 DEF RestStep, RestTurn, RestSteps
  <1>7. CASE SocketStep(p)
    <2>1. SocketClient(p) \/ (\E c \in Call : RingTimeout(p, c)) => pc[p] = "idle"
      BY DEF SocketClient, SocketInitiate, SocketAccept, SocketDecline, SocketHangup, Disconnect,
             RingTimeout, Begin
    <2>2. SocketHandler(p) => pc[p] \in SocketLabel BY SocketHandlerLabel
    <2>3. SocketSlot(p) BY <1>1, <1>3, <1>5, <1>7, <2>1, <2>2 DEF SocketStep
    <2>4. closing' = closing /\ (pc'[p] = "si_save" => loc'[p].call \notin closing)
      BY <1>7 DEF SocketStep, lifecycleVars
    <2> QED BY <1>7, <2>3, <2>4 DEF SocketStep, SocketTurn, SocketSteps
  <1>8. CASE SharedStep(p)
    <2>1. StoreStep(p) /\ UNCHANGED lifecycleVars /\ UNCHANGED signalingVars BY <1>8 DEF SharedStep
    <2>2. CASE RestSlot(p) BY <2>1, <2>2 DEF RestTurn, RestSteps, RestSharedStep
    <2>3. CASE SocketSlot(p)
      <3>1. SocketTypeOK /\ StoreTypeOK BY DEF TypeOK, SocketTypeOK
      <3>2. pc'[p] # "si_save"
        <4>1. SocketLabelOK(pc[p], loc[p]) BY <2>3 DEF SocketSlot, Knows
        <4>2. pc[p] \in StoreLabel BY <2>1, StoreStepLabel
        <4>3. Return(p) => pc'[p] = loc[p].ret BY <3>1, ReturnFacts
        <4>4. pc[p] \in {"ca_list", "us_get", "us_set", "rp_get", "rp_list", "ec_get", "ec_del"} =>
                loc[p].ret # "si_save"
          BY <4>1 DEF SocketLabelOK, EndingRedis
        <4> QED BY <2>1, <3>1, <4>3, <4>4
              DEF StoreStep, CreateActiveSet, CreateActiveUser, CreateActiveList, UpdateStatusGet,
                  UpdateStatusSet, RemoveGet, RemoveSet, RemoveUser, RemoveList, EndGet, EndUsers, EndDel,
                  Goto, At, StoreTypeOK
      <3> QED BY <2>1, <2>3, <3>2 DEF SocketTurn, SocketSteps, SocketSharedStep
    <2> QED BY <2>2, <2>3 DEF SlotOK
  <1> QED BY <1>6, <1>7, <1>8

LEMMA TurnFacts ==
  ASSUME NEW p \in Proc, TypeOK, CleanupsKnown
  PROVE  /\ RestSlot(p) => Ready(p)
         /\ SocketSlot(p) => SocketTypeOK /\ Knows(p) /\ OwnRing(p)
         /\ StoreTypeOK /\ LifecycleTypeOK /\ SignalingTypeOK /\ loc[p] \in Locals /\ pc[p] \in Label
         /\ loc[p].calls \subseteq Call
  BY DEF TypeOK, RestTypeOK, SocketTypeOK, RestSlot, SocketSlot, Ready, StoreTypeOK, Locals

-----------------------------------------------------------------------------
(* Where a turn of the REST path leads its slot.                            *)

MovesOK(p) ==
  LET l == loc[p]
      m == loc'[p]
      k == pc'[p]
  IN /\ \/ k = "idle" /\ m = NoLocals
        \/ k # "idle" /\ m.op \in RestOp
     /\ m.want = l.want \/ m.want # "initiating"
     /\ k \in {"ca_set", "ca_user", "ca_list", "us_mongo"} => m.want # "none"
     /\ k = "i_save" => Proceed(p) /\ UNCHANGED <<record, closing>>
     /\ k = "ca_set" => SaveRecord(p)
     /\ k \in {"ca_user", "ca_list"} => pc[p] \in {"ca_set", "ca_user"} /\ m.call = l.call
     /\ k = "cl_del" => \E c \in Call : m.call = c /\ pending[c] > 0
     /\ pc[p] = "i_save" => SaveRecord(p) \/ k = "f_begin" \/ m = NoLocals
     /\ pc[p] = "f_begin" => FailBegin(p)

LEMMA RestMoves ==
  ASSUME NEW p \in Proc, Ready(p), WantOf(p), SlotOK(p), RestSlot(p), RestSteps(p)
  PROVE  MovesOK(p)
  <1>1. /\ StoreTypeOK /\ RestLabelOK(pc[p], loc[p]) /\ loc[p] \in Locals
        /\ pc \in [Proc -> Label] /\ loc \in [Proc -> Locals]
    BY AtStep DEF StoreTypeOK
  <1>2. pc[p] # "idle" => loc[p].op \in RestOp BY DEF SlotOK, RestSlot
  \* Three kinds of turn.
  <1>3. ASSUME Finish(p), pc[p] # "f_begin" PROVE MovesOK(p)
    <2>1. pc'[p] = "idle" /\ loc'[p] = NoLocals BY <1>1, <1>3, FinishFacts
    <2> QED BY <1>3, <2>1 DEF MovesOK, NoLocals
  <1>4. ASSUME NEW k, pc'[p] = k, loc'[p].op = loc[p].op, loc'[p].want = loc[p].want \/ loc'[p].want # "initiating",
               k \notin {"idle", "i_save", "ca_set", "cl_del"}, pc[p] \notin {"idle", "i_save", "f_begin"},
               k \in {"ca_user", "ca_list"} => pc[p] \in {"ca_set", "ca_user"} /\ loc'[p].call = loc[p].call,
               k \in {"ca_user", "ca_list", "us_mongo"} => loc'[p].want # "none"
        PROVE  MovesOK(p)
    BY <1>2, <1>4 DEF MovesOK
  <1>5. ASSUME NEW k, NEW l, Begin(p, k, l), l.op \in RestOp, l.want # "initiating",
               k \notin {"idle", "i_save", "ca_set", "ca_user", "ca_list"},
               k = "us_mongo" => l.want # "none", k = "cl_del" => \E c \in Call : l.call = c /\ pending[c] > 0
        PROVE  MovesOK(p)
    <2>1. pc[p] = "idle" /\ pc'[p] = k /\ loc'[p] = l BY <1>1, <1>5 DEF Begin
    <2> QED BY <1>5, <2>1 DEF MovesOK
  <1>6. CASE Client(p)
    <2>1. ASSUME NEW u \in User, NEW v \in User, InitiateCall(p, u, v) PROVE MovesOK(p)
      <3> DEFINE l == [NoLocals EXCEPT !.op = "initiate", !.user = u, !.peer = v]
      <3>1. l.op \in RestOp /\ l.want # "initiating" BY DEF NoLocals, RestOp
      <3>2. Begin(p, "i_self", l) BY <2>1 DEF InitiateCall
      <3> HIDE DEF l
      <3> QED BY <1>5, <3>1, <3>2
    <2>2. ASSUME NEW c \in Call, NEW u \in User, AcceptCall(p, c, u) PROVE MovesOK(p)
      <3> DEFINE l == [NoLocals EXCEPT !.op = "accept", !.call = c, !.user = u]
      <3>1. l.op \in RestOp /\ l.want # "initiating" BY DEF NoLocals, RestOp
      <3>2. Begin(p, "a_get", l) BY <2>2 DEF AcceptCall
      <3> HIDE DEF l
      <3> QED BY <1>5, <3>1, <3>2
    <2>3. ASSUME NEW c \in Call, NEW u \in User, MarkConnected(p, c, u) PROVE MovesOK(p)
      <3> DEFINE l == [NoLocals EXCEPT !.op = "connect", !.call = c, !.user = u, !.want = "active"]
      <3>1. l.op \in RestOp /\ l.want = "active" BY DEF NoLocals, RestOp
      <3>2. Begin(p, "us_mongo", l) BY <2>3 DEF MarkConnected
      <3> HIDE DEF l
      <3> QED BY <1>5, <3>1, <3>2
    <2>4. ASSUME NEW c \in Call, NEW u \in User, DeclineCall(p, c, u) PROVE MovesOK(p)
      <3> DEFINE l == [NoLocals EXCEPT !.op = "decline", !.call = c, !.user = u, !.why = "declined"]
      <3>1. l.op \in RestOp /\ l.want # "initiating" BY DEF NoLocals, RestOp
      <3>2. Begin(p, "d_part", l) BY <2>4 DEF DeclineCall
      <3> HIDE DEF l
      <3> QED BY <1>5, <3>1, <3>2
    <2>5. ASSUME NEW c \in Call, NEW u \in User, HangupCall(p, c, u) PROVE MovesOK(p)
      <3> DEFINE l == [NoLocals EXCEPT !.op = "hangup", !.call = c, !.user = u, !.why = "user_hangup"]
      <3>1. l.op \in RestOp /\ l.want # "initiating" BY DEF NoLocals, RestOp
      <3>2. Begin(p, "e_find", l) BY <2>5 DEF HangupCall
      <3> HIDE DEF l
      <3> QED BY <1>5, <3>1, <3>2
    <2> QED BY <1>6, <2>1, <2>2, <2>3, <2>4, <2>5 DEF Client
  <1>7. CASE Clock(p)
    <2>1. ASSUME NEW c \in Call, NEW l, NEW k \in {"f_begin", "e_find"}, Begin(p, k, l),
                 \/ l = [NoLocals EXCEPT !.op = "ring_timeout", !.call = c, !.why = "timeout"]
                 \/ l = [NoLocals EXCEPT !.op = "connect_timeout", !.call = c, !.why = "connection_timeout"]
                 \/ l = [NoLocals EXCEPT !.op = "max_timeout", !.call = c, !.why = "max_duration_reached"]
          PROVE  MovesOK(p)
      <3>1. l.op \in RestOp /\ l.want = "none" BY <2>1 DEF NoLocals, RestOp
      <3> QED BY <1>5, <2>1, <3>1
    <2>2. ASSUME NEW c \in Call, CleanupCall(p, c) PROVE MovesOK(p)
      <3> DEFINE l == [NoLocals EXCEPT !.op = "cleanup", !.call = c]
      <3>1. l.op \in RestOp /\ l.want = "none" /\ l.call = c BY DEF NoLocals, RestOp
      <3>2. Begin(p, "cl_del", l) /\ pending[c] > 0 BY <2>2 DEF CleanupCall
      <3> HIDE DEF l
      <3> QED BY <1>5, <3>1, <3>2
    <2> QED BY <1>7, <2>1, <2>2 DEF Clock, RingingTimeout, ConnectingTimeout, MaxDurationTimeout
  <1>8. CASE CheckInitiator(p)
    <2>1. CASE Finish(p) BY <1>3, <1>8, <2>1 DEF CheckInitiator, At
    <2>2. CASE ~Finish(p) BY <1>1, <1>4, <1>8, <2>2 DEF CheckInitiator, At, Goto
    <2> QED BY <2>1, <2>2
  <1>9. ASSUME At(p, "i_peer"), Proceed(p), UNCHANGED <<record, closing>> PROVE MovesOK(p)
    <2>1. PICK c \in Call : loc' = [loc EXCEPT ![p].call = c] BY <1>9 DEF Proceed
    <2>2. loc'[p].op = loc[p].op /\ loc'[p].want = loc[p].want BY <1>1, <2>1 DEF Locals
    <2>3. pc'[p] = "i_save" /\ pc[p] = "i_peer" BY <1>1, <1>9 DEF Proceed, Goto, At
    <2> QED BY <1>2, <1>9, <2>2, <2>3 DEF MovesOK
  <1>10. CASE CheckTarget(p)
    <2>1. UNCHANGED <<record, closing>> BY <1>10 DEF CheckTarget, lifecycleVars
    <2>2. Proceed(p) \/ Finish(p) BY <1>10 DEF CheckTarget
    <2> QED BY <1>3, <1>9, <1>10, <2>1, <2>2 DEF CheckTarget, At
  <1>11. CASE SaveRecord(p)
    <2>1. /\ pc'[p] = "ca_set" /\ pc[p] = "i_save"
          /\ loc'[p] = [loc[p] EXCEPT !.ret = "us_mongo", !.want = "ringing"]
      BY <1>1, <1>11 DEF SaveRecord, At
    <2>2. loc'[p].op = loc[p].op /\ loc'[p].want = "ringing" BY <1>1, <2>1 DEF Locals
    <2> QED BY <1>2, <1>11, <2>1, <2>2 DEF MovesOK
  <1>12. CASE StatusMongo(p)
    <2>1. pc[p] = "us_mongo" /\ pc'[p] = "us_get" /\ loc'[p].op = loc[p].op /\ loc'[p].want = loc[p].want
      BY <1>1, <1>12 DEF StatusMongo, Enter, At, Locals
    <2> QED BY <1>4, <2>1
  <1>13. CASE ArmRinging(p) \/ ArmConnecting(p) \/ ArmMaxDuration(p) \/ EndSchedule(p) \/ FailSchedule(p)
    BY <1>3, <1>13 DEF ArmRinging, ArmConnecting, ArmMaxDuration, EndSchedule, FailSchedule, At
  <1>14. CASE CheckRinging(p)
    <2>1. CASE Finish(p) BY <1>3, <1>14, <2>1 DEF CheckRinging, At
    <2>2. CASE ~Finish(p) BY <1>1, <1>4, <1>14, <2>2 DEF CheckRinging, At, Goto
    <2> QED BY <2>1, <2>2
  <1>15. CASE JoinParticipant(p) \/ EndRecord(p)
    <2>1. /\ pc[p] \in {"a_part", "e_mongo"} /\ pc'[p] = "us_mongo" /\ loc'[p].op = loc[p].op
          /\ loc'[p].want \in {"connecting", "ended"}
      BY <1>1, <1>15 DEF JoinParticipant, EndRecord, Goto, At, Locals
    <2> QED BY <1>4, <2>1
  <1>16. CASE \/ RecordStarted(p) \/ DeclineParticipant(p) \/ EndFind(p) \/ EndParticipant(p)
              \/ FailRecord(p) \/ CleanupDelete(p) \/ CleanupReadUser(p) \/ CleanupIdle(p)
    <2>1. /\ pc[p] \in {"c_started", "d_part", "e_find", "e_part", "f_mongo", "cl_del", "cl_stat", "cl_idle"}
          /\ pc'[p] \in {"arm_max", "e_find", "e_mongo", "e_sched", "f_sched", "cl_get", "cl_idle", "cl_srem"}
          /\ loc' = loc
      BY <1>1, <1>16 DEF RecordStarted, DeclineParticipant, EndFind, EndParticipant, FailRecord,
                         CleanupDelete, CleanupReadUser, CleanupIdle, Goto, At
    <2> QED BY <1>4, <2>1
  <1>17. CASE FailBegin(p)
    <2>1. /\ pc[p] = "f_begin" /\ pc'[p] = "us_mongo" /\ loc'[p].op = loc[p].op /\ loc'[p].want = "failed"
      BY <1>1, <1>17 DEF FailBegin, Goto, At, Locals
    <2> QED BY <1>2, <1>17, <2>1 DEF MovesOK
  <1>18. CASE CleanupGet(p)
    <2>1. pc[p] = "cl_get" /\ pc'[p] = "cl_srem" /\ loc'[p].op = loc[p].op /\ loc'[p].want = loc[p].want
      BY <1>1, <1>18 DEF CleanupGet, Goto, At, Locals
    <2> QED BY <1>4, <2>1
  <1>19. CASE CleanupUnlist(p)
    <2>1. CASE Finish(p) BY <1>3, <1>19, <2>1 DEF CleanupUnlist, At
    <2>2. CASE ~Finish(p)
      <3>1. PICK u \in loc[p].todo : /\ Goto(p, "cl_stat")
                                     /\ loc' = [loc EXCEPT ![p].user = u, ![p].todo = @ \ {u}]
        BY <1>19, <2>2 DEF CleanupUnlist
      <3>2. pc[p] = "cl_srem" /\ pc'[p] = "cl_stat" /\ loc'[p].op = loc[p].op /\ loc'[p].want = loc[p].want
        BY <1>1, <1>19, <3>1 DEF CleanupUnlist, Goto, At, Locals
      <3> QED BY <1>4, <3>2
    <2> QED BY <2>1, <2>2
  <1>20. ASSUME Return(p), loc'[p].op = loc[p].op, loc'[p].want = loc[p].want,
                pc[p] \in {"ca_list", "us_get", "us_set"}
         PROVE  MovesOK(p)
    <2>1. pc'[p] = loc[p].ret BY <1>1, <1>20 DEF Return, Goto
    <2>2. loc[p].ret \in {"us_mongo", "f_mongo", "arm_ring", "arm_conn", "c_started", "e_part", "e_sched"}
      BY <1>1, <1>20 DEF RestLabelOK, AfterStatus
    <2>3. loc[p].ret = "us_mongo" => pc[p] = "ca_list"
      BY <1>1, <1>20 DEF RestLabelOK, AfterStatus
    <2> QED BY <1>4, <1>20, <2>1, <2>2, <2>3 DEF WantOf
  <1>21. CASE RestSharedStep(p)
    <2>1. StoreStep(p) BY <1>21 DEF RestSharedStep
    <2>2. CASE CreateActiveSet(p) \/ CreateActiveUser(p)
      <3>1. /\ pc[p] \in {"ca_set", "ca_user"} /\ pc'[p] \in {"ca_user", "ca_list"} /\ loc' = loc
        BY <1>1, <2>2 DEF CreateActiveSet, CreateActiveUser, Goto, At
      <3> QED BY <1>4, <3>1 DEF WantOf
    <2>3. CASE CreateActiveList(p) BY <1>20, <2>3 DEF CreateActiveList, At
    <2>4. CASE UpdateStatusGet(p)
      <3>1. CASE Return(p) /\ loc' = loc BY <1>20, <2>4, <3>1 DEF UpdateStatusGet, At
      <3>2. CASE ~(Return(p) /\ loc' = loc)
        <4>1. pc[p] = "us_get" /\ pc'[p] = "us_set" /\ loc'[p].op = loc[p].op /\ loc'[p].want = loc[p].want
          BY <1>1, <2>4, <3>2 DEF UpdateStatusGet, Goto, At, Locals
        <4> QED BY <1>4, <4>1
      <3> QED BY <3>1, <3>2
    <2>5. CASE UpdateStatusSet(p)
      <3>1. Return(p) /\ pc[p] = "us_set" /\ loc'[p].op = loc[p].op /\ loc'[p].want = loc[p].want
        BY <1>1, <2>5 DEF UpdateStatusSet, At, Locals
      <3> QED BY <1>20, <3>1
    <2>6. pc[p] \in {"ca_set", "ca_user", "ca_list", "us_get", "us_set"}
      BY <1>1, <2>1, StoreStepLabel DEF RestLabelOK, StoreLabel, RestLabel
    <2> QED BY <2>1, <2>2, <2>3, <2>4, <2>5, <2>6
            DEF StoreStep, RemoveGet, RemoveSet, RemoveUser, RemoveList, EndGet, EndUsers, EndDel, At
  <1>22. CASE Fault(p)
    <2>1. pc[p] \in Throws /\ pc[p] # "f_begin" BY <1>22 DEF Fault, Throws
    <2>2. CASE Finish(p) BY <1>3, <2>1, <2>2
    <2>3. CASE ~Finish(p)
      <3>1. /\ pc'[p] = "f_begin" /\ loc'[p].op = loc[p].op /\ loc'[p].want = loc[p].want
            /\ loc[p].op \in {"initiate", "accept", "connect"}
        BY <1>1, <1>22, <2>3 DEF Fault, Goto, Locals
      <3>2. pc[p] # "idle" BY <2>1 DEF Throws
      <3> QED BY <1>2, <2>1, <3>1, <3>2 DEF MovesOK
    <2> QED BY <2>2, <2>3
  <1>23. CASE SilentFault(p)
    <2>1. CASE At(p, "i_self") /\ Goto(p, "i_peer") /\ UNCHANGED loc BY <1>1, <1>4, <2>1 DEF At, Goto
    <2>2. CASE At(p, "i_peer") /\ Proceed(p) BY <1>9, <1>23, <2>2 DEF SilentFault
    <2>3. CASE At(p, "ca_user") /\ Goto(p, "ca_list") /\ UNCHANGED loc
      BY <1>1, <1>4, <2>3 DEF At, Goto, WantOf
    <2>4. CASE pc[p] \in {"ca_list", "us_get"} /\ Return(p) /\ UNCHANGED loc BY <1>20, <2>4
    <2>5. CASE At(p, "a_get") /\ Finish(p) BY <1>3, <2>5 DEF At
    <2> QED BY <1>23, <2>1, <2>2, <2>3, <2>4, <2>5 DEF SilentFault
  <1> QED BY <1>6, <1>7, <1>8, <1>10, <1>11, <1>12, <1>13, <1>14, <1>15, <1>16, <1>17, <1>18, <1>19,
             <1>21, <1>22, <1>23 DEF RestSteps, Handler


-----------------------------------------------------------------------------
(* Where a turn of the socket path leads its slot.                          *)

SocketMoved(p) ==
  \/ pc'[p] = "idle" /\ loc'[p] = NoLocals
  \/ pc'[p] # "idle" /\ loc'[p].op \in SocketOp

LEMMA SocketMoves ==
  ASSUME NEW p \in Proc, SocketTypeOK, SlotOK(p), SocketSlot(p), SocketSteps(p)
  PROVE  SocketMoved(p)
  <1>1. /\ StoreTypeOK /\ SocketLabelOK(pc[p], loc[p]) /\ loc[p] \in Locals
        /\ pc \in [Proc -> Label] /\ loc \in [Proc -> Locals]
    BY AtFacts DEF SocketSlot, StoreTypeOK
  <1>2. pc[p] # "idle" => loc[p].op \in SocketOp BY DEF SlotOK, SocketSlot
  <1>3. Finish(p) => SocketMoved(p) BY <1>1, FinishFacts DEF SocketMoved
  <1>4. ASSUME pc[p] # "idle", pc'[p] # "idle", loc'[p].op = loc[p].op PROVE SocketMoved(p)
    BY <1>2, <1>4 DEF SocketMoved
  <1>5. ASSUME NEW k \in Label \ {"idle"}, NEW l \in Locals, Begin(p, k, l), l.op \in SocketOp
        PROVE  SocketMoved(p)
    BY <1>1, <1>5 DEF SocketMoved, Begin
  <1>6. /\ {"s_initiate", "s_accept", "s_decline", "s_hangup", "s_timeout", "disconnect"} \subseteq SocketOp
        /\ {"declined", "completed", "timeout"} \subseteq Reason
        /\ {"si_self", "sa_find", "sx_find", "st_get", "dc_list"} \subseteq Label \ {"idle"}
    BY DEF SocketOp, Reason, Label, SocketLabel
  <1>7. CASE SocketClient(p) \/ \E c \in Call : RingTimeout(p, c)
    <2>1. ASSUME NEW u \in User, NEW v \in User, SocketInitiate(p, u, v) PROVE SocketMoved(p)
      <3> DEFINE l == [NoLocals EXCEPT !.op = "s_initiate", !.user = u, !.peer = v]
      <3>1. l.op = "s_initiate" BY DEF NoLocals
      <3>2. l \in Locals BY StartTypes
      <3>3. Begin(p, "si_self", l) BY <2>1 DEF SocketInitiate
      <3> HIDE DEF l
      <3> QED BY <1>5, <1>6, <3>1, <3>2, <3>3
    <2>2. ASSUME NEW c \in Call, NEW u \in User \cup {NoUser}, NEW w \in {"declined", "completed", "timeout"},
                 NEW k \in {"sx_find", "st_get"}, NEW op \in {"s_decline", "s_hangup", "s_timeout"},
                 Begin(p, k, [NoLocals EXCEPT !.op = op, !.call = c, !.user = u, !.why = w])
          PROVE  SocketMoved(p)
      <3> DEFINE l == [NoLocals EXCEPT !.op = op, !.call = c, !.user = u, !.why = w]
      <3>1. l.op = op BY DEF NoLocals
      <3>2. l \in Locals BY <1>6, StartTypes
      <3>3. Begin(p, k, l) BY <2>2
      <3> HIDE DEF l
      <3> QED BY <1>5, <1>6, <3>1, <3>2, <3>3
    <2>3. ASSUME NEW c \in Call, NEW u \in User, SocketAccept(p, c, u) PROVE SocketMoved(p)
      <3> DEFINE l == [NoLocals EXCEPT !.op = "s_accept", !.call = c, !.user = u]
      <3>1. l.op = "s_accept" BY DEF NoLocals
      <3>2. l \in Locals BY StartTypes
      <3>3. Begin(p, "sa_find", l) BY <2>3 DEF SocketAccept
      <3> HIDE DEF l
      <3> QED BY <1>5, <1>6, <3>1, <3>2, <3>3
    <2>4. ASSUME NEW u \in User, Disconnect(p, u) PROVE SocketMoved(p)
      <3> DEFINE l == [NoLocals EXCEPT !.op = "disconnect", !.user = u]
      <3>1. l.op = "disconnect" BY DEF NoLocals
      <3>2. l \in Locals BY StartTypes
      <3>3. Begin(p, "dc_list", l) BY <2>4 DEF Disconnect
      <3> HIDE DEF l
      <3> QED BY <1>5, <1>6, <3>1, <3>2, <3>3
    <2>5. ASSUME NEW c \in Call, NEW u \in User, SocketDecline(p, c, u) \/ SocketHangup(p, c, u)
          PROVE  SocketMoved(p)
      BY <2>2, <2>5 DEF SocketDecline, SocketHangup
    <2>6. ASSUME NEW c \in Call, RingTimeout(p, c) PROVE SocketMoved(p)
      <3>1. record[c].caller \in User \cup {NoUser} BY <1>1, ParticipantFacts
      <3> QED BY <2>2, <2>6, <3>1 DEF RingTimeout
    <2> QED BY <1>7, <2>1, <2>3, <2>4, <2>5, <2>6 DEF SocketClient
  <1>8. CASE StorageError(p) \/ ArmRingTimer(p) \/ ClearOnAccept(p) \/ ClearOnEnd(p)
    BY <1>3, <1>8 DEF StorageError, ArmRingTimer, ClearOnAccept, ClearOnEnd
  <1>9. CASE \/ CreateRecord(p) \/ StoreSignaling(p) \/ MarkCaller(p) \/ WriteAccepted(p)
             \/ WriteSignaling(p) \/ MarkInitiatorInCall(p) \/ WriteEnded(p) \/ DeleteSignaling(p)
    BY <1>1, <1>4, <1>9 DEF CreateRecord, StoreSignaling, MarkCaller, WriteAccepted, WriteSignaling,
                            MarkInitiatorInCall, WriteEnded, DeleteSignaling, Goto, At
  <1>10. CASE ReadSignaling(p) \/ FindEnded(p) \/ CheckUnanswered(p) \/ FindAccepted(p)
    <2>1. CASE ~Finish(p)
      <3>1. pc[p] # "idle" /\ pc'[p] # "idle" /\ loc'[p].op = loc[p].op
        BY <1>1, <1>10, <2>1
           DEF ReadSignaling, FindEnded, CheckUnanswered, FindAccepted, Goto, At, Locals
      <3> QED BY <1>4, <3>1
    <2> QED BY <1>3, <2>1
  <1>11. CASE ReadCaller(p) \/ ReadMembers(p) \/ MarkTarget(p) \/ MarkAccepterInCall(p) \/ ReadActiveCalls(p)
    <2>1. pc[p] # "idle" /\ pc'[p] # "idle" /\ loc'[p].op = loc[p].op
      BY <1>1, <1>11 DEF ReadCaller, ReadMembers, MarkTarget, MarkAccepterInCall, ReadActiveCalls,
                         Enter, Goto, At, Locals
    <2> QED BY <1>4, <2>1
  <1>12. CASE IdleMembers(p) \/ EndIfAlone(p)
    <2>1. pc[p] # "idle" /\ pc'[p] # "idle" /\ loc'[p].op = loc[p].op
      BY <1>1, <1>12 DEF IdleMembers, EndIfAlone, Enter, Goto, At, Locals
    <2> QED BY <1>4, <2>1
  <1>13. CASE ReadTarget(p)
    <2>1. CASE ~Finish(p)
      <3>1. PICK c \in Call : loc' = [loc EXCEPT ![p].call = c] BY <1>13, <2>1 DEF ReadTarget
      <3>2. pc[p] # "idle" /\ pc'[p] # "idle" /\ loc'[p].op = loc[p].op
        BY <1>1, <1>13, <2>1, <3>1 DEF ReadTarget, Goto, At, Locals
      <3> QED BY <1>4, <3>2
    <2> QED BY <1>3, <2>1
  <1>14. CASE LeaveNextCall(p)
    <2>1. CASE ~Finish(p)
      <3>1. PICK c \in loc[p].calls :
              /\ pc' = [pc EXCEPT ![p] = "rp_get"]
              /\ loc' = [loc EXCEPT ![p].call = c, ![p].calls = @ \ {c}, ![p].ret = "dc_check"]
        BY <1>14, <2>1 DEF LeaveNextCall
      <3>2. pc[p] = "dc_next" /\ pc'[p] = "rp_get" /\ loc'[p].op = loc[p].op
        BY <1>1, <1>14, <3>1 DEF LeaveNextCall, At, Locals
      <3> QED BY <1>4, <3>2
    <2> QED BY <1>3, <2>1
  <1>15. CASE SocketSharedStep(p)
    <2>1. StoreStep(p) /\ pc[p] \in StoreLabel BY <1>15, StoreStepLabel DEF SocketSharedStep
    <2>2. loc'[p].op = loc[p].op
      BY <1>1, <2>1
         DEF StoreStep, CreateActiveSet, CreateActiveUser, CreateActiveList, UpdateStatusGet, UpdateStatusSet,
             RemoveGet, RemoveSet, RemoveUser, RemoveList, EndGet, EndUsers, EndDel, Locals
    <2>3. Return(p) /\ pc[p] \notin {"ca_set", "ca_user", "rp_set", "rp_user", "ec_users"} => pc'[p] # "idle"
      BY <1>1, <2>1, ReturnFacts DEF SocketLabelOK, EndingRedis, StoreLabel
    <2>4. pc'[p] # "idle"
      BY <1>1, <2>1, <2>3
         DEF StoreStep, CreateActiveSet, CreateActiveUser, CreateActiveList, UpdateStatusGet, UpdateStatusSet,
             RemoveGet, RemoveSet, RemoveUser, RemoveList, EndGet, EndUsers, EndDel, Goto, At
    <2> QED BY <1>4, <2>1, <2>2, <2>4 DEF StoreLabel
  <1> QED BY <1>7, <1>8, <1>9, <1>10, <1>11, <1>12, <1>13, <1>14, <1>15 DEF SocketSteps, SocketHandler

-----------------------------------------------------------------------------
(* What a turn of the REST path does to documents, Redis and lists.         *)

LEMMA RestDocuments ==
  ASSUME NEW p \in Proc, Ready(p), FreshOf(p), WantOf(p), loc[p].want # "initiating", RestSteps(p),
         NEW c \in Call
  PROVE  /\ Saved(c) => /\ Saved(c)' /\ record'[c].caller = record[c].caller
                        /\ record'[c].callee = record[c].callee
                        /\ Answered(c) => Answered(c)'
                        /\ record[c].status # "none" => record'[c].status # "none"
         /\ Saved(c)' /\ ~Saved(c) =>
              /\ c = loc[p].call /\ pc[p] = "i_save" /\ loc[p].user \in User /\ loc[p].peer \in User
              /\ record'[c] = NewRecord(loc[p].user, loc[p].peer)
         /\ ~Unsaved(c) => ~Unsaved(c)'
         /\ record'[c].status # record[c].status =>
              c = loc[p].call /\ pc[p] \in {"i_save", "us_mongo", "e_mongo", "f_mongo"}
  <1>1. RecordOK(p) /\ ClosesOK(p) /\ StoreTypeOK BY DocumentsWritten, ClosesAndArms, AtStep
  <1>2. NoRecord.status = "none" BY DEF NoRecord
  <1>3. CASE record' = record BY <1>1, <1>3 DEF Saved, Answered, Unsaved, ClosesOK
  <1>4. CASE SaveRecord(p) /\ loc[p].call \in Call /\ loc[p].user \in User /\ loc[p].peer \in User
    <2>1. /\ pc[p] = "i_save" /\ ~Saved(loc[p].call)
          /\ record' = [record EXCEPT ![loc[p].call] = NewRecord(loc[p].user, loc[p].peer)]
      BY <1>4 DEF SaveRecord, At, FreshOf, Saved
    <2>2. NewRecord(loc[p].user, loc[p].peer).status = "initiating" BY DEF NewRecord
    <2>3. CASE c = loc[p].call
      <3>1. record'[c] = NewRecord(loc[p].user, loc[p].peer) BY <1>1, <2>1, <2>3 DEF StoreTypeOK
      <3>2. Saved(c)' BY <1>2, <2>2, <3>1 DEF Saved
      <3> QED BY <1>4, <2>1, <2>3, <3>1, <3>2 DEF Saved, Unsaved
    <2>4. CASE c # loc[p].call
      <3>1. record'[c] = record[c] BY <1>1, <2>1, <2>4 DEF StoreTypeOK
      <3> QED BY <1>1, <3>1 DEF Saved, Answered, Unsaved, ClosesOK
    <2> QED BY <2>3, <2>4
  <1>5. CASE ~(\/ record' = record
               \/ SaveRecord(p) /\ loc[p].call \in Call /\ loc[p].user \in User /\ loc[p].peer \in User)
    <2>1. PICK d \in Call :
            /\ d = loc[p].call /\ record[d].status # "none"
            /\ \A e \in Call \ {d} : record'[e] = record[e]
            /\ record'[d].caller = record[d].caller /\ record'[d].callee = record[d].callee
            /\ \/ record'[d].status = record[d].status
               \/ pc[p] = "us_mongo" /\ record'[d].status = loc[p].want
               \/ pc[p] \in {"e_mongo", "f_mongo"} /\ record'[d].status \in TerminalStatus
      BY <1>1, <1>5 DEF RecordOK
    <2>2. record'[d].status # "none" BY <2>1 DEF WantOf, TerminalStatus
    <2>3. Answered(d) => Answered(d)' BY <2>1, <2>2 DEF Answered, TerminalStatus
    <2>4. Saved(d) /\ Saved(d)' BY <1>2, <2>1, <2>2 DEF Saved
    <2>5. CASE c = d BY <2>1, <2>2, <2>3, <2>4, <2>5 DEF Saved, Unsaved
    <2>6. CASE c # d BY <1>1, <2>1, <2>6 DEF Saved, Answered, Unsaved, ClosesOK
    <2> QED BY <2>5, <2>6
  <1> QED BY <1>3, <1>4, <1>5

LEMMA RestStores ==
  ASSUME NEW p \in Proc, Ready(p), RestSteps(p)
  PROVE  /\ \A c \in Call : active'[c] # active[c] => c = loc[p].call /\ pc[p] \in {"ca_set", "us_set", "cl_del"}
         /\ \A u \in User : \A c \in userCalls'[u] :
              c \in userCalls[u] \/ (c = loc[p].call /\ pc[p] = "ca_list")
  <1> DEFINE Kept == /\ \A c \in Call : active'[c] # active[c] =>
                          c = loc[p].call /\ pc[p] \in {"ca_set", "us_set", "cl_del"}
                     /\ \A u \in User : \A c \in userCalls'[u] :
                          c \in userCalls[u] \/ (c = loc[p].call /\ pc[p] = "ca_list")
  <1>1. StoreTypeOK /\ RestLabelOK(pc[p], loc[p]) BY AtStep
  <1>2. UNCHANGED <<active, userCalls>> => Kept OBVIOUS
  <1>3. CASE RestSharedStep(p)
    <2>1. CASE CreateActiveSet(p) \/ UpdateStatusSet(p)
      BY <1>1, <2>1 DEF CreateActiveSet, UpdateStatusSet, At, StoreTypeOK
    <2>2. CASE CreateActiveList(p) BY <1>1, <2>2 DEF CreateActiveList, At, StoreTypeOK
    <2>3. CASE CreateActiveUser(p) \/ UpdateStatusGet(p) BY <1>2, <2>3 DEF CreateActiveUser, UpdateStatusGet, keys
    <2>4. pc[p] \in {"ca_set", "ca_user", "ca_list", "us_get", "us_set"}
      BY <1>1, <1>3, StoreStepLabel DEF RestSharedStep, RestLabelOK, StoreLabel, RestLabel
    <2> QED BY <1>3, <2>1, <2>2, <2>3, <2>4
            DEF RestSharedStep, StoreStep, RemoveGet, RemoveSet, RemoveUser, RemoveList, EndGet, EndUsers, EndDel, At
  <1>4. CASE CleanupDelete(p) BY <1>1, <1>4 DEF CleanupDelete, At, StoreTypeOK
  <1>5. CASE CleanupUnlist(p)
    <2>1. active' = active BY <1>5 DEF CleanupUnlist
    <2>2. \A u \in User : userCalls'[u] \subseteq userCalls[u]
      <3>1. userCalls \in [User -> SUBSET Call] BY <1>1 DEF StoreTypeOK
      <3>2. \/ userCalls' = userCalls
            \/ \E u \in loc[p].todo : userCalls' = [userCalls EXCEPT ![u] = @ \ {loc[p].call}]
        BY <1>5 DEF CleanupUnlist
      <3> QED BY <3>1, <3>2
    <2> QED BY <2>1, <2>2
  <1>6. CASE Client(p) \/ Clock(p) \/ Fault(p) \/ SilentFault(p)
    BY <1>2, <1>6
    DEF Client, InitiateCall, AcceptCall, MarkConnected, DeclineCall, HangupCall, Clock, RingingTimeout,
        ConnectingTimeout, MaxDurationTimeout, CleanupCall, Fault, SilentFault, keys
  <1>7. CASE Handler(p) /\ ~CleanupDelete(p) /\ ~CleanupUnlist(p)
    BY <1>2, <1>7
    DEF Handler, CheckInitiator, CheckTarget, SaveRecord, StatusMongo, ArmRinging, CheckRinging,
        JoinParticipant, ArmConnecting, RecordStarted, ArmMaxDuration, DeclineParticipant, EndFind,
        EndRecord, EndParticipant, EndSchedule, FailBegin, FailRecord, FailSchedule, CleanupGet,
        CleanupReadUser, CleanupIdle, keys
  <1> QED BY <1>3, <1>4, <1>5, <1>6, <1>7 DEF RestSteps

\* What holds after a turn of the REST path, of p and of what it works on.
LEMMA RestAfter ==
  ASSUME CallsInv, NEW p \in Proc, RestTurn(p)
  PROVE  /\ Ready(p) /\ FreshOf(p) /\ HeldOf(p) /\ WantOf(p) /\ loc[p].want # "initiating" /\ RestSteps(p)
         /\ Handed(p) /\ MovesOK(p) /\ ClosesOK(p) /\ NamesOK(p) /\ RecordOK(p)
         /\ StoreTypeOK /\ UNCHANGED <<callTimer, events, disconnects, errors, abandoned>>
  <1>1. Ready(p) /\ SlotOK(p) /\ Untimed /\ StoreTypeOK BY TurnFacts DEF CallsInv, RestTurn
  <1>2. RestSlot(p) /\ RestSteps(p) /\ WantOf(p) BY DEF RestTurn, RestSlot
  <1>3. Handed(p) /\ MovesOK(p) /\ ClosesOK(p) /\ NamesOK(p) /\ RecordOK(p)
    BY <1>1, <1>2, StepHanded, RestMoves, ClosesAndArms, Names, DocumentsWritten DEF RestSteps
  <1> QED BY <1>1, <1>2, <1>3 DEF RestTurn, RestSlot, signalingVars

-----------------------------------------------------------------------------
(* A turn of the REST path keeps what both paths rely on.                   *)

LEMMA RestKeepsStore ==
  ASSUME CallsInv, NEW p \in Proc, RestTurn(p)
  PROVE  TypeOK' /\ CleanupsKnown' /\ Untimed' /\ Documented'
  <1>1. /\ Ready(p) /\ FreshOf(p) /\ HeldOf(p) /\ WantOf(p) /\ loc[p].want # "initiating" /\ RestSteps(p)
        /\ Handed(p) /\ ClosesOK(p) /\ StoreTypeOK
        /\ UNCHANGED <<callTimer, events, disconnects, errors, abandoned>>
    BY RestAfter
  <1>2. TypeOK' /\ CleanupsKnown'
    BY <1>1 DEF CallsInv, TypeOK, Handed, RestTypeOK, SignalingTypeOK
  <1>3. Untimed'
    <2> SUFFICES ASSUME NEW c \in Call, Unsaved(c)' PROVE ~Timed(c)'
      BY DEF Untimed
    <2>1. Unsaved(c) /\ ~Timed(c) BY <1>1, RestDocuments DEF CallsInv, Untimed
    <2> QED BY <1>1, <2>1 DEF ClosesOK, HeldOf
  <1>4. Documented'
    <2>1. ASSUME NEW c \in Call, Saved(c)'
          PROVE  record'[c].caller \in User /\ record'[c].callee \in User /\ record'[c].status # "none"
      <3>1. CASE Saved(c) BY <1>1, <3>1, RestDocuments DEF CallsInv, Documented
      <3>2. CASE ~Saved(c)
        <4>1. /\ record'[c] = NewRecord(loc[p].user, loc[p].peer)
              /\ loc[p].user \in User /\ loc[p].peer \in User
          BY <1>1, <2>1, <3>2, RestDocuments
        <4> QED BY <4>1, NewRecordFacts
      <3> QED BY <3>1, <3>2
    <2>2. \A c \in Call : Saved(c) => Saved(c)' BY <1>1, RestDocuments
    <2>3. callTimer \subseteq Call /\ \A u \in User : userCalls[u] \subseteq Call
      BY <1>1 DEF CallsInv, TypeOK, SignalingTypeOK, StoreTypeOK
    <2>4. pc[p] = "ca_list" => loc[p].call \in Call /\ Saved(loc[p].call)
      BY <1>1 DEF RestTurn, RestSlot, RestLabelOK
    <2>5. \A u \in User : \A c \in userCalls'[u] : c \in userCalls[u] \/ (c = loc[p].call /\ pc[p] = "ca_list")
      BY <1>1, RestStores
    <2> QED BY <1>1, <2>1, <2>2, <2>3, <2>4, <2>5 DEF CallsInv, Documented
  <1> QED BY <1>2, <1>3, <1>4

LEMMA RestKeepsOwnSlot ==
  ASSUME CallsInv, NEW p \in Proc, RestTurn(p)
  PROVE  SlotOK(p)'
  <1>1. /\ Ready(p) /\ FreshOf(p) /\ HeldOf(p) /\ WantOf(p) /\ loc[p].want # "initiating" /\ RestSteps(p)
        /\ Handed(p) /\ MovesOK(p) /\ ClosesOK(p) /\ NamesOK(p) /\ StoreTypeOK
    BY RestAfter
  <1>2. NoLocals.op = "none" /\ NoLocals.call = NoCall /\ NoCall \notin Call
    BY CallStoreAssumption DEF NoLocals
  <1>3. \A q \in Proc \ {p} : pc'[q] = pc[q] /\ loc'[q] = loc[q] BY <1>1 DEF Handed
  <1>4. FreshOf(p)'
    <2>1. ASSUME pc'[p] = "i_save" PROVE FreshOf(p)'
      <3>1. Proceed(p) /\ UNCHANGED <<record, closing>> BY <1>1, <2>1 DEF MovesOK
      <3>2. PICK c \in Call : /\ record[c] = NoRecord /\ c \notin closing
                              /\ \A q \in Proc : loc[q].call # c
                              /\ loc' = [loc EXCEPT ![p].call = c]
        BY <3>1 DEF Proceed
      <3>3. loc'[p].call = c BY <1>1, <3>2 DEF StoreTypeOK, Locals
      <3> QED BY <1>3, <3>1, <3>2, <3>3 DEF FreshOf
    <2> QED BY <2>1 DEF FreshOf
  <1>5. HeldOf(p)'
    <2> SUFFICES ASSUME NEW c \in Call, c = loc'[p].call, Unsaved(c)'
                 PROVE  pc'[p] \in {"i_save", "f_begin"}
      BY DEF HeldOf, Unsaved
    <2>1. Unsaved(c) BY <1>1, RestDocuments
    <2>2. CASE c = loc[p].call
      <3>1. pc[p] \in {"i_save", "f_begin"} BY <1>1, <2>1, <2>2 DEF HeldOf
      <3>2. ~SaveRecord(p)
        <4>1. ASSUME SaveRecord(p) PROVE FALSE
          <5>1. record'[c] = NewRecord(loc[p].user, loc[p].peer)
            BY <1>1, <2>2, <4>1 DEF SaveRecord, StoreTypeOK
          <5>2. NewRecord(loc[p].user, loc[p].peer).status # NoRecord.status
            BY DEF NewRecord, NoRecord
          <5> QED BY <5>1, <5>2 DEF Unsaved
        <4> QED BY <4>1
      <3>3. ~FailBegin(p) BY <2>2 DEF FailBegin, Unsaved
      <3>4. loc'[p] # NoLocals BY <1>2
      <3> QED BY <1>1, <3>1, <3>2, <3>3, <3>4 DEF MovesOK
    <2> QED BY <1>1, <1>2, <2>1, <2>2 DEF NamesOK
  <1>6. ASSUME pc'[p] \in {"ca_set", "ca_user", "ca_list"} PROVE record'[loc'[p].call] # NoRecord
    <2>1. loc'[p].call \in Call BY <1>1, <1>6 DEF Handed, RestLabelOK
    <2>2. CASE pc'[p] = "ca_set"
      <3>1. SaveRecord(p) /\ loc'[p].call = loc[p].call
        BY <1>1, <2>2 DEF MovesOK, SaveRecord, StoreTypeOK, Locals
      <3>2. record'[loc'[p].call] = NewRecord(loc[p].user, loc[p].peer)
        BY <1>1, <2>1, <3>1 DEF SaveRecord, StoreTypeOK
      <3>3. NewRecord(loc[p].user, loc[p].peer).status # NoRecord.status BY DEF NewRecord, NoRecord
      <3> QED BY <3>2, <3>3
    <2>3. CASE pc'[p] # "ca_set"
      <3>1. pc[p] \in {"ca_set", "ca_user"} /\ loc'[p].call = loc[p].call
        BY <1>1, <1>6, <2>3 DEF MovesOK
      <3>2. Saved(loc[p].call) BY <3>1 DEF RestTurn, RestSlot
      <3> QED BY <1>1, <2>1, <3>1, <3>2, RestDocuments DEF Saved
    <2> QED BY <2>2, <2>3
  <1>7. pc'[p] = "cl_del" => loc'[p].call \in closing' BY <1>1 DEF MovesOK, Handed, Ready, CleanupsKnown
  <1>8. RestLabelOK(pc'[p], loc'[p]) /\ ClosingOK(pc'[p], loc'[p], closing') BY <1>1 DEF Handed
  <1>9. WantOf(p)' BY <1>1 DEF MovesOK, WantOf
  <1>10. loc'[p].want # "initiating" BY <1>1 DEF MovesOK
  <1>11. \/ pc'[p] = "idle" /\ loc'[p] = NoLocals
         \/ pc'[p] # "idle" /\ loc'[p].op \in RestOp
    BY <1>1 DEF MovesOK
  <1>12. RestSlot(p)' BY <1>2, <1>4, <1>5, <1>6, <1>7, <1>8, <1>9, <1>10, <1>11 DEF RestSlot, Saved
  <1> QED BY <1>11, <1>12, Paths DEF SlotOK

LEMMA RestKeepsRestSlot ==
  ASSUME CallsInv, NEW p \in Proc, RestTurn(p), NEW q \in Proc \ {p}, RestSlot(q)
  PROVE  RestSlot(q)'
  <1>1. /\ Ready(p) /\ FreshOf(p) /\ WantOf(p) /\ loc[p].want # "initiating" /\ RestSteps(p)
        /\ Handed(p) /\ ClosesOK(p) /\ NamesOK(p) /\ RecordOK(p) /\ StoreTypeOK
    BY RestAfter
  <1>2. \A r \in Proc \ {p} : pc'[r] = pc[r] /\ loc'[r] = loc[r] BY <1>1 DEF Handed
  <1>3. \A c \in Call : (Saved(c) => Saved(c)') /\ (~Unsaved(c) => ~Unsaved(c)') BY <1>1, RestDocuments
  <1>3a. \A c \in Call : Saved(c)' /\ ~Saved(c) => c = loc[p].call BY <1>1, RestDocuments
  <1>4. HeldOf(q)' BY <1>2, <1>3 DEF RestSlot, HeldOf
  <1>5. FreshOf(q)'
    <2>1. ASSUME pc[q] = "i_save" PROVE FreshOf(q)'
      <3>1. /\ loc[q].call \in Call /\ Unsaved(loc[q].call) /\ ~Saved(loc[q].call)
            /\ \A r \in Proc \ {q} : loc[r].call # loc[q].call
        BY <2>1 DEF RestSlot, FreshOf, Unsaved, Saved, RestLabelOK
      <3>2. record'[loc[q].call] = NoRecord BY <1>3a, <3>1 DEF Saved
      <3>3. loc[q].call \notin closing' BY <1>1, <3>1 DEF ClosesOK, Unsaved
      <3>4. loc'[p].call # loc[q].call BY <1>1, <3>1, CallStoreAssumption DEF NamesOK
      <3> QED BY <1>2, <3>1, <3>2, <3>3, <3>4 DEF FreshOf, Saved
    <2> QED BY <1>2, <2>1 DEF FreshOf
  <1>6. pc'[q] \in {"ca_set", "ca_user", "ca_list"} => record'[loc'[q].call] # NoRecord
    BY <1>2, <1>3 DEF RestSlot, RestLabelOK, Saved
  <1>7. closing \subseteq closing' BY <1>1 DEF ClosesOK
  <1>8. ClosingOK(pc'[q], loc'[q], closing') BY <1>2, <1>7 DEF RestSlot, ClosingOK
  <1> QED BY <1>2, <1>4, <1>5, <1>6, <1>7, <1>8 DEF RestSlot, WantOf, Saved

LEMMA RestKeepsSocketSlot ==
  ASSUME CallsInv, NEW p \in Proc, RestTurn(p), NEW q \in Proc \ {p}, SocketSlot(q)
  PROVE  SocketSlot(q)'
  <1>1. /\ Ready(p) /\ FreshOf(p) /\ WantOf(p) /\ loc[p].want # "initiating" /\ RestSteps(p)
        /\ Handed(p) /\ MovesOK(p) /\ ClosesOK(p) /\ NamesOK(p) /\ StoreTypeOK
        /\ UNCHANGED <<callTimer, events, disconnects, errors, abandoned>>
    BY RestAfter
  <1>2. \A r \in Proc \ {p} : pc'[r] = pc[r] /\ loc'[r] = loc[r] BY <1>1 DEF Handed
  <1>3. Knows(q) /\ OwnRing(q) /\ loc[q].calls \subseteq Call BY TurnFacts DEF CallsInv
  <1>4. SocketLabelOK(pc[q], loc[q]) /\ Informed(q) BY <1>3 DEF Knows
  <1>5. Informed(q)'
    <2>1. ASSUME NEW c \in Call, loc[q].call = c PROVE Saved(c)' <=> Saved(c)
      <3>1. Saved(c)' /\ ~Saved(c) => c = loc[p].call /\ pc[p] = "i_save" BY <1>1, RestDocuments
      <3> QED BY <1>1, <2>1, <3>1, RestDocuments DEF FreshOf
    <2>2. \A c \in Call : Saved(c) => /\ Saved(c)' /\ record'[c].caller = record[c].caller
                                      /\ record'[c].callee = record[c].callee
                                      /\ (Answered(c) => Answered(c)')
      BY <1>1, RestDocuments
    <2> QED BY <1>1, <1>2, <1>3, <2>1, <2>2, InformedStays
  <1>6. ASSUME loc[q].op = "s_initiate", NEW c \in Call, loc[q].call = c, loc'[p].call = c
        PROVE  loc'[p].op # "s_initiate" /\ pc'[p] # "st_get" /\ pc[q] # "si_save"
    <2>1. RestLabelOK(pc'[p], loc'[p]) BY <1>1 DEF Handed
    <2>2. loc'[p].op # "s_initiate" BY <1>1, Paths DEF MovesOK, NoLocals, SocketOp
    <2>3. pc'[p] # "st_get" BY <2>1 DEF RestLabelOK, RestLabel
    <2>4. pc[q] # "si_save"
      <3> SUFFICES ASSUME pc[q] = "si_save" PROVE FALSE OBVIOUS
      <3>1. ~Saved(c) /\ c \notin closing BY <1>4, <1>6 DEF Informed, SocketSlot
      <3>2. loc[p].call # c BY <1>3, <1>6 DEF OwnRing
      <3> QED BY <1>1, <1>6, <3>1, <3>2, CallStoreAssumption DEF NamesOK, Unsaved, Saved
    <2> QED BY <2>2, <2>3, <2>4
  <1>7. OwnRing(q)' BY <1>1, <1>2, <1>3, <1>6 DEF OwnRing
  <1>8. pc'[q] = "si_save" => loc'[q].call \notin closing'
    <2> SUFFICES ASSUME pc[q] = "si_save", loc[q].call \in closing' PROVE FALSE
      BY <1>2
    <2>1. loc[q].op = "s_initiate" /\ loc[q].call \in Call BY <1>4 DEF SocketLabelOK
    <2>2. loc[p].call # loc[q].call BY <1>3, <2>1 DEF OwnRing
    <2> QED BY <1>1, <2>1, <2>2 DEF ClosesOK, SocketSlot
  <1> QED BY <1>2, <1>4, <1>5, <1>7, <1>8 DEF SocketSlot, Knows

LEMMA RestKeepsRing ==
  ASSUME CallsInv, NEW p \in Proc, RestTurn(p), NEW c \in Call
  PROVE  RingOK(c)'
  <1>1. /\ Ready(p) /\ FreshOf(p) /\ WantOf(p) /\ loc[p].want # "initiating" /\ RestSteps(p)
        /\ Handed(p) /\ MovesOK(p) /\ ClosesOK(p) /\ StoreTypeOK
        /\ UNCHANGED <<callTimer, events, disconnects, errors, abandoned>>
    BY RestAfter
  <1>2. \A q \in Proc \ {p} : pc'[q] = pc[q] /\ loc'[q] = loc[q] BY <1>1 DEF Handed
  <1>3. /\ loc[p].op \in RestOp \cup {"none"} /\ loc'[p].op \in RestOp \cup {"none"}
        /\ RestLabelOK(pc[p], loc[p]) /\ ClosingOK(pc[p], loc[p], closing)
        /\ pc[p] = "cl_del" => loc[p].call \in closing
    BY <1>1 DEF RestTurn, RestSlot, MovesOK, NoLocals
  <1>4. Watched(c) => Watched(c)'
    <2> SUFFICES ASSUME Watched(c), c \notin closing' PROVE Timed(c)' \/ \E q \in Proc : (loc[q].call = c /\ Driving(q))'
      BY DEF Watched
    <2>1. /\ Timed(c) => Timed(c)' \/ (loc'[p].call = c /\ Driving(p)')
          /\ loc[p].call = c /\ Driving(p) => Timed(c)' \/ (loc'[p].call = c /\ Driving(p)')
          /\ c \notin closing
      BY <1>1 DEF Handed
    <2>2. \A q \in Proc \ {p} : loc[q].call = c /\ Driving(q) => loc'[q].call = c /\ Driving(q)'
      BY <1>2 DEF Driving
    <2> QED BY <2>1, <2>2 DEF Watched
  <1>5. ASSUME ~Watched(c)'
        PROVE  record'[c].status # "ringing" /\ StillRingingOf(c)' /\ FollowedUp(c)'
    <2>1. /\ ~Watched(c) /\ c \notin closing
          /\ record[c].status # "ringing" /\ StillRingingOf(c) /\ FollowedUp(c)
      BY <1>4, <1>5 DEF CallsInv, RingOK, Watched
    <2>2. ~(loc[p].call = c /\ Driving(p)) /\ ~(loc'[p].call = c /\ Driving(p)')
      BY <1>5, <2>1 DEF Watched
    <2>3. loc[p].call = c =>
            pc[p] \notin {"us_mongo", "us_get", "us_set", "ca_set", "e_mongo", "f_mongo", "cl_del", "i_save"}
      <3>1. loc[p].call = c => pc[p] \notin {"ca_set", "i_save"}
        BY <1>3, <2>2 DEF RestLabelOK, Driving
      <3> QED BY <1>3, <2>1, <2>2, <3>1 DEF ClosingOK, Driving
    <2>4. record'[c].status = record[c].status BY <1>1, <2>3, RestDocuments
    <2>5. active'[c] = active[c] BY <1>1, <2>3, RestStores
    <2>6. "s_initiate" \notin RestOp \cup {"none"} /\ "s_timeout" \notin RestOp \cup {"none"}
      BY DEF RestOp
    <2>7. StillRingingOf(c)' BY <1>1, <1>2, <1>3, <2>1, <2>4, <2>5, <2>6 DEF StillRingingOf, Starting
    <2>8. FollowedUp(c)' BY <1>1, <1>2, <1>3, <2>1, <2>4, <2>6 DEF FollowedUp, Ringing
    <2> QED BY <2>1, <2>4, <2>7, <2>8
  <1> QED BY <1>5 DEF RingOK

LEMMA RestTurnKeeps ==
  ASSUME CallsInv, NEW p \in Proc, RestTurn(p)
  PROVE  CallsInv'
  <1>1. ASSUME NEW q \in Proc \ {p} PROVE SlotOK(q)'
    <2>1. SlotOK(q) BY DEF CallsInv
    <2>2. pc'[q] = pc[q] /\ loc'[q] = loc[q] BY RestAfter DEF Handed
    <2>3. (RestSlot(q) \/ SocketSlot(q))' BY <2>1, RestKeepsRestSlot, RestKeepsSocketSlot DEF SlotOK
    <2> QED BY <2>1, <2>2, <2>3 DEF SlotOK
  <1>2. \A q \in Proc : SlotOK(q)' BY <1>1, RestKeepsOwnSlot
  <1>3. \A c \in Call : RingOK(c)' BY RestKeepsRing
  <1> QED BY <1>2, <1>3, RestKeepsStore DEF CallsInv

-----------------------------------------------------------------------------
(* A turn of the socket path keeps what both paths rely on.                 *)

\* A ring timer is scheduled by the handler that announces the call, as it ends.
LEMMA TimersGrow ==
  ASSUME StoreTypeOK, NEW p \in Proc, SocketSteps(p)
  PROVE  \A c \in callTimer' : c \in callTimer \/ (c = loc[p].call /\ pc[p] = "si_arm" /\ pc'[p] = "idle")
  <1>1. CASE Timing(p)
    BY <1>1, FinishAt DEF Timing, ArmRingTimer, ClearOnAccept, ClearOnEnd, LeaveNextCall, RingTimeout, At
  <1> QED BY <1>1, StepSplit, Writes DEF Quiet

LEMMA SocketAfter ==
  ASSUME CallsInv, NEW p \in Proc, SocketTurn(p)
  PROVE  /\ SocketTypeOK /\ StoreTypeOK /\ Documented /\ SlotOK(p) /\ SocketSlot(p) /\ SocketSteps(p)
         /\ Knows(p) /\ OwnRing(p) /\ SocketLabelOK(pc[p], loc[p]) /\ Informed(p)
         /\ Knows(p)' /\ Comes(p) /\ SocketMoved(p) /\ Others(p)
         /\ UNCHANGED <<timer, stray, pending, requests, faults, closing>>
  <1>1. /\ SocketTypeOK /\ StoreTypeOK /\ Documented /\ SlotOK(p) /\ SocketSlot(p) /\ SocketSteps(p)
        /\ Knows(p) /\ OwnRing(p)
    BY TurnFacts DEF CallsInv, SocketTurn
  <1> QED BY <1>1, KnowsStep, ComesStep, SocketMoves, StepLabel DEF Knows, SocketTurn, lifecycleVars

LEMMA SocketKeepsStore ==
  ASSUME CallsInv, NEW p \in Proc, SocketTurn(p)
  PROVE  TypeOK' /\ CleanupsKnown' /\ Untimed' /\ Documented'
  <1>1. /\ SocketTypeOK /\ Documented /\ SocketSteps(p) /\ Knows(p)
        /\ UNCHANGED <<timer, stray, pending, requests, faults, closing>>
    BY SocketAfter
  <1>2. SocketTypeOK' /\ Documented' BY <1>1, SlotType, DocumentedStep
  <1>3. TypeOK' BY <1>1, <1>2 DEF CallsInv, TypeOK, SocketTypeOK, LifecycleTypeOK
  <1>4. CleanupsKnown' BY <1>1 DEF CallsInv, CleanupsKnown
  <1>5. \A c \in Call : Saved(c) => Saved(c)' BY <1>1, RecordStep
  <1>6. Untimed' BY <1>1, <1>5 DEF CallsInv, Untimed, Unsaved, Saved, Timed
  <1> QED BY <1>2, <1>3, <1>4, <1>6

\* Only the handler of an announced call, or its timer, may come to a call another one began.
LEMMA OwnRingKept ==
  ASSUME CallsInv, NEW p \in Proc, SocketTurn(p), NEW x \in Proc, SocketSlot(x)
  PROVE  OwnRing(x)'
  <1> SUFFICES ASSUME NEW c \in Call, loc'[x].op = "s_initiate", loc'[x].call = c
               PROVE  /\ c \notin callTimer'
                      /\ \A q \in Proc \ {x} : loc'[q].call = c =>
                           loc'[q].op # "s_initiate" /\ pc'[q] # "st_get" /\ pc'[x] # "si_save"
    BY DEF OwnRing
  <1>1. /\ SocketTypeOK /\ StoreTypeOK /\ Documented /\ SocketSteps(p) /\ Knows(p) /\ OwnRing(p)
        /\ SocketLabelOK(pc[p], loc[p]) /\ Informed(p) /\ Knows(p)' /\ Comes(p) /\ SocketMoved(p) /\ Others(p)
    BY SocketAfter
  <1>2. SocketLabelOK(pc'[p], loc'[p]) BY <1>1 DEF Knows
  <1>3. \A d \in callTimer' : d \in callTimer \/ (d = loc[p].call /\ pc[p] = "si_arm" /\ pc'[p] = "idle")
    BY <1>1, TimersGrow
  <1>4. CASE x # p
    <2>1. loc[x].op = "s_initiate" /\ loc[x].call = c /\ pc'[x] = pc[x] /\ loc'[x] = loc[x]
      BY <1>1, <1>4 DEF Others
    <2>2. /\ c \notin callTimer
          /\ \A q \in Proc \ {x} : loc[q].call = c =>
               loc[q].op # "s_initiate" /\ pc[q] # "st_get" /\ pc[x] # "si_save"
      BY <2>1 DEF SocketSlot, OwnRing
    <2>3. Saved(c) => pc[x] # "si_save" BY <2>1 DEF SocketSlot, Knows, Informed
    <2>4. c \notin callTimer'
      <3>1. pc[p] = "si_arm" => loc[p].op = "s_initiate" BY <1>1, CallFacts
      <3> QED BY <1>3, <1>4, <2>2, <3>1
    <2>5. ASSUME loc'[p].call = c
          PROVE  loc'[p].op # "s_initiate" /\ pc'[p] # "st_get" /\ pc[x] # "si_save"
      <3>1. CASE loc[p].call = c /\ loc'[p].op = loc[p].op /\ pc'[p] # "st_get"
        BY <1>4, <2>2, <3>1
      <3>2. CASE Announced(c) /\ pc'[p] \in {"sa_find", "sx_find"}
        <4>1. loc'[p].op # "s_initiate" BY <1>2, <3>2, LabelSets DEF SocketLabelOK
        <4> QED BY <2>3, <3>2, <4>1 DEF Announced, Saved
      <3>3. CASE c \in callTimer BY <2>2, <3>3
      <3>4. CASE Fresh(c) BY <2>1, <3>4 DEF Fresh
      <3>5. CASE c \in loc[p].calls /\ pc'[p] = "rp_get"
        <4>1. loc'[p].op # "s_initiate" BY <1>2, <3>5, LabelSets DEF SocketLabelOK
        <4>2. Saved(c) BY <1>1, <3>5 DEF Informed
        <4> QED BY <2>3, <3>5, <4>1, <4>2
      <3> QED BY <1>1, <2>5, <3>1, <3>2, <3>3, <3>4, <3>5, CallStoreAssumption DEF Comes
    <2> QED BY <1>1, <2>1, <2>2, <2>4, <2>5 DEF Others
  <1>5. CASE x = p
    <2>1. \A q \in Proc \ {p} : pc'[q] = pc[q] /\ loc'[q] = loc[q] BY <1>1 DEF Others
    <2>2. CASE Fresh(c)
      <3>1. c \notin callTimer BY <1>1, <2>2 DEF Documented, Fresh
      <3>2. \A q \in Proc : loc[q].call # c BY <2>2 DEF Fresh
      <3> QED BY <1>3, <1>5, <2>1, <3>1, <3>2
    <2>3. CASE loc[p].call = c /\ loc[p].op = "s_initiate"
      <3>1. /\ c \notin callTimer
            /\ \A q \in Proc \ {p} : loc[q].call = c => loc[q].op # "s_initiate" /\ pc[q] # "st_get"
        BY <1>1, <2>3 DEF OwnRing
      <3>2. pc'[p] # "idle" BY <1>1, <1>5, CallStoreAssumption DEF SocketMoved, NoLocals
      <3>3. pc[p] \in Unannounced \cup {"si_arm"}
        BY <1>1, <2>3, CallStoreAssumption, LabelSets DEF SocketLabelOK
      <3>4. pc'[p] # "si_save"
        BY <1>1, <3>3, InitiatorSteps, FinishAt, LabelSets
           DEF Initiator, CreateRecord, StoreSignaling, MarkCaller, MarkTarget, ArmRingTimer, StorageError,
               CreateActiveSet, CreateActiveUser, CreateActiveList, Enter, Goto, StoreTypeOK, At, Return,
               SocketLabelOK
      <3> QED BY <1>3, <1>5, <2>1, <3>1, <3>2, <3>4
    <2>4. pc'[p] \in {"sa_find", "sx_find", "rp_get"} => loc'[p].op # "s_initiate"
      BY <1>2, LabelSets DEF SocketLabelOK
    <2> QED BY <1>1, <1>5, <2>2, <2>3, <2>4, CallStoreAssumption DEF Comes
  <1> QED BY <1>4, <1>5

LEMMA SocketKeepsOwnSlot ==
  ASSUME CallsInv, NEW p \in Proc, SocketTurn(p)
  PROVE  SlotOK(p)'
  <1>1. Knows(p)' /\ SocketMoved(p) /\ SocketSlot(p) /\ UNCHANGED closing BY SocketAfter
  <1>2. OwnRing(p)' BY <1>1, OwnRingKept
  <1>3. loc'[p].op \in SocketOp \cup {"none"} BY <1>1 DEF SocketMoved, NoLocals
  <1>4. pc'[p] = "si_save" => loc'[p].call \notin closing' BY <1>1 DEF SocketTurn
  <1>5. SocketSlot(p)' BY <1>1, <1>2, <1>3, <1>4 DEF SocketSlot
  <1> QED BY <1>1, <1>5, Paths DEF SocketMoved, SlotOK

LEMMA SocketKeepsRestSlot ==
  ASSUME CallsInv, NEW p \in Proc, SocketTurn(p), NEW q \in Proc \ {p}, RestSlot(q)
  PROVE  RestSlot(q)'
  <1>1. /\ SocketTypeOK /\ Documented /\ SocketSteps(p) /\ Knows(p) /\ Informed(p) /\ Comes(p) /\ Others(p)
        /\ closing' = closing
    BY SocketAfter
  <1>2. \A r \in Proc \ {p} : pc'[r] = pc[r] /\ loc'[r] = loc[r] BY <1>1 DEF Others
  <1>3. \A c \in Call : Saved(c) => Saved(c)' BY <1>1, RecordStep
  <1>3a. \A c \in Call : Saved(c)' /\ ~Saved(c) => c = loc[p].call BY <1>1, RecordStep
  <1>4. HeldOf(q)' BY <1>1, <1>2, <1>3 DEF RestSlot, HeldOf, Unsaved, Saved
  <1>5. FreshOf(q)'
    <2>1. ASSUME pc[q] = "i_save" PROVE FreshOf(q)'
      <3> DEFINE c == loc[q].call
      <3>1. /\ c \in Call /\ ~Saved(c) /\ c \notin closing /\ c # NoCall
            /\ \A r \in Proc \ {q} : loc[r].call # c
        BY <2>1, CallStoreAssumption DEF RestSlot, FreshOf, Saved, RestLabelOK
      <3>2. record'[c] = NoRecord BY <1>3a, <3>1 DEF Saved
      <3>3. loc'[p].call # c
        <4>1. ~Announced(c) BY <3>1 DEF Announced, Saved
        <4>2. c \notin callTimer /\ c \notin loc[p].calls /\ ~Fresh(c)
          BY <1>1, <3>1 DEF Documented, Informed, Fresh
        <4> QED BY <1>1, <3>1, <4>1, <4>2 DEF Comes
      <3> QED BY <1>1, <1>2, <3>1, <3>2, <3>3 DEF FreshOf, Saved
    <2> QED BY <1>2, <2>1 DEF FreshOf
  <1>6. pc'[q] \in {"ca_set", "ca_user", "ca_list"} => record'[loc'[q].call] # NoRecord
    BY <1>2, <1>3 DEF RestSlot, RestLabelOK, Saved
  <1> QED BY <1>1, <1>2, <1>4, <1>5, <1>6 DEF RestSlot, WantOf, Saved

LEMMA SocketKeepsSocketSlot ==
  ASSUME CallsInv, NEW p \in Proc, SocketTurn(p), NEW q \in Proc \ {p}, SocketSlot(q)
  PROVE  SocketSlot(q)'
  <1>1. /\ SocketTypeOK /\ SocketSteps(p) /\ Knows(p) /\ OwnRing(p) /\ Others(p) /\ closing' = closing
    BY SocketAfter
  <1>2. pc'[q] = pc[q] /\ loc'[q] = loc[q] BY <1>1 DEF Others
  <1>3. pc[p] = "si_save" => loc[q].call # loc[p].call
    <2>1. pc[p] = "si_save" => loc[p].op = "s_initiate" /\ loc[p].call \in Call
      BY <1>1, CallFacts, LabelSets
    <2> QED BY <1>1, <2>1 DEF OwnRing
  <1>4. Informed(q)' BY <1>1, <1>3, InformedOther DEF SocketSlot
  <1>5. OwnRing(q)' BY OwnRingKept
  <1> QED BY <1>1, <1>2, <1>4, <1>5 DEF SocketSlot, Knows

LEMMA SocketKeepsRing ==
  ASSUME CallsInv, NEW p \in Proc, SocketTurn(p), NEW c \in Call
  PROVE  RingOK(c)'
  <1>1. /\ SocketTypeOK /\ Documented /\ SocketSteps(p) /\ Knows(p) /\ SocketSlot(p)
        /\ SocketLabelOK(pc[p], loc[p]) /\ Others(p)
        /\ UNCHANGED <<timer, stray, pending, requests, faults, closing>>
    BY SocketAfter
  <1>2. RingOK(c) BY DEF CallsInv
  <1>3. CASE Watched(c)
    <2>1. ~Driving(p)
      <3>1. loc[p].op \notin {"initiate", "accept", "connect"} BY <1>1 DEF SocketSlot, SocketOp
      <3>2. pc[p] \notin {"f_begin", "e_find"} BY <1>1 DEF SocketLabelOK, StoreLabel, SocketLabel
      <3> QED BY <3>1, <3>2 DEF Driving
    <2>2. \A q \in Proc \ {p} : loc[q].call = c /\ Driving(q) => loc'[q].call = c /\ Driving(q)'
      BY <1>1 DEF Others, Driving
    <2>3. Timed(c) => Timed(c)' BY <1>1 DEF Timed
    <2> QED BY <1>1, <1>3, <2>1, <2>2, <2>3 DEF Watched, RingOK
  <1>4. CASE ~Watched(c)
    <2>1. record[c].status # "ringing" /\ StillRingingOf(c) /\ FollowedUp(c) BY <1>2, <1>4 DEF RingOK
    <2>2. record'[c].status # "ringing" BY <1>1, <2>1, RecordStep
    <2>3. StillRingingOf(c)' BY <1>1, <2>1, StillRingingStep
    <2>4. \A x \in Proc : OwnRing(x)
      <3>1. ASSUME NEW x \in Proc, RestSlot(x) PROVE OwnRing(x)
        BY <3>1 DEF RestSlot, OwnRing, RestOp
      <3> QED BY <3>1 DEF CallsInv, SlotOK, SocketSlot
    <2>5. FollowedUp(c)' BY <1>1, <2>1, <2>4, FollowedUpStep
    <2> QED BY <2>2, <2>3, <2>5 DEF RingOK
  <1> QED BY <1>3, <1>4

LEMMA SocketTurnKeeps ==
  ASSUME CallsInv, NEW p \in Proc, SocketTurn(p)
  PROVE  CallsInv'
  <1>1. ASSUME NEW q \in Proc \ {p} PROVE SlotOK(q)'
    <2>1. SlotOK(q) BY DEF CallsInv
    <2>2. pc'[q] = pc[q] /\ loc'[q] = loc[q] BY SocketAfter DEF Others
    <2>3. (RestSlot(q) \/ SocketSlot(q))' BY <2>1, SocketKeepsRestSlot, SocketKeepsSocketSlot DEF SlotOK
    <2> QED BY <2>1, <2>2, <2>3 DEF SlotOK
  <1>2. \A q \in Proc : SlotOK(q)' BY <1>1, SocketKeepsOwnSlot
  <1>3. \A c \in Call : RingOK(c)' BY SocketKeepsRing
  <1> QED BY <1>2, <1>3, SocketKeepsStore DEF CallsInv

-----------------------------------------------------------------------------
(* The theorems of both paths.                                              *)

LEMMA InitCallsInv ==
  ASSUME Init
  PROVE  CallsInv
  <1> USE DEF Init, StoreInit, LifecycleInit, SignalingInit
  <1>1. TypeOK
    <2>1. SocketTypeOK BY InitSocketInv DEF SocketInit, SocketInv
    <2>2. LifecycleTypeOK BY CallLifecycleAssumption DEF LifecycleTypeOK
    <2> QED BY <2>1, <2>2 DEF TypeOK, SocketTypeOK
  <1>2. CleanupsKnown /\ Untimed BY DEF CleanupsKnown, Untimed, Timed
  <1>3. Documented BY DEF Documented, Saved
  <1>4. ASSUME NEW p \in Proc PROVE SlotOK(p)
    <2>1. pc[p] = "idle" /\ loc[p] = NoLocals OBVIOUS
    <2> QED BY <2>1, FreeSlot DEF SlotOK
  <1>5. ASSUME NEW c \in Call PROVE RingOK(c)
    BY DEF RingOK, StillRingingOf, FollowedUp, NoRecord
  <1> QED BY <1>1, <1>2, <1>3, <1>4, <1>5 DEF CallsInv

LEMMA CallsInvStep ==
  ASSUME CallsInv, [Next]_vars
  PROVE  CallsInv'
  <1>1. CASE UNCHANGED vars
    <2>1. /\ UNCHANGED <<record, active, userStatus, userCalls, signaling, pc, loc>>
          /\ UNCHANGED <<timer, stray, pending, requests, faults, closing>>
          /\ UNCHANGED <<callTimer, events, disconnects, errors, abandoned>>
      BY <1>1 DEF vars, store, lifecycleVars, signalingVars
    <2>2. TypeOK' /\ CleanupsKnown' /\ Untimed' /\ Documented'
      BY <2>1 DEF CallsInv, TypeOK, StoreTypeOK, LifecycleTypeOK, SignalingTypeOK, CleanupsKnown, Untimed,
                  Unsaved, Timed, Documented, Saved
    <2>3. \A q \in Proc : SlotOK(q)'
      <3>1. ASSUME NEW q \in Proc, RestSlot(q) PROVE RestSlot(q)'
        BY <2>1, <3>1 DEF RestSlot, FreshOf, HeldOf, WantOf, Unsaved, Saved
      <3>2. ASSUME NEW q \in Proc, SocketSlot(q) PROVE SocketSlot(q)'
        BY <2>1, <3>2 DEF SocketSlot, Knows, Informed, OwnRing, Saved, Answered, Participants
      <3> QED BY <2>1, <3>1, <3>2 DEF CallsInv, SlotOK
    <2>4. \A c \in Call : RingOK(c)'
      BY <2>1 DEF CallsInv, RingOK, Watched, Timed, Driving, StillRingingOf, Starting, FollowedUp, Ringing
    <2> QED BY <2>2, <2>3, <2>4 DEF CallsInv
  <1>2. ASSUME NEW p \in Proc, RestStep(p) \/ SocketStep(p) \/ SharedStep(p) PROVE CallsInv'
    <2>1. RestTurn(p) \/ SocketTurn(p) BY <1>2, Turns DEF CallsInv
    <2> QED BY <2>1, RestTurnKeeps, SocketTurnKeeps
  <1> QED BY <1>1, <1>2 DEF Next

LEMMA CallsInvariance == Spec => []CallsInv
  BY InitCallsInv, CallsInvStep, PTL DEF Spec

\* The documents, the Redis values, the handlers' locals and the timers of both paths keep their
\* shapes when the two run over the same store, whatever is sent and whatever fails.
THEOREM CallsTypeCorrect == Spec => []TypeOK
  <1>1. CallsInv => TypeOK BY DEF CallsInv
  <1> QED BY <1>1, CallsInvariance, PTL

\* No call rings unattended, whichever path created it and whichever path touches it: the timers
\* and handlers of the two cover for each other, though neither knows the other's.
THEOREM EveryRingWatched == Spec => []EveryRingIsWatched
  <1>1. ASSUME CallsInv PROVE EveryRingIsWatched
    <2> SUFFICES ASSUME NEW c \in Call, record[c].status \in {"initiating", "ringing"},
                        c \notin closing \cup abandoned
                 PROVE  \/ Timed(c) \/ c \in callTimer
                        \/ \E p \in Proc : loc[p].call = c /\ (Driving(p) \/ Ringing(p))
      BY DEF EveryRingIsWatched
    <2>1. RingOK(c) BY <1>1 DEF CallsInv
    <2> QED BY <2>1 DEF RingOK, Watched, FollowedUp
  <1> QED BY <1>1, CallsInvariance, PTL
=============================================================================
