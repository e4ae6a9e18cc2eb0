------------------------- MODULE CallLifecycleProofs -------------------------
(***************************************************************************)
(* Proofs about the REST call path, for every set of users, calls and      *)
(* handler slots and every number of requests and failing commands.        *)
(***************************************************************************)
EXTENDS CallLifecycle, TLAPS

(* What a label says about the locals of its invocation: which routine the *)
(* shared ones return to, and which calls and users they name.             *)
RestLabelOK(k, l) ==
  /\ k \in {"idle", "ca_set", "ca_user", "ca_list", "us_get", "us_set"} \cup RestLabel
  /\ k \notin {"idle", "i_self", "i_peer"} => l.call \in Call
  /\ k \in {"i_self", "i_peer", "i_save", "ca_set", "ca_user", "ca_list"} =>
       l.op = "initiate" /\ l.user \in User /\ l.peer \in User
  /\ k \in {"i_self", "i_peer"} => l.want = "none"
  /\ k \in {"ca_set", "ca_user", "ca_list"} => l.ret = "us_mongo"
  /\ k \in {"us_get", "us_set"} =>
       l.ret = IF l.want = "failed" THEN "f_mongo" ELSE AfterStatus(l)
  /\ k \in {"a_get", "a_part"} => l.op = "accept"
  /\ k \in {"cl_del", "cl_get", "cl_srem", "cl_stat", "cl_idle"} => l.op = "cleanup"

\* Whoever writes ended or failed, or is past it, has begun to close its call.
ClosingOK(k, l, begun) ==
  /\ l.want \in TerminalStatus => l.call \in begun
  /\ k \in {"e_mongo", "e_part", "e_sched", "f_mongo", "f_sched"} => l.call \in begun
  /\ k \in {"us_mongo", "us_get", "us_set"} =>
       l.want \in TerminalStatus \/ l.op \in {"initiate", "accept", "connect"}

RestLocals    == \A p \in Proc : RestLabelOK(pc[p], loc[p])
CleanupsKnown == \A c \in Call : pending[c] > 0 => c \in closing
ClosingKnown  == CleanupsKnown /\ \A p \in Proc : ClosingOK(pc[p], loc[p], closing)

(* The inductive invariant.  NoUnwatchedCall needs the other two: a handler *)
(* that finishes without arming a timer must have closed its call, and a    *)
(* cleanup, which clears the timers, must run for a closed call only.       *)
RestInv == RestTypeOK /\ RestLocals /\ ClosingKnown /\ NoUnwatchedCall

\* What a step of invocation p relies on, whoever holds the other slots.
Ready(p) == /\ RestTypeOK /\ CleanupsKnown
            /\ RestLabelOK(pc[p], loc[p]) /\ ClosingOK(pc[p], loc[p], closing)

(* What a step of p sees to: p's own label and locals stay consistent, and  *)
(* every call whose watch p gives up is handed on: to a timer, to p itself  *)
(* or to whoever has begun to close it.                                     *)
Handed(p) ==
  /\ RestTypeOK' /\ CleanupsKnown'
  /\ \A q \in Proc \ {p} : pc'[q] = pc[q] /\ loc'[q] = loc[q]
  /\ RestLabelOK(pc'[p], loc'[p]) /\ ClosingOK(pc'[p], loc'[p], closing')
  /\ closing \subseteq closing'
  /\ \A c \in Call : c \notin closing' =>
       /\ Exists(c)' => Exists(c) \/ (loc'[p].call = c /\ Driving(p)')
       /\ Timed(c) => Timed(c)' \/ (loc'[p].call = c /\ Driving(p)')
       /\ loc[p].call = c /\ Driving(p) =>
            Timed(c)' \/ (loc'[p].call = c /\ Driving(p)')

-----------------------------------------------------------------------------
(* Types of the values the actions build *)

LEMMA WithPartType ==
  ASSUME NEW r \in Record, NEW u, NEW s \in PartStatus
  PROVE  WithPart(r, u, s) \in Record
  BY DEF WithPart, Record

LEMMA StatusType ==
  ASSUME NEW r \in Record, NEW s \in Status \cup {"none"}
  PROVE  [r EXCEPT !.status = s] \in Record
  BY DEF Record

LEMMA EndedType ==
  ASSUME NEW r \in Record, NEW s \in Status, NEW w \in Reason
  PROVE  [r EXCEPT !.status = s, !.reason = w] \in Record
  BY DEF Record

LEMMA NewRecordType ==
  ASSUME NEW u \in User, NEW v \in User
  PROVE  NewRecord(u, v) \in Record
  BY DEF NewRecord, Record, PartStatus, Status, OpenStatus, Reason

LEMMA WriteType ==
  ASSUME record \in [Call -> Record], NEW p, loc[p].call \in Call,
         NEW r \in Record, Write(p, r)
  PROVE  record' \in [Call -> Record]
  BY DEF Write

LEMMA NoLocalsType == NoLocals \in Locals
  BY DEF NoLocals, Locals, Absent, ActiveState, Label, Reason

LEMMA LocalsType ==
  ASSUME NEW l \in Locals
  PROVE  /\ \A s \in Status \cup {"none"} : [l EXCEPT !.want = s] \in Locals
         /\ \A w \in Reason : [l EXCEPT !.why = w] \in Locals
         /\ \A x \in ActiveState : [l EXCEPT !.snap = x] \in Locals
         /\ \A c \in Call : [l EXCEPT !.call = c] \in Locals
         /\ \A u \in User, T \in SUBSET User : [l EXCEPT !.user = u, !.todo = T] \in Locals
         /\ \A T \in SUBSET User : [l EXCEPT !.todo = T] \in Locals
         /\ \A r \in Label : [l EXCEPT !.ret = r] \in Locals
         /\ \A r \in Label, s \in Status : [l EXCEPT !.ret = r, !.want = s] \in Locals
  BY DEF Locals

TimerTypes == timer \in [Call -> [Kind -> BOOLEAN]] /\ stray \in [Call -> [Kind -> Nat]]

(* What the locals of an invocation are when it starts. *)
LEMMA StartType ==
  ASSUME NEW l \in Locals, NEW op \in RestOp
  PROVE  /\ \A u, v \in User : [l EXCEPT !.op = op, !.user = u, !.peer = v] \in Locals
         /\ \A c \in Call, u \in User :
              /\ [l EXCEPT !.op = op, !.call = c, !.user = u] \in Locals
              /\ \A s \in Status : [l EXCEPT !.op = op, !.call = c, !.user = u, !.want = s] \in Locals
              /\ \A w \in Reason : [l EXCEPT !.op = op, !.call = c, !.user = u, !.why = w] \in Locals
         /\ \A c \in Call :
              /\ [l EXCEPT !.op = op, !.call = c] \in Locals
              /\ \A w \in Reason : [l EXCEPT !.op = op, !.call = c, !.why = w] \in Locals
  <1>2. \A u, v \in User : [l EXCEPT !.op = op, !.user = u, !.peer = v] \in Locals
    BY DEF Locals
  <1>3. \A c \in Call, u \in User : [l EXCEPT !.op = op, !.call = c, !.user = u] \in Locals
    BY DEF Locals
  <1>4. \A c \in Call, u \in User, s \in Status :
          [l EXCEPT !.op = op, !.call = c, !.user = u, !.want = s] \in Locals
    BY DEF Locals
  <1>5. \A c \in Call, u \in User, w \in Reason :
          [l EXCEPT !.op = op, !.call = c, !.user = u, !.why = w] \in Locals
    BY DEF Locals
  <1>6. \A c \in Call : [l EXCEPT !.op = op, !.call = c] \in Locals
    BY DEF Locals
  <1>7. \A c \in Call, w \in Reason : [l EXCEPT !.op = op, !.call = c, !.why = w] \in Locals
    BY DEF Locals
  <1> QED BY <1>2, <1>3, <1>4, <1>5, <1>6, <1>7

LEMMA BeginFacts ==
  ASSUME StoreTypeOK, NEW p \in Proc, NEW k \in Label, NEW l \in Locals, Begin(p, k, l)
  PROVE  /\ pc[p] = "idle" /\ pc'[p] = k /\ loc'[p] = l
         /\ pc' \in [Proc -> Label] /\ loc' \in [Proc -> Locals]
         /\ \A q \in Proc \ {p} : pc'[q] = pc[q] /\ loc'[q] = loc[q]
  BY DEF Begin, StoreTypeOK

LEMMA GotoFacts ==
  ASSUME StoreTypeOK, NEW p \in Proc, NEW k \in Label, Goto(p, k)
  PROVE  /\ pc'[p] = k /\ pc' \in [Proc -> Label]
         /\ \A q \in Proc \ {p} : pc'[q] = pc[q]
  BY DEF Goto, StoreTypeOK

LEMMA FinishFacts ==
  ASSUME StoreTypeOK, NEW p \in Proc, Finish(p)
  PROVE  /\ pc'[p] = "idle" /\ loc'[p] = NoLocals
         /\ pc' \in [Proc -> Label] /\ loc' \in [Proc -> Locals]
         /\ \A q \in Proc \ {p} : pc'[q] = pc[q] /\ loc'[q] = loc[q]
         /\ \A begun : RestLabelOK(pc'[p], loc'[p]) /\ ClosingOK(pc'[p], loc'[p], begun)
  <1>1. /\ pc'[p] = "idle" /\ loc'[p] = NoLocals
        /\ \A q \in Proc \ {p} : pc'[q] = pc[q] /\ loc'[q] = loc[q]
    BY DEF Finish, StoreTypeOK
  <1>2. pc' \in [Proc -> Label] /\ loc' \in [Proc -> Locals]
    BY NoLocalsType DEF Finish, Label, StoreTypeOK
  <1>3. \A begun : RestLabelOK("idle", NoLocals) /\ ClosingOK("idle", NoLocals, begun)
    BY DEF RestLabelOK, ClosingOK, NoLocals, TerminalStatus
  <1> QED BY <1>1, <1>2, <1>3

(* What holds of invocation p whatever it does next. *)
LEMMA AtStep ==
  ASSUME NEW p \in Proc, Ready(p)
  PROVE  /\ StoreTypeOK /\ LifecycleTypeOK /\ TimerTypes
         /\ RestLabelOK(pc[p], loc[p]) /\ ClosingOK(pc[p], loc[p], closing)
         /\ \A c \in Call : pending[c] > 0 => c \in closing
         /\ loc[p] \in Locals /\ pc[p] \in Label
  BY DEF Ready, CleanupsKnown, RestTypeOK, StoreTypeOK, LifecycleTypeOK, TimerTypes

LEMMA RequestType ==
  ASSUME LifecycleTypeOK, Request
  PROVE  requests' \in 0..MaxRequests
  BY CallLifecycleAssumption DEF LifecycleTypeOK, Request

(* The four ways the code treats a timer: what happens to the types and to *)
(* being watched by one.                                                    *)
LEMMA ArmFacts ==
  ASSUME TimerTypes, NEW c \in Call, NEW k \in Kind, Arm(c, k)
  PROVE  /\ TimerTypes' /\ Timed(c)'
         /\ \A d \in Call : Timed(d) => Timed(d)'
  <1>1. TimerTypes' BY DEF Arm, TimerTypes
  <1>2. timer'[c][k] BY DEF Arm, TimerTypes
  <1>3. ASSUME NEW d \in Call, NEW j \in Kind
        PROVE  /\ timer[d][j] => timer'[d][j]
               /\ stray[d][j] > 0 => stray'[d][j] > 0
    BY DEF Arm, TimerTypes
  <1> QED BY <1>1, <1>2, <1>3 DEF Timed

LEMMA ClearFacts ==
  ASSUME TimerTypes, NEW c \in Call, NEW k \in Kind, Clear(c, k)
  PROVE  TimerTypes' /\ \A d \in Call \ {c} : Timed(d) => Timed(d)'
  BY DEF Clear, TimerTypes, Timed

LEMMA ClearAllFacts ==
  ASSUME TimerTypes, NEW c \in Call, ClearAll(c), UNCHANGED stray
  PROVE  TimerTypes' /\ \A d \in Call \ {c} : Timed(d) => Timed(d)'
  BY DEF ClearAll, TimerTypes, Timed

LEMMA FireFacts ==
  ASSUME TimerTypes, NEW c \in Call, NEW k \in Kind, Fire(c, k)
  PROVE  TimerTypes' /\ \A d \in Call \ {c} : Timed(d) => Timed(d)'
  <1>1. TimerTypes'
    <2>1. CASE timer[c][k] /\ timer' = [timer EXCEPT ![c][k] = FALSE] /\ UNCHANGED stray
      BY <2>1 DEF TimerTypes
    <2>2. CASE /\ stray[c][k] > 0 /\ stray' = [stray EXCEPT ![c][k] = @ - 1]
               /\ UNCHANGED timer
      <3>1. stray[c][k] - 1 \in Nat BY <2>2 DEF TimerTypes
      <3> QED BY <2>2, <3>1 DEF TimerTypes
    <2> QED BY <2>1, <2>2 DEF Fire
  <1>2. \A d \in Call \ {c} : timer'[d] = timer[d] /\ stray'[d] = stray[d]
    BY DEF Fire, TimerTypes
  <1> QED BY <1>1, <1>2 DEF Timed

(* A document that is written keeps existing, and none comes into being.   *)
LEMMA WriteExists ==
  ASSUME record \in [Call -> Record], NEW p, loc[p].call \in Call, NEW r \in Record,
         Write(p, r)
  PROVE  record' \in [Call -> Record] /\ \A c \in Call : Exists(c)' => Exists(c)
  BY DEF Write, Exists

-----------------------------------------------------------------------------
(* The same as hypotheses, for the lemmas on kinds of steps.               *)
LEMMA HandOver ==
  ASSUME NEW p \in Proc, RestTypeOK',
         \A q \in Proc \ {p} : pc'[q] = pc[q] /\ loc'[q] = loc[q],
         RestLabelOK(pc'[p], loc'[p]),
         ClosingOK(pc'[p], loc'[p], closing'),
         closing \subseteq closing',
         \A c \in Call : pending'[c] > 0 => c \in closing',
         \A c \in Call : c \notin closing' =>
           /\ Exists(c)' => Exists(c) \/ (loc'[p].call = c /\ Driving(p)')
           /\ Timed(c) => Timed(c)' \/ (loc'[p].call = c /\ Driving(p)')
           /\ loc[p].call = c /\ Driving(p) =>
                Timed(c)' \/ (loc'[p].call = c /\ Driving(p)')
  PROVE  Handed(p)
  BY DEF Handed, CleanupsKnown

(* Such a step of any invocation preserves the invariant.                  *)
LEMMA HandedInv ==
  ASSUME RestInv, NEW p \in Proc, Handed(p)
  PROVE  RestInv'
  <1>1. /\ closing \subseteq closing' /\ CleanupsKnown' /\ RestTypeOK'
        /\ \A q \in Proc \ {p} : pc'[q] = pc[q] /\ loc'[q] = loc[q]
        /\ RestLabelOK(pc'[p], loc'[p]) /\ ClosingOK(pc'[p], loc'[p], closing')
    BY DEF Handed
  <1>2. RestLocals' BY <1>1 DEF RestInv, RestLocals
  <1>3. ClosingKnown'
    <2>1. ASSUME NEW q \in Proc \ {p} PROVE ClosingOK(pc'[q], loc'[q], closing')
      BY <1>1 DEF RestInv, ClosingKnown, ClosingOK
    <2> QED BY <1>1, <2>1 DEF ClosingKnown
  <1>4. NoUnwatchedCall'
    <2> SUFFICES ASSUME NEW c \in Call, Exists(c)', c \notin closing'
                 PROVE  Timed(c)' \/ \E q \in Proc : loc'[q].call = c /\ Driving(q)'
      BY DEF NoUnwatchedCall
    <2>0. /\ Exists(c) \/ (loc'[p].call = c /\ Driving(p)')
          /\ Timed(c) => Timed(c)' \/ (loc'[p].call = c /\ Driving(p)')
          /\ loc[p].call = c /\ Driving(p) => Timed(c)' \/ (loc'[p].call = c /\ Driving(p)')
      BY DEF Handed
    <2>1. CASE Exists(c) /\ \E q \in Proc \ {p} : loc[q].call = c /\ Driving(q)
      BY <1>1, <2>1 DEF Driving
    <2>2. CASE Exists(c) /\ (Timed(c) \/ (loc[p].call = c /\ Driving(p)))
      BY <2>0, <2>2
    <2>3. CASE ~Exists(c)
      BY <2>0, <2>3
    <2> QED BY <1>1, <2>1, <2>2, <2>3 DEF RestInv, NoUnwatchedCall
  <1> QED BY <1>1, <1>2, <1>3, <1>4 DEF RestInv

LEMMA AllReady ==
  ASSUME RestInv, NEW p \in Proc
  PROVE  Ready(p)
  BY DEF RestInv, Ready, RestLocals, ClosingKnown

(* The common case: timers, cleanups and history are left alone.           *)
LEMMA QuietStep ==
  ASSUME NEW p \in Proc, Ready(p), StoreTypeOK', UNCHANGED lifecycleVars,
         \A q \in Proc \ {p} : pc'[q] = pc[q] /\ loc'[q] = loc[q],
         RestLabelOK(pc'[p], loc'[p]),
         ClosingOK(pc'[p], loc'[p], closing),
         \A c \in Call : Exists(c)' => Exists(c),
         Driving(p) => \/ loc[p].call \in closing
                       \/ Driving(p)' /\ loc'[p].call = loc[p].call
  PROVE  Handed(p)
  <1>1. RestTypeOK' BY DEF Ready, RestTypeOK, LifecycleTypeOK, lifecycleVars
  <1>2. \A c \in Call : Timed(c) => Timed(c)' BY DEF Timed, lifecycleVars
  <1>3. closing' = closing /\ \A c \in Call : pending'[c] > 0 => c \in closing'
    BY DEF Ready, CleanupsKnown, lifecycleVars
  <1> QED BY <1>1, <1>2, <1>3, HandOver

(* An invocation that finishes by arming a timer of its call hands it over. *)
LEMMA ArmedStep ==
  ASSUME NEW p \in Proc, Ready(p), NEW k \in Kind, loc[p].call \in Call,
         Arm(loc[p].call, k), Finish(p),
         UNCHANGED <<record, keys, requests, faults, closing>>
  PROVE  Handed(p)
  <1>1. /\ StoreTypeOK /\ LifecycleTypeOK /\ TimerTypes
        /\ \A c \in Call : pending[c] > 0 => c \in closing
    BY AtStep
  <1> PICK c \in Call : c = loc[p].call
    OBVIOUS
  <1>2. TimerTypes' /\ Timed(c)' /\ \A d \in Call : Timed(d) => Timed(d)'
    BY <1>1, ArmFacts
  <1>3. RestTypeOK'
    BY <1>1, <1>2, FinishFacts
    DEF RestTypeOK, StoreTypeOK, LifecycleTypeOK, TimerTypes, Arm, keys
  <1>4. \A d \in Call : Exists(d)' => Exists(d)
    BY DEF Exists
  <1>5. \A d \in Call : pending'[d] > 0 => d \in closing'
    BY <1>1 DEF Arm
  <1>6. \A q \in Proc \ {p} : pc'[q] = pc[q] /\ loc'[q] = loc[q]
    BY <1>1, FinishFacts
  <1>7. RestLabelOK(pc'[p], loc'[p]) /\ ClosingOK(pc'[p], loc'[p], closing')
    BY <1>1, FinishFacts
  <1> QED BY <1>2, <1>3, <1>4, <1>5, <1>6, <1>7, HandOver

(* A request or a timer callback takes a free slot.                        *)
LEMMA StartStep ==
  ASSUME NEW p \in Proc, Ready(p), NEW k \in Label, NEW l \in Locals, Begin(p, k, l),
         UNCHANGED <<record, keys, faults, closing>>,
         requests' \in 0..MaxRequests, TimerTypes', pending' \in [Call -> Nat],
         \A c \in Call : pending'[c] > 0 => c \in closing,
         \A c \in Call \ closing : Timed(c) => Timed(c)' \/ (l.call = c /\ Driving(p)'),
         RestLabelOK(k, l), ClosingOK(k, l, closing)
  PROVE  Handed(p)
  <1>1. StoreTypeOK /\ LifecycleTypeOK /\ TimerTypes
    BY AtStep
  <1>2. /\ pc[p] = "idle" /\ pc'[p] = k /\ loc'[p] = l
        /\ pc' \in [Proc -> Label] /\ loc' \in [Proc -> Locals]
        /\ \A q \in Proc \ {p} : pc'[q] = pc[q] /\ loc'[q] = loc[q]
    BY <1>1, BeginFacts
  <1>3. RestTypeOK'
    BY <1>1, <1>2 DEF RestTypeOK, StoreTypeOK, LifecycleTypeOK, TimerTypes, keys
  <1>4. ~Driving(p) /\ \A c \in Call : Exists(c)' => Exists(c)
    BY <1>2 DEF Driving, Exists
  <1> QED BY <1>2, <1>3, <1>4, HandOver

(* A step that only moves on to another label, writing the document or not. *)
LEMMA GotoStep ==
  ASSUME NEW p \in Proc, Ready(p), NEW k \in Label, Goto(p, k),
         UNCHANGED <<keys, loc, lifecycleVars>>,
         record' \in [Call -> Record], \A c \in Call : Exists(c)' => Exists(c),
         RestLabelOK(k, loc[p]), ClosingOK(k, loc[p], closing),
         Driving(p) => loc[p].call \in closing \/ Driving(p)'
  PROVE  Handed(p)
  <1>1. StoreTypeOK
    BY AtStep
  <1>2. StoreTypeOK' /\ pc'[p] = k /\ \A q \in Proc \ {p} : pc'[q] = pc[q]
    BY <1>1, GotoFacts DEF StoreTypeOK, keys
  <1> QED BY <1>2, QuietStep

(* endCall or handleCallFailure begins: its call is closing, so its timers *)
(* may go.                                                                 *)
LEMMA BeginClosing ==
  ASSUME NEW p \in Proc, Ready(p), NEW k \in Label, pc' = [pc EXCEPT ![p] = k],
         loc[p].call \in Call, ClearAll(loc[p].call),
         closing' = closing \cup {loc[p].call},
         loc' \in [Proc -> Locals], \A q \in Proc \ {p} : loc'[q] = loc[q],
         loc'[p].call = loc[p].call,
         UNCHANGED <<record, keys, stray, pending, requests>>, faults' \in 0..MaxFaults,
         RestLabelOK(k, loc'[p]), ClosingOK(k, loc'[p], closing')
  PROVE  Handed(p)
  <1>1. /\ StoreTypeOK /\ LifecycleTypeOK /\ TimerTypes
        /\ \A d \in Call : pending[d] > 0 => d \in closing
    BY AtStep
  <1> PICK c \in Call : c = loc[p].call
    OBVIOUS
  <1>2. TimerTypes' /\ \A d \in Call \ {c} : Timed(d) => Timed(d)'
    BY <1>1, ClearAllFacts
  <1>3. RestTypeOK'
    BY <1>1, <1>2 DEF RestTypeOK, StoreTypeOK, LifecycleTypeOK, TimerTypes, keys
  <1>4. \A d \in Call : Exists(d)' => Exists(d)
    BY DEF Exists
  <1>5. pc'[p] = k /\ \A q \in Proc \ {p} : pc'[q] = pc[q]
    BY <1>1 DEF StoreTypeOK
  <1>6. closing \subseteq closing' /\ c \in closing'
    OBVIOUS
  <1>7. \A d \in Call : pending'[d] > 0 => d \in closing'
    BY <1>1, <1>6
  <1>8. \A d \in Call : d \notin closing' =>
          /\ Exists(d)' => Exists(d)
          /\ Timed(d) => Timed(d)'
          /\ loc[p].call # d
    BY <1>2, <1>4, <1>6
  <1> QED BY <1>3, <1>5, <1>6, <1>7, <1>8, HandOver

(* A call that is being closed has its cleanup scheduled.                  *)
LEMMA ScheduleStep ==
  ASSUME NEW p \in Proc, Ready(p), loc[p].call \in Call, loc[p].call \in closing,
         pending' = [pending EXCEPT ![loc[p].call] = @ + 1], Finish(p),
         UNCHANGED <<record, keys, timer, stray, requests, faults, closing>>
  PROVE  Handed(p)
  <1>1. /\ StoreTypeOK /\ LifecycleTypeOK /\ TimerTypes
        /\ \A d \in Call : pending[d] > 0 => d \in closing
    BY AtStep
  <1>2. RestTypeOK'
    BY <1>1, FinishFacts DEF RestTypeOK, StoreTypeOK, LifecycleTypeOK, keys
  <1>3. \A d \in Call : /\ pending'[d] > 0 => d \in closing'
                        /\ Exists(d)' => Exists(d)
                        /\ Timed(d) => Timed(d)'
    BY <1>1 DEF LifecycleTypeOK, Exists, Timed
  <1> QED BY <1>1, <1>2, <1>3, FinishFacts, HandOver

-----------------------------------------------------------------------------
(* The initial states. *)
LEMMA InitInv == RestInit => RestInv
  <1> SUFFICES ASSUME RestInit PROVE RestInv
    OBVIOUS
  <1> USE DEF RestInit, StoreInit, LifecycleInit
  <1>1. StoreTypeOK
    <2>1. NoRecord \in Record
      BY DEF NoRecord, Record, Reason, PartStatus
    <2>2. Absent \in ActiveState /\ Idle \in UserState
      BY DEF Absent, ActiveState, Idle, UserState
    <2> QED BY <2>1, <2>2, NoLocalsType DEF StoreTypeOK, Label
  <1>2. LifecycleTypeOK
    BY CallLifecycleAssumption DEF LifecycleTypeOK
  <1>3. RestLocals
    BY DEF RestLocals, RestLabelOK, NoLocals
  <1>4. ClosingKnown
    BY DEF ClosingKnown, CleanupsKnown, ClosingOK, NoLocals, TerminalStatus
  <1>5. NoUnwatchedCall
    BY DEF NoUnwatchedCall, Exists, NoRecord
  <1> QED BY <1>1, <1>2, <1>3, <1>4, <1>5 DEF RestInv, RestTypeOK

-----------------------------------------------------------------------------
(* The shared routines: only the steps createActiveCall and updateCallStatus *)
(* take are reached by the REST path.                                        *)
LEMMA SharedInv ==
  ASSUME NEW p \in Proc, Ready(p), RestSharedStep(p)
  PROVE  Handed(p)
  <1> USE DEF At
  <1>1. /\ StoreTypeOK /\ RestLabelOK(pc[p], loc[p]) /\ ClosingOK(pc[p], loc[p], closing)
        /\ UNCHANGED lifecycleVars /\ loc[p] \in Locals /\ pc[p] \in Label
    BY DEF RestSharedStep, Ready, RestTypeOK, StoreTypeOK
  <1>2. CASE CreateActiveSet(p)
    <2> USE <1>2 DEF CreateActiveSet, Goto
    <2>1. loc[p].user \in User /\ loc[p].peer \in User /\ loc[p].op = "initiate"
      BY <1>1 DEF RestLabelOK
    <2>2. [status |-> "initiating", members |-> {loc[p].user, loc[p].peer}] \in ActiveState
      BY <2>1 DEF ActiveState, Status, OpenStatus
    <2>3. StoreTypeOK'
      BY <1>1, <2>2 DEF StoreTypeOK, Label, StoreLabel
    <2>4. RestLabelOK(pc'[p], loc'[p]) /\ ClosingOK(pc'[p], loc'[p], closing)
      BY <1>1 DEF RestLabelOK, ClosingOK, StoreTypeOK
    <2>5. Driving(p)'
      BY <1>1, <2>1 DEF Driving, StoreTypeOK
    <2> QED BY <1>1, <2>3, <2>4, <2>5, QuietStep DEF StoreTypeOK, Exists
  <1>3. CASE CreateActiveUser(p)
    <2> USE <1>3 DEF CreateActiveUser, Goto
    <2>1. loc[p].op = "initiate" /\ loc[p].call \in Call
      BY <1>1 DEF RestLabelOK
    <2>2. StoreTypeOK'
      BY <1>1, <2>1 DEF StoreTypeOK, Label, StoreLabel, SetUser, UserState
    <2>3. RestLabelOK(pc'[p], loc'[p]) /\ ClosingOK(pc'[p], loc'[p], closing)
      BY <1>1 DEF RestLabelOK, ClosingOK, StoreTypeOK
    <2>4. Driving(p)'
      BY <1>1, <2>1 DEF Driving, StoreTypeOK
    <2> QED BY <1>1, <2>2, <2>3, <2>4, QuietStep DEF StoreTypeOK, Exists
  <1>4. CASE CreateActiveList(p)
    <2> USE <1>4 DEF CreateActiveList, Goto, Return
    <2>1. loc[p].op = "initiate" /\ loc[p].call \in Call /\ loc[p].ret = "us_mongo"
      BY <1>1 DEF RestLabelOK
    <2>2. StoreTypeOK'
      BY <1>1, <2>1 DEF StoreTypeOK, Label, RestLabel
    <2>3. RestLabelOK(pc'[p], loc'[p]) /\ ClosingOK(pc'[p], loc'[p], closing)
      BY <1>1, <2>1 DEF RestLabelOK, ClosingOK, StoreTypeOK, RestLabel
    <2>4. Driving(p)'
      BY <1>1, <2>1 DEF Driving, StoreTypeOK
    <2> QED BY <1>1, <2>2, <2>3, <2>4, QuietStep DEF StoreTypeOK, Exists
  <1>5. ASSUME pc[p] \in {"us_get", "us_set"}, pc'[p] = loc[p].ret,
               \E x \in ActiveState : loc'[p] = [loc[p] EXCEPT !.snap = x]
        PROVE  /\ loc[p].call \in Call /\ loc[p].ret \in Label
               /\ RestLabelOK(pc'[p], loc'[p]) /\ ClosingOK(pc'[p], loc'[p], closing)
               /\ Driving(p) => \/ loc[p].call \in closing
                                \/ Driving(p)' /\ loc'[p].call = loc[p].call
    (* updateCallStatus returns to what follows it: where closing has not   *)
    (* begun, to the label that arms the next timer.                        *)
    <2> USE <1>5
    <2>1. /\ loc[p].ret \in {"arm_ring", "arm_conn", "c_started", "e_part", "e_sched", "f_mongo"}
          /\ loc[p].op \in {"initiate", "accept", "connect"} /\ loc[p].want # "failed" =>
               loc[p].ret \in {"arm_ring", "arm_conn", "c_started"}
          /\ loc[p].call \in Call
      BY <1>1 DEF RestLabelOK, AfterStatus
    <2>2. \/ loc[p].call \in closing
          \/ /\ loc[p].op \in {"initiate", "accept", "connect"}
             /\ loc[p].ret \in {"arm_ring", "arm_conn", "c_started"}
             /\ loc[p].want \notin TerminalStatus
      BY <1>1, <2>1 DEF ClosingOK, TerminalStatus
    <2>3. /\ loc'[p].call = loc[p].call /\ loc'[p].op = loc[p].op
          /\ loc'[p].want = loc[p].want
      BY <1>1 DEF Locals
    <2>4. loc[p].ret \in Label
      BY <2>1 DEF Label, RestLabel
    <2>5. RestLabelOK(pc'[p], loc'[p]) /\ ClosingOK(pc'[p], loc'[p], closing)
      BY <1>1, <2>1, <2>2, <2>3 DEF RestLabelOK, ClosingOK, RestLabel
    <2>6. loc[p].call \in closing \/ Driving(p)'
      BY <2>2, <2>3 DEF Driving
    <2> QED BY <2>1, <2>3, <2>4, <2>5, <2>6
  <1>6. CASE UpdateStatusGet(p)
    <2> USE <1>6 DEF UpdateStatusGet, Goto, Return
    <2>1. loc[p].call \in Call
      BY <1>1 DEF RestLabelOK
    <2>2. CASE Return(p) /\ UNCHANGED loc
      <3>1. /\ pc'[p] = loc[p].ret
            /\ \E x \in ActiveState : loc'[p] = [loc[p] EXCEPT !.snap = x]
        BY <2>2, <1>1 DEF StoreTypeOK, Locals
      <3>2. StoreTypeOK'
        BY <1>1, <1>5, <2>2, <3>1 DEF StoreTypeOK, keys
      <3> QED BY <1>1, <1>5, <2>2, <3>1, <3>2, QuietStep DEF StoreTypeOK, Exists
    <2>3. CASE /\ Goto(p, "us_set")
               /\ loc' = [loc EXCEPT ![p].snap = active[loc[p].call]]
      <3>1. StoreTypeOK'
        BY <1>1, <2>1, <2>3, LocalsType DEF StoreTypeOK, Label, StoreLabel, keys
      <3>2. /\ pc'[p] = "us_set"
            /\ \A f \in {"call", "op", "want", "ret", "user", "peer"} : loc'[p][f] = loc[p][f]
        BY <1>1, <2>3 DEF StoreTypeOK, Locals
      <3>3. RestLabelOK(pc'[p], loc'[p]) /\ ClosingOK(pc'[p], loc'[p], closing)
        BY <1>1, <3>2 DEF RestLabelOK, ClosingOK, AfterStatus
      <3>4. Driving(p) => Driving(p)' /\ loc'[p].call = loc[p].call
        BY <3>2 DEF Driving
      <3> QED BY <1>1, <2>3, <3>1, <3>3, <3>4, QuietStep DEF StoreTypeOK, Exists
    <2> QED BY <2>2, <2>3
  <1>7. CASE UpdateStatusSet(p)
    <2> USE <1>7 DEF UpdateStatusSet, Goto, Return
    <2>1. pc'[p] = loc[p].ret /\ loc'[p] = [loc[p] EXCEPT !.snap = Absent]
      BY <1>1 DEF StoreTypeOK
    <2>2. [loc[p].snap EXCEPT !.status = loc[p].want] \in ActiveState /\ Absent \in ActiveState
      BY <1>1 DEF Locals, ActiveState, Absent
    <2>3. StoreTypeOK'
      BY <1>1, <1>5, <2>1, <2>2, LocalsType DEF StoreTypeOK
    <2> QED BY <1>1, <1>5, <2>1, <2>2, <2>3, QuietStep DEF StoreTypeOK, Exists
  <1>8. \/ CreateActiveSet(p) \/ CreateActiveUser(p) \/ CreateActiveList(p)
        \/ UpdateStatusGet(p) \/ UpdateStatusSet(p)
    BY <1>1 DEF RestSharedStep, StoreStep, RemoveGet, RemoveSet, RemoveUser, RemoveList, EndGet,
                EndUsers, EndDel, RestLabelOK, RestLabel
  <1> QED BY <1>2, <1>3, <1>4, <1>6, <1>7, <1>8

-----------------------------------------------------------------------------
(* POST /calls/initiate *)
LEMMA InitiateInv ==
  ASSUME NEW p \in Proc, Ready(p),
         \/ \E u, v \in User : InitiateCall(p, u, v)
         \/ CheckInitiator(p) \/ CheckTarget(p) \/ SaveRecord(p) \/ ArmRinging(p)
  PROVE  Handed(p)
  <1> USE DEF At
  <1>1. /\ StoreTypeOK /\ LifecycleTypeOK /\ TimerTypes
        /\ RestLabelOK(pc[p], loc[p]) /\ ClosingOK(pc[p], loc[p], closing)
        /\ \A c \in Call : pending[c] > 0 => c \in closing
        /\ loc[p] \in Locals /\ pc[p] \in Label
    BY AtStep
  <1>2. ASSUME Finish(p), pc[p] \in {"i_self", "i_peer"}, UNCHANGED <<record, keys, lifecycleVars>>
        PROVE  Handed(p)
    <2>1. StoreTypeOK'
      BY <1>1, <1>2, FinishFacts DEF StoreTypeOK, keys
    <2>2. ~Driving(p)
      BY <1>2 DEF Driving
    <2> QED BY <1>1, <1>2, <2>1, <2>2, FinishFacts, QuietStep DEF Exists
  <1>3. ASSUME NEW u \in User, NEW v \in User, InitiateCall(p, u, v) PROVE Handed(p)
    <2> DEFINE l == [NoLocals EXCEPT !.op = "initiate", !.user = u, !.peer = v]
    <2>1. l \in Locals /\ "i_self" \in Label
      BY NoLocalsType, StartType DEF RestOp, Label, RestLabel
    <2>2. l.op = "initiate" /\ l.user = u /\ l.peer = v /\ l.want = "none"
      BY DEF NoLocals
    <2>3. /\ Request /\ Begin(p, "i_self", l)
          /\ UNCHANGED <<record, keys, timers, faults, closing>>
      BY <1>3 DEF InitiateCall
    <2> HIDE DEF l
    <2>4. RestTypeOK'
      BY <1>1, <2>1, <2>3, BeginFacts, RequestType
      DEF RestTypeOK, StoreTypeOK, LifecycleTypeOK, keys, timers
    <2>5. RestLabelOK("i_self", l) /\ ClosingOK("i_self", l, closing')
      BY <2>2 DEF RestLabelOK, ClosingOK, TerminalStatus, RestLabel
    <2>6. ~Driving(p)
      BY <1>1, <2>1, <2>3, BeginFacts DEF Driving
    <2> QED BY <1>1, <2>1, <2>3, <2>4, <2>5, <2>6, BeginFacts, HandOver
            DEF Exists, Timed, timers
  <1>4. CASE CheckInitiator(p)
    <2>1. CASE Goto(p, "i_peer") /\ UNCHANGED loc
      <3>1. pc[p] = "i_self" /\ UNCHANGED <<record, keys, lifecycleVars>> /\ "i_peer" \in Label
        BY <1>4 DEF CheckInitiator, Label, RestLabel
      <3>2. StoreTypeOK'
        BY <1>1, <2>1, <3>1, GotoFacts DEF StoreTypeOK, keys
      <3>3. RestLabelOK("i_peer", loc[p]) /\ ClosingOK("i_peer", loc[p], closing)
        BY <1>1, <3>1 DEF RestLabelOK, ClosingOK, RestLabel
      <3>4. ~Driving(p)
        BY <3>1 DEF Driving
      <3> QED BY <1>1, <2>1, <3>1, <3>2, <3>3, <3>4, GotoFacts, QuietStep DEF Exists
    <2> QED BY <1>2, <1>4, <2>1 DEF CheckInitiator
  <1>5. CASE CheckTarget(p)
    <2>1. CASE Proceed(p)
      <3>1. /\ pc[p] = "i_peer" /\ UNCHANGED <<record, keys, lifecycleVars>>
            /\ Goto(p, "i_save") /\ "i_save" \in Label
        BY <1>5, <2>1 DEF CheckTarget, Proceed, Label, RestLabel
      <3>2. PICK c \in Call : loc' = [loc EXCEPT ![p].call = c] /\ c \notin closing
        BY <2>1 DEF Proceed
      <3>3. /\ loc'[p] = [loc[p] EXCEPT !.call = c] /\ loc' \in [Proc -> Locals]
            /\ \A q \in Proc \ {p} : loc'[q] = loc[q]
        BY <1>1, <3>2, LocalsType DEF StoreTypeOK
      <3>4. /\ loc'[p].op = loc[p].op /\ loc'[p].want = loc[p].want /\ loc'[p].call = c
            /\ loc'[p].user = loc[p].user /\ loc'[p].peer = loc[p].peer
        BY <1>1, <3>3 DEF Locals
      <3>5. StoreTypeOK'
        BY <1>1, <3>1, <3>3, GotoFacts DEF StoreTypeOK, keys
      <3>6. RestLabelOK("i_save", loc'[p]) /\ ClosingOK("i_save", loc'[p], closing)
        BY <1>1, <3>1, <3>4 DEF RestLabelOK, ClosingOK, RestLabel, TerminalStatus
      <3>7. ~Driving(p)
        BY <3>1 DEF Driving
      <3> QED BY <1>1, <3>1, <3>3, <3>5, <3>6, <3>7, GotoFacts, QuietStep DEF Exists
    <2> QED BY <1>2, <1>5, <2>1 DEF CheckTarget
  <1>6. CASE SaveRecord(p)
    <2>1. /\ pc[p] = "i_save" /\ UNCHANGED <<keys, lifecycleVars>>
          /\ record' = [record EXCEPT ![loc[p].call] = NewRecord(loc[p].user, loc[p].peer)]
          /\ pc' = [pc EXCEPT ![p] = "ca_set"]
          /\ loc' = [loc EXCEPT ![p] = [loc[p] EXCEPT !.ret = "us_mongo", !.want = "ringing"]]
      BY <1>6 DEF SaveRecord
    <2>2. /\ loc[p].op = "initiate" /\ loc[p].call \in Call
          /\ loc[p].user \in User /\ loc[p].peer \in User
      BY <1>1, <2>1 DEF RestLabelOK
    <2>3. [loc[p] EXCEPT !.ret = "us_mongo", !.want = "ringing"] \in Locals
      BY <1>1, LocalsType DEF Label, RestLabel, Status, OpenStatus
    <2>4. /\ pc'[p] = "ca_set"
          /\ loc'[p] = [loc[p] EXCEPT !.ret = "us_mongo", !.want = "ringing"]
          /\ \A q \in Proc \ {p} : pc'[q] = pc[q] /\ loc'[q] = loc[q]
      BY <1>1, <2>1 DEF StoreTypeOK
    <2>5. /\ loc'[p].op = "initiate" /\ loc'[p].call = loc[p].call
          /\ loc'[p].user = loc[p].user /\ loc'[p].peer = loc[p].peer
          /\ loc'[p].ret = "us_mongo" /\ loc'[p].want = "ringing"
      BY <1>1, <2>2, <2>4 DEF Locals
    <2>6. RestTypeOK'
      BY <1>1, <2>1, <2>2, <2>3, NewRecordType
      DEF RestTypeOK, StoreTypeOK, LifecycleTypeOK, lifecycleVars, keys, Label, StoreLabel
    <2>7. RestLabelOK("ca_set", loc'[p]) /\ ClosingOK("ca_set", loc'[p], closing')
      BY <2>2, <2>5 DEF RestLabelOK, ClosingOK, TerminalStatus
    <2>8. Driving(p)'
      BY <2>4, <2>5 DEF Driving
    <2>9. \A c \in Call : /\ Exists(c)' => Exists(c) \/ loc'[p].call = c
                          /\ Timed(c) => Timed(c)'
      BY <1>1, <2>1, <2>2, <2>5 DEF StoreTypeOK, Exists, Timed, lifecycleVars
    <2> QED BY <1>1, <2>1, <2>4, <2>5, <2>6, <2>7, <2>8, <2>9, HandOver DEF lifecycleVars
  <1>7. CASE ArmRinging(p)
    <2>1. /\ pc[p] = "arm_ring" /\ Arm(loc[p].call, "ringing") /\ Finish(p)
          /\ UNCHANGED <<record, keys, requests, faults, closing>> /\ loc[p].call \in Call
      BY <1>1, <1>7 DEF ArmRinging, RestLabelOK
    <2> QED BY <2>1, ArmedStep DEF Kind
  <1> QED BY <1>3, <1>4, <1>5, <1>6, <1>7

-----------------------------------------------------------------------------
(* PATCH accept and connected, and updateCallStatus in MongoDB *)
LEMMA AcceptInv ==
  ASSUME NEW p \in Proc, Ready(p),
         \/ \E c \in Call, u \in User : AcceptCall(p, c, u) \/ MarkConnected(p, c, u)
         \/ CheckRinging(p) \/ JoinParticipant(p) \/ ArmConnecting(p)
         \/ RecordStarted(p) \/ ArmMaxDuration(p) \/ StatusMongo(p)
  PROVE  Handed(p)
  <1> USE DEF At
  <1>1. /\ StoreTypeOK /\ LifecycleTypeOK /\ TimerTypes
        /\ RestLabelOK(pc[p], loc[p]) /\ ClosingOK(pc[p], loc[p], closing)
        /\ \A c \in Call : pending[c] > 0 => c \in closing
        /\ loc[p] \in Locals /\ pc[p] \in Label
    BY AtStep
  <1>2. ASSUME NEW c \in Call, NEW u \in User, AcceptCall(p, c, u) PROVE Handed(p)
    <2> DEFINE l == [NoLocals EXCEPT !.op = "accept", !.call = c, !.user = u]
    <2>1. l \in Locals /\ "a_get" \in Label
      BY NoLocalsType, StartType DEF RestOp, Label, RestLabel
    <2>2. l.op = "accept" /\ l.call = c /\ l.want = "none"
      BY DEF NoLocals
    <2>3. /\ Request /\ Begin(p, "a_get", l)
          /\ UNCHANGED <<record, keys, timers, faults, closing>>
      BY <1>2 DEF AcceptCall
    <2> HIDE DEF l
    <2>4. RestLabelOK("a_get", l) /\ ClosingOK("a_get", l, closing)
      BY <2>2 DEF RestLabelOK, ClosingOK, TerminalStatus, RestLabel
    <2>5. TimerTypes' /\ pending' \in [Call -> Nat] /\ \A d \in Call : Timed(d) => Timed(d)'
      BY <1>1, <2>3 DEF TimerTypes, LifecycleTypeOK, timers, Timed
    <2> QED BY <1>1, <2>1, <2>3, <2>4, <2>5, RequestType, StartStep DEF timers
  <1>3. ASSUME NEW c \in Call, NEW u \in User, MarkConnected(p, c, u) PROVE Handed(p)
    <2> DEFINE l == [NoLocals EXCEPT !.op = "connect", !.call = c, !.user = u, !.want = "active"]
    <2>1. l \in Locals /\ "us_mongo" \in Label
      BY NoLocalsType, StartType DEF RestOp, Label, RestLabel, Status, OpenStatus
    <2>2. l.op = "connect" /\ l.call = c /\ l.want = "active"
      BY DEF NoLocals
    <2>3. /\ Request /\ Begin(p, "us_mongo", l) /\ Clear(c, "connecting")
          /\ UNCHANGED <<record, keys, faults, closing>>
      BY <1>3 DEF MarkConnected
    <2> HIDE DEF l
    <2>4. RestLabelOK("us_mongo", l) /\ ClosingOK("us_mongo", l, closing)
      BY <2>2 DEF RestLabelOK, ClosingOK, TerminalStatus, RestLabel
    <2>5. /\ TimerTypes' /\ \A d \in Call \ {c} : Timed(d) => Timed(d)'
          /\ pending' = pending
      BY <1>1, <2>3, ClearFacts DEF Clear, Kind
    <2>6. Driving(p)'
      BY <1>1, <2>1, <2>2, <2>3, BeginFacts DEF Driving
    <2> QED BY <1>1, <2>1, <2>2, <2>3, <2>4, <2>5, <2>6, RequestType, StartStep
            DEF LifecycleTypeOK
  <1>4. CASE CheckRinging(p)
    <2>1. /\ pc[p] = "a_get" /\ ~Driving(p) /\ "a_part" \in Label
          /\ UNCHANGED <<record, keys, lifecycleVars>>
      BY <1>4 DEF CheckRinging, Driving, Label, RestLabel
    <2>2. CASE Goto(p, "a_part") /\ UNCHANGED loc
      <3>1. RestLabelOK("a_part", loc[p]) /\ ClosingOK("a_part", loc[p], closing)
        BY <1>1, <2>1 DEF RestLabelOK, ClosingOK, RestLabel
      <3> QED BY <1>1, <2>1, <2>2, <3>1, GotoStep DEF StoreTypeOK, Exists
    <2>3. CASE Finish(p)
      <3>1. StoreTypeOK'
        BY <1>1, <2>1, <2>3, FinishFacts DEF StoreTypeOK, keys
      <3> QED BY <1>1, <2>1, <2>3, <3>1, FinishFacts, QuietStep DEF Exists
    <2> QED BY <1>4, <2>2, <2>3 DEF CheckRinging
  <1>5. CASE JoinParticipant(p)
    <2> PICK c \in Call : c = loc[p].call
      BY <1>1, <1>5 DEF JoinParticipant, RestLabelOK
    <2>1. /\ pc[p] = "a_part" /\ Clear(c, "ringing")
          /\ Write(p, WithPart(record[c], loc[p].user, "joined"))
          /\ Goto(p, "us_mongo") /\ "us_mongo" \in Label
          /\ loc' = [loc EXCEPT ![p] = [loc[p] EXCEPT !.want = "connecting"]]
          /\ UNCHANGED <<keys, requests, faults, closing>>
      BY <1>5 DEF JoinParticipant, Label, RestLabel
    <2>2. record' \in [Call -> Record] /\ \A d \in Call : Exists(d)' => Exists(d)
      BY <1>1, <2>1, WithPartType, WriteExists DEF StoreTypeOK, PartStatus
    <2>3. [loc[p] EXCEPT !.want = "connecting"] \in Locals
      BY <1>1, LocalsType DEF Status, OpenStatus
    <2>4. /\ loc' \in [Proc -> Locals] /\ loc'[p] = [loc[p] EXCEPT !.want = "connecting"]
          /\ \A q \in Proc \ {p} : loc'[q] = loc[q]
      BY <1>1, <2>1, <2>3 DEF StoreTypeOK
    <2>5. loc'[p].op = "accept" /\ loc'[p].call = c /\ loc'[p].want = "connecting"
      BY <1>1, <2>1, <2>4 DEF Locals, RestLabelOK
    <2>6. TimerTypes' /\ pending' = pending /\ \A d \in Call \ {c} : Timed(d) => Timed(d)'
      BY <1>1, <2>1, ClearFacts DEF Clear, Kind
    <2>7. RestTypeOK'
      BY <1>1, <2>1, <2>2, <2>4, <2>6, GotoFacts
      DEF RestTypeOK, StoreTypeOK, LifecycleTypeOK, TimerTypes, keys
    <2>8. RestLabelOK("us_mongo", loc'[p]) /\ ClosingOK("us_mongo", loc'[p], closing')
      BY <2>5 DEF RestLabelOK, ClosingOK, TerminalStatus, RestLabel
    <2>9. Driving(p)' /\ pc'[p] = "us_mongo" /\ \A q \in Proc \ {p} : pc'[q] = pc[q]
      BY <1>1, <2>1, <2>5, GotoFacts DEF Driving
    <2> QED BY <1>1, <2>1, <2>2, <2>4, <2>5, <2>6, <2>7, <2>8, <2>9, HandOver
  <1>6. CASE ArmConnecting(p)
    <2>1. /\ Arm(loc[p].call, "connecting") /\ Finish(p) /\ loc[p].call \in Call
          /\ UNCHANGED <<record, keys, requests, faults, closing>>
      BY <1>1, <1>6 DEF ArmConnecting, RestLabelOK
    <2> QED BY <2>1, ArmedStep DEF Kind
  <1>7. CASE RecordStarted(p)
    <2>1. /\ pc[p] = "c_started" /\ Goto(p, "arm_max") /\ "arm_max" \in Label
          /\ UNCHANGED <<record, keys, loc, lifecycleVars>>
      BY <1>7 DEF RecordStarted, Label, RestLabel
    <2>2. RestLabelOK("arm_max", loc[p]) /\ ClosingOK("arm_max", loc[p], closing)
      BY <1>1, <2>1 DEF RestLabelOK, ClosingOK, RestLabel
    <2>3. Driving(p) => Driving(p)'
      BY <1>1, <2>1, GotoFacts DEF Driving
    <2> QED BY <1>1, <2>1, <2>2, <2>3, GotoStep DEF StoreTypeOK, Exists
  <1>8. CASE ArmMaxDuration(p)
    <2>1. /\ Arm(loc[p].call, "max_duration") /\ Finish(p) /\ loc[p].call \in Call
          /\ UNCHANGED <<record, keys, requests, faults, closing>>
      BY <1>1, <1>8 DEF ArmMaxDuration, RestLabelOK
    <2> QED BY <2>1, ArmedStep DEF Kind
  <1>9. CASE StatusMongo(p)
    <2> DEFINE back == IF loc[p].want = "failed" THEN "f_mongo" ELSE AfterStatus(loc[p])
    <2> PICK c \in Call : c = loc[p].call
      BY <1>1, <1>9 DEF StatusMongo, RestLabelOK
    <2>1. /\ pc[p] = "us_mongo" /\ Write(p, [record[c] EXCEPT !.status = loc[p].want])
          /\ pc' = [pc EXCEPT ![p] = "us_get"] /\ "us_get" \in Label
          /\ loc' = [loc EXCEPT ![p] = [loc[p] EXCEPT !.ret = back]]
          /\ UNCHANGED <<keys, lifecycleVars>>
      BY <1>9 DEF StatusMongo, Enter, Label, StoreLabel
    <2>2. back \in Label
      BY DEF AfterStatus, Label, RestLabel
    <2>3. record' \in [Call -> Record] /\ \A d \in Call : Exists(d)' => Exists(d)
      <3>1. [record[c] EXCEPT !.status = loc[p].want] \in Record
        BY <1>1, StatusType DEF StoreTypeOK, Locals
      <3> QED BY <1>1, <2>1, <3>1, WriteExists DEF StoreTypeOK
    <2>4. /\ loc' \in [Proc -> Locals] /\ loc'[p] = [loc[p] EXCEPT !.ret = back]
          /\ pc' \in [Proc -> Label] /\ pc'[p] = "us_get"
          /\ \A q \in Proc \ {p} : pc'[q] = pc[q] /\ loc'[q] = loc[q]
      BY <1>1, <2>1, <2>2, LocalsType DEF StoreTypeOK
    <2>5. /\ loc'[p].op = loc[p].op /\ loc'[p].call = c /\ loc'[p].want = loc[p].want
          /\ loc'[p].ret = back
      BY <1>1, <2>4 DEF Locals
    <2>6. StoreTypeOK'
      BY <1>1, <2>1, <2>3, <2>4 DEF StoreTypeOK, keys
    <2>7. RestLabelOK("us_get", loc'[p]) /\ ClosingOK("us_get", loc'[p], closing)
      BY <1>1, <2>1, <2>5 DEF RestLabelOK, ClosingOK, AfterStatus
    <2>8. Driving(p) => Driving(p)'
      BY <2>1, <2>4, <2>5 DEF Driving
    <2> QED BY <2>1, <2>3, <2>4, <2>5, <2>6, <2>7, <2>8, QuietStep
  <1> QED BY <1>2, <1>3, <1>4, <1>5, <1>6, <1>7, <1>8, <1>9

-----------------------------------------------------------------------------
(* Ending a call *)
LEMMA EndInv ==
  ASSUME NEW p \in Proc, Ready(p),
         \/ \E c \in Call, u \in User : DeclineCall(p, c, u) \/ HangupCall(p, c, u)
         \/ DeclineParticipant(p) \/ EndFind(p) \/ EndRecord(p)
         \/ EndParticipant(p) \/ EndSchedule(p)
  PROVE  Handed(p)
  <1> USE DEF At
  <1>1. /\ StoreTypeOK /\ LifecycleTypeOK /\ TimerTypes
        /\ RestLabelOK(pc[p], loc[p]) /\ ClosingOK(pc[p], loc[p], closing)
        /\ \A c \in Call : pending[c] > 0 => c \in closing
        /\ loc[p] \in Locals /\ pc[p] \in Label
    BY AtStep
  <1>2. ASSUME NEW c \in Call, NEW u \in User, DeclineCall(p, c, u) PROVE Handed(p)
    <2> DEFINE l == [NoLocals EXCEPT !.op = "decline", !.call = c, !.user = u, !.why = "declined"]
    <2>1. l \in Locals /\ "d_part" \in Label
      BY NoLocalsType, StartType DEF RestOp, Label, RestLabel, Reason
    <2>2. l.op = "decline" /\ l.call = c /\ l.want = "none"
      BY DEF NoLocals
    <2>3. /\ Request /\ Begin(p, "d_part", l)
          /\ UNCHANGED <<record, keys, timers, faults, closing>>
      BY <1>2 DEF DeclineCall
    <2> HIDE DEF l
    <2>4. RestLabelOK("d_part", l) /\ ClosingOK("d_part", l, closing)
      BY <2>2 DEF RestLabelOK, ClosingOK, TerminalStatus, RestLabel
    <2>5. TimerTypes' /\ pending' \in [Call -> Nat] /\ \A d \in Call : Timed(d) => Timed(d)'
      BY <1>1, <2>3 DEF TimerTypes, LifecycleTypeOK, timers, Timed
    <2> QED BY <1>1, <2>1, <2>3, <2>4, <2>5, RequestType, StartStep DEF timers
  <1>3. ASSUME NEW c \in Call, NEW u \in User, HangupCall(p, c, u) PROVE Handed(p)
    <2> DEFINE l == [NoLocals EXCEPT !.op = "hangup", !.call = c, !.user = u, !.why = "user_hangup"]
    <2>1. l \in Locals /\ "e_find" \in Label
      BY NoLocalsType, StartType DEF RestOp, Label, RestLabel, Reason
    <2>2. l.op = "hangup" /\ l.call = c /\ l.want = "none"
      BY DEF NoLocals
    <2>3. /\ Request /\ Begin(p, "e_find", l)
          /\ UNCHANGED <<record, keys, timers, faults, closing>>
      BY <1>3 DEF HangupCall
    <2> HIDE DEF l
    <2>4. RestLabelOK("e_find", l) /\ ClosingOK("e_find", l, closing)
      BY <2>2 DEF RestLabelOK, ClosingOK, TerminalStatus, RestLabel
    <2>5. TimerTypes' /\ pending' \in [Call -> Nat] /\ \A d \in Call : Timed(d) => Timed(d)'
      BY <1>1, <2>3 DEF TimerTypes, LifecycleTypeOK, timers, Timed
    <2> QED BY <1>1, <2>1, <2>3, <2>4, <2>5, RequestType, StartStep DEF timers
  <1>4. CASE DeclineParticipant(p)
    <2>1. /\ pc[p] = "d_part" /\ Goto(p, "e_find") /\ "e_find" \in Label /\ loc[p].call \in Call
          /\ Write(p, WithPart(record[loc[p].call], loc[p].user, "declined"))
          /\ UNCHANGED <<keys, loc, lifecycleVars>>
      BY <1>1, <1>4 DEF DeclineParticipant, Label, RestLabel, RestLabelOK
    <2>2. record' \in [Call -> Record] /\ \A d \in Call : Exists(d)' => Exists(d)
      BY <1>1, <2>1, WithPartType, WriteExists DEF StoreTypeOK, PartStatus
    <2>3. RestLabelOK("e_find", loc[p]) /\ ClosingOK("e_find", loc[p], closing)
      BY <1>1, <2>1 DEF RestLabelOK, ClosingOK, RestLabel
    <2>4. Driving(p)'
      BY <1>1, <2>1, GotoFacts DEF Driving
    <2> QED BY <2>1, <2>2, <2>3, <2>4, GotoStep
  <1>5. CASE EndFind(p)
    <2>1. /\ pc[p] = "e_find" /\ pc' = [pc EXCEPT ![p] = "e_mongo"] /\ "e_mongo" \in Label
          /\ ClearAll(loc[p].call) /\ closing' = closing \cup {loc[p].call}
          /\ UNCHANGED <<record, keys, loc, stray, pending, requests, faults>>
          /\ loc[p].call \in Call
      BY <1>1, <1>5 DEF EndFind, Goto, Label, RestLabel, RestLabelOK
    <2>2. RestLabelOK("e_mongo", loc'[p]) /\ ClosingOK("e_mongo", loc'[p], closing')
      BY <1>1, <2>1 DEF RestLabelOK, ClosingOK, RestLabel
    <2> QED BY <1>1, <2>1, <2>2, BeginClosing DEF StoreTypeOK, LifecycleTypeOK
  <1>6. CASE EndRecord(p)
    <2> PICK c \in Call : c = loc[p].call
      BY <1>1, <1>6 DEF EndRecord, RestLabelOK
    <2>1. /\ pc[p] = "e_mongo" /\ Goto(p, "us_mongo") /\ "us_mongo" \in Label
          /\ Write(p, [record[c] EXCEPT !.status = "ended", !.reason = loc[p].why])
          /\ loc' = [loc EXCEPT ![p] = [loc[p] EXCEPT !.want = "ended"]]
          /\ UNCHANGED <<keys, lifecycleVars>>
      BY <1>6 DEF EndRecord, Label, RestLabel
    <2>2. record' \in [Call -> Record] /\ \A d \in Call : Exists(d)' => Exists(d)
      <3>1. [record[c] EXCEPT !.status = "ended", !.reason = loc[p].why] \in Record
        BY <1>1, EndedType DEF StoreTypeOK, Locals, Status, TerminalStatus
      <3> QED BY <1>1, <2>1, <3>1, WriteExists DEF StoreTypeOK
    <2>3. /\ loc' \in [Proc -> Locals] /\ loc'[p] = [loc[p] EXCEPT !.want = "ended"]
          /\ \A q \in Proc \ {p} : loc'[q] = loc[q]
      BY <1>1, <2>1, LocalsType DEF StoreTypeOK, Status, TerminalStatus
    <2>4. loc'[p].call = c /\ loc'[p].want = "ended"
      BY <1>1, <2>3 DEF Locals
    <2>5. StoreTypeOK'
      BY <1>1, <2>1, <2>2, <2>3, GotoFacts DEF StoreTypeOK, keys
    <2>6. c \in closing
      BY <1>1, <2>1 DEF ClosingOK
    <2>7. RestLabelOK("us_mongo", loc'[p]) /\ ClosingOK("us_mongo", loc'[p], closing)
      BY <2>4, <2>6 DEF RestLabelOK, ClosingOK, TerminalStatus, RestLabel
    <2> QED BY <1>1, <2>1, <2>2, <2>3, <2>5, <2>6, <2>7, GotoFacts, QuietStep
  <1>7. CASE EndParticipant(p)
    <2>1. /\ pc[p] = "e_part" /\ Goto(p, "e_sched") /\ "e_sched" \in Label /\ loc[p].call \in Call
          /\ Write(p, WithPart(record[loc[p].call], loc[p].user, "left"))
          /\ UNCHANGED <<keys, loc, lifecycleVars>>
      BY <1>1, <1>7 DEF EndParticipant, Label, RestLabel, RestLabelOK
    <2>2. record' \in [Call -> Record] /\ \A d \in Call : Exists(d)' => Exists(d)
      BY <1>1, <2>1, WithPartType, WriteExists DEF StoreTypeOK, PartStatus
    <2>3. /\ RestLabelOK("e_sched", loc[p]) /\ ClosingOK("e_sched", loc[p], closing)
          /\ loc[p].call \in closing
      BY <1>1, <2>1 DEF RestLabelOK, ClosingOK, RestLabel
    <2> QED BY <2>1, <2>2, <2>3, GotoStep
  <1>8. CASE EndSchedule(p)
    <2>1. loc[p].call \in Call /\ loc[p].call \in closing
      BY <1>1, <1>8 DEF EndSchedule, RestLabelOK, ClosingOK
    <2> QED BY <1>8, <2>1, ScheduleStep DEF EndSchedule
  <1> QED BY <1>2, <1>3, <1>4, <1>5, <1>6, <1>7, <1>8

-----------------------------------------------------------------------------
(* Timers and handleCallFailure *)
LEMMA FailInv ==
  ASSUME NEW p \in Proc, Ready(p),
         \/ \E c \in Call : \/ RingingTimeout(p, c) \/ ConnectingTimeout(p, c)
                           \/ MaxDurationTimeout(p, c)
         \/ FailBegin(p) \/ FailRecord(p) \/ FailSchedule(p)
  PROVE  Handed(p)
  <1> USE DEF At
  <1>1. /\ StoreTypeOK /\ LifecycleTypeOK /\ TimerTypes
        /\ RestLabelOK(pc[p], loc[p]) /\ ClosingOK(pc[p], loc[p], closing)
        /\ \A c \in Call : pending[c] > 0 => c \in closing
        /\ loc[p] \in Locals /\ pc[p] \in Label
    BY AtStep
  <1>2. ASSUME NEW c \in Call, RingingTimeout(p, c) PROVE Handed(p)
    <2> DEFINE l == [NoLocals EXCEPT !.op = "ring_timeout", !.call = c, !.why = "timeout"]
    <2>1. l \in Locals /\ "f_begin" \in Label
      BY NoLocalsType, StartType DEF RestOp, Label, RestLabel, Reason
    <2>2. l.op = "ring_timeout" /\ l.call = c /\ l.want = "none"
      BY DEF NoLocals
    <2>3. /\ Fire(c, "ringing") /\ Begin(p, "f_begin", l)
          /\ UNCHANGED <<record, keys, pending, requests, faults, closing>>
      BY <1>2 DEF RingingTimeout
    <2> HIDE DEF l
    <2>4. RestLabelOK("f_begin", l) /\ ClosingOK("f_begin", l, closing)
      BY <2>2 DEF RestLabelOK, ClosingOK, TerminalStatus, RestLabel
    <2>5. TimerTypes' /\ \A d \in Call \ {c} : Timed(d) => Timed(d)'
      BY <1>1, <2>3, FireFacts DEF Kind
    <2>6. Driving(p)'
      BY <1>1, <2>1, <2>3, BeginFacts DEF Driving
    <2> QED BY <1>1, <2>1, <2>2, <2>3, <2>4, <2>5, <2>6, StartStep DEF LifecycleTypeOK
  <1>3. ASSUME NEW c \in Call, ConnectingTimeout(p, c) PROVE Handed(p)
    <2> DEFINE l == [NoLocals EXCEPT !.op = "connect_timeout", !.call = c, !.why = "connection_timeout"]
    <2>1. l \in Locals /\ "f_begin" \in Label
      BY NoLocalsType, StartType DEF RestOp, Label, RestLabel, Reason
    <2>2. l.op = "connect_timeout" /\ l.call = c /\ l.want = "none"
      BY DEF NoLocals
    <2>3. /\ Fire(c, "connecting") /\ Begin(p, "f_begin", l)
          /\ UNCHANGED <<record, keys, pending, requests, faults, closing>>
      BY <1>3 DEF ConnectingTimeout
    <2> HIDE DEF l
    <2>4. RestLabelOK("f_begin", l) /\ ClosingOK("f_begin", l, closing)
      BY <2>2 DEF RestLabelOK, ClosingOK, TerminalStatus, RestLabel
    <2>5. TimerTypes' /\ \A d \in Call \ {c} : Timed(d) => Timed(d)'
      BY <1>1, <2>3, FireFacts DEF Kind
    <2>6. Driving(p)'
      BY <1>1, <2>1, <2>3, BeginFacts DEF Driving
    <2> QED BY <1>1, <2>1, <2>2, <2>3, <2>4, <2>5, <2>6, StartStep DEF LifecycleTypeOK
  <1>4. ASSUME NEW c \in Call, MaxDurationTimeout(p, c) PROVE Handed(p)
    <2> DEFINE l == [NoLocals EXCEPT !.op = "max_timeout", !.call = c, !.why = "max_duration_reached"]
    <2>1. l \in Locals /\ "e_find" \in Label
      BY NoLocalsType, StartType DEF RestOp, Label, RestLabel, Reason
    <2>2. l.op = "max_timeout" /\ l.call = c /\ l.want = "none"
      BY DEF NoLocals
    <2>3. /\ Fire(c, "max_duration") /\ Begin(p, "e_find", l)
          /\ UNCHANGED <<record, keys, pending, requests, faults, closing>>
      BY <1>4 DEF MaxDurationTimeout
    <2> HIDE DEF l
    <2>4. RestLabelOK("e_find", l) /\ ClosingOK("e_find", l, closing)
      BY <2>2 DEF RestLabelOK, ClosingOK, TerminalStatus, RestLabel
    <2>5. TimerTypes' /\ \A d \in Call \ {c} : Timed(d) => Timed(d)'
      BY <1>1, <2>3, FireFacts DEF Kind
    <2>6. Driving(p)'
      BY <1>1, <2>1, <2>3, BeginFacts DEF Driving
    <2> QED BY <1>1, <2>1, <2>2, <2>3, <2>4, <2>5, <2>6, StartStep DEF LifecycleTypeOK
  <1>5. CASE FailBegin(p)
    <2>1. /\ pc[p] = "f_begin" /\ pc' = [pc EXCEPT ![p] = "us_mongo"] /\ "us_mongo" \in Label
          /\ ClearAll(loc[p].call) /\ closing' = closing \cup {loc[p].call}
          /\ loc' = [loc EXCEPT ![p] = [loc[p] EXCEPT !.want = "failed"]]
          /\ UNCHANGED <<record, keys, stray, pending, requests, faults>>
          /\ loc[p].call \in Call
      BY <1>1, <1>5 DEF FailBegin, Goto, Label, RestLabel, RestLabelOK
    <2>2. /\ loc' \in [Proc -> Locals] /\ loc'[p] = [loc[p] EXCEPT !.want = "failed"]
          /\ \A q \in Proc \ {p} : loc'[q] = loc[q]
      BY <1>1, <2>1, LocalsType DEF StoreTypeOK, Status, TerminalStatus
    <2>3. loc'[p].call = loc[p].call /\ loc'[p].want = "failed"
      BY <1>1, <2>2 DEF Locals
    <2>4. RestLabelOK("us_mongo", loc'[p]) /\ ClosingOK("us_mongo", loc'[p], closing')
      BY <2>1, <2>3 DEF RestLabelOK, ClosingOK, RestLabel, TerminalStatus
    <2> QED BY <1>1, <2>1, <2>2, <2>3, <2>4, BeginClosing DEF LifecycleTypeOK
  <1>6. CASE FailRecord(p)
    <2> PICK c \in Call : c = loc[p].call
      BY <1>1, <1>6 DEF FailRecord, RestLabelOK
    <2>1. /\ pc[p] = "f_mongo" /\ Goto(p, "f_sched") /\ "f_sched" \in Label
          /\ Write(p, [record[c] EXCEPT !.status = "failed", !.reason = loc[p].why])
          /\ UNCHANGED <<keys, loc, lifecycleVars>>
      BY <1>6 DEF FailRecord, Label, RestLabel
    <2>2. record' \in [Call -> Record] /\ \A d \in Call : Exists(d)' => Exists(d)
      <3>1. [record[c] EXCEPT !.status = "failed", !.reason = loc[p].why] \in Record
        BY <1>1, EndedType DEF StoreTypeOK, Locals, Status, TerminalStatus
      <3> QED BY <1>1, <2>1, <3>1, WriteExists DEF StoreTypeOK
    <2>3. /\ RestLabelOK("f_sched", loc[p]) /\ ClosingOK("f_sched", loc[p], closing)
          /\ loc[p].call \in closing
      BY <1>1, <2>1 DEF RestLabelOK, ClosingOK, RestLabel
    <2> QED BY <2>1, <2>2, <2>3, GotoStep
  <1>7. CASE FailSchedule(p)
    <2>1. loc[p].call \in Call /\ loc[p].call \in closing
      BY <1>1, <1>7 DEF FailSchedule, RestLabelOK, ClosingOK
    <2> QED BY <1>7, <2>1, ScheduleStep DEF FailSchedule
  <1> QED BY <1>2, <1>3, <1>4, <1>5, <1>6, <1>7

-----------------------------------------------------------------------------
(* cleanupCall *)
LEMMA CleanupInv ==
  ASSUME NEW p \in Proc, Ready(p),
         \/ \E c \in Call : CleanupCall(p, c)
         \/ CleanupDelete(p) \/ CleanupGet(p) \/ CleanupUnlist(p)
         \/ CleanupReadUser(p) \/ CleanupIdle(p)
  PROVE  Handed(p)
  <1> USE DEF At
  <1>1. /\ StoreTypeOK /\ LifecycleTypeOK /\ TimerTypes
        /\ RestLabelOK(pc[p], loc[p]) /\ ClosingOK(pc[p], loc[p], closing)
        /\ \A c \in Call : pending[c] > 0 => c \in closing
        /\ loc[p] \in Locals /\ pc[p] \in Label
    BY AtStep
  <1>2. ASSUME NEW c \in Call, CleanupCall(p, c) PROVE Handed(p)
    <2> DEFINE l == [NoLocals EXCEPT !.op = "cleanup", !.call = c]
    <2>1. l \in Locals /\ "cl_del" \in Label
      BY NoLocalsType, StartType DEF RestOp, Label, RestLabel
    <2>2. l.op = "cleanup" /\ l.call = c /\ l.want = "none"
      BY DEF NoLocals
    <2>3. /\ pending[c] > 0 /\ pending' = [pending EXCEPT ![c] = @ - 1]
          /\ ClearAll(c) /\ Begin(p, "cl_del", l)
          /\ UNCHANGED <<record, keys, stray, requests, faults, closing>>
      BY <1>2 DEF CleanupCall
    <2> HIDE DEF l
    <2>4. RestLabelOK("cl_del", l) /\ ClosingOK("cl_del", l, closing)
      BY <2>2 DEF RestLabelOK, ClosingOK, TerminalStatus, RestLabel
    <2>5. TimerTypes' /\ \A d \in Call \ {c} : Timed(d) => Timed(d)'
      BY <1>1, <2>3, ClearAllFacts
    <2>6. c \in closing
      BY <1>1, <2>3
    <2>7. /\ pending' \in [Call -> Nat]
          /\ \A d \in Call : pending'[d] > 0 => d \in closing
      BY <1>1, <2>3, <2>6 DEF LifecycleTypeOK
    <2> QED BY <1>1, <2>1, <2>3, <2>4, <2>5, <2>6, <2>7, StartStep DEF LifecycleTypeOK
  <1>3. CASE CleanupDelete(p)
    <2>1. /\ pc[p] = "cl_del" /\ Goto(p, "cl_get") /\ "cl_get" \in Label
          /\ active' = [active EXCEPT ![loc[p].call] = Absent]
          /\ UNCHANGED <<record, userStatus, userCalls, signaling, loc, lifecycleVars>>
      BY <1>3 DEF CleanupDelete, Label, RestLabel
    <2>2. StoreTypeOK'
      BY <1>1, <2>1, GotoFacts DEF StoreTypeOK, Absent, ActiveState
    <2>3. RestLabelOK("cl_get", loc[p]) /\ ClosingOK("cl_get", loc[p], closing) /\ ~Driving(p)
      BY <1>1, <2>1 DEF RestLabelOK, ClosingOK, RestLabel, Driving
    <2> QED BY <1>1, <2>1, <2>2, <2>3, GotoFacts, QuietStep DEF Exists
  <1>4. CASE CleanupGet(p)
    <2>1. /\ pc[p] = "cl_get" /\ Goto(p, "cl_srem") /\ "cl_srem" \in Label
          /\ loc' = [loc EXCEPT ![p] = [loc[p] EXCEPT !.todo = active[loc[p].call].members]]
          /\ UNCHANGED <<record, keys, lifecycleVars>> /\ loc[p].call \in Call
      BY <1>1, <1>4 DEF CleanupGet, Label, RestLabel, RestLabelOK
    <2>2. active[loc[p].call].members \in SUBSET User
      BY <1>1, <2>1 DEF StoreTypeOK, ActiveState
    <2>3. /\ loc' \in [Proc -> Locals]
          /\ loc'[p] = [loc[p] EXCEPT !.todo = active[loc[p].call].members]
          /\ \A q \in Proc \ {p} : loc'[q] = loc[q]
      BY <1>1, <2>1, <2>2, LocalsType DEF StoreTypeOK
    <2>4. loc'[p].call = loc[p].call /\ loc'[p].op = loc[p].op /\ loc'[p].want = loc[p].want
      BY <1>1, <2>3 DEF Locals
    <2>5. StoreTypeOK'
      BY <1>1, <2>1, <2>3, GotoFacts DEF StoreTypeOK, keys
    <2>6. /\ RestLabelOK("cl_srem", loc'[p]) /\ ClosingOK("cl_srem", loc'[p], closing)
          /\ ~Driving(p)
      BY <1>1, <2>1, <2>4 DEF RestLabelOK, ClosingOK, RestLabel, Driving
    <2> QED BY <1>1, <2>1, <2>3, <2>5, <2>6, GotoFacts, QuietStep DEF Exists
  <1>5. CASE CleanupUnlist(p)
    <2>1. pc[p] = "cl_srem" /\ UNCHANGED <<record, active, userStatus, signaling, lifecycleVars>>
          /\ loc[p].op = "cleanup" /\ ~Driving(p)
      BY <1>1, <1>5 DEF CleanupUnlist, RestLabelOK, Driving
    <2>2. CASE Finish(p) /\ UNCHANGED userCalls
      <3>1. StoreTypeOK'
        BY <1>1, <2>1, <2>2, FinishFacts DEF StoreTypeOK
      <3> QED BY <1>1, <2>1, <2>2, <3>1, FinishFacts, QuietStep DEF Exists
    <2>3. ASSUME NEW u \in loc[p].todo,
                 userCalls' = [userCalls EXCEPT ![u] = @ \ {loc[p].call}],
                 Goto(p, "cl_stat"),
                 loc' = [loc EXCEPT ![p] = [loc[p] EXCEPT !.user = u, !.todo = @ \ {u}]]
          PROVE  Handed(p)
      <3>1. /\ u \in User /\ loc[p].todo \ {u} \in SUBSET User /\ "cl_stat" \in Label
            /\ [loc[p] EXCEPT !.user = u, !.todo = @ \ {u}]
                 = [loc[p] EXCEPT !.user = u, !.todo = loc[p].todo \ {u}]
        BY <1>1 DEF Locals, Label, RestLabel
      <3>2. /\ loc' \in [Proc -> Locals]
            /\ loc'[p] = [loc[p] EXCEPT !.user = u, !.todo = loc[p].todo \ {u}]
            /\ \A q \in Proc \ {p} : loc'[q] = loc[q]
        BY <1>1, <2>3, <3>1, LocalsType DEF StoreTypeOK
      <3>3. loc'[p].call = loc[p].call /\ loc'[p].op = loc[p].op /\ loc'[p].want = loc[p].want
        BY <1>1, <3>2 DEF Locals
      <3>4. StoreTypeOK'
        BY <1>1, <2>1, <2>3, <3>1, <3>2, GotoFacts DEF StoreTypeOK
      <3>5. RestLabelOK("cl_stat", loc'[p]) /\ ClosingOK("cl_stat", loc'[p], closing)
        BY <1>1, <2>1, <3>3 DEF RestLabelOK, ClosingOK, RestLabel
      <3> QED BY <1>1, <2>1, <2>3, <3>1, <3>2, <3>4, <3>5, GotoFacts, QuietStep DEF Exists
    <2> QED BY <1>5, <2>2, <2>3 DEF CleanupUnlist
  <1>6. CASE CleanupReadUser(p)
    <2> DEFINE k == IF userStatus[loc[p].user].call = loc[p].call THEN "cl_idle" ELSE "cl_srem"
    <2>1. /\ pc[p] = "cl_stat" /\ Goto(p, k) /\ UNCHANGED <<record, keys, loc, lifecycleVars>>
      BY <1>6 DEF CleanupReadUser
    <2>2. k \in Label /\ k \in {"cl_idle", "cl_srem"}
      BY DEF Label, RestLabel
    <2> HIDE DEF k
    <2>3. RestLabelOK(k, loc[p]) /\ ClosingOK(k, loc[p], closing) /\ ~Driving(p)
      BY <1>1, <2>1, <2>2 DEF RestLabelOK, ClosingOK, RestLabel, Driving
    <2> QED BY <1>1, <2>1, <2>2, <2>3, GotoStep DEF StoreTypeOK, Exists
  <1>7. CASE CleanupIdle(p)
    <2>1. /\ pc[p] = "cl_idle" /\ Goto(p, "cl_srem") /\ "cl_srem" \in Label
          /\ SetUser(loc[p].user, "idle", NoCall)
          /\ UNCHANGED <<record, active, userCalls, signaling, loc, lifecycleVars>>
      BY <1>7 DEF CleanupIdle, Label, RestLabel
    <2>2. StoreTypeOK'
      BY <1>1, <2>1, GotoFacts DEF StoreTypeOK, SetUser, Idle, UserState
    <2>3. RestLabelOK("cl_srem", loc[p]) /\ ClosingOK("cl_srem", loc[p], closing) /\ ~Driving(p)
      BY <1>1, <2>1 DEF RestLabelOK, ClosingOK, RestLabel, Driving
    <2> QED BY <1>1, <2>1, <2>2, <2>3, GotoFacts, QuietStep DEF Exists
  <1> QED BY <1>2, <1>3, <1>4, <1>5, <1>6, <1>7

-----------------------------------------------------------------------------
(* Failing storage commands *)
LEMMA FaultInv ==
  ASSUME NEW p \in Proc, Ready(p), Fault(p)
  PROVE  Handed(p)
  <1>1. /\ StoreTypeOK /\ LifecycleTypeOK /\ TimerTypes
        /\ RestLabelOK(pc[p], loc[p]) /\ ClosingOK(pc[p], loc[p], closing)
        /\ \A c \in Call : pending[c] > 0 => c \in closing
        /\ loc[p] \in Locals /\ pc[p] \in Label
    BY AtStep
  <1>2. /\ pc[p] \in Throws /\ faults' \in 0..MaxFaults /\ loc[p].call \in Call
        /\ UNCHANGED <<record, keys, requests>>
    BY <1>1, CallLifecycleAssumption DEF Fault, LifecycleTypeOK, RestLabelOK, Throws
  <1> PICK c \in Call : c = loc[p].call
    BY <1>2
  <1>3. /\ TimerTypes' /\ pending' = pending
        /\ \A d \in Call \ {c} : Timed(d) => Timed(d)'
        /\ closing' \in {closing, closing \cup {c}}
    <2>1. CASE Clear(c, "ringing") /\ UNCHANGED closing
      BY <1>1, <2>1, ClearFacts DEF Clear, Kind
    <2>2. CASE /\ ClearAll(c) /\ closing' = closing \cup {c}
               /\ UNCHANGED <<stray, pending>>
      BY <1>1, <2>2, ClearAllFacts
    <2>3. CASE UNCHANGED <<timers, closing>>
      BY <1>1, <2>3 DEF timers, TimerTypes, Timed
    <2> QED BY <2>1, <2>2, <2>3 DEF Fault
  <1>4. /\ closing \subseteq closing' /\ closing' \in SUBSET Call
        /\ \A d \in Call : pending'[d] > 0 => d \in closing'
        /\ \A d \in Call : Exists(d)' => Exists(d)
    BY <1>1, <1>2, <1>3 DEF LifecycleTypeOK, Exists
  <1>5. CASE /\ loc[p].op \in {"initiate", "accept", "connect"} /\ loc[p].want # "failed"
             /\ Goto(p, "f_begin")
             /\ loc' = [loc EXCEPT ![p] = [loc[p] EXCEPT !.why = FailureReason(loc[p])]]
    <2>1. FailureReason(loc[p]) \in Reason /\ "f_begin" \in Label
      BY DEF FailureReason, Reason, Label, RestLabel
    <2>2. /\ loc' \in [Proc -> Locals]
          /\ loc'[p] = [loc[p] EXCEPT !.why = FailureReason(loc[p])]
          /\ \A q \in Proc \ {p} : loc'[q] = loc[q]
      BY <1>1, <1>5, <2>1, LocalsType DEF StoreTypeOK
    <2>3. loc'[p].call = c /\ loc'[p].op = loc[p].op /\ loc'[p].want = loc[p].want
      BY <1>1, <2>2 DEF Locals
    <2>4. RestTypeOK'
      BY <1>1, <1>2, <1>3, <1>4, <1>5, <2>1, <2>2, GotoFacts
      DEF RestTypeOK, StoreTypeOK, LifecycleTypeOK, TimerTypes, keys
    <2>5. RestLabelOK("f_begin", loc'[p]) /\ ClosingOK("f_begin", loc'[p], closing')
      BY <1>1, <1>4, <2>3 DEF RestLabelOK, ClosingOK, RestLabel
    <2>6. /\ Driving(p)' /\ pc'[p] = "f_begin"
          /\ \A q \in Proc \ {p} : pc'[q] = pc[q]
      BY <1>1, <1>5, <2>1, GotoFacts DEF Driving
    <2> QED BY <1>3, <1>4, <2>2, <2>3, <2>4, <2>5, <2>6, HandOver
  <1>6. CASE /\ loc[p].op \notin {"initiate", "accept", "connect"} \/ loc[p].want = "failed"
             /\ Finish(p)
    <2>1. RestTypeOK'
      BY <1>1, <1>2, <1>3, <1>4, <1>6, FinishFacts
      DEF RestTypeOK, StoreTypeOK, LifecycleTypeOK, TimerTypes, keys
    <2>2. c \in closing' \/ (~Driving(p) /\ (Timed(c) => Timed(c)'))
      <3>1. CASE loc[p].want = "failed"
        BY <1>1, <1>4, <3>1 DEF ClosingOK, TerminalStatus
      <3>2. CASE pc[p] = "e_find"
        BY <3>2 DEF Fault
      <3>3. CASE loc[p].want # "failed" /\ pc[p] # "e_find"
        <4>1. pc[p] # "a_part" /\ ~Driving(p)
          BY <1>1, <1>2, <1>6, <3>3 DEF RestLabelOK, Driving, Throws
        <4>2. UNCHANGED <<timers, closing>>
          BY <3>3, <4>1 DEF Fault
        <4> QED BY <4>1, <4>2 DEF timers, Timed
      <3> QED BY <3>1, <3>2, <3>3
    <2> QED BY <1>1, <1>3, <1>4, <1>6, <2>1, <2>2, FinishFacts, HandOver
  <1> QED BY <1>5, <1>6 DEF Fault

LEMMA SilentFaultInv ==
  ASSUME NEW p \in Proc, Ready(p), SilentFault(p)
  PROVE  Handed(p)
  <1>1. /\ StoreTypeOK /\ LifecycleTypeOK /\ TimerTypes
        /\ RestLabelOK(pc[p], loc[p]) /\ ClosingOK(pc[p], loc[p], closing)
        /\ \A c \in Call : pending[c] > 0 => c \in closing
        /\ loc[p] \in Locals /\ pc[p] \in Label
    BY AtStep
  <1>2. /\ UNCHANGED <<record, keys, timers, requests, closing>> /\ faults' \in 0..MaxFaults
    BY <1>1, CallLifecycleAssumption DEF SilentFault, LifecycleTypeOK
  <1>3. \A d \in Call : /\ pending'[d] > 0 => d \in closing'
                        /\ Exists(d)' => Exists(d)
                        /\ Timed(d) => Timed(d)'
    BY <1>1, <1>2 DEF timers, Exists, Timed
  <1>4. ASSUME NEW k \in Label, Goto(p, k),
               /\ loc' \in [Proc -> Locals]
               /\ \A q \in Proc \ {p} : loc'[q] = loc[q]
               /\ RestLabelOK(k, loc'[p]) /\ ClosingOK(k, loc'[p], closing)
               /\ Driving(p) => loc[p].call \in closing \/ (Driving(p)' /\ loc'[p].call = loc[p].call)
        PROVE  Handed(p)
    <2>1. RestTypeOK'
      BY <1>1, <1>2, <1>4, GotoFacts DEF RestTypeOK, StoreTypeOK, LifecycleTypeOK, keys, timers
    <2> QED BY <1>1, <1>2, <1>3, <1>4, <2>1, GotoFacts, HandOver
  <1>5. CASE pc[p] = "i_self" /\ Goto(p, "i_peer") /\ UNCHANGED loc
    <2>1. "i_peer" \in Label /\ ~Driving(p)
      BY <1>5 DEF Label, RestLabel, Driving
    <2>2. RestLabelOK("i_peer", loc[p]) /\ ClosingOK("i_peer", loc[p], closing)
      BY <1>1, <1>5 DEF RestLabelOK, ClosingOK, RestLabel
    <2> QED BY <1>1, <1>4, <1>5, <2>1, <2>2 DEF StoreTypeOK
  <1>6. CASE pc[p] = "i_peer" /\ Proceed(p)
    <2>1. "i_save" \in Label /\ ~Driving(p) /\ Goto(p, "i_save")
      BY <1>6 DEF Label, RestLabel, Driving, Proceed
    <2>2. PICK c \in Call : loc' = [loc EXCEPT ![p].call = c] /\ c \notin closing
      BY <1>6 DEF Proceed
    <2>3. /\ loc'[p] = [loc[p] EXCEPT !.call = c] /\ loc' \in [Proc -> Locals]
          /\ \A q \in Proc \ {p} : loc'[q] = loc[q]
      BY <1>1, <2>2, LocalsType DEF StoreTypeOK
    <2>4. /\ loc'[p].op = loc[p].op /\ loc'[p].want = loc[p].want /\ loc'[p].call = c
          /\ loc'[p].user = loc[p].user /\ loc'[p].peer = loc[p].peer
      BY <1>1, <2>3 DEF Locals
    <2>5. RestLabelOK("i_save", loc'[p]) /\ ClosingOK("i_save", loc'[p], closing)
      BY <1>1, <1>6, <2>4 DEF RestLabelOK, ClosingOK, RestLabel, TerminalStatus
    <2> QED BY <1>4, <2>1, <2>3, <2>5
  <1>7. CASE pc[p] = "ca_user" /\ Goto(p, "ca_list") /\ UNCHANGED loc
    <2>1. "ca_list" \in Label /\ loc[p].op = "initiate"
      BY <1>1, <1>7 DEF Label, StoreLabel, RestLabelOK
    <2>2. RestLabelOK("ca_list", loc[p]) /\ ClosingOK("ca_list", loc[p], closing)
      BY <1>1, <1>7 DEF RestLabelOK, ClosingOK
    <2>3. Driving(p)'
      BY <1>1, <1>7, <2>1, GotoFacts DEF Driving
    <2> QED BY <1>1, <1>4, <1>7, <2>1, <2>2, <2>3 DEF StoreTypeOK
  <1>8. CASE pc[p] \in {"ca_list", "us_get"} /\ Return(p) /\ UNCHANGED loc
    <2>1. \/ loc[p].ret = "us_mongo" /\ loc[p].op = "initiate" /\ pc[p] = "ca_list"
          \/ /\ loc[p].ret \in {"arm_ring", "arm_conn", "c_started"} /\ pc[p] = "us_get"
             /\ loc[p].op \in {"initiate", "accept", "connect"}
          \/ /\ loc[p].ret \in {"arm_ring", "arm_conn", "c_started", "e_part", "e_sched", "f_mongo"}
             /\ loc[p].call \in closing /\ pc[p] = "us_get"
      BY <1>1, <1>8 DEF RestLabelOK, ClosingOK, AfterStatus, TerminalStatus
    <2>2. loc[p].ret \in Label /\ Goto(p, loc[p].ret)
      BY <1>8, <2>1 DEF Label, RestLabel, Return
    <2>3. RestLabelOK(loc[p].ret, loc[p]) /\ ClosingOK(loc[p].ret, loc[p], closing)
      BY <1>1, <1>8, <2>1 DEF RestLabelOK, ClosingOK, RestLabel
    <2>4. pc'[p] = loc[p].ret
      BY <1>1, <2>2, GotoFacts
    <2>5. loc[p].call \in closing \/ Driving(p)'
      BY <1>8, <2>1, <2>4 DEF Driving
    <2> QED BY <1>1, <1>4, <1>8, <2>2, <2>3, <2>5 DEF StoreTypeOK
  <1>9. CASE pc[p] = "a_get" /\ Finish(p)
    <2>1. RestTypeOK'
      BY <1>1, <1>2, <1>9, FinishFacts DEF RestTypeOK, StoreTypeOK, LifecycleTypeOK, keys, timers
    <2>2. ~Driving(p)
      BY <1>9 DEF Driving
    <2> QED BY <1>1, <1>2, <1>3, <1>9, <2>1, <2>2, FinishFacts, HandOver
  <1> QED BY <1>5, <1>6, <1>7, <1>8, <1>9 DEF SilentFault, At

-----------------------------------------------------------------------------
(* The REST path keeps the invariant. *)
LEMMA StepHanded ==
  ASSUME NEW p \in Proc, Ready(p),
         Client(p) \/ Clock(p) \/ Handler(p) \/ RestSharedStep(p) \/ Fault(p) \/ SilentFault(p)
  PROVE  Handed(p)
  <1>1. CASE Client(p) \/ Clock(p) \/ Handler(p)
    BY <1>1, InitiateInv, AcceptInv, EndInv, FailInv, CleanupInv DEF Client, Clock, Handler
  <1>2. CASE RestSharedStep(p) \/ Fault(p) \/ SilentFault(p)
    BY <1>2, SharedInv, FaultInv, SilentFaultInv
  <1> QED BY <1>1, <1>2

LEMMA StepInv == RestInv /\ [RestNext]_restVars => RestInv'
  <1> SUFFICES ASSUME RestInv, [RestNext]_restVars PROVE RestInv'
    OBVIOUS
  <1>1. CASE UNCHANGED restVars
    BY <1>1 DEF restVars, store, lifecycleVars, RestInv, RestTypeOK, StoreTypeOK, LifecycleTypeOK,
                RestLocals, ClosingKnown, CleanupsKnown, NoUnwatchedCall, Exists, Timed, Driving
  <1>2. CASE RestNext
    BY <1>2, AllReady, StepHanded, HandedInv DEF RestNext
  <1> QED BY <1>1, <1>2

LEMMA RestInvariance == RestSpec => []RestInv
  BY InitInv, StepInv, PTL DEF RestSpec

(* Type correctness of the store and of the REST path, for any number of   *)
(* users, calls, concurrent invocations, requests and failing commands.    *)
THEOREM RestTypeCorrect == RestSpec => []RestTypeOK
  <1>1. RestInv => RestTypeOK BY DEF RestInv
  <1> QED BY <1>1, RestInvariance, PTL

(* Every call that was created and that nobody has begun to end is watched *)
(* by a timer, or by an invocation that will arm one or end the call.      *)
THEOREM CallsAreWatched == RestSpec => []NoUnwatchedCall
  <1>1. RestInv => NoUnwatchedCall BY DEF RestInv
  <1> QED BY <1>1, RestInvariance, PTL

-----------------------------------------------------------------------------
(* What the documents say.  A call is nobody else's until its document is  *)
(* saved, so no timer, request or cleanup can name it: whatever is written *)
(* of a call is written to a document of its own.                          *)

\* A call about to be saved is new.
FreshOf(p) ==
  pc[p] = "i_save" => /\ record[loc[p].call] = NoRecord /\ loc[p].call \notin closing
                      /\ \A q \in Proc \ {p} : loc[q].call # loc[p].call

\* A call without a document is being created or has failed to be.
Unsaved(c) == record[c] = NoRecord /\ c \notin closing
HeldOf(p)  == loc[p].call \in Call /\ Unsaved(loc[p].call) => pc[p] \in {"i_save", "f_begin"}

\* Whoever is to write a status knows which.
WantOf(p) == pc[p] \in {"ca_set", "ca_user", "ca_list", "us_mongo"} => loc[p].want # "none"

\* Whoever is to end or fail a call knows why; whoever writes "ended" once more has said so.
ReasonOf(p) ==
  /\ pc[p] \in {"d_part", "e_find", "e_mongo", "f_begin", "f_mongo"} \/ loc[p].want = "failed" =>
       loc[p].why # "none"
  /\ loc[p].want = "ended" => \/ record[loc[p].call].status = "none"
                              \/ record[loc[p].call].reason # "none"

\* The value in Redis, stored or read, names only the participants of the document, and
\* whoever is connecting a call is one of them.
MemberOf(p) ==
  /\ pc[p] = "ca_set" => {loc[p].user, loc[p].peer} \subseteq Participants(loc[p].call)
  /\ pc[p] = "us_set" => loc[p].snap.members \subseteq Participants(loc[p].call)
  /\ pc[p] = "a_part" => loc[p].user \in Participants(loc[p].call)
  /\ loc[p].want = "connecting" => /\ loc[p].op = "accept" /\ loc[p].call \in Call
                                    /\ loc[p].user \in Participants(loc[p].call)

SavedOnce    == \A p \in Proc : FreshOf(p) /\ HeldOf(p) /\ WantOf(p)
Untimed  == \A c \in Call : Unsaved(c) => ~Timed(c)
Reasoned == \A p \in Proc : ReasonOf(p)
Named    == /\ \A c \in Call : active[c].members \subseteq Participants(c)
            /\ \A p \in Proc : MemberOf(p)

(* Inductive beside RestInv, which says where the invocations are. *)
DInv == SavedOnce /\ Untimed /\ Reasoned /\ Named /\ EndedHasReason

\* A step of invocation p.
RestSteps(p) == Client(p) \/ Clock(p) \/ Handler(p) \/ RestSharedStep(p) \/ Fault(p) \/ SilentFault(p)

\* The call p names afterwards: the same, none, one that has a document or is being closed, or a
\* new one that nobody names.
NamesOK(p) ==
  LET c == loc'[p].call
  IN \/ c = loc[p].call \/ c = NoCall
     \/ c \in Call /\ ~Unsaved(c)
     \/ c \in Call /\ Unsaved(c) /\ pc'[p] = "i_save" /\ \A q \in Proc : loc[q].call # c

LEMMA Names ==
  ASSUME Untimed, NEW p \in Proc, Ready(p), RestSteps(p)
  PROVE  NamesOK(p) /\ \A q \in Proc \ {p} : pc'[q] = pc[q] /\ loc'[q] = loc[q]
  <1>1. StoreTypeOK /\ LifecycleTypeOK /\ (\A c \in Call : pending[c] > 0 => c \in closing)
        /\ loc[p] \in Locals /\ NoLocals.call = NoCall
    BY AtStep DEF NoLocals
  <1>2. \A c \in Call : Known(c) => ~Unsaved(c)
    BY DEF Known, Unsaved
  <1>3. \A c \in Call, k \in Kind : Fire(c, k) => ~Unsaved(c)
    BY <1>1 DEF Fire, Untimed, Timed, LifecycleTypeOK
  <1>4. ASSUME NEW k, NEW l, Begin(p, k, l)
        PROVE  /\ pc'[p] = k /\ loc'[p] = l
               /\ \A q \in Proc \ {p} : pc'[q] = pc[q] /\ loc'[q] = loc[q]
    BY <1>1, <1>4 DEF Begin, StoreTypeOK
  <1>5. ASSUME NEW c \in Call, ~Unsaved(c), NEW k, NEW l, l.call = c, Begin(p, k, l)
        PROVE  NamesOK(p) /\ \A q \in Proc \ {p} : pc'[q] = pc[q] /\ loc'[q] = loc[q]
    BY <1>4, <1>5 DEF NamesOK
  <1>6. CASE Client(p)
    <2>1. CASE \E u, v \in User : InitiateCall(p, u, v)
      <3>1. PICK u \in User, v \in User : InitiateCall(p, u, v)
        BY <2>1
      <3>2. [NoLocals EXCEPT !.op = "initiate", !.user = u, !.peer = v].call = NoCall
        BY DEF NoLocals
      <3> QED BY <1>4, <3>1, <3>2 DEF InitiateCall, NamesOK
    <2>2. ASSUME NEW c \in Call, NEW u \in User, AcceptCall(p, c, u) \/ MarkConnected(p, c, u)
                 \/ DeclineCall(p, c, u) \/ HangupCall(p, c, u)
          PROVE  NamesOK(p) /\ \A q \in Proc \ {p} : pc'[q] = pc[q] /\ loc'[q] = loc[q]
      BY <1>2, <1>5, <2>2 DEF AcceptCall, MarkConnected, DeclineCall, HangupCall, NoLocals
    <2> QED BY <1>6, <2>1, <2>2 DEF Client
  <1>7. CASE Clock(p)
    <2>1. PICK c \in Call : \/ RingingTimeout(p, c) \/ ConnectingTimeout(p, c)
                            \/ MaxDurationTimeout(p, c) \/ CleanupCall(p, c)
      BY <1>7 DEF Clock
    <2>2. CASE RingingTimeout(p, c) \/ ConnectingTimeout(p, c) \/ MaxDurationTimeout(p, c)
      BY <1>3, <1>5, <2>2 DEF RingingTimeout, ConnectingTimeout, MaxDurationTimeout, Kind, NoLocals
    <2>3. CASE CleanupCall(p, c)
      <3>1. ~Unsaved(c)
        BY <1>1, <2>3 DEF CleanupCall, Unsaved
      <3> QED BY <1>5, <2>3, <3>1 DEF CleanupCall, NoLocals
    <2> QED BY <2>1, <2>2, <2>3
  <1>8. ASSUME Proceed(p)
        PROVE  NamesOK(p) /\ \A q \in Proc \ {p} : pc'[q] = pc[q] /\ loc'[q] = loc[q]
    <2>1. PICK c \in Call : /\ record[c] = NoRecord /\ c \notin closing /\ \A q \in Proc : loc[q].call # c
                            /\ loc' = [loc EXCEPT ![p].call = c]
      BY <1>8 DEF Proceed
    <2>2. pc' = [pc EXCEPT ![p] = "i_save"]
      BY <1>8 DEF Proceed, Goto
    <2>3. loc'[p].call = c
      BY <1>1, <2>1 DEF StoreTypeOK, Locals
    <2>4. pc'[p] = "i_save" /\ \A q \in Proc \ {p} : pc'[q] = pc[q] /\ loc'[q] = loc[q]
      BY <1>1, <2>1, <2>2 DEF StoreTypeOK
    <2> QED BY <2>1, <2>3, <2>4 DEF NamesOK, Unsaved
  <1>9. ASSUME NEW k, Goto(p, k), UNCHANGED loc
        PROVE  NamesOK(p) /\ \A q \in Proc \ {p} : pc'[q] = pc[q] /\ loc'[q] = loc[q]
    BY <1>1, <1>9 DEF Goto, NamesOK, StoreTypeOK
  <1>10. ASSUME Finish(p)
         PROVE  NamesOK(p) /\ \A q \in Proc \ {p} : pc'[q] = pc[q] /\ loc'[q] = loc[q]
    BY <1>1, <1>10, FinishFacts DEF NamesOK
  <1>11. ASSUME NEW k, Goto(p, k), NEW l, loc' = [loc EXCEPT ![p] = l], l.call = loc[p].call
         PROVE  NamesOK(p) /\ \A q \in Proc \ {p} : pc'[q] = pc[q] /\ loc'[q] = loc[q]
    BY <1>1, <1>11 DEF Goto, NamesOK, StoreTypeOK
  <1>12. /\ \A s : [loc[p] EXCEPT !.want = s].call = loc[p].call
         /\ \A s : [loc[p] EXCEPT !.why = s].call = loc[p].call
         /\ \A s : [loc[p] EXCEPT !.snap = s].call = loc[p].call
         /\ \A s : [loc[p] EXCEPT !.ret = s].call = loc[p].call
         /\ \A s : [loc[p] EXCEPT !.todo = s].call = loc[p].call
         /\ \A s, t : [loc[p] EXCEPT !.ret = s, !.want = t].call = loc[p].call
         /\ \A s, t : [loc[p] EXCEPT !.user = s, !.todo = t].call = loc[p].call
    BY <1>1 DEF Locals
  <1>13. CASE CheckInitiator(p) \/ CheckTarget(p) \/ CheckRinging(p) \/ RecordStarted(p)
              \/ DeclineParticipant(p) \/ EndFind(p) \/ EndParticipant(p) \/ FailRecord(p)
              \/ CleanupDelete(p) \/ CleanupReadUser(p) \/ CleanupIdle(p)
              \/ ArmRinging(p) \/ ArmConnecting(p) \/ ArmMaxDuration(p) \/ EndSchedule(p)
              \/ FailSchedule(p)
    BY <1>8, <1>9, <1>10, <1>13
    DEF CheckInitiator, CheckTarget, CheckRinging, RecordStarted, DeclineParticipant, EndFind,
        EndParticipant, FailRecord, CleanupDelete, CleanupReadUser, CleanupIdle, ArmRinging,
        ArmConnecting, ArmMaxDuration, EndSchedule, FailSchedule
  <1>14. CASE SaveRecord(p) \/ StatusMongo(p)
    BY <1>1, <1>14 DEF SaveRecord, StatusMongo, Enter, NamesOK, StoreTypeOK, Locals
  <1>19. CASE JoinParticipant(p) \/ EndRecord(p) \/ FailBegin(p) \/ CleanupGet(p)
    BY <1>1, <1>19
    DEF JoinParticipant, EndRecord, FailBegin, CleanupGet, Goto, NamesOK, StoreTypeOK, Locals
  <1>15. CASE CleanupUnlist(p)
    <2>1. ASSUME NEW u, Goto(p, "cl_stat"),
                 loc' = [loc EXCEPT ![p].user = u, ![p].todo = @ \ {u}]
          PROVE  NamesOK(p) /\ \A q \in Proc \ {p} : pc'[q] = pc[q] /\ loc'[q] = loc[q]
      <3>1. loc'[p] = [loc[p] EXCEPT !.user = u, !.todo = @ \ {u}]
        BY <1>1, <2>1 DEF StoreTypeOK
      <3>2. loc'[p].call = loc[p].call
        BY <1>1, <3>1 DEF Locals
      <3>3. \A q \in Proc \ {p} : pc'[q] = pc[q] /\ loc'[q] = loc[q]
        BY <1>1, <2>1 DEF StoreTypeOK, Goto
      <3> QED BY <3>2, <3>3 DEF NamesOK
    <2> QED BY <1>10, <1>15, <2>1 DEF CleanupUnlist
  <1>16. CASE RestSharedStep(p)
    BY <1>9, <1>11, <1>12, <1>16
    DEF RestSharedStep, StoreStep, CreateActiveSet, CreateActiveUser, CreateActiveList, UpdateStatusGet,
        UpdateStatusSet, RemoveGet, RemoveSet, RemoveUser, RemoveList, EndGet, EndUsers, EndDel, Return
  <1>17. CASE Fault(p)
    BY <1>10, <1>11, <1>12, <1>17 DEF Fault
  <1>18. CASE SilentFault(p)
    BY <1>8, <1>9, <1>10, <1>18 DEF SilentFault, Return
  <1> QED BY <1>6, <1>7, <1>13, <1>14, <1>15, <1>16, <1>17, <1>18, <1>19
          DEF RestSteps, Handler

\* What p writes to documents: a new one, or a status, a participant or the end of its call.
RecordOK(p) ==
  LET c == loc[p].call
  IN \/ record' = record
     \/ SaveRecord(p) /\ c \in Call /\ loc[p].user \in User /\ loc[p].peer \in User
     \/ /\ c \in Call /\ record[c].status # "none" /\ record'[c] \in Record
        /\ \A d \in Call \ {c} : record'[d] = record[d]
        /\ record'[c].caller = record[c].caller /\ record'[c].callee = record[c].callee
        /\ \/ record'[c].status = record[c].status /\ record'[c].reason = record[c].reason
           \/ /\ pc[p] = "us_mongo" /\ record'[c].status = loc[p].want
              /\ record'[c].reason = record[c].reason
           \/ /\ pc[p] \in {"e_mongo", "f_mongo"} /\ record'[c].reason = loc[p].why
              /\ record'[c].status \in TerminalStatus

LEMMA DocumentsWritten ==
  ASSUME NEW p \in Proc, Ready(p), RestSteps(p)
  PROVE  RecordOK(p)
  <1>1. /\ record \in [Call -> Record] /\ RestLabelOK(pc[p], loc[p]) /\ loc[p] \in Locals
    BY AtStep DEF StoreTypeOK
  <1> DEFINE c == loc[p].call
  <1>2. ASSUME NEW r, c \in Call, Write(p, r), r \in Record,
               r.caller = record[c].caller, r.callee = record[c].callee,
               \/ r.status = record[c].status /\ r.reason = record[c].reason
               \/ pc[p] = "us_mongo" /\ r.status = loc[p].want /\ r.reason = record[c].reason
               \/ /\ pc[p] \in {"e_mongo", "f_mongo"} /\ r.reason = loc[p].why
                  /\ r.status \in TerminalStatus
        PROVE  RecordOK(p)
    <2>1. CASE record[c].status = "none"
      BY <1>2, <2>1 DEF Write, RecordOK
    <2>2. CASE record[c].status # "none"
      <3>1. record' = [record EXCEPT ![c] = r]
        BY <1>2, <2>2 DEF Write
      <3>2. record'[c] = r /\ \A d \in Call \ {c} : record'[d] = record[d]
        BY <1>1, <1>2, <3>1
      <3> QED BY <1>2, <2>2, <3>2 DEF RecordOK
    <2> QED BY <2>1, <2>2
  <1>3. ASSUME c \in Call, NEW u, NEW s \in PartStatus, Write(p, WithPart(record[c], u, s))
        PROVE  RecordOK(p)
    <2>1. record[c] \in Record
      BY <1>1, <1>3
    <2>2. WithPart(record[c], u, s) \in Record
      BY <2>1, WithPartType
    <2>3. /\ WithPart(record[c], u, s).caller = record[c].caller
          /\ WithPart(record[c], u, s).callee = record[c].callee
          /\ WithPart(record[c], u, s).status = record[c].status
          /\ WithPart(record[c], u, s).reason = record[c].reason
      BY <2>1 DEF WithPart, Record
    <2> QED BY <1>2, <1>3, <2>2, <2>3
  <1>4. CASE SaveRecord(p)
    <2>1. loc[p].call \in Call /\ loc[p].user \in User /\ loc[p].peer \in User
      BY <1>1, <1>4 DEF SaveRecord, At, RestLabelOK
    <2> QED BY <1>4, <2>1 DEF RecordOK
  <1>5. CASE JoinParticipant(p) \/ DeclineParticipant(p) \/ EndParticipant(p)
    <2>1. c \in Call
      BY <1>1, <1>5 DEF JoinParticipant, DeclineParticipant, EndParticipant, At, RestLabelOK
    <2> QED BY <1>3, <1>5, <2>1 DEF JoinParticipant, DeclineParticipant, EndParticipant, PartStatus
  <1>6. CASE StatusMongo(p)
    <2> DEFINE r == [record[c] EXCEPT !.status = loc[p].want]
    <2>1. c \in Call /\ pc[p] = "us_mongo" /\ Write(p, r)
      BY <1>1, <1>6 DEF StatusMongo, At, RestLabelOK
    <2>2. /\ r \in Record /\ r.caller = record[c].caller /\ r.callee = record[c].callee
          /\ r.status = loc[p].want /\ r.reason = record[c].reason
      BY <1>1, <2>1 DEF Record, Locals
    <2> HIDE DEF r
    <2> QED BY <1>2, <2>1, <2>2
  <1>7. CASE EndRecord(p) \/ FailRecord(p)
    <2>1. PICK s \in TerminalStatus :
            Write(p, [record[c] EXCEPT !.status = s, !.reason = loc[p].why])
      BY <1>7 DEF EndRecord, FailRecord, TerminalStatus
    <2> DEFINE r == [record[c] EXCEPT !.status = s, !.reason = loc[p].why]
    <2>2. c \in Call /\ pc[p] \in {"e_mongo", "f_mongo"}
      BY <1>1, <1>7 DEF EndRecord, FailRecord, At, RestLabelOK
    <2>3. record[c] \in Record /\ loc[p].why \in Reason /\ s \in Status
      BY <1>1, <2>2 DEF Locals, Status
    <2>4. r \in Record
      BY <2>3, EndedType
    <2>5. /\ r.caller = record[c].caller /\ r.callee = record[c].callee
          /\ r.status = s /\ r.reason = loc[p].why
      BY <2>3 DEF Record
    <2> HIDE DEF r
    <2> QED BY <1>2, <2>1, <2>2, <2>4, <2>5 DEF r
  <1>8. ASSUME UNCHANGED record PROVE RecordOK(p)
    BY <1>8 DEF RecordOK
  <1>9. CASE Client(p)
    BY <1>8, <1>9 DEF Client, InitiateCall, AcceptCall, MarkConnected, DeclineCall, HangupCall
  <1>10. CASE Clock(p)
    BY <1>8, <1>10 DEF Clock, RingingTimeout, ConnectingTimeout, MaxDurationTimeout, CleanupCall
  <1>11. CASE RestSharedStep(p) \/ Fault(p) \/ SilentFault(p)
    BY <1>8, <1>11
    DEF RestSharedStep, StoreStep, CreateActiveSet, CreateActiveUser, CreateActiveList, UpdateStatusGet,
        UpdateStatusSet, RemoveGet, RemoveSet, RemoveUser, RemoveList, EndGet, EndUsers, EndDel,
        Fault, SilentFault
  <1>12. CASE CheckInitiator(p) \/ CheckTarget(p) \/ CheckRinging(p) \/ RecordStarted(p) \/ EndFind(p)
              \/ ArmRinging(p) \/ ArmConnecting(p) \/ ArmMaxDuration(p) \/ EndSchedule(p)
              \/ FailBegin(p) \/ FailSchedule(p) \/ CleanupDelete(p) \/ CleanupGet(p)
              \/ CleanupUnlist(p) \/ CleanupReadUser(p) \/ CleanupIdle(p)
    BY <1>8, <1>12
    DEF CheckInitiator, CheckTarget, CheckRinging, RecordStarted, EndFind, ArmRinging, ArmConnecting,
        ArmMaxDuration, EndSchedule, FailBegin, FailSchedule, CleanupDelete, CleanupGet, CleanupUnlist,
        CleanupReadUser, CleanupIdle
  <1> QED BY <1>4, <1>5, <1>6, <1>7, <1>9, <1>10, <1>11, <1>12 DEF RestSteps, Handler

\* A timer is armed at the arming labels alone, and a call begins to close at two.
ClosesOK(p) ==
  /\ closing \subseteq closing'
  /\ \A c \in Call : /\ c \in closing' => c \in closing \/ (c = loc[p].call /\ pc[p] \in {"e_find", "f_begin"})
                     /\ Timed(c)' => \/ Timed(c)
                                     \/ c = loc[p].call /\ pc[p] \in {"arm_ring", "arm_conn", "arm_max"}

LEMMA ClosesAndArms ==
  ASSUME NEW p \in Proc, Ready(p), RestSteps(p)
  PROVE  ClosesOK(p)
  <1>1. RestLabelOK(pc[p], loc[p]) /\ LifecycleTypeOK /\ TimerTypes
    BY AtStep
  <1>2. ASSUME UNCHANGED <<timer, stray, closing>> PROVE ClosesOK(p)
    BY <1>2 DEF ClosesOK, Timed
  <1>3. ASSUME NEW c \in Call, NEW k \in Kind, Arm(c, k), c = loc[p].call,
               pc[p] \in {"arm_ring", "arm_conn", "arm_max"}, UNCHANGED closing
        PROVE  ClosesOK(p)
    <2>1. \A d \in Call \ {c} : timer'[d] = timer[d] /\ stray'[d] = stray[d]
      BY <1>1, <1>3 DEF Arm, TimerTypes
    <2> QED BY <1>3, <2>1 DEF ClosesOK, Timed
  <1>4. ASSUME \A d \in Call, j \in Kind : (timer'[d][j] => timer[d][j]) /\ (stray'[d][j] > 0 => stray[d][j] > 0),
               UNCHANGED closing
               \/ (closing' = closing \cup {loc[p].call} /\ pc[p] \in {"e_find", "f_begin"})
        PROVE  ClosesOK(p)
    BY <1>4 DEF ClosesOK, Timed
  <1>5. ASSUME NEW c \in Call, ClearAll(c) /\ UNCHANGED stray
        PROVE  \A d \in Call, j \in Kind : (timer'[d][j] => timer[d][j]) /\ (stray'[d][j] > 0 => stray[d][j] > 0)
    BY <1>1, <1>5 DEF ClearAll, TimerTypes
  <1>6. ASSUME NEW c \in Call, NEW k \in Kind, Clear(c, k)
        PROVE  \A d \in Call, j \in Kind : (timer'[d][j] => timer[d][j]) /\ (stray'[d][j] > 0 => stray[d][j] > 0)
    BY <1>1, <1>6 DEF Clear, TimerTypes
  <1>7. ASSUME NEW c \in Call, NEW k \in Kind, Fire(c, k)
        PROVE  \A d \in Call, j \in Kind : (timer'[d][j] => timer[d][j]) /\ (stray'[d][j] > 0 => stray[d][j] > 0)
    <2>1. CASE timer[c][k] /\ timer' = [timer EXCEPT ![c][k] = FALSE] /\ UNCHANGED stray
      BY <1>1, <2>1 DEF TimerTypes
    <2>2. CASE /\ stray[c][k] > 0 /\ stray' = [stray EXCEPT ![c][k] = @ - 1]
               /\ UNCHANGED timer
      BY <1>1, <2>2 DEF TimerTypes
    <2> QED BY <1>7, <2>1, <2>2 DEF Fire
  <1>8. pc[p] \notin {"idle", "i_self", "i_peer"} => loc[p].call \in Call
    BY <1>1 DEF RestLabelOK
  <1>9. CASE ArmRinging(p) \/ ArmConnecting(p) \/ ArmMaxDuration(p)
    BY <1>3, <1>8, <1>9 DEF ArmRinging, ArmConnecting, ArmMaxDuration, At, Kind
  <1>10. CASE EndFind(p) \/ FailBegin(p)
    BY <1>4, <1>5, <1>8, <1>10 DEF EndFind, FailBegin, At
  <1>11. CASE JoinParticipant(p)
    BY <1>4, <1>6, <1>8, <1>11 DEF JoinParticipant, At, Kind
  <1>12. CASE Client(p)
    BY <1>2, <1>4, <1>6, <1>12
    DEF Client, InitiateCall, AcceptCall, MarkConnected, DeclineCall, HangupCall, timers, Kind
  <1>13. CASE Clock(p)
    BY <1>4, <1>5, <1>7, <1>13
    DEF Clock, RingingTimeout, ConnectingTimeout, MaxDurationTimeout, CleanupCall, Kind
  <1>14. CASE RestSharedStep(p)
    BY <1>2, <1>14 DEF RestSharedStep, lifecycleVars
  <1>15. CASE Fault(p)
    <2>1. CASE pc[p] = "a_part"
      BY <1>4, <1>6, <1>8, <1>15, <2>1 DEF Fault, Kind
    <2>2. CASE pc[p] = "e_find"
      BY <1>4, <1>5, <1>8, <1>15, <2>2 DEF Fault
    <2>3. CASE pc[p] \notin {"a_part", "e_find"}
      BY <1>2, <1>15, <2>3 DEF Fault, timers
    <2> QED BY <2>1, <2>2, <2>3
  <1>16. CASE SilentFault(p)
    BY <1>2, <1>16 DEF SilentFault, timers
  <1>17. CASE CheckInitiator(p) \/ CheckTarget(p) \/ SaveRecord(p) \/ StatusMongo(p) \/ CheckRinging(p)
              \/ RecordStarted(p) \/ DeclineParticipant(p) \/ EndRecord(p) \/ EndParticipant(p)
              \/ EndSchedule(p) \/ FailRecord(p) \/ FailSchedule(p) \/ CleanupDelete(p)
              \/ CleanupGet(p) \/ CleanupUnlist(p) \/ CleanupReadUser(p) \/ CleanupIdle(p)
    BY <1>2, <1>17
    DEF CheckInitiator, CheckTarget, SaveRecord, StatusMongo, CheckRinging, RecordStarted,
        DeclineParticipant, EndRecord, EndParticipant, EndSchedule, FailRecord, FailSchedule,
        CleanupDelete, CleanupGet, CleanupUnlist, CleanupReadUser, CleanupIdle, lifecycleVars
  <1> QED BY <1>9, <1>10, <1>11, <1>12, <1>13, <1>14, <1>15, <1>16, <1>17 DEF RestSteps, Handler

\* Where p goes, and what is known of it there.
ArrivesOK(p) ==
  LET l == loc[p]
      m == loc'[p]
  IN /\ pc'[p] = "i_save" => Proceed(p) /\ UNCHANGED <<record, closing>>
     /\ pc'[p] = "ca_set" => SaveRecord(p)
     /\ pc'[p] = "us_set" => /\ m.call = l.call /\ l.call \in Call
                             /\ m.snap = active[l.call] /\ UNCHANGED record
     /\ pc'[p] = "a_part" => m = l /\ l.call \in Call /\ l.user \in active[l.call].members
     /\ pc[p] = "i_save" => SaveRecord(p) \/ pc'[p] = "f_begin" \/ m = NoLocals
     /\ pc[p] = "f_begin" => FailBegin(p)
     /\ pc'[p] \in {"ca_set", "ca_user", "ca_list", "us_mongo"} => m.want # "none"
     /\ pc'[p] \in {"d_part", "e_find", "e_mongo", "f_begin", "f_mongo"} \/ m.want = "failed" =>
          m.why # "none"
     /\ m.want = "ended" => m.call = l.call /\ (l.want = "ended" \/ EndRecord(p))
     /\ m.want = "connecting" => /\ m.call = l.call /\ m.op = l.op /\ m.user = l.user
                                 /\ l.want = "connecting" \/ pc[p] = "a_part"

LEMMA Arrives ==
  ASSUME NEW p \in Proc, Ready(p), WantOf(p), ReasonOf(p), MemberOf(p), RestSteps(p)
  PROVE  ArrivesOK(p)
  <1> DEFINE l == loc[p]
             m == loc'[p]
  <1>1. StoreTypeOK /\ RestLabelOK(pc[p], l) /\ l \in Locals
    BY AtStep
  <1>2. /\ NoLocals.want = "none" /\ NoLocals.why = "none" /\ NoLocals.op = "none"
        /\ NoLocals.call = NoCall
    BY DEF NoLocals
  <1>3. ASSUME NEW k, Begin(p, k, m), m.want \in {"none", "active"},
               k \notin {"i_save", "ca_set", "us_set", "a_part", "ca_user", "ca_list"},
               k = "us_mongo" => m.want # "none",
               k \in {"d_part", "e_find", "e_mongo", "f_begin", "f_mongo"} => m.why # "none"
        PROVE  ArrivesOK(p)
    <2>1. pc[p] = "idle" /\ pc'[p] = k
      BY <1>1, <1>3 DEF Begin, StoreTypeOK
    <2> QED BY <1>3, <2>1 DEF ArrivesOK
  <1>4. ASSUME NEW k, NEW x, Begin(p, k, x)
        PROVE  m = x /\ Begin(p, k, m)
    BY <1>1, <1>4 DEF Begin, StoreTypeOK
  <1>5. CASE Client(p)
    <2>1. ASSUME NEW u, NEW v, InitiateCall(p, u, v)
          PROVE  ArrivesOK(p)
      <3> DEFINE x == [NoLocals EXCEPT !.op = "initiate", !.user = u, !.peer = v]
      <3>1. x.want = "none"
        BY DEF NoLocals
      <3>2. Begin(p, "i_self", x)
        BY <2>1 DEF InitiateCall
      <3> HIDE DEF x
      <3>3. m = x /\ Begin(p, "i_self", m)
        BY <1>4, <3>2
      <3> QED BY <1>3, <3>1, <3>3
    <2>2. ASSUME NEW c, NEW u, AcceptCall(p, c, u)
          PROVE  ArrivesOK(p)
      <3> DEFINE x == [NoLocals EXCEPT !.op = "accept", !.call = c, !.user = u]
      <3>1. x.want = "none"
        BY DEF NoLocals
      <3>2. Begin(p, "a_get", x)
        BY <2>2 DEF AcceptCall
      <3> HIDE DEF x
      <3>3. m = x /\ Begin(p, "a_get", m)
        BY <1>4, <3>2
      <3> QED BY <1>3, <3>1, <3>3
    <2>3. ASSUME NEW c, NEW u, MarkConnected(p, c, u)
          PROVE  ArrivesOK(p)
      <3> DEFINE x == [NoLocals EXCEPT !.op = "connect", !.call = c, !.user = u, !.want = "active"]
      <3>1. x.want = "active"
        BY DEF NoLocals
      <3>2. Begin(p, "us_mongo", x)
        BY <2>3 DEF MarkConnected
      <3> HIDE DEF x
      <3>3. m = x /\ Begin(p, "us_mongo", m)
        BY <1>4, <3>2
      <3> QED BY <1>3, <3>1, <3>3
    <2>4. ASSUME NEW c, NEW u, DeclineCall(p, c, u)
          PROVE  ArrivesOK(p)
      <3> DEFINE x == [NoLocals EXCEPT !.op = "decline", !.call = c, !.user = u, !.why = "declined"]
      <3>1. x.want = "none" /\ x.why = "declined"
        BY DEF NoLocals
      <3>2. Begin(p, "d_part", x)
        BY <2>4 DEF DeclineCall
      <3> HIDE DEF x
      <3>3. m = x /\ Begin(p, "d_part", m)
        BY <1>4, <3>2
      <3> QED BY <1>3, <3>1, <3>3
    <2>5. ASSUME NEW c, NEW u, HangupCall(p, c, u)
          PROVE  ArrivesOK(p)
      <3> DEFINE x == [NoLocals EXCEPT !.op = "hangup", !.call = c, !.user = u, !.why = "user_hangup"]
      <3>1. x.want = "none" /\ x.why = "user_hangup"
        BY DEF NoLocals
      <3>2. Begin(p, "e_find", x)
        BY <2>5 DEF HangupCall
      <3> HIDE DEF x
      <3>3. m = x /\ Begin(p, "e_find", m)
        BY <1>4, <3>2
      <3> QED BY <1>3, <3>1, <3>3
    <2> QED BY <1>5, <2>1, <2>2, <2>3, <2>4, <2>5 DEF Client
  <1>6. CASE Clock(p)
    <2>1. ASSUME NEW op, NEW c, NEW w, w # "none", NEW k, k \in {"f_begin", "e_find"},
                 Begin(p, k, [NoLocals EXCEPT !.op = op, !.call = c, !.why = w])
          PROVE  ArrivesOK(p)
      <3> DEFINE x == [NoLocals EXCEPT !.op = op, !.call = c, !.why = w]
      <3>1. x.want = "none" /\ x.why = w
        BY DEF NoLocals
      <3>2. Begin(p, k, x)
        BY <2>1
      <3> HIDE DEF x
      <3>3. m = x /\ Begin(p, k, m)
        BY <1>4, <3>2
      <3> QED BY <1>3, <2>1, <3>1, <3>3
    <2>2. ASSUME NEW c, CleanupCall(p, c)
          PROVE  ArrivesOK(p)
      <3> DEFINE x == [NoLocals EXCEPT !.op = "cleanup", !.call = c]
      <3>1. x.want = "none"
        BY DEF NoLocals
      <3>2. Begin(p, "cl_del", x)
        BY <2>2 DEF CleanupCall
      <3> HIDE DEF x
      <3>3. m = x /\ Begin(p, "cl_del", m)
        BY <1>4, <3>2
      <3> QED BY <1>3, <3>1, <3>3
    <2>3. ASSUME NEW c, RingingTimeout(p, c) PROVE ArrivesOK(p)
      BY <2>1, <2>3 DEF RingingTimeout
    <2>4. ASSUME NEW c, ConnectingTimeout(p, c) PROVE ArrivesOK(p)
      BY <2>1, <2>4 DEF ConnectingTimeout
    <2>5. ASSUME NEW c, MaxDurationTimeout(p, c) PROVE ArrivesOK(p)
      BY <2>1, <2>5 DEF MaxDurationTimeout
    <2> QED BY <1>6, <2>2, <2>3, <2>4, <2>5 DEF Clock
  <1>7. ASSUME Finish(p), pc[p] # "f_begin" PROVE ArrivesOK(p)
    <2>1. pc'[p] = "idle" /\ m = NoLocals
      BY <1>1, <1>7, FinishFacts
    <2> QED BY <1>2, <1>7, <2>1 DEF ArrivesOK
  <1>8. ASSUME NEW k, Goto(p, k), UNCHANGED loc, pc[p] \notin {"i_save", "f_begin"},
               k \notin {"i_save", "ca_set", "us_set"},
               k = "a_part" => l.call \in Call /\ l.user \in active[l.call].members,
               k \in {"ca_user", "ca_list", "us_mongo"} => pc[p] \in {"ca_set", "ca_user", "ca_list"},
               k \in {"d_part", "e_find", "e_mongo", "f_begin", "f_mongo"} =>
                 pc[p] \in {"d_part", "e_find"} \/ l.want = "failed"
        PROVE  ArrivesOK(p)
    <2>1. pc'[p] = k /\ m = l
      BY <1>1, <1>8 DEF Goto, StoreTypeOK
    <2> QED BY <1>8, <2>1 DEF ArrivesOK, WantOf, ReasonOf
  <1>9. ASSUME Proceed(p), UNCHANGED <<record, closing>>, pc[p] = "i_peer"
        PROVE  ArrivesOK(p)
    <2>1. PICK c \in Call : loc' = [loc EXCEPT ![p].call = c]
      BY <1>9 DEF Proceed
    <2>2. pc'[p] = "i_save"
      BY <1>1, <1>9 DEF Proceed, Goto, StoreTypeOK
    <2>3. m.want = l.want /\ m.why = l.why
      BY <1>1, <2>1 DEF StoreTypeOK, Locals
    <2>4. l.want = "none"
      BY <1>1, <1>9 DEF RestLabelOK
    <2> QED BY <1>9, <2>2, <2>3, <2>4 DEF ArrivesOK
  <1>10. CASE CheckInitiator(p)
    BY <1>7, <1>8, <1>10 DEF CheckInitiator, At
  <1>11. CASE CheckTarget(p)
    BY <1>7, <1>9, <1>11 DEF CheckTarget, At, lifecycleVars
  <1>12. CASE SaveRecord(p)
    <2>1. pc[p] = "i_save" /\ pc'[p] = "ca_set" /\ m = [l EXCEPT !.ret = "us_mongo", !.want = "ringing"]
      BY <1>1, <1>12 DEF SaveRecord, At, StoreTypeOK
    <2>2. m.want = "ringing"
      BY <1>1, <2>1 DEF Locals
    <2> QED BY <1>12, <2>1, <2>2 DEF ArrivesOK
  <1>13. CASE StatusMongo(p)
    <2>1. PICK k : k = IF l.want = "failed" THEN "f_mongo" ELSE AfterStatus(l)
      OBVIOUS
    <2>2. pc[p] = "us_mongo" /\ pc'[p] = "us_get" /\ m = [l EXCEPT !.ret = k]
      BY <1>1, <1>13, <2>1 DEF StatusMongo, Enter, At, StoreTypeOK
    <2>3. m.want = l.want /\ m.why = l.why /\ m.call = l.call /\ m.op = l.op /\ m.user = l.user
      BY <1>1, <2>2 DEF Locals
    <2> QED BY <2>2, <2>3 DEF ArrivesOK, ReasonOf
  <1>14. CASE CheckRinging(p)
    <2>1. l.call \in Call /\ pc[p] = "a_get"
      BY <1>1, <1>14 DEF CheckRinging, At, RestLabelOK
    <2> QED BY <1>7, <1>8, <1>14, <2>1 DEF CheckRinging
  <1>15. CASE JoinParticipant(p)
    <2>1. pc[p] = "a_part" /\ pc'[p] = "us_mongo" /\ m = [l EXCEPT !.want = "connecting"]
      BY <1>1, <1>15 DEF JoinParticipant, Goto, At, StoreTypeOK
    <2>2. m.want = "connecting" /\ m.call = l.call /\ m.op = l.op /\ m.user = l.user
      BY <1>1, <2>1 DEF Locals
    <2> QED BY <2>1, <2>2 DEF ArrivesOK
  <1>16. CASE EndRecord(p)
    <2>1. pc[p] = "e_mongo" /\ pc'[p] = "us_mongo" /\ m = [l EXCEPT !.want = "ended"]
      BY <1>1, <1>16 DEF EndRecord, Goto, At, StoreTypeOK
    <2>2. m.want = "ended" /\ m.call = l.call
      BY <1>1, <2>1 DEF Locals
    <2> QED BY <1>16, <2>1, <2>2 DEF ArrivesOK
  <1>17. CASE FailBegin(p)
    <2>1. pc[p] = "f_begin" /\ pc'[p] = "us_mongo" /\ m = [l EXCEPT !.want = "failed"]
      BY <1>1, <1>17 DEF FailBegin, Goto, At, StoreTypeOK
    <2>2. m.want = "failed" /\ m.call = l.call /\ m.why = l.why
      BY <1>1, <2>1 DEF Locals
    <2> QED BY <1>17, <2>1, <2>2 DEF ArrivesOK, ReasonOf
  <1>18. CASE RecordStarted(p) \/ DeclineParticipant(p) \/ EndFind(p) \/ EndParticipant(p)
              \/ CleanupDelete(p) \/ CleanupIdle(p)
    BY <1>8, <1>18
    DEF RecordStarted, DeclineParticipant, EndFind, EndParticipant, CleanupDelete, CleanupIdle, At
  <1>19. CASE FailRecord(p)
    BY <1>8, <1>19 DEF FailRecord, At
  <1>20. CASE CleanupReadUser(p)
    BY <1>8, <1>20 DEF CleanupReadUser, At
  <1>21. CASE ArmRinging(p) \/ ArmConnecting(p) \/ ArmMaxDuration(p) \/ EndSchedule(p) \/ FailSchedule(p)
    BY <1>7, <1>21 DEF ArmRinging, ArmConnecting, ArmMaxDuration, EndSchedule, FailSchedule, At
  <1>22. ASSUME NEW k, Goto(p, k), k \in {"cl_srem", "cl_stat"}, pc[p] \in {"cl_get", "cl_srem"},
                m.want = l.want, m.why = l.why, m.call = l.call, m.op = l.op
         PROVE  ArrivesOK(p)
    <2>1. pc'[p] = k
      BY <1>1, <1>22 DEF Goto, StoreTypeOK
    <2>2. l.want # "connecting"
      BY <1>1, <1>22 DEF RestLabelOK, MemberOf
    <2> QED BY <1>22, <2>1, <2>2 DEF ArrivesOK, ReasonOf
  <1>23. CASE CleanupGet(p)
    <2>1. m = [l EXCEPT !.todo = active[l.call].members]
      BY <1>1, <1>23 DEF CleanupGet, StoreTypeOK
    <2>2. m.want = l.want /\ m.why = l.why /\ m.call = l.call /\ m.op = l.op
      BY <1>1, <2>1 DEF Locals
    <2> QED BY <1>22, <1>23, <2>2 DEF CleanupGet, At
  <1>24. CASE CleanupUnlist(p)
    <2>1. ASSUME NEW u, Goto(p, "cl_stat"), pc[p] = "cl_srem",
                 loc' = [loc EXCEPT ![p].user = u, ![p].todo = @ \ {u}]
          PROVE  ArrivesOK(p)
      <3>1. m = [l EXCEPT !.user = u, !.todo = @ \ {u}]
        BY <1>1, <2>1 DEF StoreTypeOK
      <3>2. m.want = l.want /\ m.why = l.why /\ m.call = l.call /\ m.op = l.op
        BY <1>1, <3>1 DEF Locals
      <3> QED BY <1>22, <2>1, <3>2
    <2> QED BY <1>7, <1>24, <2>1 DEF CleanupUnlist, At
  <1>25. ASSUME Return(p), UNCHANGED loc, pc[p] \in {"ca_list", "us_get"}
         PROVE  ArrivesOK(p)
    <2>1. CASE pc[p] = "ca_list"
      BY <1>1, <1>8, <1>25, <2>1 DEF Return, RestLabelOK
    <2>2. CASE pc[p] = "us_get"
      <3>1. l.ret \in {"f_mongo", "arm_ring", "arm_conn", "c_started", "e_part", "e_sched"}
            /\ (l.ret = "f_mongo" => l.want = "failed")
        BY <1>1, <2>2 DEF RestLabelOK, AfterStatus
      <3> QED BY <1>8, <1>25, <2>2, <3>1 DEF Return
    <2> QED BY <1>25, <2>1, <2>2
  <1>26. CASE CreateActiveSet(p) \/ CreateActiveUser(p) \/ CreateActiveList(p)
    BY <1>8, <1>25, <1>26 DEF CreateActiveSet, CreateActiveUser, CreateActiveList, At
  <1>27. CASE UpdateStatusGet(p)
    <2>1. CASE Goto(p, "us_set") /\ loc' = [loc EXCEPT ![p].snap = active[l.call]]
      <3>1. pc[p] = "us_get" /\ pc'[p] = "us_set" /\ m = [l EXCEPT !.snap = active[l.call]]
        BY <1>1, <1>27, <2>1 DEF UpdateStatusGet, Goto, At, StoreTypeOK
      <3>2. /\ m.snap = active[l.call] /\ m.want = l.want /\ m.why = l.why
            /\ m.call = l.call /\ m.op = l.op /\ m.user = l.user /\ l.call \in Call
        BY <1>1, <3>1 DEF Locals, RestLabelOK
      <3> QED BY <1>27, <3>1, <3>2 DEF ArrivesOK, ReasonOf, UpdateStatusGet
    <2> QED BY <1>25, <1>27, <2>1 DEF UpdateStatusGet, At
  <1>28. CASE UpdateStatusSet(p)
    <2>1. pc[p] = "us_set" /\ pc'[p] = l.ret /\ m = [l EXCEPT !.snap = Absent]
      BY <1>1, <1>28 DEF UpdateStatusSet, Return, Goto, At, StoreTypeOK
    <2>2. /\ m.want = l.want /\ m.why = l.why
          /\ m.call = l.call /\ m.op = l.op /\ m.user = l.user
      BY <1>1, <2>1 DEF Locals
    <2>3. l.ret \in {"f_mongo", "arm_ring", "arm_conn", "c_started", "e_part", "e_sched"}
            /\ (l.ret = "f_mongo" => l.want = "failed")
      BY <1>1, <2>1 DEF RestLabelOK, AfterStatus
    <2> QED BY <2>1, <2>2, <2>3 DEF ArrivesOK, ReasonOf
  <1>29. CASE RestSharedStep(p)
    BY <1>1, <1>26, <1>27, <1>28, <1>29
    DEF RestSharedStep, StoreStep, RemoveGet, RemoveSet, RemoveUser, RemoveList, EndGet, EndUsers, EndDel,
        At, RestLabelOK, RestLabel
  <1>30. CASE Fault(p)
    <2>1. CASE /\ Goto(p, "f_begin")
               /\ loc' = [loc EXCEPT ![p].why = FailureReason(l)]
      <3>1. pc'[p] = "f_begin" /\ m = [l EXCEPT !.why = FailureReason(l)] /\ FailureReason(l) # "none"
            /\ pc[p] # "f_begin"
        BY <1>1, <1>30, <2>1 DEF Fault, Throws, Goto, StoreTypeOK, FailureReason
      <3>2. /\ m.want = l.want /\ m.why # "none"
            /\ m.call = l.call /\ m.op = l.op /\ m.user = l.user
        BY <1>1, <3>1 DEF Locals
      <3> QED BY <3>1, <3>2 DEF ArrivesOK
    <2> QED BY <1>7, <1>30, <2>1 DEF Fault, Throws
  <1>31. CASE SilentFault(p)
    BY <1>7, <1>8, <1>9, <1>25, <1>31 DEF SilentFault, At
  <1> QED BY <1>5, <1>6, <1>10, <1>11, <1>12, <1>13, <1>14, <1>15, <1>16, <1>17, <1>18, <1>19, <1>20,
             <1>21, <1>23, <1>24, <1>29, <1>30, <1>31
          DEF RestSteps, Handler

\* Redis holds what was stored of a call when it was created, or what was read of it.
ActiveOK(p) ==
  \A c \in Call :
    \/ active'[c].members \subseteq active[c].members
    \/ c = loc[p].call /\ pc[p] = "ca_set" /\ active'[c].members = {loc[p].user, loc[p].peer}
    \/ c = loc[p].call /\ pc[p] = "us_set" /\ active'[c].members = loc[p].snap.members

LEMMA Stored ==
  ASSUME NEW p \in Proc, Ready(p), RestSteps(p)
  PROVE  ActiveOK(p)
  <1>1. StoreTypeOK /\ RestLabelOK(pc[p], loc[p]) /\ loc[p] \in Locals
    BY AtStep
  <1>2. active \in [Call -> ActiveState] /\ Absent.members = {}
    BY <1>1 DEF StoreTypeOK, Absent
  <1>3. ASSUME UNCHANGED active PROVE ActiveOK(p)
    BY <1>3 DEF ActiveOK
  <1>4. CASE CreateActiveSet(p)
    <2>1. \A c \in Call : active'[c] = IF c = loc[p].call
                                       THEN [status |-> "initiating", members |-> {loc[p].user, loc[p].peer}]
                                       ELSE active[c]
      BY <1>2, <1>4 DEF CreateActiveSet
    <2> QED BY <1>4, <2>1 DEF ActiveOK, CreateActiveSet, At
  <1>5. CASE UpdateStatusSet(p)
    <2>1. \A c \in Call : active'[c] = IF c = loc[p].call THEN [loc[p].snap EXCEPT !.status = loc[p].want]
                                       ELSE active[c]
      BY <1>2, <1>5 DEF UpdateStatusSet
    <2>2. [loc[p].snap EXCEPT !.status = loc[p].want].members = loc[p].snap.members
      BY <1>1 DEF Locals, ActiveState
    <2> QED BY <1>5, <2>1, <2>2 DEF ActiveOK, UpdateStatusSet, At
  <1>6. CASE CleanupDelete(p)
    BY <1>2, <1>6 DEF CleanupDelete, ActiveOK
  <1>7. CASE RestSharedStep(p)
    BY <1>1, <1>3, <1>4, <1>5, <1>7
    DEF RestSharedStep, StoreStep, CreateActiveUser, CreateActiveList, UpdateStatusGet, RemoveGet,
        RemoveSet, RemoveUser, RemoveList, EndGet, EndUsers, EndDel, At, RestLabelOK, RestLabel, keys
  <1>8. CASE Client(p) \/ Clock(p) \/ Fault(p) \/ SilentFault(p)
    BY <1>3, <1>8
    DEF Client, InitiateCall, AcceptCall, MarkConnected, DeclineCall, HangupCall, Clock, RingingTimeout,
        ConnectingTimeout, MaxDurationTimeout, CleanupCall, Fault, SilentFault, keys
  <1>9. CASE Handler(p)
    BY <1>3, <1>6, <1>9
    DEF Handler, CheckInitiator, CheckTarget, SaveRecord, StatusMongo, ArmRinging, CheckRinging,
        JoinParticipant, ArmConnecting, RecordStarted, ArmMaxDuration, DeclineParticipant, EndFind,
        EndRecord, EndParticipant, EndSchedule, FailBegin, FailRecord, FailSchedule, CleanupGet,
        CleanupUnlist, CleanupReadUser, CleanupIdle, keys
  <1> QED BY <1>7, <1>8, <1>9 DEF RestSteps

-----------------------------------------------------------------------------
(* What a step of p leaves as it was *)

\* A document, its participants and the reason of its end stay.
Lasting ==
  \A c \in Call : /\ ~Unsaved(c) => ~Unsaved(c)'
                  /\ Participants(c) \subseteq Participants(c)'
                  /\ record[c].status # "none" => record'[c].status # "none"
                  /\ record[c].reason # "none" => record'[c].reason # "none"

LEMMA Lasts ==
  ASSUME RestInv, DInv, NEW p \in Proc, RestSteps(p)
  PROVE  Lasting
  <1>1. /\ RecordOK(p) /\ ClosesOK(p) /\ record \in [Call -> Record] /\ loc[p] \in Locals
        /\ RestLabelOK(pc[p], loc[p])
    BY AllReady, DocumentsWritten, ClosesAndArms, AtStep DEF StoreTypeOK
  <1>2. FreshOf(p) /\ WantOf(p) /\ ReasonOf(p)
    BY DEF DInv, SavedOnce, Reasoned
  <1>3. NoRecord.status = "none" /\ NoRecord.reason = "none"
        /\ NoRecord.caller = NoUser /\ NoRecord.callee = NoUser
    BY DEF NoRecord
  <1>4. CASE record' = record
    BY <1>1, <1>4 DEF Lasting, Unsaved, Participants, ClosesOK
  <1>5. CASE SaveRecord(p)
    <2>0. loc[p].call \in Call /\ loc[p].user \in User /\ loc[p].peer \in User
      BY <1>1, <1>5 DEF SaveRecord, At, RestLabelOK
    <2>1. /\ pc[p] = "i_save" /\ record[loc[p].call] = NoRecord
          /\ record'[loc[p].call] = NewRecord(loc[p].user, loc[p].peer)
          /\ \A d \in Call \ {loc[p].call} : record'[d] = record[d]
      BY <1>1, <1>2, <1>5, <2>0 DEF SaveRecord, At, FreshOf
    <2>2. NewRecord(loc[p].user, loc[p].peer).status = "initiating"
      BY DEF NewRecord
    <2> QED BY <1>1, <1>3, <2>0, <2>1, <2>2 DEF Lasting, Unsaved, Participants, ClosesOK
  <1>6. CASE ~(record' = record \/ SaveRecord(p))
    <2>1. PICK c \in Call :
            /\ c = loc[p].call /\ record[c].status # "none"
            /\ \A d \in Call \ {c} : record'[d] = record[d]
            /\ record'[c].caller = record[c].caller /\ record'[c].callee = record[c].callee
            /\ \/ record'[c].status = record[c].status /\ record'[c].reason = record[c].reason
               \/ /\ pc[p] = "us_mongo" /\ record'[c].status = loc[p].want
                  /\ record'[c].reason = record[c].reason
               \/ /\ pc[p] \in {"e_mongo", "f_mongo"} /\ record'[c].reason = loc[p].why
                  /\ record'[c].status \in TerminalStatus
      BY <1>1, <1>6 DEF RecordOK
    <2>2. record'[c].status # "none" /\ (record[c].reason # "none" => record'[c].reason # "none")
      BY <1>2, <2>1 DEF WantOf, ReasonOf, TerminalStatus
    <2>3. \A d \in Call : Participants(d) \subseteq Participants(d)'
      BY <2>1 DEF Participants
    <2>4. \A d \in Call : ~Unsaved(d) => ~Unsaved(d)'
      BY <1>1, <1>3, <2>1, <2>2 DEF Unsaved, ClosesOK
    <2> QED BY <2>1, <2>2, <2>3, <2>4 DEF Lasting
  <1> QED BY <1>4, <1>5, <1>6

-----------------------------------------------------------------------------
(* The invariant is kept *)

LEMMA SavedKept ==
  ASSUME RestInv, DInv, NEW p \in Proc, RestSteps(p)
  PROVE  SavedOnce'
  <1>1. /\ StoreTypeOK /\ NoCall \notin Call
        /\ \A q \in Proc : RestLabelOK(pc[q], loc[q]) /\ loc[q] \in Locals
        /\ \A q \in Proc : FreshOf(q) /\ HeldOf(q) /\ WantOf(q)
    BY AllReady, AtStep, CallStoreAssumption DEF DInv, SavedOnce
  <1>2. /\ NamesOK(p) /\ \A q \in Proc \ {p} : pc'[q] = pc[q] /\ loc'[q] = loc[q]
    BY AllReady, Names DEF DInv
  <1>3. ArrivesOK(p)
    BY AllReady, <1>1, Arrives DEF DInv, Reasoned, Named
  <1>4. RecordOK(p) /\ ClosesOK(p) /\ Lasting
    BY AllReady, DocumentsWritten, ClosesAndArms, Lasts
  <1>5. ASSUME NEW q \in Proc \ {p} PROVE FreshOf(q)' /\ HeldOf(q)' /\ WantOf(q)'
    <2>1. WantOf(q)'
      BY <1>1, <1>2 DEF WantOf
    <2>2. HeldOf(q)'
      BY <1>1, <1>2, <1>4 DEF HeldOf, Lasting
    <2>3. ASSUME pc[q] = "i_save" PROVE FreshOf(q)'
      <3>1. /\ loc[q].call \in Call /\ Unsaved(loc[q].call)
            /\ \A r \in Proc \ {q} : loc[r].call # loc[q].call
        BY <1>1, <2>3 DEF FreshOf, Unsaved, RestLabelOK
      <3>2. record'[loc[q].call] = record[loc[q].call]
        BY <1>1, <1>4, <3>1 DEF RecordOK, SaveRecord, StoreTypeOK
      <3>3. loc[q].call \notin closing'
        BY <1>4, <3>1 DEF ClosesOK, Unsaved
      <3>4. loc'[p].call # loc[q].call
        BY <1>1, <1>2, <3>1 DEF NamesOK
      <3> QED BY <1>2, <3>1, <3>2, <3>3, <3>4 DEF FreshOf, Unsaved
    <2> QED BY <1>2, <2>1, <2>2, <2>3 DEF FreshOf
  <1>6. WantOf(p)'
    BY <1>3 DEF ArrivesOK, WantOf
  <1>7. FreshOf(p)'
    <2>1. ASSUME pc'[p] = "i_save" PROVE FreshOf(p)'
      <3>1. Proceed(p) /\ UNCHANGED <<record, closing>>
        BY <1>3, <2>1 DEF ArrivesOK
      <3>2. PICK c \in Call : /\ record[c] = NoRecord /\ c \notin closing
                              /\ \A q \in Proc : loc[q].call # c
                              /\ loc' = [loc EXCEPT ![p].call = c]
        BY <3>1 DEF Proceed
      <3>3. loc'[p].call = c
        BY <1>1, <3>2 DEF StoreTypeOK, Locals
      <3> QED BY <1>2, <3>1, <3>2, <3>3 DEF FreshOf
    <2> QED BY <2>1 DEF FreshOf
  <1>8. HeldOf(p)'
    <2> SUFFICES ASSUME NEW c \in Call, c = loc'[p].call, Unsaved(c)'
                 PROVE  pc'[p] \in {"i_save", "f_begin"}
      BY DEF HeldOf, Unsaved
    <2>1. Unsaved(c)
      BY <1>4 DEF Lasting
    <2>2. CASE c = loc[p].call
      <3>1. pc[p] \in {"i_save", "f_begin"}
        BY <1>1, <2>1, <2>2 DEF HeldOf
      <3>2. ~SaveRecord(p)
        <4>1. ASSUME SaveRecord(p) PROVE FALSE
          <5>1. record'[c] = NewRecord(loc[p].user, loc[p].peer)
            BY <1>1, <2>2, <4>1 DEF SaveRecord, StoreTypeOK
          <5>2. NewRecord(loc[p].user, loc[p].peer).status # NoRecord.status
            BY DEF NewRecord, NoRecord
          <5> QED BY <5>1, <5>2 DEF Unsaved
        <4> QED BY <4>1
      <3>3. ~FailBegin(p)
        BY <2>2 DEF FailBegin, Unsaved
      <3>4. loc'[p] # NoLocals
        BY <1>1 DEF NoLocals
      <3> QED BY <1>3, <3>1, <3>2, <3>3, <3>4 DEF ArrivesOK
    <2> QED BY <1>1, <1>2, <2>1, <2>2 DEF NamesOK
  <1> QED BY <1>5, <1>6, <1>7, <1>8 DEF SavedOnce

LEMMA UntimedKept ==
  ASSUME RestInv, DInv, NEW p \in Proc, RestSteps(p)
  PROVE  Untimed'
  <1>1. HeldOf(p) /\ Untimed /\ ClosesOK(p) /\ Lasting
    BY AllReady, ClosesAndArms, Lasts DEF DInv, SavedOnce
  <1>2. ASSUME NEW c \in Call, Unsaved(c)' PROVE ~Timed(c)'
    BY <1>1, <1>2 DEF Lasting, ClosesOK, Untimed, HeldOf
  <1> QED BY <1>2 DEF Untimed

LEMMA ReasonedKept ==
  ASSUME RestInv, DInv, NEW p \in Proc, RestSteps(p)
  PROVE  Reasoned'
  <1>1. /\ StoreTypeOK
        /\ \A q \in Proc : loc[q] \in Locals /\ FreshOf(q) /\ WantOf(q) /\ ReasonOf(q)
    BY AllReady, AtStep DEF DInv, SavedOnce, Reasoned
  <1>2. \A q \in Proc \ {p} : pc'[q] = pc[q] /\ loc'[q] = loc[q]
    BY AllReady, Names DEF DInv
  <1>3. ArrivesOK(p)
    BY AllReady, <1>1, Arrives DEF DInv, Named
  <1>4. RecordOK(p) /\ Lasting
    BY AllReady, DocumentsWritten, Lasts
  <1>5. ASSUME NEW c \in Call, record[c].status = "none" \/ record[c].reason # "none",
               ~SaveRecord(p) \/ c # loc[p].call
        PROVE  record'[c].status = "none" \/ record'[c].reason # "none"
    <2>1. CASE record[c].reason # "none"
      BY <1>4, <2>1 DEF Lasting
    <2>2. CASE record[c].status = "none"
      <3>1. record'[c] = record[c]
        BY <1>1, <1>4, <1>5, <2>2 DEF RecordOK, SaveRecord, StoreTypeOK
      <3> QED BY <2>2, <3>1
    <2> QED BY <1>5, <2>1, <2>2
  <1>6. \A q \in Proc : loc[q].want = "ended" => loc[q].call \in Call
    <2>1. closing \in SUBSET Call /\ \A q \in Proc : ClosingOK(pc[q], loc[q], closing)
      BY AllReady, AtStep DEF LifecycleTypeOK
    <2> QED BY <2>1 DEF ClosingOK, TerminalStatus
  <1>7. ASSUME NEW q \in Proc \ {p} PROVE ReasonOf(q)'
    <2>1. SaveRecord(p) => loc[q].call # loc[p].call
      BY <1>1 DEF SaveRecord, At, FreshOf
    <2> QED BY <1>1, <1>2, <1>5, <1>6, <2>1 DEF ReasonOf
  <1>8. ReasonOf(p)'
    <2>1. ASSUME loc'[p].want = "ended"
          PROVE  \/ record'[loc'[p].call].status = "none"
                 \/ record'[loc'[p].call].reason # "none"
      <3>1. loc'[p].call = loc[p].call /\ (loc[p].want = "ended" \/ EndRecord(p))
        BY <1>3, <2>1 DEF ArrivesOK
      <3>2. CASE EndRecord(p)
        <4>1. pc[p] = "e_mongo" /\ loc[p].call \in Call /\ loc[p].why # "none"
              /\ Write(p, [record[loc[p].call] EXCEPT !.status = "ended", !.reason = loc[p].why])
          BY AllReady, <1>1, <3>2, AtStep DEF EndRecord, At, RestLabelOK, ReasonOf
        <4>2. CASE record[loc[p].call].status = "none"
          BY <3>1, <4>1, <4>2 DEF Write
        <4>3. CASE record[loc[p].call].status # "none"
          <5>1. record'[loc[p].call] = [record[loc[p].call] EXCEPT !.status = "ended", !.reason = loc[p].why]
            BY <1>1, <4>1, <4>3 DEF Write, StoreTypeOK
          <5>2. record[loc[p].call] \in Record
            BY <1>1, <4>1 DEF StoreTypeOK
          <5>3. record'[loc[p].call].reason = loc[p].why
            BY <5>1, <5>2 DEF Record
          <5> QED BY <3>1, <4>1, <5>3
        <4> QED BY <4>2, <4>3
      <3>3. CASE loc[p].want = "ended"
        <4>1. ~SaveRecord(p)
          <5>1. ASSUME SaveRecord(p) PROVE FALSE
            <6>1. loc'[p] = [loc[p] EXCEPT !.ret = "us_mongo", !.want = "ringing"]
              BY <1>1, <5>1 DEF SaveRecord, StoreTypeOK
            <6>2. loc'[p].want = "ringing"
              BY <1>1, <6>1 DEF Locals
            <6> QED BY <2>1, <6>2
          <5> QED BY <5>1
        <4> QED BY <1>1, <1>5, <1>6, <3>1, <3>3, <4>1 DEF ReasonOf
      <3> QED BY <3>1, <3>2, <3>3
    <2> QED BY <1>3, <2>1 DEF ArrivesOK, ReasonOf
  <1> QED BY <1>7, <1>8 DEF Reasoned

LEMMA NamedKept ==
  ASSUME RestInv, DInv, NEW p \in Proc, RestSteps(p)
  PROVE  Named'
  <1>1. /\ StoreTypeOK /\ NoUser \notin User /\ Named
        /\ \A q \in Proc : RestLabelOK(pc[q], loc[q]) /\ loc[q] \in Locals /\ MemberOf(q)
        /\ WantOf(p) /\ ReasonOf(p)
    BY AllReady, AtStep, CallStoreAssumption DEF DInv, SavedOnce, Reasoned, Named
  <1>2. \A q \in Proc \ {p} : pc'[q] = pc[q] /\ loc'[q] = loc[q]
    BY AllReady, Names DEF DInv
  <1>3. ArrivesOK(p) /\ ActiveOK(p) /\ Lasting
    BY AllReady, <1>1, Arrives, Stored, Lasts
  <1>4. \A c \in Call : active'[c].members \subseteq Participants(c)'
    BY <1>1, <1>3 DEF ActiveOK, Lasting, Named, MemberOf
  <1>5. ASSUME NEW q \in Proc \ {p} PROVE MemberOf(q)'
    BY <1>1, <1>2, <1>3 DEF MemberOf, Lasting, RestLabelOK
  <1>6. MemberOf(p)'
    <2>1. ASSUME pc'[p] = "ca_set", NEW c, c = loc'[p].call
          PROVE  {loc'[p].user, loc'[p].peer} \subseteq Participants(c)'
      <3>1. SaveRecord(p) /\ loc[p].call \in Call /\ loc[p].user \in User /\ loc[p].peer \in User
        BY <1>1, <1>3, <2>1 DEF ArrivesOK, SaveRecord, At, RestLabelOK
      <3>2. loc'[p] = [loc[p] EXCEPT !.ret = "us_mongo", !.want = "ringing"]
        BY <1>1, <3>1 DEF SaveRecord, StoreTypeOK
      <3>3. loc'[p].user = loc[p].user /\ loc'[p].peer = loc[p].peer /\ loc'[p].call = loc[p].call
        BY <1>1, <3>2 DEF Locals
      <3>4. record'[c] = NewRecord(loc[p].user, loc[p].peer)
        BY <1>1, <2>1, <3>1, <3>3 DEF SaveRecord, StoreTypeOK
      <3>5. record'[c].caller = loc[p].user /\ record'[c].callee = loc[p].peer
        BY <3>4 DEF NewRecord
      <3> QED BY <1>1, <3>1, <3>3, <3>5 DEF Participants
    <2>2. ASSUME pc'[p] = "us_set", NEW c, c = loc'[p].call
          PROVE  loc'[p].snap.members \subseteq Participants(c)'
      BY <1>1, <1>3, <2>2 DEF ArrivesOK, Lasting, Named
    <2>3. ASSUME pc'[p] = "a_part", NEW c, c = loc'[p].call
          PROVE  loc'[p].user \in Participants(c)'
      BY <1>1, <1>3, <2>3 DEF ArrivesOK, Lasting, Named
    <2>4. ASSUME loc'[p].want = "connecting", NEW c, c = loc'[p].call
          PROVE  /\ loc'[p].op = "accept" /\ c \in Call
                 /\ loc'[p].user \in Participants(c)'
      <3>1. /\ c = loc[p].call /\ c \in Call /\ loc[p].op = "accept"
            /\ loc[p].user \in Participants(c) /\ loc'[p].op = loc[p].op /\ loc'[p].user = loc[p].user
        BY <1>1, <1>3, <2>4 DEF ArrivesOK, MemberOf, RestLabelOK
      <3> QED BY <1>3, <3>1 DEF Lasting
    <2> QED BY <2>1, <2>2, <2>3, <2>4 DEF MemberOf, Participants
  <1> QED BY <1>4, <1>5, <1>6 DEF Named

LEMMA EndedKept ==
  ASSUME RestInv, DInv, NEW p \in Proc, RestSteps(p)
  PROVE  EndedHasReason'
  <1>1. RecordOK(p) /\ WantOf(p) /\ ReasonOf(p) /\ EndedHasReason /\ record \in [Call -> Record]
    BY AllReady, DocumentsWritten, AtStep DEF DInv, SavedOnce, Reasoned, StoreTypeOK
  <1> SUFFICES ASSUME NEW c \in Call, record'[c].status = "ended"
               PROVE  record'[c].reason # "none"
    BY DEF EndedHasReason
  <1>2. CASE SaveRecord(p)
    <2>1. record' = [record EXCEPT ![loc[p].call] = NewRecord(loc[p].user, loc[p].peer)]
      BY <1>2 DEF SaveRecord
    <2>2. NewRecord(loc[p].user, loc[p].peer).status = "initiating"
      BY DEF NewRecord
    <2> QED BY <1>1, <2>1, <2>2 DEF EndedHasReason
  <1>3. CASE ~SaveRecord(p)
    BY <1>1, <1>3 DEF RecordOK, EndedHasReason, ReasonOf
  <1> QED BY <1>2, <1>3

LEMMA InitDInv == RestInit => DInv
  <1> SUFFICES ASSUME RestInit PROVE DInv
    OBVIOUS
  <1>1. /\ NoLocals.want = "none" /\ NoLocals.call = NoCall /\ NoCall \notin Call
        /\ Absent.members = {} /\ NoRecord.status = "none"
    BY CallStoreAssumption DEF NoLocals, Absent, NoRecord
  <1>2. SavedOnce
    BY <1>1 DEF RestInit, StoreInit, SavedOnce, FreshOf, HeldOf, WantOf
  <1>3. Untimed
    BY DEF RestInit, LifecycleInit, Untimed, Timed
  <1>4. Reasoned
    BY <1>1 DEF RestInit, StoreInit, Reasoned, ReasonOf
  <1>5. Named
    BY <1>1 DEF RestInit, StoreInit, Named, MemberOf
  <1>6. EndedHasReason
    BY <1>1 DEF RestInit, StoreInit, EndedHasReason
  <1> QED BY <1>2, <1>3, <1>4, <1>5, <1>6 DEF DInv

LEMMA DStep == RestInv /\ DInv /\ [RestNext]_restVars => DInv'
  <1> SUFFICES ASSUME RestInv, DInv, [RestNext]_restVars PROVE DInv'
    OBVIOUS
  <1>1. CASE UNCHANGED restVars
    BY <1>1 DEF restVars, store, lifecycleVars, DInv, SavedOnce, FreshOf, HeldOf, WantOf, Unsaved, Untimed, Timed,
                Reasoned, ReasonOf, Named, MemberOf, Participants, EndedHasReason
  <1>2. CASE RestNext
    <2>1. PICK p \in Proc : RestSteps(p)
      BY <1>2 DEF RestNext, RestSteps
    <2> QED BY <2>1, SavedKept, UntimedKept, ReasonedKept, NamedKept, EndedKept DEF DInv
  <1> QED BY <1>1, <1>2

LEMMA DInvariance == RestSpec => []DInv
  <1> QED BY InitDInv, DStep, RestInvariance, PTL DEF RestSpec

(* A call whose document says it is over says why, although the status is  *)
(* written twice and any request, timeout or failing command may come      *)
(* between the two.                                                        *)
THEOREM EndedCallsHaveReason == RestSpec => []EndedHasReason
  <1>1. DInv => EndedHasReason BY DEF DInv
  <1> QED BY <1>1, DInvariance, PTL

\* A step that makes a call connecting is the accept of one of its participants.
LEMMA ConnectingStep ==
  ASSUME RestInv, DInv, [RestNext]_restVars
  PROVE  \A c \in Call :
           record'[c].status = "connecting" /\ record[c].status # "connecting" =>
             \E p \in Proc : /\ loc[p].op = "accept" /\ loc[p].call = c
                             /\ loc[p].user \in Participants(c)
  <1> SUFFICES ASSUME NEW c \in Call, record'[c].status = "connecting", record[c].status # "connecting"
               PROVE  \E p \in Proc : /\ loc[p].op = "accept" /\ loc[p].call = c
                                      /\ loc[p].user \in Participants(c)
    OBVIOUS
  <1>1. PICK p \in Proc : RestSteps(p)
    BY DEF RestNext, RestSteps, restVars, store
  <1>2. RecordOK(p) /\ MemberOf(p) /\ record \in [Call -> Record]
    BY AllReady, <1>1, DocumentsWritten, AtStep DEF DInv, Named, StoreTypeOK
  <1>3. ~SaveRecord(p)
    <2>1. NewRecord(loc[p].user, loc[p].peer).status = "initiating"
      BY DEF NewRecord
    <2> QED BY <1>2, <2>1 DEF SaveRecord
  <1>4. c = loc[p].call /\ loc[p].want = "connecting"
    BY <1>2, <1>3 DEF RecordOK, TerminalStatus
  <1> QED BY <1>2, <1>4 DEF MemberOf

(* A call moves to connecting only when somebody accepts it whom its       *)
(* document names, whatever happened to the call since Redis was asked.    *)
THEOREM OnlyParticipantsConnectCalls == RestSpec => OnlyParticipantsConnect
  <1>1. RestInv /\ DInv /\ [RestNext]_restVars =>
          [\A c \in Call :
             record'[c].status = "connecting" /\ record[c].status # "connecting" =>
               \E p \in Proc : /\ loc[p].op = "accept" /\ loc[p].call = c
                               /\ loc[p].user \in Participants(c)]_restVars
    BY ConnectingStep
  <1> QED BY <1>1, RestInvariance, DInvariance, PTL DEF RestSpec, OnlyParticipantsConnect
=============================================================================
