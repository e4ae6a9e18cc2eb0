--------------------------- MODULE FriendshipProofs ---------------------------
(***************************************************************************)
(* Proofs about the relation of two users, for any number of requests      *)
(* being served: they leave no half friendship, make nobody a friend who   *)
(* did not agree, lift no block, and act on the two documents as on one    *)
(* relation (module Acquaintance), until the writes of two requests mix, a *)
(* request fails half-way, or a contact is imported over a document there  *)
(* was.                                                                    *)
(***************************************************************************)
EXTENDS Friendship, FiniteSetTheorems, SequenceTheorems, TLAPS

\* What a handler reads, and then runs, according to where it is.
Shape ==
  \A h \in Handler :
    /\ loc[h].ran => pc[h] = "run"
    /\ pc[h] \in {"own", "rev"} => loc[h].op \notin {"accept", "decline"}
    /\ pc[h] = "byid" => loc[h].op \in {"accept", "decline", "send"}

\* A missing document is one without an id, and a block shows in its document.
Sound ==
  \A u \in User : /\ edge[u].id = 0 => edge[u] = NoFriend
                  /\ edge[u].id # 0 => edge[u].status # "none"
                  /\ blocks[u] => edge[u].status = "blocked"

\* The two documents while no plan is half run: both or neither accepted, nothing asked of
\* someone who blocks or asks, no pending request and no friendship, present or remembered,
\* unasked.
Settled ==
  \A u \in User :
    /\ edge[u].status = "accepted" <=> edge[Other(u)].status = "accepted"
    /\ edge[u].status \in {"blocked", "pending"} => edge[Other(u)].status # "pending"
    /\ edge[u].status \in {"pending", "accepted"} => consent[u]
    /\ edge[u].was => edge[Other(u)].was /\ edge[u].status = "blocked" /\ consent[u]

\* A plan that is about to be run was made from the documents as they are.
Planned(l) ==
  LET own == edge[l.by]
      rev == edge[Other(l.by)]
  IN \/ /\ l.op \in {"send", "accept"} /\ rev.status = "pending"
        /\ l.plan = AcceptPlan(l, rev)
     \/ /\ l.op = "send" /\ own.status \in {"none", "declined"} /\ rev.status \notin {"blocked", "pending"}
        /\ l.plan = <<Create(l.by, "pending")>>
     \/ /\ l.op = "decline" /\ rev.status = "pending"
        /\ l.plan = <<Update(Other(l.by), rev.id, "declined", "keep")>>
     \/ /\ l.own = own /\ l.rev = rev
        /\ \/ l.op = "remove" /\ own.status = "accepted" /\ l.plan = RemovePlan(l)
           \/ l.op = "block" /\ l.plan = BlockPlan(l)
           \/ l.op = "unblock" /\ own.status = "blocked" /\ l.plan = UnblockPlan(l)
           \/ l.op = "import" /\ own.status # "accepted" /\ l.plan = ImportPlan(l)

Current(h) ==
  /\ pc[h] = "rev" => loc[h].own = edge[loc[h].by] /\ ~Refuses(loc[h].op, loc[h].own)
  /\ pc[h] = "run" => Planned(loc[h])

Agreed(wish) == \A u \in User : wish[u]

\* The pair between the two writes of a plan, c being the second.
Half(pair, wish, l, c) ==
  LET own == pair[l.by]
      rev == pair[Other(l.by)]
  IN \/ /\ l.op \in {"send", "accept"} /\ c.edge = l.by /\ c.status = "accepted" /\ c.flags = "keep"
        /\ \/ c.do = "upsert"
           \/ c.do = "update" /\ c.id # 0
           \/ c.do = "create" /\ own.id = 0
        /\ rev.status = "accepted" /\ own.status # "blocked" /\ ~own.was /\ ~rev.was /\ Agreed(wish)
     \/ /\ l.op = "import" /\ c.do = "create" /\ c.status = "accepted" /\ Agreed(wish)
        /\ pair[Other(c.edge)].status = "accepted" /\ ~pair[Other(c.edge)].was
     \/ /\ l.op = "remove" /\ c.do = "delete" /\ c.edge = Other(l.by) /\ c.id = rev.id
        /\ own = NoFriend /\ rev.status = "accepted"
     \/ /\ l.op = "block" /\ c.do = "update" /\ c.edge = Other(l.by) /\ c.id # 0 /\ c.status = "blocked"
        /\ own.status = "blocked" /\ c.flags \in {"both", "target"}
        /\ c.flags = "both" => own.was
        /\ own.was => Agreed(wish) /\ (rev.was \/ c.flags = "both")
        /\ rev.was => own.was
     \/ /\ l.op = "unblock" /\ c.do = "update" /\ c.edge = Other(l.by) /\ c.id # 0
        /\ c.status = "accepted" /\ c.flags = "clear"
        /\ own.status = "accepted" /\ ~own.was /\ Agreed(wish)
     \/ /\ l.op = "unblock" /\ c.do = "delete" /\ c.edge = Other(l.by) /\ c.id = rev.id
        /\ own = NoFriend

Midway(h) ==
  /\ ~overtaken[h]
  /\ Len(loc[h].plan) = 1 /\ Half(edge, consent, loc[h], loc[h].plan[1])

\* One plan at most is half run; nothing else has been read that does not hold any more.
Orderly ==
  ~AtOdds => /\ Sound
             /\ \A h \in Handler : loc[h].ran => Midway(h)
             /\ \A g, h \in Handler : loc[g].ran /\ loc[h].ran => g = h
             /\ (\A h \in Handler : ~loc[h].ran) => Settled
             /\ \A h \in Handler : ~loc[h].ran /\ ~overtaken[h] => Current(h)

IInv == TypeOK /\ Shape /\ Orderly

-----------------------------------------------------------------------------
(* The two users, and plans of one or two commands.                         *)

LEMMA UserFacts ==
  /\ AnyUser \in User
  /\ \A u \in User : Other(u) \in User /\ Other(u) # u /\ Other(Other(u)) = u
  /\ \A u, w \in User : w = u \/ w = Other(u)
  <1>1. PICK a \in User : TRUE
    <2>1. User # {} BY FriendshipAssumption, FS_EmptySet
    <2> QED BY <2>1
  <1>2. IsFiniteSet(User \ {a}) /\ Cardinality(User \ {a}) = 1
    BY <1>1, FriendshipAssumption, FS_RemoveElement
  <1>3. PICK b : User \ {a} = {b} BY <1>2, FS_Singleton
  <1>4. User = {a, b} /\ a # b BY <1>1, <1>3
  <1>5. Other(a) = b /\ Other(b) = a BY <1>4 DEF Other
  <1> QED BY <1>4, <1>5 DEF AnyUser

LEMMA PairFacts ==
  ASSUME NEW a, NEW b
  PROVE  /\ <<a>> \o <<b>> = <<a, b>> /\ <<a>> \o <<>> = <<a>>
         /\ Tail(<<a, b>>) = <<b>> /\ Tail(<<a>>) = <<>>
         /\ Head(<<a, b>>) = a /\ Head(<<a>>) = a
         /\ <<a>> # <<>> /\ <<a, b>> # <<>> /\ Len(<<b>>) = 1 /\ <<b>>[1] = b
  <1>1. <<a>> \o <<b>> = <<a, b>>
    <2> DEFINE s == <<a>> \o <<b>>
               t == <<a, b>>
    <2>1. s \in Seq({a, b}) /\ Len(s) = 2 /\ s[1] = a /\ s[2] = b OBVIOUS
    <2>2. t \in Seq({a, b}) /\ Len(t) = 2 /\ t[1] = a /\ t[2] = b OBVIOUS
    <2> HIDE DEF s, t
    <2>3. \A i \in 1 .. 2 : s[i] = t[i]
      <3>1. \A i \in 1 .. 2 : i = 1 \/ i = 2 OBVIOUS
      <3> QED BY <2>1, <2>2, <3>1
    <2>4. s = t BY <2>1, <2>2, <2>3, SeqEqual
    <2> QED BY <2>4 DEF s, t
  <1>2. <<a>> \o <<>> = <<a>> OBVIOUS
  <1>3. Tail(<<a, b>>) = <<b>> OBVIOUS
  <1>4. Tail(<<a>>) = <<>> OBVIOUS
  <1>5. Head(<<a, b>>) = a /\ Head(<<a>>) = a OBVIOUS
  <1>6. <<a>> # <<>> /\ <<a, b>> # <<>> OBVIOUS
  <1>7. Len(<<b>>) = 1 /\ <<b>>[1] = b OBVIOUS
  <1> QED BY <1>1, <1>2, <1>3, <1>4, <1>5, <1>6, <1>7

LEMMA CommandTypes ==
  ASSUME NEW u \in User, NEW i \in Nat,
         NEW st \in Statuses, NEW f \in {"keep", "was", "target", "both", "clear"}
  PROVE  /\ Create(u, st) \in Commands /\ Update(u, i, st, f) \in Commands
         /\ Upsert(u) \in Commands /\ Delete(u, i) \in Commands
  BY DEF Commands, Statuses, Cmd, Create, Update, Upsert, Delete

\* A plan is one command, or two.
OneOrTwo(p) == \E a, b \in Commands : p = <<a>> \/ p = <<a, b>>

Befriended(l) == l.own.status = "accepted" /\ l.rev.status = "accepted"
BlockOwn(l) ==
  IF l.own.id # 0 THEN Update(l.by, l.own.id, "blocked", IF Befriended(l) THEN "was" ELSE "keep")
                  ELSE Create(l.by, "blocked")
BlockReverse(l) ==
  Update(Other(l.by), l.rev.id, "blocked", IF Befriended(l) THEN "both" ELSE "target")

LEMMA PlanShapes ==
  ASSUME NEW l
  PROVE  /\ RemovePlan(l) = IF l.rev.id # 0 THEN <<Delete(l.by, l.own.id), Delete(Other(l.by), l.rev.id)>>
                            ELSE <<Delete(l.by, l.own.id)>>
         /\ BlockPlan(l) = IF l.rev.id # 0 THEN <<BlockOwn(l), BlockReverse(l)>> ELSE <<BlockOwn(l)>>
         /\ ~(l.own.was /\ l.rev.was) =>
              UnblockPlan(l) = IF l.rev.target
                               THEN <<Delete(l.by, l.own.id), Delete(Other(l.by), l.rev.id)>>
                               ELSE <<Delete(l.by, l.own.id)>>
  <1>1. ASSUME NEW a, NEW b, NEW c
        PROVE  <<a>> \o (IF c THEN <<b>> ELSE <<>>) = IF c THEN <<a, b>> ELSE <<a>>
    <2>1. CASE c BY <2>1, PairFacts
    <2>2. CASE ~c BY <2>2, PairFacts
    <2> QED BY <2>1, <2>2
  <1>2. BlockPlan(l) = <<BlockOwn(l)>> \o (IF l.rev.id # 0 THEN <<BlockReverse(l)>> ELSE <<>>)
    BY DEF BlockPlan, BlockOwn, BlockReverse, Befriended
  <1>3. RemovePlan(l) = <<Delete(l.by, l.own.id)>>
                        \o (IF l.rev.id # 0 THEN <<Delete(Other(l.by), l.rev.id)>> ELSE <<>>)
    BY DEF RemovePlan
  <1>4. ~(l.own.was /\ l.rev.was) =>
          UnblockPlan(l) = <<Delete(l.by, l.own.id)>>
                           \o (IF l.rev.target THEN <<Delete(Other(l.by), l.rev.id)>> ELSE <<>>)
    BY DEF UnblockPlan
  <1> QED BY <1>1, <1>2, <1>3, <1>4

LEMMA PlanTypes ==
  ASSUME NEW l \in Locals, NEW d \in UserFriend
  PROVE  /\ OneOrTwo(AcceptPlan(l, d)) /\ OneOrTwo(RemovePlan(l)) /\ OneOrTwo(BlockPlan(l))
         /\ OneOrTwo(UnblockPlan(l)) /\ OneOrTwo(ImportPlan(l))
         /\ OneOrTwo(<<Create(l.by, "pending")>>)
         /\ OneOrTwo(<<Update(Other(l.by), d.id, "declined", "keep")>>)
  <1>0. /\ l.by \in User /\ Other(l.by) \in User
        /\ l.own.id \in Nat /\ l.rev.id \in Nat /\ d.id \in Nat
    BY UserFacts DEF Locals, UserFriend
  <1>1. {"pending", "accepted", "blocked", "declined"} \subseteq Statuses BY DEF Statuses
  <1>2. \A a, b \in Commands : OneOrTwo(<<a>>) /\ OneOrTwo(<<a, b>>) BY DEF OneOrTwo
  <1>3. OneOrTwo(AcceptPlan(l, d)) BY <1>0, <1>1, <1>2, CommandTypes DEF AcceptPlan
  <1>4. OneOrTwo(RemovePlan(l)) BY <1>0, <1>1, <1>2, CommandTypes, PlanShapes
  <1>5. OneOrTwo(BlockPlan(l))
    <2>1. BlockOwn(l) \in Commands /\ BlockReverse(l) \in Commands
      BY <1>0, <1>1, CommandTypes DEF BlockOwn, BlockReverse
    <2> QED BY <1>2, <2>1, PlanShapes
  <1>6. OneOrTwo(UnblockPlan(l))
    <2>1. CASE l.own.was /\ l.rev.was
      <3>1. Update(l.by, l.own.id, "accepted", "clear") \in Commands
            /\ Update(Other(l.by), l.rev.id, "accepted", "clear") \in Commands
        BY <1>0, <1>1, CommandTypes
      <3>2. UnblockPlan(l) = <<Update(l.by, l.own.id, "accepted", "clear"),
                               Update(Other(l.by), l.rev.id, "accepted", "clear")>>
        BY <2>1 DEF UnblockPlan
      <3> QED BY <1>2, <3>1, <3>2
    <2>2. CASE ~(l.own.was /\ l.rev.was)
      <3>1. Delete(l.by, l.own.id) \in Commands /\ Delete(Other(l.by), l.rev.id) \in Commands
        BY <1>0, <1>1, CommandTypes
      <3> QED BY <1>2, <2>2, <3>1, PlanShapes
    <2> QED BY <2>1, <2>2
  <1>7. OneOrTwo(ImportPlan(l)) BY <1>0, <1>1, <1>2, CommandTypes DEF ImportPlan
  <1> QED BY <1>0, <1>1, <1>2, <1>3, <1>4, <1>5, <1>6, <1>7, CommandTypes

LEMMA PlanIsSeq == \A p : OneOrTwo(p) => p \in Seq(Commands) /\ p # <<>>
  <1> SUFFICES ASSUME NEW p, NEW a \in Commands, NEW b \in Commands, p = <<a>> \/ p = <<a, b>>
               PROVE  p \in Seq(Commands) /\ p # <<>>
    BY DEF OneOrTwo
  <1>1. <<a>> \in Seq(Commands) /\ <<a>> # <<>> OBVIOUS
  <1>2. <<a, b>> \in Seq(Commands) /\ <<a, b>> # <<>> OBVIOUS
  <1> QED BY <1>1, <1>2

-----------------------------------------------------------------------------
(* Types and shape.                                                         *)

LEMMA LocalsTypes ==
  /\ \A u \in User : NoLocals(u) \in Locals /\ NoLocals(u).ran = FALSE
  /\ \A u \in User, op \in Ops, own, rev \in UserFriend :
       [NoLocals(u) EXCEPT !.op = op, !.own = own, !.rev = rev] \in Locals
  /\ \A l \in Locals, p \in Seq(Commands), d \in UserFriend :
       /\ [l EXCEPT !.plan = p] \in Locals /\ [l EXCEPT !.plan = p, !.ran = TRUE] \in Locals
       /\ [l EXCEPT !.own = d] \in Locals /\ [l EXCEPT !.rev = d] \in Locals
  /\ NoFriend \in UserFriend
  <1>1. NoFriend \in UserFriend BY DEF NoFriend, UserFriend, Statuses
  <1>2. <<>> \in Seq(Commands) OBVIOUS
  <1>3. \A u \in User : NoLocals(u) \in Locals /\ NoLocals(u).ran = FALSE
    BY <1>1, <1>2 DEF NoLocals, Locals, Ops
  <1>4. \A u \in User, op \in Ops, own, rev \in UserFriend :
          [NoLocals(u) EXCEPT !.op = op, !.own = own, !.rev = rev] \in Locals
    BY <1>1, <1>2 DEF NoLocals, Locals, Ops
  <1>5. \A l \in Locals, p \in Seq(Commands), d \in UserFriend :
       /\ [l EXCEPT !.plan = p] \in Locals /\ [l EXCEPT !.plan = p, !.ran = TRUE] \in Locals
       /\ [l EXCEPT !.own = d] \in Locals /\ [l EXCEPT !.rev = d] \in Locals
    BY DEF Locals
  <1> QED BY <1>1, <1>3, <1>4, <1>5

NewDoc(i, st) == [NoFriend EXCEPT !.id = i, !.status = st]
Rewritten(d, st, w, t) == [d EXCEPT !.status = st, !.was = w, !.target = t]

LEMMA DocFacts ==
  /\ NoFriend \in UserFriend /\ NoFriend.id = 0 /\ NoFriend.status = "none" /\ NoFriend.was = FALSE
  /\ \A i \in Nat, st \in Statuses :
       /\ NewDoc(i, st) \in UserFriend /\ NewDoc(i, st).id = i
       /\ NewDoc(i, st).status = st /\ NewDoc(i, st).was = FALSE
  /\ \A d \in UserFriend, st \in Statuses : \A w, t \in BOOLEAN :
       /\ Rewritten(d, st, w, t) \in UserFriend /\ Rewritten(d, st, w, t).id = d.id
       /\ Rewritten(d, st, w, t).status = st /\ Rewritten(d, st, w, t).was = w
  <1>1. NoFriend \in UserFriend BY LocalsTypes
  <1>2. NoFriend.id = 0 /\ NoFriend.status = "none" /\ NoFriend.was = FALSE BY DEF NoFriend
  <1> DEFINE N(d, i, st) == [d EXCEPT !.id = i, !.status = st]
  <1>3. \A d \in UserFriend, i \in Nat, st \in Statuses :
          N(d, i, st) \in UserFriend /\ N(d, i, st).id = i /\ N(d, i, st).status = st
          /\ N(d, i, st).was = d.was
    BY DEF UserFriend
  <1> HIDE DEF N
  <1>4. \A d \in UserFriend, st \in Statuses : \A w, t \in BOOLEAN :
          /\ Rewritten(d, st, w, t) \in UserFriend /\ Rewritten(d, st, w, t).id = d.id
          /\ Rewritten(d, st, w, t).status = st /\ Rewritten(d, st, w, t).was = w
    BY DEF Rewritten, UserFriend
  <1>5. \A i \in Nat, st \in Statuses :
          /\ NewDoc(i, st) \in UserFriend /\ NewDoc(i, st).id = i
          /\ NewDoc(i, st).status = st /\ NewDoc(i, st).was = NoFriend.was
    <2>1. \A i, st : NewDoc(i, st) = N(NoFriend, i, st) BY DEF NewDoc, N
    <2> QED BY <1>1, <1>3, <2>1
  <1> QED BY <1>1, <1>2, <1>4, <1>5

LEMMA DocTypes ==
  ASSUME TypeOK, NEW c \in Commands
  PROVE  /\ c.edge \in User /\ c.status \in Statuses /\ edge[c.edge] \in UserFriend
         /\ made + 1 \in Nat /\ made + 1 # 0
  BY DEF TypeOK, Commands

LEMMA ReadsType ==
  ASSUME TypeOK, Shape, NEW h \in Handler, NEW l \in Locals,
         NEW step \in {"idle", "own", "rev", "byid", "run"}, Reads(h, step, l),
         l.ran => step = "run",
         step \in {"own", "rev"} => l.op \notin {"accept", "decline"},
         step = "byid" => l.op \in {"accept", "decline", "send"}
  PROVE  TypeOK' /\ Shape'
  <1>1. \A g \in Handler : /\ pc'[g] = IF g = h THEN step ELSE pc[g]
                           /\ loc'[g] = IF g = h THEN l ELSE loc[g]
    BY DEF Reads, TypeOK
  <1>2. Shape' BY <1>1 DEF Shape
  <1>3. TypeOK' BY DEF Reads, TypeOK, collection, history, bounds
  <1> QED BY <1>2, <1>3

LEMMA RefuseType ==
  ASSUME TypeOK, Shape, NEW h \in Handler, Refuse(h)
  PROVE  TypeOK' /\ Shape'
  <1>1. NoLocals(AnyUser) \in Locals /\ ~NoLocals(AnyUser).ran BY LocalsTypes, UserFacts
  <1> QED BY <1>1, ReadsType DEF Refuse

LEMMA RunType ==
  ASSUME TypeOK, Shape, NEW h \in Handler, NEW l \in Locals, NEW p, OneOrTwo(p), Run(h, l, p)
  PROVE  TypeOK' /\ Shape'
  <1>1. [l EXCEPT !.plan = p] \in Locals BY PlanIsSeq, LocalsTypes
  <1> QED BY <1>1, ReadsType DEF Run

LEMMA ReceiveType ==
  ASSUME TypeOK, Shape, NEW h \in Handler, RequestStep(h)
  PROVE  TypeOK' /\ Shape'
  <1>1. PICK u \in User : \/ \E op \in Ops \ {"accept", "decline"} : ReceivePair(h, u, op)
                          \/ \E op \in {"accept", "decline"} : ReceiveById(h, u, op)
    BY DEF RequestStep, SendFriendRequest, AcceptFriendRequest, DeclineFriendRequest, RemoveFriend,
           BlockUser, UnblockUser, ImportContact, Ops
  <1>2. ASSUME NEW op \in Ops, NEW step \in {"own", "byid"}, NEW rev \in UserFriend,
               Receive(h, u, op, step, NoFriend, rev),
               step = "own" => op \notin {"accept", "decline"},
               step = "byid" => op \in {"accept", "decline"}
        PROVE  TypeOK' /\ Shape'
    <2> DEFINE l == [NoLocals(u) EXCEPT !.op = op, !.own = NoFriend, !.rev = rev]
    <2>1. l \in Locals BY LocalsTypes
    <2>2. l.op = op /\ l.ran = FALSE BY DEF NoLocals
    <2>3. loc' = [loc EXCEPT ![h] = l] /\ pc' = [pc EXCEPT ![h] = step] BY <1>2 DEF Receive
    <2> HIDE DEF l
    <2>4. \A g \in Handler : /\ pc'[g] = IF g = h THEN step ELSE pc[g]
                             /\ loc'[g] = IF g = h THEN l ELSE loc[g]
      BY <2>3 DEF TypeOK
    <2>5. Shape' BY <1>2, <2>2, <2>4 DEF Shape
    <2>6. requests' \in 0 .. MaxRequests BY <1>2, FriendshipAssumption DEF Receive, TypeOK
    <2>7. TypeOK' BY <1>2, <2>1, <2>3, <2>6 DEF Receive, TypeOK, collection
    <2> QED BY <2>5, <2>7
  <1>3. \A v \in User : edge[v] \in UserFriend BY DEF TypeOK
  <1>4. ASSUME NEW op \in Ops \ {"accept", "decline"}, ReceivePair(h, u, op)
        PROVE  TypeOK' /\ Shape'
    BY <1>2, <1>4, LocalsTypes DEF ReceivePair
  <1>5. ASSUME NEW op \in {"accept", "decline"}, ReceiveById(h, u, op)
        PROVE  TypeOK' /\ Shape'
    <2>1. op \in Ops /\ edge[Other(u)] \in UserFriend BY <1>3, UserFacts DEF Ops
    <2> QED BY <1>2, <1>5, <2>1 DEF ReceiveById
  <1> QED BY <1>1, <1>4, <1>5

LEMMA FindType ==
  ASSUME TypeOK, Shape, NEW h \in Handler, FindOwn(h) \/ FindReverse(h) \/ FindRequest(h)
  PROVE  TypeOK' /\ Shape'
  <1>0. /\ loc[h] \in Locals /\ loc[h].by \in User /\ loc[h].op \in Ops
        /\ edge[loc[h].by] \in UserFriend /\ edge[Other(loc[h].by)] \in UserFriend
    BY UserFacts DEF TypeOK, Locals
  <1>1. CASE FindOwn(h)
    <2> DEFINE l == [loc[h] EXCEPT !.own = edge[loc[h].by]]
    <2>1. l \in Locals /\ l.op = loc[h].op /\ l.ran = loc[h].ran BY <1>0, LocalsTypes DEF Locals
    <2>2. loc[h].op \notin {"accept", "decline"} /\ ~loc[h].ran
      BY <1>0, <1>1 DEF FindOwn, Shape, Locals
    <2>3. Refuse(h) \/ Reads(h, "rev", l) BY <1>1 DEF FindOwn
    <2> HIDE DEF l
    <2> QED BY <2>1, <2>2, <2>3, RefuseType, ReadsType
  <1>2. CASE FindReverse(h)
    <2> DEFINE l == [loc[h] EXCEPT !.rev = edge[Other(loc[h].by)]]
    <2>1. l \in Locals /\ l.op = loc[h].op /\ l.ran = loc[h].ran BY <1>0, LocalsTypes DEF Locals
    <2>2. loc[h].op \notin {"accept", "decline"} /\ ~loc[h].ran
      BY <1>0, <1>2 DEF FindReverse, Shape, Locals
    <2>3. \/ Refuse(h)
          \/ l.op = "send" /\ Reads(h, "byid", l)
          \/ \E p : OneOrTwo(p) /\ Run(h, l, p)
      <3>1. /\ OneOrTwo(RemovePlan(l)) /\ OneOrTwo(BlockPlan(l)) /\ OneOrTwo(UnblockPlan(l))
            /\ OneOrTwo(ImportPlan(l)) /\ OneOrTwo(<<Create(l.by, "pending")>>)
        BY <1>0, <2>1, PlanTypes
      <3>2. l.op \in {"send", "remove", "block", "unblock", "import"} BY <1>0, <2>1, <2>2 DEF Ops
      <3>3. CASE l.op = "send"
        <4>1. \/ Refuse(h) \/ Reads(h, "byid", l) \/ Run(h, l, <<Create(l.by, "pending")>>)
          BY <1>2, <3>3 DEF FindReverse
        <4> QED BY <3>1, <3>3, <4>1
      <3>4. CASE l.op = "remove"
        <4>1. Refuse(h) \/ Run(h, l, RemovePlan(l)) BY <1>2, <3>4 DEF FindReverse
        <4> QED BY <3>1, <4>1
      <3>5. CASE l.op = "block"
        <4>1. Run(h, l, BlockPlan(l)) BY <1>2, <3>5 DEF FindReverse
        <4> QED BY <3>1, <4>1
      <3>6. CASE l.op = "unblock"
        <4>1. Run(h, l, UnblockPlan(l)) BY <1>2, <3>6 DEF FindReverse
        <4> QED BY <3>1, <4>1
      <3>7. CASE l.op = "import"
        <4>1. Run(h, l, ImportPlan(l)) BY <1>2, <3>7 DEF FindReverse
        <4> QED BY <3>1, <4>1
      <3> QED BY <3>2, <3>3, <3>4, <3>5, <3>6, <3>7
    <2> HIDE DEF l
    <2> QED BY <2>1, <2>2, <2>3, RefuseType, ReadsType, RunType
  <1>3. CASE FindRequest(h)
    <2> DEFINE l == loc[h]
               d == edge[Other(l.by)]
    <2>1. \/ Refuse(h) \/ Run(h, l, AcceptPlan(l, d))
          \/ Run(h, l, <<Update(Other(l.by), d.id, "declined", "keep")>>)
      BY <1>3 DEF FindRequest
    <2>2. OneOrTwo(AcceptPlan(l, d)) /\ OneOrTwo(<<Update(Other(l.by), d.id, "declined", "keep")>>)
      BY <1>0, PlanTypes
    <2> QED BY <1>0, <2>1, <2>2, RefuseType, RunType
  <1> QED BY <1>1, <1>2, <1>3

\* The plan from the second command on.
LEMMA ContinueType ==
  ASSUME TypeOK, Shape, NEW h \in Handler, Due(h), Continue(h)
  PROVE  /\ pc' \in [Handler -> {"idle", "own", "rev", "byid", "run"}] /\ loc' \in [Handler -> Locals]
         /\ Shape' /\ Head(loc[h].plan) \in Commands
  <1> DEFINE l == loc[h]
             rest == Tail(l.plan)
  <1>1. l \in Locals /\ l.plan \in Seq(Commands) /\ l.plan # <<>> BY DEF TypeOK, Locals, Due
  <1>2. rest \in Seq(Commands) /\ Head(l.plan) \in Commands BY <1>1
  <1>3. NoLocals(AnyUser) \in Locals /\ ~NoLocals(AnyUser).ran BY LocalsTypes, UserFacts
  <1>4. [l EXCEPT !.plan = rest, !.ran = TRUE] \in Locals BY <1>1, <1>2, LocalsTypes
  <1>5. \A g \in Handler :
          /\ pc'[g] = IF g = h THEN (IF rest = <<>> THEN "idle" ELSE "run") ELSE pc[g]
          /\ loc'[g] = IF g = h THEN (IF rest = <<>> THEN NoLocals(AnyUser)
                                      ELSE [l EXCEPT !.plan = rest, !.ran = TRUE]) ELSE loc[g]
    BY DEF Continue, TypeOK
  <1> HIDE DEF l, rest
  <1>6. Shape'
    <2>1. pc'[h] \in {"idle", "run"} /\ (loc'[h].ran => pc'[h] = "run")
      BY <1>3, <1>5
    <2> QED BY <1>5, <2>1 DEF Shape
  <1>7. DOMAIN pc' = Handler /\ DOMAIN loc' = Handler /\ pc' = [g \in Handler |-> pc'[g]]
        /\ loc' = [g \in Handler |-> loc'[g]]
    BY DEF Continue, TypeOK
  <1>8. \A g \in Handler : pc'[g] \in {"idle", "own", "rev", "byid", "run"} /\ loc'[g] \in Locals
    BY <1>3, <1>4, <1>5 DEF TypeOK
  <1>9. pc' \in [Handler -> {"idle", "own", "rev", "byid", "run"}] /\ loc' \in [Handler -> Locals]
    BY <1>7, <1>8
  <1> QED BY <1>2, <1>6, <1>9 DEF l

LEMMA AbortType ==
  ASSUME TypeOK, Shape, NEW h \in Handler, Abort(h), requests' = requests, faults' \in 0 .. MaxFaults
  PROVE  TypeOK' /\ Shape'
  <1>1. NoLocals(AnyUser) \in Locals /\ ~NoLocals(AnyUser).ran BY LocalsTypes, UserFacts
  <1>2. \A g \in Handler : /\ pc'[g] = IF g = h THEN "idle" ELSE pc[g]
                           /\ loc'[g] = IF g = h THEN NoLocals(AnyUser) ELSE loc[g]
    BY DEF Abort, TypeOK
  <1>3. Shape' BY <1>1, <1>2 DEF Shape
  <1>4. torn' \in BOOLEAN /\ clashed' \in BOOLEAN BY DEF Abort, TypeOK
  <1>5. TypeOK' BY <1>1, <1>4 DEF Abort, TypeOK, collection
  <1> QED BY <1>3, <1>5

LEMMA WishesType ==
  ASSUME TypeOK, NEW h \in Handler, NEW c \in Commands, Wishes(h, c)
  PROVE  consent' \in [User -> BOOLEAN] /\ blocks' \in [User -> BOOLEAN]
  BY DEF Wishes, TypeOK

LEMMA WriteType ==
  ASSUME TypeOK, NEW h \in Handler, NEW c \in Commands, NEW d \in UserFriend, Write(h, c, d)
  PROVE  /\ edge' \in [User -> UserFriend] /\ overtaken' \in [Handler -> BOOLEAN]
         /\ torn' \in BOOLEAN /\ clashed' \in BOOLEAN
  BY DEF Write, TypeOK

LEMMA RunStepType ==
  ASSUME TypeOK, Shape, NEW h \in Handler,
         CreateDoc(h) \/ UpdateDoc(h) \/ UpsertDoc(h) \/ DeleteDoc(h) \/ Fail(h)
  PROVE  TypeOK' /\ Shape'
  <1> DEFINE c == Head(loc[h].plan)
             d == edge[c.edge]
  <1>1. CASE Fail(h)
    <2>1. faults' \in 0 .. MaxFaults BY <1>1, FriendshipAssumption DEF Fail, TypeOK
    <2> QED BY <1>1, <2>1, AbortType DEF Fail
  <1>2. ASSUME Due(h)
        PROVE  /\ c \in Commands /\ d \in UserFriend /\ loc[h] \in Locals /\ NoFriend \in UserFriend
               /\ [NoFriend EXCEPT !.id = made + 1, !.status = c.status] \in UserFriend
               /\ made + 1 \in Nat
    <2>1. loc[h] \in Locals /\ loc[h].plan \in Seq(Commands) /\ loc[h].plan # <<>>
      BY <1>2 DEF TypeOK, Locals, Due
    <2>2. c \in Commands BY <2>1
    <2>3. NewDoc(made + 1, c.status) \in UserFriend BY <2>2, DocTypes, DocFacts
    <2> QED BY <2>1, <2>2, <2>3, DocTypes, DocFacts DEF NewDoc
  <1>3. ASSUME Due(h), NEW new \in UserFriend, Write(h, c, new), Wishes(h, c), Continue(h),
               made' \in Nat, UNCHANGED bounds
        PROVE  TypeOK' /\ Shape'
    <2>1. c \in Commands BY <1>2, <1>3
    <2> HIDE DEF c
    <2>2. consent' \in [User -> BOOLEAN] /\ blocks' \in [User -> BOOLEAN] BY <1>3, <2>1, WishesType
    <2>3. /\ edge' \in [User -> UserFriend] /\ overtaken' \in [Handler -> BOOLEAN]
          /\ torn' \in BOOLEAN /\ clashed' \in BOOLEAN
      BY <1>3, <2>1, WriteType
    <2>4. /\ pc' \in [Handler -> {"idle", "own", "rev", "byid", "run"}] /\ loc' \in [Handler -> Locals]
          /\ Shape'
      BY <1>3, ContinueType
    <2> QED BY <1>3, <2>2, <2>3, <2>4 DEF TypeOK, bounds
  <1>4. CASE CreateDoc(h)
    <2>1. Due(h) /\ Wishes(h, c) /\ Continue(h) /\ UNCHANGED bounds BY <1>4 DEF CreateDoc
    <2>2. \/ made' = made + 1 /\ Write(h, c, [NoFriend EXCEPT !.id = made + 1, !.status = c.status])
          \/ made' = made /\ Write(h, c, d)
      BY <1>4 DEF CreateDoc
    <2> HIDE DEF c, d
    <2>3. made \in Nat BY DEF TypeOK
    <2> QED BY <1>2, <1>3, <2>1, <2>2, <2>3
  <1>5. CASE UpdateDoc(h)
    <2>1. CASE d.id # c.id
      BY <1>5, <2>1, AbortType DEF UpdateDoc, TypeOK, bounds
    <2>2. CASE d.id = c.id
      <3>1. PICK w, t \in BOOLEAN :
              Write(h, c, [d EXCEPT !.status = c.status, !.was = w, !.target = t])
        <4>1. Due(h) /\ d.was \in BOOLEAN /\ d.target \in BOOLEAN
          BY <1>2, <1>5 DEF UpdateDoc, UserFriend
        <4> DEFINE w == IF c.flags \in {"was", "both"} THEN TRUE
                        ELSE IF c.flags = "clear" THEN FALSE ELSE d.was
                   t == IF c.flags \in {"target", "both"} THEN TRUE
                        ELSE IF c.flags = "clear" THEN FALSE ELSE d.target
        <4>2. Write(h, c, [d EXCEPT !.status = c.status, !.was = w, !.target = t])
          BY <1>5, <2>2 DEF UpdateDoc
        <4>3. w \in BOOLEAN /\ t \in BOOLEAN BY <4>1
        <4> QED BY <4>2, <4>3
      <3>2. Due(h) /\ Wishes(h, c) /\ Continue(h) /\ UNCHANGED <<made, bounds>>
        BY <1>5, <2>2 DEF UpdateDoc
      <3>3. [d EXCEPT !.status = c.status, !.was = w, !.target = t] \in UserFriend
        <4>1. Rewritten(d, c.status, w, t) \in UserFriend BY <1>2, <3>2, DocTypes, DocFacts
        <4> QED BY <4>1 DEF Rewritten
      <3>4. made' \in Nat BY <3>2 DEF TypeOK
      <3> QED BY <1>3, <3>1, <3>2, <3>3, <3>4
    <2> QED BY <2>1, <2>2
  <1>6. CASE DeleteDoc(h)
    <2>1. Due(h) /\ Wishes(h, c) /\ Continue(h) /\ UNCHANGED <<made, bounds>> BY <1>6 DEF DeleteDoc
    <2>2. Write(h, c, NoFriend) \/ Write(h, c, d) BY <1>6 DEF DeleteDoc
    <2>3. made' \in Nat BY <2>1 DEF TypeOK
    <2> HIDE DEF c, d
    <2> QED BY <1>2, <1>3, <2>1, <2>2, <2>3
  <1>7. CASE UpsertDoc(h)
    <2> DEFINE p == <<IF d.id # 0 THEN Update(c.edge, d.id, c.status, "keep") ELSE Create(c.edge, c.status)>>
               l == [loc[h] EXCEPT !.plan = p]
    <2>1. Due(h) /\ Reads(h, "run", l) BY <1>7 DEF UpsertDoc
    <2>2. c.edge \in User /\ c.status \in Statuses /\ d.id \in Nat
      BY <1>2, <2>1 DEF Commands, UserFriend
    <2>3. Update(c.edge, d.id, c.status, "keep") \in Commands /\ Create(c.edge, c.status) \in Commands
      BY <2>2, CommandTypes
    <2>4. p \in Seq(Commands) BY <2>3
    <2>5. l \in Locals BY <1>2, <2>1, <2>4, LocalsTypes
    <2> HIDE DEF l
    <2> QED BY <2>1, <2>5, ReadsType
  <1> QED BY <1>1, <1>4, <1>5, <1>6, <1>7

LEMMA TypeStep ==
  ASSUME TypeOK, Shape, [Next]_vars
  PROVE  TypeOK' /\ Shape'
  <1>1. CASE UNCHANGED vars
    BY <1>1 DEF vars, collection, handlers, history, bounds, TypeOK, Shape
  <1> QED BY <1>1, ReceiveType, FindType, RunStepType DEF Next

-----------------------------------------------------------------------------
(* Readings.                                                                *)

LEMMA OrderlyKept ==
  ASSUME Orderly, NEW h \in Handler, UNCHANGED <<edge, consent, blocks, AtOdds>>,
         \A g \in Handler \ {h} :
           pc'[g] = pc[g] /\ loc'[g] = loc[g] /\ overtaken'[g] = overtaken[g],
         ~loc[h].ran, ~loc'[h].ran,
         ~AtOdds /\ ~overtaken'[h] => Current(h)'
  PROVE  Orderly'
  <1> SUFFICES ASSUME ~AtOdds PROVE Orderly' BY DEF Orderly
  <1>1. Sound' BY DEF Orderly, Sound
  <1>2. ASSUME NEW g \in Handler, loc'[g].ran PROVE Midway(g)'
    <2>1. g # h /\ Midway(g) BY <1>2 DEF Orderly
    <2> QED BY <2>1 DEF Midway
  <1>3. \A f, g \in Handler : loc'[f].ran /\ loc'[g].ran => f = g BY DEF Orderly
  <1>4. (\A g \in Handler : ~loc'[g].ran) => Settled'
    <2>1. (\A g \in Handler : ~loc'[g].ran) => \A g \in Handler : ~loc[g].ran OBVIOUS
    <2> QED BY <2>1 DEF Orderly, Settled
  <1>5. ASSUME NEW g \in Handler, ~loc'[g].ran, ~overtaken'[g] PROVE Current(g)'
    <2>1. CASE g = h BY <1>5, <2>1
    <2>2. CASE g # h
      <3>1. Current(g) BY <1>5, <2>2 DEF Orderly
      <3> QED BY <2>2, <3>1 DEF Current, Planned
    <2> QED BY <2>1, <2>2
  <1> QED BY <1>1, <1>2, <1>3, <1>4, <1>5 DEF Orderly

LEMMA ReceiveOrderly ==
  ASSUME IInv, NEW h \in Handler, RequestStep(h)
  PROVE  Orderly'
  <1>1. \E u \in User, op \in Ops, step \in {"own", "byid"}, rev \in UserFriend :
          Receive(h, u, op, step, NoFriend, rev)
    BY UserFacts, LocalsTypes
       DEF IInv, TypeOK, RequestStep, SendFriendRequest, AcceptFriendRequest, DeclineFriendRequest,
           RemoveFriend, BlockUser, UnblockUser, ImportContact, ReceivePair, ReceiveById, Ops
  <1>2. PICK u \in User, op \in Ops, step \in {"own", "byid"}, rev \in UserFriend :
          Receive(h, u, op, step, NoFriend, rev)
    BY <1>1
  <1> DEFINE l == [NoLocals(u) EXCEPT !.op = op, !.own = NoFriend, !.rev = rev]
  <1>3. l.ran = FALSE BY DEF NoLocals
  <1>4. /\ pc' = [pc EXCEPT ![h] = step] /\ loc' = [loc EXCEPT ![h] = l]
        /\ overtaken' = [overtaken EXCEPT ![h] = FALSE] /\ UNCHANGED <<edge, consent, blocks, AtOdds>>
        /\ pc[h] = "idle"
    BY <1>2 DEF Receive, collection, AtOdds
  <1> HIDE DEF l
  <1>5. /\ pc'[h] = step /\ loc'[h] = l
        /\ \A g \in Handler \ {h} :
             pc'[g] = pc[g] /\ loc'[g] = loc[g] /\ overtaken'[g] = overtaken[g]
    BY <1>4 DEF IInv, TypeOK
  <1>6. ~loc[h].ran BY <1>4 DEF IInv, Shape
  <1>7. Current(h)' BY <1>5 DEF Current
  <1> QED BY <1>3, <1>4, <1>5, <1>6, <1>7, OrderlyKept DEF IInv

LEMMA ReadsOrderly ==
  ASSUME IInv, NEW h \in Handler, ~loc[h].ran, NEW l \in Locals, ~l.ran, NEW step, Reads(h, step, l),
         ~AtOdds /\ ~overtaken[h] /\ step = "rev" => l.own = edge[l.by] /\ ~Refuses(l.op, l.own),
         ~AtOdds /\ ~overtaken[h] /\ step = "run" => Planned(l)
  PROVE  Orderly'
  <1>1. /\ UNCHANGED <<edge, consent, blocks, AtOdds, overtaken>>
        /\ pc' = [pc EXCEPT ![h] = step] /\ loc' = [loc EXCEPT ![h] = l]
    BY DEF Reads, collection, history, AtOdds
  <1>2. /\ pc'[h] = step /\ loc'[h] = l
        /\ \A g \in Handler \ {h} :
             pc'[g] = pc[g] /\ loc'[g] = loc[g] /\ overtaken'[g] = overtaken[g]
    BY <1>1 DEF IInv, TypeOK
  <1>3. Planned(l) => Planned(l)' BY <1>1 DEF Planned
  <1>4. ~AtOdds /\ ~overtaken'[h] => Current(h)' BY <1>1, <1>2, <1>3 DEF Current
  <1> QED BY <1>1, <1>2, <1>4, OrderlyKept DEF IInv

LEMMA RefuseOrderly ==
  ASSUME IInv, NEW h \in Handler, ~loc[h].ran, Refuse(h)
  PROVE  Orderly'
  <1>1. NoLocals(AnyUser) \in Locals /\ ~NoLocals(AnyUser).ran BY LocalsTypes, UserFacts
  <1> QED BY <1>1, ReadsOrderly DEF Refuse

\* What a plan is computed from, it leaves alone.
LEMMA PlanSame ==
  ASSUME NEW l \in Locals, NEW p \in Seq(Commands)
  PROVE  LET k == [l EXCEPT !.plan = p]
         IN /\ k \in Locals /\ k.plan = p /\ k.ran = l.ran
            /\ k.op = l.op /\ k.by = l.by /\ k.own = l.own /\ k.rev = l.rev
            /\ \A d : AcceptPlan(k, d) = AcceptPlan(l, d)
            /\ RemovePlan(k) = RemovePlan(l) /\ BlockPlan(k) = BlockPlan(l)
            /\ UnblockPlan(k) = UnblockPlan(l) /\ ImportPlan(k) = ImportPlan(l)
  <1> DEFINE k == [l EXCEPT !.plan = p]
  <1>1. /\ k \in Locals /\ k.plan = p /\ k.ran = l.ran
        /\ k.op = l.op /\ k.by = l.by /\ k.own = l.own /\ k.rev = l.rev
    BY DEF Locals
  <1> HIDE DEF k
  <1>2. \A d : AcceptPlan(k, d) = AcceptPlan(l, d) BY <1>1 DEF AcceptPlan
  <1>3. RemovePlan(k) = RemovePlan(l) BY <1>1 DEF RemovePlan
  <1>4. BlockPlan(k) = BlockPlan(l) BY <1>1 DEF BlockPlan
  <1>5. UnblockPlan(k) = UnblockPlan(l) BY <1>1 DEF UnblockPlan
  <1>6. ImportPlan(k) = ImportPlan(l) BY <1>1 DEF ImportPlan
  <1> QED BY <1>1, <1>2, <1>3, <1>4, <1>5, <1>6 DEF k

LEMMA RunOrderly ==
  ASSUME IInv, NEW h \in Handler, ~loc[h].ran, NEW l \in Locals, ~l.ran, NEW p, OneOrTwo(p),
         Run(h, l, p), ~AtOdds /\ ~overtaken[h] => Planned([l EXCEPT !.plan = p])
  PROVE  Orderly'
  <1> DEFINE k == [l EXCEPT !.plan = p]
  <1>1. k \in Locals /\ ~k.ran BY PlanIsSeq, PlanSame
  <1>2. Reads(h, "run", k) BY DEF Run
  <1> HIDE DEF k
  <1>3. ~AtOdds /\ ~overtaken[h] => Planned(k) BY DEF k
  <1> QED BY <1>1, <1>2, <1>3, ReadsOrderly

LEMMA FindOwnOrderly ==
  ASSUME IInv, NEW h \in Handler, FindOwn(h)
  PROVE  Orderly'
  <1> DEFINE l == [loc[h] EXCEPT !.own = edge[loc[h].by]]
  <1>0. loc[h] \in Locals /\ edge[loc[h].by] \in UserFriend /\ ~loc[h].ran
    BY DEF IInv, TypeOK, Shape, Locals, FindOwn
  <1>1. l \in Locals /\ l.op = loc[h].op /\ l.by = loc[h].by /\ l.own = edge[loc[h].by] /\ ~l.ran
    BY <1>0, LocalsTypes DEF Locals
  <1>2. Refuse(h) \/ (Reads(h, "rev", l) /\ ~Refuses(l.op, l.own))
    BY <1>1 DEF FindOwn
  <1> HIDE DEF l
  <1> QED BY <1>0, <1>1, <1>2, RefuseOrderly, ReadsOrderly

LEMMA FindRequestOrderly ==
  ASSUME IInv, NEW h \in Handler, FindRequest(h)
  PROVE  Orderly'
  <1> DEFINE l == loc[h]
             d == edge[Other(l.by)]
             declined == <<Update(Other(l.by), d.id, "declined", "keep")>>
  <1>0. l \in Locals /\ ~l.ran /\ d \in UserFriend /\ l.op \in {"accept", "decline", "send"}
    BY UserFacts DEF IInv, TypeOK, Shape, Locals, FindRequest
  <1>1. \/ Refuse(h)
        \/ d.status = "pending" /\ l.op = "decline" /\ Run(h, l, declined)
        \/ d.status = "pending" /\ l.op # "decline" /\ Run(h, l, AcceptPlan(l, d))
    BY DEF FindRequest
  <1>2. OneOrTwo(AcceptPlan(l, d)) /\ OneOrTwo(declined) BY <1>0, PlanTypes
  <1>3. ASSUME NEW p,
               (p = declined /\ l.op = "decline") \/ (p = AcceptPlan(l, d) /\ l.op # "decline"),
               d.status = "pending"
        PROVE  Planned([l EXCEPT !.plan = p])
    <2>1. p \in Seq(Commands) BY <1>2, <1>3, PlanIsSeq
    <2> DEFINE k == [l EXCEPT !.plan = p]
    <2>2. k.plan = p /\ k.op = l.op /\ k.by = l.by /\ AcceptPlan(k, d) = AcceptPlan(l, d)
      BY <1>0, <2>1, PlanSame
    <2> HIDE DEF k
    <2>3. Planned(k) BY <1>0, <1>3, <2>2 DEF Planned
    <2> QED BY <2>3 DEF k
  <1>4. ASSUME NEW p,
               (p = declined /\ l.op = "decline") \/ (p = AcceptPlan(l, d) /\ l.op # "decline"),
               d.status = "pending", Run(h, l, p)
        PROVE  Orderly'
    <2>1. OneOrTwo(p) BY <1>2, <1>4
    <2>2. Planned([l EXCEPT !.plan = p]) BY <1>3, <1>4
    <2> HIDE DEF d
    <2> QED BY <1>0, <1>4, <2>1, <2>2, RunOrderly
  <1>5. CASE Refuse(h) BY <1>0, <1>5, RefuseOrderly
  <1> HIDE DEF declined, d
  <1>6. CASE d.status = "pending" /\ l.op = "decline" /\ Run(h, l, declined) BY <1>4, <1>6
  <1>7. CASE d.status = "pending" /\ l.op # "decline" /\ Run(h, l, AcceptPlan(l, d)) BY <1>4, <1>7
  <1> QED BY <1>1, <1>5, <1>6, <1>7

LEMMA FindReverseOrderly ==
  ASSUME IInv, NEW h \in Handler, FindReverse(h)
  PROVE  Orderly'
  <1> DEFINE l == [loc[h] EXCEPT !.rev = edge[Other(loc[h].by)]]
             own == edge[l.by]
             rev == edge[Other(l.by)]
  <1>0. /\ loc[h] \in Locals /\ edge[Other(loc[h].by)] \in UserFriend /\ ~loc[h].ran
        /\ edge[loc[h].by] \in UserFriend
    BY UserFacts DEF IInv, TypeOK, Shape, Locals, FindReverse
  <1>1. /\ l \in Locals /\ l.op = loc[h].op /\ l.by = loc[h].by /\ l.own = loc[h].own /\ ~l.ran
        /\ l.rev = rev
    BY <1>0, LocalsTypes DEF Locals
  <1>2. ~AtOdds /\ ~overtaken[h] => l.own = own /\ ~Refuses(l.op, l.own)
    BY <1>0, <1>1 DEF IInv, Orderly, Current, FindReverse
  <1>3. /\ OneOrTwo(RemovePlan(l)) /\ OneOrTwo(BlockPlan(l)) /\ OneOrTwo(UnblockPlan(l))
        /\ OneOrTwo(ImportPlan(l)) /\ OneOrTwo(<<Create(l.by, "pending")>>)
    BY <1>0, <1>1, PlanTypes
  <1>4. l.op \in {"send", "remove", "block", "unblock", "import"}
    BY <1>0, <1>1 DEF IInv, Shape, Ops, Locals, FindReverse
  <1>5. \/ Refuse(h)
        \/ l.op = "send" /\ Reads(h, "byid", l)
        \/ /\ l.op = "send" /\ rev.status \notin {"blocked", "pending"}
           /\ Run(h, l, <<Create(l.by, "pending")>>)
        \/ l.op = "remove" /\ l.own.status = "accepted" /\ Run(h, l, RemovePlan(l))
        \/ l.op = "block" /\ Run(h, l, BlockPlan(l))
        \/ l.op = "unblock" /\ Run(h, l, UnblockPlan(l))
        \/ l.op = "import" /\ Run(h, l, ImportPlan(l))
    <2>1. CASE l.op = "send" BY <1>1, <2>1 DEF FindReverse
    <2>2. CASE l.op = "remove" BY <2>2 DEF FindReverse
    <2>3. CASE l.op = "block" BY <2>3 DEF FindReverse
    <2>4. CASE l.op = "unblock" BY <2>4 DEF FindReverse
    <2>5. CASE l.op = "import" BY <2>5 DEF FindReverse
    <2> QED BY <1>4, <2>1, <2>2, <2>3, <2>4, <2>5
  <1> HIDE DEF l
  <1>6. ASSUME NEW p, OneOrTwo(p), Run(h, l, p),
               ASSUME ~AtOdds, ~overtaken[h]
               PROVE  \/ /\ l.op = "send" /\ own.status \in {"none", "declined"}
                         /\ rev.status \notin {"blocked", "pending"} /\ p = <<Create(l.by, "pending")>>
                      \/ l.op = "remove" /\ own.status = "accepted" /\ p = RemovePlan(l)
                      \/ l.op = "block" /\ p = BlockPlan(l)
                      \/ l.op = "unblock" /\ own.status = "blocked" /\ p = UnblockPlan(l)
                      \/ l.op = "import" /\ own.status # "accepted" /\ p = ImportPlan(l)
        PROVE  Orderly'
    <2> DEFINE k == [l EXCEPT !.plan = p]
    <2>1. /\ k.plan = p /\ k.op = l.op /\ k.by = l.by /\ k.own = l.own /\ k.rev = l.rev
          /\ RemovePlan(k) = RemovePlan(l) /\ BlockPlan(k) = BlockPlan(l)
          /\ UnblockPlan(k) = UnblockPlan(l) /\ ImportPlan(k) = ImportPlan(l)
      BY <1>1, <1>6, PlanIsSeq, PlanSame
    <2> HIDE DEF k
    <2>2. ~AtOdds /\ ~overtaken[h] => Planned(k) BY <1>1, <1>2, <1>6, <2>1 DEF Planned
    <2>3. ~AtOdds /\ ~overtaken[h] => Planned([l EXCEPT !.plan = p]) BY <2>2 DEF k
    <2> QED BY <1>0, <1>1, <1>6, <2>3, RunOrderly
  <1>7. own \in UserFriend BY <1>0, <1>1
  <1>8. own.status \in Statuses BY <1>7 DEF UserFriend
  <1>9. CASE Refuse(h) BY <1>0, <1>9, RefuseOrderly
  <1>10. CASE l.op = "send" /\ Reads(h, "byid", l) BY <1>0, <1>1, <1>10, ReadsOrderly
  <1>11. CASE /\ l.op = "send" /\ rev.status \notin {"blocked", "pending"}
              /\ Run(h, l, <<Create(l.by, "pending")>>)
    <2>1. ~AtOdds /\ ~overtaken[h] => own.status \in {"none", "declined"}
      BY <1>2, <1>8, <1>11 DEF Refuses, Statuses
    <2> QED BY <1>3, <1>6, <1>11, <2>1
  <1>12. CASE l.op = "remove" /\ l.own.status = "accepted" /\ Run(h, l, RemovePlan(l))
    BY <1>2, <1>3, <1>6, <1>12
  <1>13. CASE l.op = "block" /\ Run(h, l, BlockPlan(l)) BY <1>3, <1>6, <1>13
  <1>14. CASE l.op = "unblock" /\ Run(h, l, UnblockPlan(l))
    <2>1. ~AtOdds /\ ~overtaken[h] => own.status = "blocked" BY <1>2, <1>14 DEF Refuses
    <2> QED BY <1>3, <1>6, <1>14, <2>1
  <1>15. CASE l.op = "import" /\ Run(h, l, ImportPlan(l))
    <2>1. ~AtOdds /\ ~overtaken[h] => own.status # "accepted" BY <1>2, <1>15 DEF Refuses
    <2> QED BY <1>3, <1>6, <1>15, <2>1
  <1> QED BY <1>5, <1>9, <1>10, <1>11, <1>12, <1>13, <1>14, <1>15

-----------------------------------------------------------------------------
(* Writes.                                                                  *)

LEMMA FailOrderly ==
  ASSUME IInv, NEW h \in Handler, Abort(h)
  PROVE  Orderly'
  <1>1. \A g \in Handler \ {h} : pc'[g] = pc[g] /\ loc'[g] = loc[g] /\ overtaken'[g] = overtaken[g]
    BY DEF Abort, IInv, TypeOK
  <1>2. pc'[h] = "idle" /\ ~loc'[h].ran
    <2>1. ~NoLocals(AnyUser).ran BY LocalsTypes, UserFacts
    <2> QED BY <2>1 DEF Abort, IInv, TypeOK
  <1>3. UNCHANGED <<edge, consent, blocks>> /\ (AtOdds' <=> AtOdds \/ loc[h].ran)
    BY DEF Abort, collection, AtOdds
  <1>4. CASE loc[h].ran BY <1>3, <1>4 DEF Orderly
  <1>5. CASE ~loc[h].ran
    <2>1. Current(h)' BY <1>2 DEF Current
    <2>2. AtOdds' = AtOdds BY <1>3, <1>5 DEF AtOdds
    <2> QED BY <1>1, <1>2, <1>3, <1>5, <2>1, <2>2, OrderlyKept DEF IInv
  <1> QED BY <1>4, <1>5

\* What a plan begins with is no upsert, and it has one command or two.
LEMMA PlannedFacts ==
  ASSUME NEW l \in Locals, Planned(l), edge \in [User -> UserFriend]
  PROVE  OneOrTwo(l.plan) /\ Head(l.plan).do # "upsert"
  <1>0. /\ l.by \in User /\ Other(l.by) \in User
        /\ edge[l.by] \in UserFriend /\ edge[Other(l.by)] \in UserFriend
    BY UserFacts DEF Locals
  <1>1. OneOrTwo(l.plan) BY <1>0, PlanTypes DEF Planned
  <1>2. \A u, i, st, f : /\ Create(u, st).do = "create" /\ Update(u, i, st, f).do = "update"
                         /\ Delete(u, i).do = "delete"
    BY DEF Create, Update, Delete, Cmd
  <1>3. BlockOwn(l).do # "upsert" BY <1>2 DEF BlockOwn
  <1>4. \A a, b : Head(<<a, b>>) = a /\ Head(<<a>>) = a BY PairFacts
  <1>5. Head(AcceptPlan(l, edge[Other(l.by)])).do # "upsert" BY <1>2, <1>4 DEF AcceptPlan
  <1>6. Head(RemovePlan(l)).do # "upsert" BY <1>2, <1>4, PlanShapes
  <1>7. Head(BlockPlan(l)).do # "upsert" BY <1>3, <1>4, PlanShapes
  <1>8. Head(UnblockPlan(l)).do # "upsert"
    <2>1. CASE l.own.was /\ l.rev.was BY <1>2, <1>4, <2>1 DEF UnblockPlan
    <2>2. CASE ~(l.own.was /\ l.rev.was) BY <1>2, <1>4, <2>2, PlanShapes
    <2> QED BY <2>1, <2>2
  <1>9. Head(ImportPlan(l)).do # "upsert" BY <1>2, <1>4 DEF ImportPlan
  <1>10. Head(l.plan).do # "upsert" BY <1>2, <1>4, <1>5, <1>6, <1>7, <1>8, <1>9 DEF Planned
  <1> QED BY <1>1, <1>10

LEMMA UpsertOrderly ==
  ASSUME IInv, NEW h \in Handler, UpsertDoc(h)
  PROVE  Orderly'
  <1> DEFINE l == loc[h]
             c == Head(l.plan)
             d == edge[c.edge]
             e == IF d.id # 0 THEN Update(c.edge, d.id, c.status, "keep") ELSE Create(c.edge, c.status)
             k == [l EXCEPT !.plan = <<e>>]
  <1>0. /\ l \in Locals /\ l.plan \in Seq(Commands) /\ l.plan # <<>> /\ pc[h] = "run" /\ c.do = "upsert"
        /\ Reads(h, "run", k)
    BY DEF IInv, TypeOK, Locals, UpsertDoc, Due
  <1>1. c \in Commands /\ l.by \in User BY <1>0 DEF Locals
  <1>2. e \in Commands
    <2>1. c.edge \in User /\ c.status \in Statuses /\ d.id \in Nat
      BY <1>1 DEF IInv, TypeOK, Commands, UserFriend
    <2> QED BY <2>1, CommandTypes
  <1>3. <<e>> \in Seq(Commands) BY <1>2
  <1> HIDE DEF e
  <1>4. /\ k.plan = <<e>> /\ k.ran = l.ran /\ k.op = l.op /\ k.by = l.by
        /\ k \in Locals
    BY <1>0, <1>3, PlanSame
  <1> HIDE DEF c
  <1>5. CASE ~l.ran
    <2>1. AtOdds \/ overtaken[h]
      <3>1. Planned(l) => c.do # "upsert" BY <1>0, PlannedFacts DEF IInv, TypeOK, c
      <3> QED BY <1>0, <1>5, <3>1 DEF IInv, Orderly, Current
    <2> HIDE DEF k
    <2> QED BY <1>0, <1>4, <1>5, <2>1, ReadsOrderly
  <1>6. CASE l.ran /\ ~AtOdds
    <2>1. Midway(h) BY <1>6 DEF IInv, Orderly
    <2>2. c = l.plan[1] BY <1>0 DEF c
    <2>3. Half(edge, consent, l, c) BY <2>1, <2>2 DEF Midway
    <2>4. UNCHANGED <<edge, consent, blocks, AtOdds, overtaken>>
      BY <1>0 DEF Reads, collection, history, AtOdds
    <2>5. /\ pc'[h] = "run" /\ loc'[h] = k
          /\ \A g \in Handler \ {h} : pc'[g] = pc[g] /\ loc'[g] = loc[g]
      BY <1>0 DEF Reads, IInv, TypeOK
    <2> HIDE DEF k
    <2>6. Half(edge, consent, k, e)
      <3>1. /\ l.op \in {"send", "accept"} /\ c.edge = l.by /\ c.status = "accepted"
            /\ edge[Other(l.by)].status = "accepted" /\ edge[l.by].status # "blocked"
            /\ ~edge[l.by].was /\ ~edge[Other(l.by)].was /\ Agreed(consent)
        BY <1>0, <2>3 DEF Half
      <3>2. /\ e.edge = c.edge /\ e.status = c.status /\ e.flags = "keep"
            /\ \/ e.do = "update" /\ e.id = edge[c.edge].id /\ e.id # 0
               \/ e.do = "create" /\ edge[c.edge].id = 0
        BY DEF e, Update, Create, Cmd
      <3> QED BY <1>4, <3>1, <3>2 DEF Half
    <2>7. Midway(h)'
      <3>1. Len(<<e>>) = 1 /\ <<e>>[1] = e BY PairFacts
      <3>2. Half(edge', consent', k, e) BY <2>4, <2>6
      <3>3. ~overtaken'[h] BY <2>1, <2>4 DEF Midway
      <3> QED BY <1>4, <2>5, <3>1, <3>2, <3>3 DEF Midway
    <2>8. Sound' BY <1>6, <2>4 DEF IInv, Orderly, Sound
    <2>9. \A g \in Handler : loc'[g].ran <=> loc[g].ran BY <1>4, <2>5
    <2>10. ASSUME NEW g \in Handler, loc'[g].ran PROVE Midway(g)'
      <3>1. g = h BY <1>6, <2>9, <2>10 DEF IInv, Orderly
      <3> QED BY <2>7, <3>1
    <2>11. ASSUME NEW g \in Handler, ~loc'[g].ran, ~overtaken'[g] PROVE Current(g)'
      <3>1. g # h BY <1>6, <2>9, <2>11
      <3>2. Current(g) BY <1>6, <2>4, <2>9, <2>11 DEF IInv, Orderly
      <3> QED BY <2>4, <2>5, <3>1, <3>2 DEF Current, Planned
    <2> QED BY <1>6, <2>8, <2>9, <2>10, <2>11 DEF IInv, Orderly
  <1>7. CASE AtOdds
    BY <1>0, <1>7 DEF Orderly, Reads, history, AtOdds
  <1> QED BY <1>5, <1>6, <1>7

\* After a write, every other request being served has been overtaken.
LEMMA WriteOrderly ==
  ASSUME IInv, NEW h \in Handler, Due(h), NEW c \in Commands, NEW doc, Write(h, c, doc), Continue(h),
         ~AtOdds' => /\ Sound'
                     /\ Tail(loc[h].plan) = <<>> => Settled'
                     /\ Tail(loc[h].plan) # <<>> =>
                          /\ Len(Tail(loc[h].plan)) = 1
                          /\ Half(edge', consent', loc'[h], Tail(loc[h].plan)[1])
  PROVE  Orderly'
  <1> SUFFICES ASSUME ~AtOdds' PROVE Orderly' BY DEF Orderly
  <1> DEFINE rest == Tail(loc[h].plan)
             k == [loc[h] EXCEPT !.plan = rest, !.ran = TRUE]
  <1>1. ~AtOdds /\ ~overtaken[h] /\ \A g \in Handler \ {h} : ~loc[g].ran
    BY DEF Write, AtOdds, IInv, TypeOK
  <1>2. loc[h] \in Locals /\ rest \in Seq(Commands)
    <2>1. loc[h] \in Locals /\ loc[h].plan \in Seq(Commands) /\ loc[h].plan # <<>>
      BY DEF IInv, TypeOK, Locals, Due
    <2> QED BY <2>1
  <1>3. k.plan = rest /\ k.ran = TRUE BY <1>2 DEF Locals
  <1>4. ~NoLocals(AnyUser).ran BY LocalsTypes, UserFacts
  <1>5. /\ loc'[h] = IF rest = <<>> THEN NoLocals(AnyUser) ELSE k
        /\ pc'[h] = IF rest = <<>> THEN "idle" ELSE "run"
        /\ \A g \in Handler \ {h} : pc'[g] = pc[g] /\ loc'[g] = loc[g]
    BY DEF Continue, IInv, TypeOK
  <1> HIDE DEF k, rest
  <1>6. overtaken' = [g \in Handler |-> overtaken[g] \/ (g # h /\ pc[g] # "idle")] BY DEF Write
  <1>7. ~overtaken'[h] /\ \A g \in Handler \ {h} : ~overtaken'[g] => pc[g] = "idle"
    BY <1>1, <1>6
  <1>8. \A g \in Handler : loc'[g].ran => g = h BY <1>1, <1>5
  <1>9. loc'[h].ran => Midway(h)'
    <2>1. loc'[h].ran => rest # <<>> /\ loc'[h] = k BY <1>4, <1>5
    <2> QED BY <1>3, <1>7, <2>1 DEF Midway, rest
  <1>10. ~loc'[h].ran => Settled'
    <2>1. ~loc'[h].ran => rest = <<>> BY <1>3, <1>5
    <2> QED BY <2>1 DEF rest
  <1>11. ASSUME NEW g \in Handler, ~loc'[g].ran, ~overtaken'[g] PROVE Current(g)'
    <2>1. pc'[g] = "idle" BY <1>3, <1>5, <1>7, <1>11
    <2> QED BY <2>1 DEF Current
  <1> QED BY <1>8, <1>9, <1>10, <1>11 DEF Orderly

-----------------------------------------------------------------------------
(* What the writes of a plan lead to.                                       *)

LEMMA WishesFacts ==
  ASSUME TypeOK, NEW h \in Handler, NEW c \in Commands, Wishes(h, c)
  PROVE  LET l == loc[h]
         IN /\ l.op \in {"send", "accept"} /\ c.do # "delete" =>
                 \A u \in User : consent'[u] <=> consent[u] \/ u = l.by
            /\ l.op = "import" /\ c.do # "delete" => Agreed(consent')
            /\ l.op \in {"block", "unblock"} /\ c.do # "delete" => consent' = consent
            /\ l.op = "decline" /\ c.do # "delete" =>
                 \A u \in User : u # Other(l.by) => consent'[u] = consent[u]
            /\ l.op \notin {"block", "unblock"} => blocks' = blocks
            /\ l.op = "block" => \A u \in User : blocks'[u] <=> blocks[u] \/ (u = l.by /\ c.edge = l.by)
            /\ l.op = "unblock" => \A u \in User : blocks'[u] <=> blocks[u] /\ u # c.edge
  <1> DEFINE l == loc[h]
  <1>0. l.by \in User /\ c.edge \in User /\ Other(l.by) \in User
        /\ consent \in [User -> BOOLEAN] /\ blocks \in [User -> BOOLEAN]
    BY UserFacts DEF TypeOK, Locals, Commands
  <1>1. l.op \in {"send", "accept"} /\ c.do # "delete" => consent' = [consent EXCEPT ![l.by] = TRUE]
    BY DEF Wishes
  <1>2. l.op = "import" /\ c.do # "delete" => consent' = [u \in User |-> TRUE] BY DEF Wishes
  <1>3. l.op \in {"block", "unblock"} /\ c.do # "delete" => consent' = consent BY DEF Wishes
  <1>4. l.op = "decline" /\ c.do # "delete" => consent' = [consent EXCEPT ![Other(l.by)] = FALSE]
    BY DEF Wishes
  <1>5. l.op \notin {"block", "unblock"} => blocks' = blocks BY DEF Wishes
  <1>6. l.op = "block" => blocks' = IF c.edge = l.by THEN [blocks EXCEPT ![l.by] = TRUE] ELSE blocks
    BY DEF Wishes
  <1>7. l.op = "unblock" => blocks' = [blocks EXCEPT ![c.edge] = FALSE] BY DEF Wishes
  <1> HIDE DEF l
  <1>8. l.op = "block" => \A u \in User : blocks'[u] <=> blocks[u] \/ (u = l.by /\ c.edge = l.by)
    BY <1>0, <1>6
  <1>9. l.op = "unblock" => \A u \in User : blocks'[u] <=> blocks[u] /\ u # c.edge
    BY <1>0, <1>7
  <1>10. l.op \in {"send", "accept"} /\ c.do # "delete" =>
           \A u \in User : consent'[u] <=> consent[u] \/ u = l.by
    BY <1>0, <1>1
  <1>11. l.op = "decline" /\ c.do # "delete" => \A u \in User : u # Other(l.by) => consent'[u] = consent[u]
    BY <1>0, <1>4
  <1> QED BY <1>2, <1>3, <1>5, <1>8, <1>9, <1>10, <1>11 DEF l, Agreed

\* The pair, seen from one of its documents.
SoundDoc(d, blocked) ==
  /\ d.id = 0 => d = NoFriend
  /\ d.id # 0 => d.status # "none"
  /\ blocked => d.status = "blocked"
SettledDoc(d, e, wish) ==
  /\ d.status = "accepted" <=> e.status = "accepted"
  /\ d.status \in {"blocked", "pending"} => e.status # "pending"
  /\ d.status \in {"pending", "accepted"} => wish
  /\ d.was => e.was /\ d.status = "blocked" /\ wish

LEMMA PairFactsAt ==
  ASSUME NEW x \in User
  PROVE  /\ Sound <=> SoundDoc(edge[x], blocks[x]) /\ SoundDoc(edge[Other(x)], blocks[Other(x)])
         /\ Settled <=> /\ SettledDoc(edge[x], edge[Other(x)], consent[x])
                        /\ SettledDoc(edge[Other(x)], edge[x], consent[Other(x)])
         /\ Sound' <=> SoundDoc(edge'[x], blocks'[x]) /\ SoundDoc(edge'[Other(x)], blocks'[Other(x)])
         /\ Settled' <=> /\ SettledDoc(edge'[x], edge'[Other(x)], consent'[x])
                         /\ SettledDoc(edge'[Other(x)], edge'[x], consent'[Other(x)])
  <1>1. Other(x) \in User /\ Other(Other(x)) = x /\ \A u \in User : u = x \/ u = Other(x)
    BY UserFacts
  <1>2. Sound <=> \A u \in User : SoundDoc(edge[u], blocks[u]) BY DEF Sound, SoundDoc
  <1>3. Settled <=> \A u \in User : SettledDoc(edge[u], edge[Other(u)], consent[u])
    BY DEF Settled, SettledDoc
  <1>4. Sound' <=> \A u \in User : SoundDoc(edge'[u], blocks'[u]) BY DEF Sound, SoundDoc
  <1>5. Settled' <=> \A u \in User : SettledDoc(edge'[u], edge'[Other(u)], consent'[u])
    BY DEF Settled, SettledDoc
  <1> QED BY <1>1, <1>2, <1>3, <1>4, <1>5

\* What the command c makes of the document d.
Performed(op, c, d, e) ==
  \/ c.do = "create" /\ d.id = 0 /\ e.id # 0 /\ e.status = c.status /\ e.was = FALSE
  \/ c.do = "create" /\ d.id # 0 /\ e = d /\ op # "import"
  \/ /\ c.do = "update" /\ d.id = c.id /\ e.id = d.id /\ e.status = c.status
     /\ e.was <=> c.flags \in {"was", "both"} \/ (c.flags # "clear" /\ d.was)
  \/ c.do = "delete" /\ e = IF d.id = c.id THEN NoFriend ELSE d

\* A step that writes: what it does to the pair when nothing is set at odds.
Effect(h, c) ==
  /\ Performed(loc[h].op, c, edge[c.edge], edge'[c.edge])
  /\ edge'[Other(c.edge)] = edge[Other(c.edge)]
  /\ Wishes(h, c)

LEMMA WriteFacts ==
  ASSUME IInv, NEW h \in Handler, CreateDoc(h) \/ UpdateDoc(h) \/ DeleteDoc(h)
  PROVE  \/ Abort(h)
         \/ \E c \in Commands, doc \in UserFriend :
              /\ c = Head(loc[h].plan) /\ Due(h) /\ Write(h, c, doc) /\ Continue(h)
              /\ ~AtOdds' => Effect(h, c)
  <1> DEFINE c == Head(loc[h].plan)
             x == c.edge
             d == edge[x]
  <1>0. /\ c \in Commands /\ Due(h) /\ d \in UserFriend /\ x \in User /\ Other(x) \in User /\ Other(x) # x
    <2>1. Due(h) BY DEF CreateDoc, UpdateDoc, DeleteDoc
    <2>2. loc[h].plan \in Seq(Commands) /\ loc[h].plan # <<>> BY <2>1 DEF IInv, TypeOK, Locals, Due
    <2>3. c \in Commands BY <2>2
    <2> HIDE DEF c
    <2> QED BY <2>1, <2>3, DocTypes, UserFacts DEF IInv
  <1>1. ASSUME NEW doc \in UserFriend, Write(h, c, doc), Continue(h), Wishes(h, c),
               ~AtOdds' => Performed(loc[h].op, c, d, doc)
        PROVE  \E a \in Commands, e \in UserFriend :
                 /\ a = c /\ Due(h) /\ Write(h, a, e) /\ Continue(h)
                 /\ ~AtOdds' => Effect(h, a)
    <2>1. edge'[x] = doc /\ edge'[Other(x)] = edge[Other(x)]
      BY <1>0, <1>1 DEF Write, IInv, TypeOK
    <2>2. ~AtOdds' => Effect(h, c) BY <1>1, <2>1 DEF Effect
    <2> HIDE DEF c
    <2> QED BY <1>0, <1>1, <2>2
  <1>2. CASE CreateDoc(h)
    <2>1. CASE d.id = 0
      <3> DEFINE doc == [NoFriend EXCEPT !.id = made + 1, !.status = c.status]
      <3>1. Write(h, c, doc) /\ Continue(h) /\ Wishes(h, c) /\ c.do = "create"
        BY <1>2, <2>1 DEF CreateDoc
      <3>2. doc = NewDoc(made + 1, c.status) BY DEF NewDoc
      <3> HIDE DEF doc, c
      <3>3. doc \in UserFriend /\ doc.id = made + 1 /\ doc.status = c.status /\ doc.was = FALSE
            /\ made + 1 # 0
        BY <1>0, <3>2, DocTypes, DocFacts DEF IInv
      <3>4. Performed(loc[h].op, c, d, doc) BY <2>1, <3>1, <3>3 DEF Performed
      <3> QED BY <1>1, <3>1, <3>3, <3>4 DEF c
    <2>2. CASE d.id # 0
      <3>1. Write(h, c, d) /\ Continue(h) /\ Wishes(h, c) /\ c.do = "create"
        BY <1>2, <2>2 DEF CreateDoc
      <3>2. ~AtOdds' => loc[h].op # "import" BY <2>2, <3>1 DEF Write, AtOdds
      <3>3. ~AtOdds' => Performed(loc[h].op, c, d, d) BY <2>2, <3>1, <3>2 DEF Performed
      <3> QED BY <1>0, <1>1, <3>1, <3>3
    <2> QED BY <2>1, <2>2
  <1>3. CASE UpdateDoc(h)
    <2>1. CASE d.id # c.id BY <1>3, <2>1 DEF UpdateDoc
    <2>2. CASE d.id = c.id
      <3> DEFINE w == IF c.flags \in {"was", "both"} THEN TRUE
                      ELSE IF c.flags = "clear" THEN FALSE ELSE d.was
                 t == IF c.flags \in {"target", "both"} THEN TRUE
                      ELSE IF c.flags = "clear" THEN FALSE ELSE d.target
                 doc == [d EXCEPT !.status = c.status, !.was = w, !.target = t]
      <3>1. Write(h, c, doc) /\ Continue(h) /\ Wishes(h, c) /\ c.do = "update"
        BY <1>3, <2>2 DEF UpdateDoc
      <3>2. w \in BOOLEAN /\ t \in BOOLEAN /\ c.status \in Statuses
            /\ (w <=> c.flags \in {"was", "both"} \/ (c.flags # "clear" /\ d.was))
        BY <1>0 DEF UserFriend, Commands
      <3>3. doc = Rewritten(d, c.status, w, t) BY DEF Rewritten
      <3> HIDE DEF doc, w, t, c
      <3>4. doc \in UserFriend /\ doc.id = d.id /\ doc.status = c.status /\ doc.was = w
        BY <1>0, <3>2, <3>3, DocFacts
      <3>5. Performed(loc[h].op, c, d, doc) BY <2>2, <3>1, <3>2, <3>4 DEF Performed
      <3> QED BY <1>1, <3>1, <3>4, <3>5 DEF c
    <2> QED BY <2>1, <2>2
  <1>4. CASE DeleteDoc(h)
    <2> DEFINE doc == IF d.id = c.id THEN NoFriend ELSE d
    <2>1. Write(h, c, doc) /\ Continue(h) /\ Wishes(h, c) /\ c.do = "delete" BY <1>4 DEF DeleteDoc
    <2>2. doc \in UserFriend BY <1>0, DocFacts
    <2>3. Performed(loc[h].op, c, d, doc) BY <2>1 DEF Performed
    <2> HIDE DEF doc
    <2> QED BY <1>1, <2>1, <2>2, <2>3
  <1> QED BY <1>2, <1>3, <1>4

\* The second write of a plan leaves the pair settled.
LEMMA SecondWrite ==
  ASSUME IInv, ~AtOdds, NEW h \in Handler, NEW c \in Commands,
         Half(edge, consent, loc[h], c), c.do # "upsert", Effect(h, c)
  PROVE  Sound' /\ Settled'
  <1> DEFINE l == loc[h]
             x == c.edge
             y == Other(x)
             u == l.by
             v == Other(u)
             Calm == /\ SoundDoc(edge'[x], blocks'[x]) /\ SoundDoc(edge'[y], blocks'[y])
                     /\ SettledDoc(edge'[x], edge'[y], consent'[x])
                     /\ SettledDoc(edge'[y], edge'[x], consent'[y])
  <1>0. /\ TypeOK /\ x \in User /\ y \in User /\ x # y /\ Other(y) = x /\ u \in User /\ v \in User
        /\ Other(v) = u /\ u # v /\ SoundDoc(edge[x], blocks[x]) /\ SoundDoc(edge[y], blocks[y])
        /\ edge'[y] = edge[y]
        /\ consent \in [User -> BOOLEAN] /\ edge[x].was \in BOOLEAN /\ edge[y].was \in BOOLEAN
    BY UserFacts, PairFactsAt DEF IInv, Orderly, TypeOK, Locals, Commands, UserFriend, Effect
  <1>1. Performed(l.op, c, edge[x], edge'[x]) /\ Wishes(h, c) BY DEF Effect
  <1>2. /\ l.op \in {"send", "accept"} /\ c.do # "delete" =>
             \A w \in User : consent'[w] <=> consent[w] \/ w = l.by
        /\ l.op = "import" /\ c.do # "delete" => Agreed(consent')
        /\ l.op \in {"block", "unblock"} /\ c.do # "delete" => consent' = consent
        /\ l.op \notin {"block", "unblock"} => blocks' = blocks
        /\ l.op = "block" => \A w \in User : blocks'[w] <=> blocks[w] \/ (w = l.by /\ c.edge = l.by)
        /\ l.op = "unblock" => \A w \in User : blocks'[w] <=> blocks[w] /\ w # c.edge
    BY <1>0, <1>1, WishesFacts
  <1>3. NoFriend.id = 0 /\ NoFriend.status = "none" /\ NoFriend.was = FALSE BY DocFacts
  <1> SUFFICES Calm BY <1>0, PairFactsAt
  <1> HIDE DEF l, x, y, u, v
  <1>4. ASSUME edge'[x].status = "accepted", edge'[y].status = "accepted", edge'[x].id # 0,
               ~edge'[x].was, ~edge'[y].was, consent'[x], consent'[y], ~blocks'[x], ~blocks'[y]
        PROVE  Calm
    BY <1>0, <1>3, <1>4 DEF SoundDoc, SettledDoc
  <1>5. CASE /\ l.op \in {"send", "accept"} /\ x = u /\ c.status = "accepted" /\ c.flags = "keep"
             /\ \/ c.do = "update" /\ c.id # 0
                \/ c.do = "create" /\ edge[u].id = 0
             /\ edge[v].status = "accepted" /\ edge[u].status # "blocked"
             /\ ~edge[u].was /\ ~edge[v].was /\ Agreed(consent)
    <2>1. y = v BY <1>5 DEF v, y
    <2>2. /\ edge'[x].status = "accepted" /\ edge'[x].id # 0 /\ ~edge'[x].was
      BY <1>0, <1>1, <1>5 DEF Performed
    <2>3. consent'[x] /\ consent'[y] BY <1>0, <1>2, <1>5 DEF Agreed
    <2>4. ~blocks'[x] /\ ~blocks'[y] BY <1>0, <1>2, <1>5, <2>1 DEF SoundDoc
    <2> QED BY <1>0, <1>4, <1>5, <2>1, <2>2, <2>3, <2>4
  <1>6. CASE /\ l.op = "import" /\ c.do = "create" /\ c.status = "accepted" /\ Agreed(consent)
             /\ edge[y].status = "accepted" /\ ~edge[y].was
    <2>2. /\ edge'[x].status = "accepted" /\ edge'[x].id # 0 /\ ~edge'[x].was /\ edge[x].id = 0
      BY <1>0, <1>1, <1>6 DEF Performed
    <2>3. consent'[x] /\ consent'[y] BY <1>0, <1>2, <1>6 DEF Agreed
    <2>4. ~blocks'[x] /\ ~blocks'[y] BY <1>0, <1>2, <1>3, <1>6, <2>2 DEF SoundDoc
    <2> QED BY <1>0, <1>4, <1>6, <2>2, <2>3, <2>4
  <1>7. CASE /\ l.op = "remove" /\ c.do = "delete" /\ x = v /\ c.id = edge[v].id
             /\ edge[u] = NoFriend /\ edge[v].status = "accepted"
    <2>1. y = u BY <1>0, <1>7 DEF v, y
    <2>2. edge'[x] = NoFriend /\ edge'[y] = NoFriend BY <1>0, <1>1, <1>7, <2>1 DEF Performed
    <2>3. ~blocks'[x] /\ ~blocks'[y] BY <1>0, <1>2, <1>3, <1>7, <2>1 DEF SoundDoc
    <2> QED BY <1>0, <1>3, <2>2, <2>3 DEF SoundDoc, SettledDoc
  <1>8. CASE /\ l.op = "block" /\ c.do = "update" /\ x = v /\ c.id # 0 /\ c.status = "blocked"
             /\ edge[u].status = "blocked" /\ c.flags \in {"both", "target"}
             /\ c.flags = "both" => edge[u].was
             /\ edge[u].was => Agreed(consent) /\ (edge[v].was \/ c.flags = "both")
             /\ edge[v].was => edge[u].was
    <2>1. y = u BY <1>0, <1>8 DEF v, y
    <2>2. /\ edge'[x].status = "blocked" /\ edge'[x].id # 0 /\ edge'[y].status = "blocked"
          /\ edge'[x].was <=> c.flags = "both" \/ edge[x].was
      BY <1>0, <1>1, <1>8, <2>1 DEF Performed
    <2>3. edge'[x].was <=> edge'[y].was BY <1>0, <1>8, <2>1, <2>2
    <2>4. edge'[x].was => consent'[x] /\ consent'[y] BY <1>0, <1>2, <1>8, <2>1, <2>3 DEF Agreed
    <2> QED BY <1>0, <1>3, <2>1, <2>2, <2>3, <2>4 DEF SoundDoc, SettledDoc
  <1>9. CASE /\ l.op = "unblock" /\ c.do = "update" /\ x = v /\ c.id # 0
             /\ c.status = "accepted" /\ c.flags = "clear"
             /\ edge[u].status = "accepted" /\ ~edge[u].was /\ Agreed(consent)
    <2>1. y = u BY <1>0, <1>9 DEF v, y
    <2>2. /\ edge'[x].status = "accepted" /\ edge'[x].id # 0 /\ ~edge'[x].was
      BY <1>0, <1>1, <1>9 DEF Performed
    <2>3. consent'[x] /\ consent'[y] BY <1>0, <1>2, <1>9 DEF Agreed
    <2>4. ~blocks'[x] /\ ~blocks'[y] BY <1>0, <1>2, <1>9, <2>1 DEF SoundDoc, x
    <2> QED BY <1>0, <1>4, <1>9, <2>1, <2>2, <2>3, <2>4
  <1>10. CASE /\ l.op = "unblock" /\ c.do = "delete" /\ x = v /\ c.id = edge[v].id
              /\ edge[u] = NoFriend
    <2>1. y = u BY <1>0, <1>10 DEF v, y
    <2>2. edge'[x] = NoFriend /\ edge'[y] = NoFriend BY <1>0, <1>1, <1>10, <2>1 DEF Performed
    <2>3. ~blocks'[x] /\ ~blocks'[y] BY <1>0, <1>2, <1>3, <1>10, <2>1 DEF SoundDoc, x
    <2> QED BY <1>0, <1>3, <2>2, <2>3 DEF SoundDoc, SettledDoc
  <1> QED
    BY <1>5, <1>6, <1>7, <1>8, <1>9, <1>10 DEF Half, l, x, y, u, v

\* The first write of a plan leaves the pair settled, or half way to it.
LEMMA FirstWrite ==
  ASSUME IInv, ~AtOdds, Settled, NEW h \in Handler, Planned(loc[h]), NEW c \in Commands,
         c = Head(loc[h].plan), Effect(h, c)
  PROVE  LET rest == Tail(loc[h].plan)
         IN /\ Sound'
            /\ rest = <<>> => Settled'
            /\ rest # <<>> => Len(rest) = 1 /\ Half(edge', consent', loc[h], rest[1])
  <1> DEFINE l == loc[h]
             rest == Tail(l.plan)
             u == l.by
             v == Other(u)
             SoundNow == SoundDoc(edge'[u], blocks'[u]) /\ SoundDoc(edge'[v], blocks'[v])
             Calm == /\ SettledDoc(edge'[u], edge'[v], consent'[u])
                     /\ SettledDoc(edge'[v], edge'[u], consent'[v])
             Reached == /\ Sound'
                        /\ rest = <<>> => Settled'
                        /\ rest # <<>> => Len(rest) = 1 /\ Half(edge', consent', l, rest[1])
  <1>0. /\ TypeOK /\ u \in User /\ v \in User /\ u # v /\ Other(v) = u /\ \A w \in User : w = u \/ w = v
        /\ SoundDoc(edge[u], blocks[u]) /\ SoundDoc(edge[v], blocks[v])
        /\ SettledDoc(edge[u], edge[v], consent[u]) /\ SettledDoc(edge[v], edge[u], consent[v])
        /\ edge[u] \in UserFriend /\ edge[v] \in UserFriend
        /\ consent \in [User -> BOOLEAN] /\ blocks \in [User -> BOOLEAN]
    BY UserFacts, PairFactsAt DEF IInv, Orderly, TypeOK, Locals
  <1>1. /\ Performed(l.op, c, edge[c.edge], edge'[c.edge]) /\ edge'[Other(c.edge)] = edge[Other(c.edge)]
        /\ Wishes(h, c)
    BY DEF Effect
  <1>2. /\ l.op \in {"send", "accept"} /\ c.do # "delete" =>
             \A w \in User : consent'[w] <=> consent[w] \/ w = u
        /\ l.op = "import" /\ c.do # "delete" => Agreed(consent')
        /\ l.op \in {"block", "unblock"} /\ c.do # "delete" => consent' = consent
        /\ l.op = "decline" /\ c.do # "delete" => \A w \in User : w # v => consent'[w] = consent[w]
        /\ l.op \notin {"block", "unblock"} => blocks' = blocks
        /\ l.op = "block" => \A w \in User : blocks'[w] <=> blocks[w] \/ (w = u /\ c.edge = u)
        /\ l.op = "unblock" => \A w \in User : blocks'[w] <=> blocks[w] /\ w # c.edge
    <2>1. TypeOK /\ Wishes(h, c) BY <1>0, <1>1
    <2> QED BY <2>1, WishesFacts
  <1>3. NoFriend.id = 0 /\ NoFriend.status = "none" /\ NoFriend.was = FALSE /\ NoFriend.target = FALSE
    BY DocFacts DEF NoFriend
  <1>4. c = Head(l.plan) OBVIOUS
  <1>5. SoundNow => Sound' BY <1>0, PairFactsAt
  <1>6. Calm => Settled' BY <1>0, PairFactsAt
  <1> SUFFICES Reached OBVIOUS
  <1> HIDE DEF l, u, v
  <1>7. ASSUME NEW a, l.plan = <<a>>, a = c => SoundNow /\ Calm PROVE Reached
    <2>1. rest = <<>> /\ Head(l.plan) = a BY <1>7, PairFacts
    <2> QED BY <1>4, <1>5, <1>6, <1>7, <2>1
  <1>8. ASSUME NEW a, NEW b, l.plan = <<a, b>>, a = c => SoundNow /\ Half(edge', consent', l, b)
        PROVE  Reached
    <2>1. rest = <<b>> /\ Head(l.plan) = a /\ <<b>> # <<>> /\ Len(<<b>>) = 1 /\ <<b>>[1] = b
      BY <1>8, PairFacts
    <2> HIDE DEF rest
    <2> QED BY <1>4, <1>5, <1>8, <2>1
  <1>9. CASE /\ l.op \in {"send", "accept"} /\ edge[v].status = "pending"
             /\ l.plan = AcceptPlan(l, edge[v])
    <2> DEFINE a == Update(v, edge[v].id, "accepted", "keep")
               b == Upsert(u)
    <2>1. l.plan = <<a, b>> BY <1>9 DEF AcceptPlan, u, v
    <2>2. /\ a.do = "update" /\ a.edge = v /\ a.id = edge[v].id /\ a.status = "accepted" /\ a.flags = "keep"
          /\ b.do = "upsert" /\ b.edge = u /\ b.status = "accepted" /\ b.flags = "keep"
      BY DEF Update, Upsert, Cmd
    <2> HIDE DEF a, b
    <2>3. ASSUME a = c PROVE SoundNow /\ Half(edge', consent', l, b)
      <3>1. /\ edge[v].id # 0 /\ ~edge[v].was /\ ~edge[u].was /\ edge[u].status # "blocked"
            /\ consent[v] /\ ~blocks[v]
        BY <1>0, <1>3, <1>9 DEF SoundDoc, SettledDoc
      <3>2. /\ edge'[v].id = edge[v].id /\ edge'[v].status = "accepted" /\ ~edge'[v].was
            /\ edge'[u] = edge[u]
        BY <1>0, <1>1, <2>2, <2>3, <3>1 DEF Performed
      <3>3. Agreed(consent') /\ blocks' = blocks BY <1>0, <1>2, <1>9, <2>2, <2>3, <3>1 DEF Agreed
      <3>4. SoundNow BY <1>0, <1>3, <3>1, <3>2, <3>3 DEF SoundDoc
      <3>5. Half(edge', consent', l, b) BY <1>9, <2>2, <3>1, <3>2, <3>3 DEF Half, u, v
      <3> QED BY <3>4, <3>5
    <2> QED BY <1>8, <2>1, <2>3
  <1>10. CASE /\ l.op = "send" /\ edge[u].status \in {"none", "declined"}
              /\ edge[v].status \notin {"blocked", "pending"} /\ l.plan = <<Create(u, "pending")>>
    <2> DEFINE a == Create(u, "pending")
    <2>1. a.do = "create" /\ a.edge = u /\ a.status = "pending" BY DEF Create, Cmd
    <2> HIDE DEF a
    <2>2. ASSUME a = c PROVE SoundNow /\ Calm
      <3>1. blocks' = blocks /\ consent'[u] /\ (consent'[v] <=> consent[v]) /\ edge'[v] = edge[v]
        BY <1>0, <1>1, <1>2, <1>10, <2>1, <2>2 DEF v
      <3>2. \/ edge'[u].id # 0 /\ edge'[u].status = "pending" /\ ~edge'[u].was
            \/ edge'[u] = edge[u]
        BY <1>1, <2>1, <2>2 DEF Performed
      <3> QED BY <1>0, <1>3, <1>10, <3>1, <3>2 DEF SoundDoc, SettledDoc
    <2> QED BY <1>7, <1>10, <2>2 DEF a
  <1>11. CASE /\ l.op = "decline" /\ edge[v].status = "pending"
              /\ l.plan = <<Update(v, edge[v].id, "declined", "keep")>>
    <2> DEFINE a == Update(v, edge[v].id, "declined", "keep")
    <2>1. a.do = "update" /\ a.edge = v /\ a.id = edge[v].id /\ a.status = "declined" /\ a.flags = "keep"
      BY DEF Update, Cmd
    <2> HIDE DEF a
    <2>2. ASSUME a = c PROVE SoundNow /\ Calm
      <3>1. blocks' = blocks /\ consent'[u] = consent[u] /\ edge'[u] = edge[u]
        BY <1>0, <1>1, <1>2, <1>11, <2>1, <2>2
      <3>2. /\ edge'[v].id = edge[v].id /\ edge'[v].status = "declined" /\ (edge'[v].was <=> edge[v].was)
        BY <1>1, <2>1, <2>2 DEF Performed
      <3> QED BY <1>0, <1>3, <1>11, <3>1, <3>2 DEF SoundDoc, SettledDoc
    <2> QED BY <1>7, <1>11, <2>2 DEF a
  <1>12. CASE l.own = edge[u] /\ l.rev = edge[v] /\ l.op = "remove" /\ edge[u].status = "accepted"
              /\ l.plan = RemovePlan(l)
    <2> DEFINE a == Delete(u, edge[u].id)
               b == Delete(v, edge[v].id)
    <2>1. edge[v].status = "accepted" /\ edge[v].id # 0 /\ ~blocks[u]
      BY <1>0, <1>3, <1>12 DEF SoundDoc, SettledDoc
    <2>2. l.plan = <<a>> \o <<b>> BY <1>12, <2>1 DEF RemovePlan, u, v
    <2>3. /\ a.do = "delete" /\ a.edge = u /\ a.id = edge[u].id
          /\ b.do = "delete" /\ b.edge = v /\ b.id = edge[v].id
      BY DEF Delete, Cmd
    <2> HIDE DEF a, b
    <2>4. l.plan = <<a, b>>
      <3>1. <<a>> \o <<b>> = <<a, b>> BY PairFacts
      <3> QED BY <2>2, <3>1
    <2>5. ASSUME a = c PROVE SoundNow /\ Half(edge', consent', l, b)
      <3>1. blocks' = blocks /\ edge'[v] = edge[v] /\ edge'[u] = NoFriend
        BY <1>1, <1>2, <1>12, <2>3, <2>5 DEF Performed, v
      <3>2. SoundNow BY <1>0, <1>3, <2>1, <3>1 DEF SoundDoc
      <3>3. Half(edge', consent', l, b) BY <1>12, <2>1, <2>3, <3>1 DEF Half, u, v
      <3> QED BY <3>2, <3>3
    <2> QED BY <1>8, <2>4, <2>5
  <1>13. CASE l.own = edge[u] /\ l.rev = edge[v] /\ l.op = "block" /\ l.plan = BlockPlan(l)
    <2> DEFINE friends == edge[u].status = "accepted" /\ edge[v].status = "accepted"
               a == IF edge[u].id # 0 THEN Update(u, edge[u].id, "blocked", IF friends THEN "was" ELSE "keep")
                                      ELSE Create(u, "blocked")
               b == Update(v, edge[v].id, "blocked", IF friends THEN "both" ELSE "target")
    <2>1. l.plan = <<a>> \o (IF edge[v].id # 0 THEN <<b>> ELSE <<>>) BY <1>13 DEF BlockPlan, u, v
    <2>2. /\ a.edge = u /\ a.status = "blocked"
          /\ \/ a.do = "update" /\ a.id = edge[u].id /\ a.id # 0 /\ a.flags = (IF friends THEN "was" ELSE "keep")
             \/ a.do = "create" /\ edge[u].id = 0
          /\ b.do = "update" /\ b.edge = v /\ b.id = edge[v].id /\ b.status = "blocked"
          /\ b.flags = (IF friends THEN "both" ELSE "target")
      BY DEF Update, Create, Cmd
    <2> HIDE DEF a, b
    <2>3. ASSUME a = c
          PROVE  /\ SoundNow /\ edge'[u].status = "blocked" /\ (edge'[u].was <=> friends \/ edge[u].was)
                 /\ edge'[v] = edge[v] /\ consent' = consent
      <3>1. edge'[u].id # 0 /\ edge'[u].status = "blocked" /\ (edge'[u].was <=> friends \/ edge[u].was)
        BY <1>0, <1>1, <1>3, <2>2, <2>3 DEF Performed, SoundDoc
      <3>2. edge'[v] = edge[v] /\ consent' = consent /\ (blocks'[v] <=> blocks[v])
        BY <1>0, <1>1, <1>2, <1>13, <2>2, <2>3 DEF v
      <3> QED BY <1>0, <3>1, <3>2 DEF SoundDoc
    <2>4. CASE edge[v].id = 0
      <3>1. l.plan = <<a>> BY <2>1, <2>4, PairFacts
      <3>2. ASSUME a = c PROVE SoundNow /\ Calm
        <4>1. ~edge[v].was /\ ~edge[u].was /\ ~friends /\ edge[v].status = "none"
          BY <1>0, <1>3, <2>4 DEF SoundDoc, SettledDoc
        <4>2. Calm BY <2>3, <3>2, <4>1 DEF SettledDoc
        <4> QED BY <2>3, <3>2, <4>2
      <3> QED BY <1>7, <3>1, <3>2
    <2>5. CASE edge[v].id # 0
      <3>1. l.plan = <<a, b>>
        <4>1. <<a>> \o <<b>> = <<a, b>> BY PairFacts
        <4> QED BY <2>1, <2>5, <4>1
      <3>2. ASSUME a = c PROVE SoundNow /\ Half(edge', consent', l, b)
        <4>1. friends \/ edge[u].was => Agreed(consent) BY <1>0 DEF SettledDoc, Agreed
        <4>2. (edge[u].was => edge[v].was) /\ (edge[v].was => edge[u].was) BY <1>0 DEF SettledDoc
        <4>3. Half(edge', consent', l, b)
          BY <1>13, <2>2, <2>3, <2>5, <3>2, <4>1, <4>2 DEF Half, u, v
        <4> QED BY <2>3, <3>2, <4>3
      <3> QED BY <1>8, <3>1, <3>2
    <2> QED BY <2>4, <2>5
  <1>14. CASE l.own = edge[u] /\ l.rev = edge[v] /\ l.op = "unblock" /\ edge[u].status = "blocked"
              /\ l.plan = UnblockPlan(l) /\ edge[u].was /\ edge[v].was
    <2> DEFINE a == Update(u, edge[u].id, "accepted", "clear")
               b == Update(v, edge[v].id, "accepted", "clear")
    <2>1. l.plan = <<a, b>> BY <1>14 DEF UnblockPlan, u, v
    <2>2. /\ a.do = "update" /\ a.edge = u /\ a.id = edge[u].id /\ a.status = "accepted" /\ a.flags = "clear"
          /\ b.do = "update" /\ b.edge = v /\ b.id = edge[v].id /\ b.status = "accepted" /\ b.flags = "clear"
      BY DEF Update, Cmd
    <2> HIDE DEF a, b
    <2>3. ASSUME a = c PROVE SoundNow /\ Half(edge', consent', l, b)
      <3>1. edge[u].id # 0 /\ edge[v].id # 0 /\ Agreed(consent)
        BY <1>0, <1>3, <1>14 DEF SoundDoc, SettledDoc, Agreed
      <3>2. /\ edge'[u].id # 0 /\ edge'[u].status = "accepted" /\ ~edge'[u].was /\ edge'[v] = edge[v]
        BY <1>1, <2>2, <2>3, <3>1 DEF Performed, v
      <3>3. consent' = consent /\ ~blocks'[u] /\ (blocks'[v] <=> blocks[v])
        BY <1>0, <1>2, <1>14, <2>2, <2>3
      <3>4. SoundNow BY <1>0, <3>2, <3>3 DEF SoundDoc
      <3>5. Half(edge', consent', l, b) BY <1>14, <2>2, <3>1, <3>2, <3>3 DEF Half, u, v
      <3> QED BY <3>4, <3>5
    <2> QED BY <1>8, <2>1, <2>3
  <1>15. CASE l.own = edge[u] /\ l.rev = edge[v] /\ l.op = "unblock" /\ edge[u].status = "blocked"
              /\ l.plan = UnblockPlan(l) /\ ~(edge[u].was /\ edge[v].was)
    <2> DEFINE a == Delete(u, edge[u].id)
               b == Delete(v, edge[v].id)
    <2>1. l.plan = <<a>> \o (IF edge[v].target THEN <<b>> ELSE <<>>) BY <1>15 DEF UnblockPlan, u, v
    <2>2. /\ a.do = "delete" /\ a.edge = u /\ a.id = edge[u].id
          /\ b.do = "delete" /\ b.edge = v /\ b.id = edge[v].id
      BY DEF Delete, Cmd
    <2> HIDE DEF a, b
    <2>3. ASSUME a = c PROVE SoundNow /\ Calm /\ edge'[u] = NoFriend /\ edge'[v] = edge[v]
      <3>1. edge'[u] = NoFriend /\ edge'[v] = edge[v] BY <1>1, <2>2, <2>3 DEF Performed, v
      <3>2. ~blocks'[u] /\ (blocks'[v] <=> blocks[v]) BY <1>0, <1>2, <1>15, <2>2, <2>3
      <3>3. SoundNow BY <1>0, <1>3, <3>1, <3>2 DEF SoundDoc
      <3>4. ~edge[v].was /\ edge[v].status \notin {"pending", "accepted"}
        BY <1>0, <1>15 DEF SettledDoc
      <3>5. Calm BY <1>3, <3>1, <3>4 DEF SettledDoc
      <3> QED BY <3>1, <3>3, <3>5
    <2>4. CASE edge[v].target
      <3>1. l.plan = <<a, b>>
        <4>1. <<a>> \o <<b>> = <<a, b>> BY PairFacts
        <4> QED BY <2>1, <2>4, <4>1
      <3>2. ASSUME a = c PROVE SoundNow /\ Half(edge', consent', l, b)
        BY <1>15, <2>2, <2>3, <3>2 DEF Half, u, v
      <3> QED BY <1>8, <3>1, <3>2
    <2>5. CASE ~edge[v].target
      <3>1. l.plan = <<a>> BY <2>1, <2>5, PairFacts
      <3> QED BY <1>7, <2>3, <3>1
    <2> QED BY <2>4, <2>5
  <1>16. CASE l.own = edge[u] /\ l.rev = edge[v] /\ l.op = "import" /\ edge[u].status # "accepted"
              /\ l.plan = ImportPlan(l) /\ edge[v].status = "pending"
    <2> DEFINE a == Update(v, edge[v].id, "accepted", "keep")
               b == Create(u, "accepted")
    <2>1. l.plan = <<a, b>> BY <1>16 DEF ImportPlan, u, v
    <2>2. /\ a.do = "update" /\ a.edge = v /\ a.id = edge[v].id /\ a.status = "accepted" /\ a.flags = "keep"
          /\ b.do = "create" /\ b.edge = u /\ b.status = "accepted"
      BY DEF Update, Create, Cmd
    <2> HIDE DEF a, b
    <2>3. ASSUME a = c PROVE SoundNow /\ Half(edge', consent', l, b)
      <3>1. edge[v].id # 0 /\ ~edge[v].was /\ ~blocks[v]
        BY <1>0, <1>3, <1>16 DEF SoundDoc, SettledDoc
      <3>2. /\ edge'[v].id = edge[v].id /\ edge'[v].status = "accepted" /\ ~edge'[v].was
            /\ edge'[u] = edge[u]
        BY <1>0, <1>1, <2>2, <2>3, <3>1 DEF Performed
      <3>3. Agreed(consent') /\ blocks' = blocks BY <1>2, <1>16, <2>2, <2>3
      <3>4. SoundNow BY <1>0, <3>1, <3>2, <3>3 DEF SoundDoc
      <3>5. Half(edge', consent', l, b) BY <1>16, <2>2, <3>2, <3>3 DEF Half, v
      <3> QED BY <3>4, <3>5
    <2> QED BY <1>8, <2>1, <2>3
  <1>17. CASE l.own = edge[u] /\ l.rev = edge[v] /\ l.op = "import" /\ edge[u].status # "accepted"
              /\ l.plan = ImportPlan(l) /\ edge[v].status # "pending"
    <2> DEFINE a == Create(u, "accepted")
               b == Create(v, "accepted")
    <2>1. l.plan = <<a, b>> BY <1>17 DEF ImportPlan, u, v
    <2>2. /\ a.do = "create" /\ a.edge = u /\ a.status = "accepted"
          /\ b.do = "create" /\ b.edge = v /\ b.status = "accepted"
      BY DEF Create, Cmd
    <2> HIDE DEF a, b
    <2>3. ASSUME a = c PROVE SoundNow /\ Half(edge', consent', l, b)
      <3>1. /\ edge[u].id = 0 /\ edge'[u].id # 0 /\ edge'[u].status = "accepted" /\ ~edge'[u].was
            /\ edge'[v] = edge[v]
        BY <1>1, <1>17, <2>2, <2>3 DEF Performed, v
      <3>2. Agreed(consent') /\ blocks' = blocks BY <1>2, <1>17, <2>2, <2>3
      <3>3. ~blocks[u] BY <1>0, <1>3, <3>1 DEF SoundDoc
      <3>4. SoundNow BY <1>0, <3>1, <3>2, <3>3 DEF SoundDoc
      <3>5. Half(edge', consent', l, b) BY <1>0, <1>17, <2>2, <3>1, <3>2 DEF Half
      <3> QED BY <3>4, <3>5
    <2> QED BY <1>8, <2>1, <2>3
  <1> QED
    BY <1>9, <1>10, <1>11, <1>12, <1>13, <1>14, <1>15, <1>16, <1>17 DEF Planned, l, u, v

LEMMA OnlyCommand == \A s \in Seq(Commands) : Len(s) = 1 => Tail(s) = <<>> /\ Head(s) = s[1]
  <1> SUFFICES ASSUME NEW s \in Seq(Commands), Len(s) = 1 PROVE Tail(s) = <<>> OBVIOUS
  <1>1. s # <<>>
    <2>1. Len(<<>>) = 0 BY EmptySeq
    <2>2. Len(s) # 0 OBVIOUS
    <2> QED BY <2>1, <2>2, Zenon
  <1>2. Tail(s) \in Seq(Commands) /\ Len(Tail(s)) = 0 BY <1>1, HeadTailProperties
  <1> QED BY <1>2, EmptySeq

LEMMA WritesOrderly ==
  ASSUME IInv, NEW h \in Handler, CreateDoc(h) \/ UpdateDoc(h) \/ DeleteDoc(h)
  PROVE  Orderly'
  <1>1. CASE Abort(h) BY <1>1, FailOrderly
  <1>2. ASSUME NEW c \in Commands, NEW doc \in UserFriend, c = Head(loc[h].plan), Due(h),
               Write(h, c, doc), Continue(h), ~AtOdds' => Effect(h, c)
        PROVE  Orderly'
    <2> DEFINE rest == Tail(loc[h].plan)
    <2>1. ASSUME ~AtOdds'
          PROVE  /\ Sound'
                 /\ rest = <<>> => Settled'
                 /\ rest # <<>> => Len(rest) = 1 /\ Half(edge', consent', loc'[h], rest[1])
      <3>1. ~AtOdds /\ ~overtaken[h] /\ \A g \in Handler \ {h} : ~loc[g].ran
        BY <1>2, <2>1 DEF Write, AtOdds, IInv, TypeOK
      <3>2. loc[h] \in Locals /\ loc[h].plan \in Seq(Commands) /\ loc[h].plan # <<>> /\ pc[h] = "run"
        BY <1>2 DEF IInv, TypeOK, Locals, Due
      <3>3. Effect(h, c) BY <1>2, <2>1
      <3>4. CASE loc[h].ran
        <4>1. Len(loc[h].plan) = 1 /\ Half(edge, consent, loc[h], loc[h].plan[1])
          BY <3>1, <3>4 DEF IInv, Orderly, Midway
        <4>2. rest = <<>> /\ loc[h].plan[1] = c BY <1>2, <3>2, <4>1, OnlyCommand
        <4>3. c.do # "upsert" BY <3>3 DEF Effect, Performed
        <4>4. Half(edge, consent, loc[h], c) BY <4>1, <4>2
        <4>5. Sound' /\ Settled' BY <3>1, <3>3, <4>3, <4>4, SecondWrite
        <4> QED BY <4>2, <4>5
      <3>5. CASE ~loc[h].ran
        <4>1. Settled /\ Planned(loc[h]) BY <3>1, <3>2, <3>5 DEF IInv, Orderly, Current
        <4>2. /\ Sound'
              /\ rest = <<>> => Settled'
              /\ rest # <<>> => Len(rest) = 1 /\ Half(edge', consent', loc[h], rest[1])
          BY <1>2, <3>1, <3>3, <4>1, FirstWrite
        <4>3. rest # <<>> => loc'[h].op = loc[h].op /\ loc'[h].by = loc[h].by
          BY <1>2, <3>2 DEF Continue, IInv, TypeOK, Locals
        <4> HIDE DEF rest
        <4>4. rest # <<>> => (Half(edge', consent', loc'[h], rest[1])
                                <=> Half(edge', consent', loc[h], rest[1]))
          BY <4>3 DEF Half
        <4> QED BY <4>2, <4>4
      <3> QED BY <3>4, <3>5
    <2> QED BY <1>2, <2>1, WriteOrderly
  <1>3. \/ Abort(h)
        \/ \E c \in Commands, doc \in UserFriend :
             /\ c = Head(loc[h].plan) /\ Due(h) /\ Write(h, c, doc) /\ Continue(h)
             /\ ~AtOdds' => Effect(h, c)
    BY WriteFacts
  <1> QED BY <1>1, <1>2, <1>3

-----------------------------------------------------------------------------
(* The theorems.                                                            *)

LEMMA InitIInv ==
  ASSUME Init
  PROVE  IInv
  <1>1. AnyUser \in User /\ NoLocals(AnyUser) \in Locals /\ NoLocals(AnyUser).ran = FALSE
    BY UserFacts, LocalsTypes
  <1>2. \A u \in User : edge[u] = NoFriend /\ edge[Other(u)] = NoFriend BY UserFacts DEF Init
  <1>3. TypeOK
    <2>1. edge \in [User -> UserFriend] /\ made \in Nat BY DocFacts DEF Init
    <2>2. pc \in [Handler -> {"idle", "own", "rev", "byid", "run"}] /\ loc \in [Handler -> Locals]
      BY <1>1 DEF Init
    <2>3. /\ consent \in [User -> BOOLEAN] /\ blocks \in [User -> BOOLEAN]
          /\ overtaken \in [Handler -> BOOLEAN] /\ torn \in BOOLEAN /\ clashed \in BOOLEAN
      BY DEF Init
    <2>4. requests \in 0 .. MaxRequests /\ faults \in 0 .. MaxFaults BY FriendshipAssumption DEF Init
    <2> QED BY <2>1, <2>2, <2>3, <2>4 DEF TypeOK
  <1>4. \A h \in Handler : pc[h] = "idle" /\ loc[h].ran = FALSE BY <1>1 DEF Init
  <1>5. Shape BY <1>4 DEF Shape
  <1>6. Sound BY <1>2, DocFacts DEF Sound, Init
  <1>7. Settled BY <1>2, DocFacts DEF Settled
  <1>8. Orderly BY <1>4, <1>6, <1>7 DEF Orderly, Current
  <1> QED BY <1>3, <1>5, <1>8 DEF IInv

LEMMA NextIInv ==
  ASSUME IInv, [Next]_vars
  PROVE  IInv'
  <1>1. TypeOK' /\ Shape' BY TypeStep DEF IInv
  <1>2. Orderly'
    <2>1. CASE UNCHANGED vars
      <3>1. UNCHANGED <<edge, pc, loc, consent, blocks, overtaken, AtOdds>>
        BY <2>1 DEF vars, collection, handlers, history, AtOdds
      <3>2. \A h \in Handler : (Midway(h)' <=> Midway(h)) /\ (Current(h)' <=> Current(h))
        BY <3>1 DEF Midway, Current, Planned
      <3> QED BY <3>1, <3>2 DEF IInv, Orderly, Sound, Settled
    <2>2. ASSUME NEW h \in Handler, RequestStep(h) PROVE Orderly' BY <2>2, ReceiveOrderly
    <2>3. ASSUME NEW h \in Handler, FindOwn(h) PROVE Orderly' BY <2>3, FindOwnOrderly
    <2>4. ASSUME NEW h \in Handler, FindReverse(h) PROVE Orderly' BY <2>4, FindReverseOrderly
    <2>5. ASSUME NEW h \in Handler, FindRequest(h) PROVE Orderly' BY <2>5, FindRequestOrderly
    <2>6. ASSUME NEW h \in Handler, CreateDoc(h) \/ UpdateDoc(h) \/ DeleteDoc(h) PROVE Orderly'
      BY <2>6, WritesOrderly
    <2>7. ASSUME NEW h \in Handler, UpsertDoc(h) PROVE Orderly' BY <2>7, UpsertOrderly
    <2>8. ASSUME NEW h \in Handler, Fail(h) PROVE Orderly' BY <2>8, FailOrderly DEF Fail
    <2> QED BY <2>1, <2>2, <2>3, <2>4, <2>5, <2>6, <2>7, <2>8 DEF Next
  <1> QED BY <1>1, <1>2 DEF IInv

LEMMA Invariance == Spec => []IInv
  BY InitIInv, NextIInv, PTL DEF Spec

\* The documents, the handlers and their plans keep their shapes for any number of requests
\* (every handler of FriendsService and autoFriendRegisteredContact).
THEOREM TypeCorrect == Spec => []TypeOK
  <1>1. IInv => TypeOK BY DEF IInv
  <1> QED BY <1>1, Invariance, PTL

LEMMA QuietIsSettled ==
  ASSUME IInv, Quiet, ~AtOdds
  PROVE  Settled
  BY DEF IInv, Quiet, Shape, Orderly

\* However many requests are served and whatever they ask, no half friendship is left: the list
\* of friends, drawn from one document, and getFriendStatus, drawn from both, agree for both
\* users.  The theorem says nothing once the writes of two requests have mixed, a request has
\* failed half-way, or a contact import, alone or not, has met a document where it was to make
\* one: autoFriendRegisteredContact then accepts one document and leaves the other.
THEOREM FriendshipsAreMutual == Spec => []ListIsMutual
  <1>1. ASSUME IInv PROVE ListIsMutual
    <2>1. ASSUME Quiet, ~AtOdds, NEW u \in User PROVE InFriendsList(u) <=> FriendStatus(u) = "FRIENDS"
      <3>1. edge[u].status = "accepted" <=> edge[Other(u)].status = "accepted"
        BY <1>1, <2>1, QuietIsSettled DEF Settled
      <3> QED BY <3>1 DEF InFriendsList, FriendStatus
    <2> QED BY <2>1 DEF ListIsMutual
  <1> QED BY <1>1, Invariance, PTL

\* No chain of requests, declines, blocks and removals makes someone a friend who did not ask
\* or accept, unless a contact import did.  Exempt: mixed writes, a half-way failure, an import
\* over a document there was.
THEOREM FriendshipsAreAgreed == Spec => []FriendsAgreed
  <1>1. ASSUME IInv PROVE FriendsAgreed
    <2>1. ASSUME Quiet, ~AtOdds, NEW u \in User, FriendStatus(u) = "FRIENDS" PROVE consent[u]
      <3>1. edge[u].status = "accepted" BY <2>1 DEF FriendStatus
      <3> QED BY <1>1, <2>1, <3>1, QuietIsSettled DEF Settled
    <2> QED BY <2>1 DEF FriendsAgreed
  <1> QED BY <1>1, Invariance, PTL

\* A block shows in its document at every moment, between the writes of a request too, until
\* unblockUser lifts it.  Exempt: mixed writes, a half-way failure, an import over a document
\* there was, which may be the block.
THEOREM BlocksStand == Spec => []BlockStands
  <1>1. IInv => BlockStands BY DEF IInv, Orderly, Sound, BlockStands
  <1> QED BY <1>1, Invariance, PTL
-----------------------------------------------------------------------------
(* The two documents as one relation.  View and WereFriends are functions   *)
(* of the documents, the handlers, torn and clashed, before a step and      *)
(* after it.                                                                *)

Same(status) == [u \in User |-> status]
AskedBy(u)   == [w \in User |-> IF w = u THEN "PENDING_OUTGOING" ELSE "PENDING_INCOMING"]

CollidesAt(pair, l)    == l.op = "import" /\ pair[Head(l.plan).edge].id # 0
CollideIn(pair, ls)    == \E h \in Handler : ls[h].ran /\ CollidesAt(pair, ls[h])
WriterIn(ls)           == CHOOSE h \in Handler : ls[h].ran

StatusIn(pair, u) ==
  LET own == pair[u].status
      rev == pair[Other(u)].status
  IN IF own = "accepted" /\ rev = "accepted" THEN "FRIENDS"
     ELSE IF "blocked" \in {own, rev}          THEN "BLOCKED"
     ELSE IF own = "pending"                   THEN "PENDING_OUTGOING"
     ELSE IF rev = "pending"                   THEN "PENDING_INCOMING"
     ELSE "NONE"

ViewOf(pair, ls, lost, clash) ==
  [u \in User |-> IF lost THEN "UNKNOWN"
                  ELSE IF clash \/ CollideIn(pair, ls) THEN "CLASHED"
                  ELSE IF \E h \in Handler : ls[h].ran THEN Outcome(ls[WriterIn(ls)])
                  ELSE StatusIn(pair, u)]

WereOf(pair, ls, lost, clash) ==
  /\ ~lost /\ ~clash /\ ~CollideIn(pair, ls)
  /\ (\E h \in Handler : ls[h].ran) => Outcome(ls[WriterIn(ls)]) = "BLOCKED"
  /\ \E u \in User : pair[u].was

LEMMA ViewIs ==
  /\ View = ViewOf(edge, loc, torn, clashed) /\ WereFriends = WereOf(edge, loc, torn, clashed)
  /\ View' = ViewOf(edge', loc', torn', clashed') /\ WereFriends' = WereOf(edge', loc', torn', clashed')
  /\ WereFriends \in BOOLEAN /\ WereFriends' \in BOOLEAN
  <1> USE DEF View, ViewOf, WereFriends, WereOf, Collides, CollideIn, CollidesAt, Writing,
              Writer, WriterIn, FriendStatus, StatusIn, AtOdds
  <1>1. View = ViewOf(edge, loc, torn, clashed) OBVIOUS
  <1>2. View' = ViewOf(edge', loc', torn', clashed') OBVIOUS
  <1>3. WereFriends = WereOf(edge, loc, torn, clashed) OBVIOUS
  <1>4. WereFriends' = WereOf(edge', loc', torn', clashed') OBVIOUS
  <1>5. WereFriends \in BOOLEAN /\ WereFriends' \in BOOLEAN OBVIOUS
  <1> QED BY <1>1, <1>2, <1>3, <1>4, <1>5

\* What the pair is to its users while no plan is half run, told from the document of x.
SettledPair(pair) ==
  \A u \in User :
    /\ pair[u].status = "accepted" <=> pair[Other(u)].status = "accepted"
    /\ pair[u].status \in {"blocked", "pending"} => pair[Other(u)].status # "pending"
    /\ pair[u].was => pair[Other(u)].was /\ pair[u].status = "blocked"

Fits(pair, view, were, x) ==
  /\ pair[x].status = "accepted" => view = Same("FRIENDS") /\ ~were
  /\ pair[x].status = "blocked"  => view = Same("BLOCKED") /\ (were <=> pair[x].was)
  /\ pair[x].status = "pending"  => view = AskedBy(x) /\ ~were
  /\ pair[x].status \in {"none", "declined"} /\ pair[Other(x)].status \in {"none", "declined"}
       => view = Same("NONE") /\ ~were

LEMMA SettledView ==
  ASSUME NEW pair, NEW ls, NEW lost, ~lost, NEW clash, ~clash,
         \A h \in Handler : ~ls[h].ran, SettledPair(pair), NEW x \in User
  PROVE  Fits(pair, ViewOf(pair, ls, lost, clash), WereOf(pair, ls, lost, clash), x)
  <1> DEFINE y == Other(x)
             view == ViewOf(pair, ls, lost, clash)
             were == WereOf(pair, ls, lost, clash)
  <1>0. y \in User /\ y # x /\ Other(y) = x /\ \A u \in User : u = x \/ u = y BY UserFacts
  <1>1. /\ pair[x].status = "accepted" <=> pair[y].status = "accepted"
        /\ pair[x].status \in {"blocked", "pending"} => pair[y].status # "pending"
        /\ pair[y].status \in {"blocked", "pending"} => pair[x].status # "pending"
        /\ pair[x].was => pair[y].was /\ pair[x].status = "blocked"
        /\ pair[y].was => pair[x].was /\ pair[y].status = "blocked"
    BY <1>0 DEF SettledPair
  <1>2. ~CollideIn(pair, ls) BY DEF CollideIn
  <1>3. view = [u \in User |-> StatusIn(pair, u)] BY <1>2 DEF ViewOf
  <1>4. were <=> \E u \in User : pair[u].was BY <1>2 DEF WereOf
  <1>5. were <=> pair[x].was BY <1>0, <1>1, <1>4
  <1> SUFFICES Fits(pair, view, were, x) OBVIOUS
  <1> HIDE DEF view, were, y
  <1>7. CASE pair[x].status = "accepted"
    <2>1. StatusIn(pair, x) = "FRIENDS" /\ StatusIn(pair, y) = "FRIENDS"
      BY <1>0, <1>1, <1>7 DEF StatusIn, y
    <2>2. view = Same("FRIENDS") BY <1>0, <1>3, <2>1 DEF Same
    <2> QED BY <1>1, <1>5, <1>7, <2>2 DEF Fits
  <1>8. CASE pair[x].status = "blocked"
    <2>1. StatusIn(pair, x) = "BLOCKED" /\ StatusIn(pair, y) = "BLOCKED"
      BY <1>0, <1>1, <1>8 DEF StatusIn, y
    <2>2. view = Same("BLOCKED") BY <1>0, <1>3, <2>1 DEF Same
    <2> QED BY <1>5, <1>8, <2>2 DEF Fits
  <1>9. CASE pair[x].status = "pending"
    <2>1. StatusIn(pair, x) = "PENDING_OUTGOING" /\ StatusIn(pair, y) = "PENDING_INCOMING"
      BY <1>0, <1>1, <1>9 DEF StatusIn, y
    <2>2. view = AskedBy(x) BY <1>0, <1>3, <2>1 DEF AskedBy
    <2> QED BY <1>1, <1>5, <1>9, <2>2 DEF Fits
  <1>10. CASE pair[x].status \in {"none", "declined"} /\ pair[y].status \in {"none", "declined"}
    <2>1. StatusIn(pair, x) = "NONE" /\ StatusIn(pair, y) = "NONE"
      BY <1>0, <1>10 DEF StatusIn, y
    <2>2. view = Same("NONE") BY <1>0, <1>3, <2>1 DEF Same
    <2> QED BY <1>1, <1>5, <1>10, <2>2 DEF Fits
  <1>11. CASE /\ pair[x].status \notin {"accepted", "blocked", "pending"}
              /\ ~(pair[x].status \in {"none", "declined"} /\ pair[y].status \in {"none", "declined"})
    BY <1>11 DEF Fits, y
  <1> QED BY <1>7, <1>8, <1>9, <1>10, <1>11

\* The same while h is between the writes of its plan.
LEMMA HalfView ==
  ASSUME NEW pair, NEW ls, NEW lost, ~lost, NEW clash, ~clash, NEW h \in Handler, ls[h].ran,
         \A g \in Handler : ls[g].ran => g = h
  PROVE  LET o == Outcome(ls[h])
         IN /\ CollidesAt(pair, ls[h]) =>
                 ViewOf(pair, ls, lost, clash) = Same("CLASHED") /\ ~WereOf(pair, ls, lost, clash)
            /\ ~CollidesAt(pair, ls[h]) =>
                 /\ ViewOf(pair, ls, lost, clash) = Same(o)
                 /\ WereOf(pair, ls, lost, clash) <=> o = "BLOCKED" /\ \E u \in User : pair[u].was
  <1> DEFINE o == Outcome(ls[h])
  <1>1. CollideIn(pair, ls) <=> CollidesAt(pair, ls[h]) BY DEF CollideIn
  <1>2. WriterIn(ls) = h BY DEF WriterIn
  <1> HIDE DEF o
  <1>3. ASSUME CollidesAt(pair, ls[h])
        PROVE  ViewOf(pair, ls, lost, clash) = Same("CLASHED") /\ ~WereOf(pair, ls, lost, clash)
    BY <1>1, <1>3 DEF ViewOf, WereOf, Same
  <1>4. ASSUME ~CollidesAt(pair, ls[h])
        PROVE  /\ ViewOf(pair, ls, lost, clash) = Same(o)
               /\ WereOf(pair, ls, lost, clash) <=> o = "BLOCKED" /\ \E u \in User : pair[u].was
    <2>1. Outcome(ls[WriterIn(ls)]) = o BY <1>2 DEF o
    <2> QED BY <1>1, <1>4, <2>1 DEF ViewOf, WereOf, Same
  <1> QED BY <1>3, <1>4 DEF o

LEMMA LostView ==
  ASSUME NEW pair, NEW ls, NEW lost, lost, NEW clash
  PROVE  ViewOf(pair, ls, lost, clash) = Same("UNKNOWN") /\ ~WereOf(pair, ls, lost, clash)
  BY DEF ViewOf, WereOf, Same

LEMMA ClashView ==
  ASSUME NEW pair, NEW ls, NEW lost, ~lost, NEW clash, clash
  PROVE  ViewOf(pair, ls, lost, clash) = Same("CLASHED") /\ ~WereOf(pair, ls, lost, clash)
  BY DEF ViewOf, WereOf, Same

LEMMA SettledIsPair ==
  /\ Settled => SettledPair(edge)
  /\ Settled' => SettledPair(edge')
  <1>1. Settled => SettledPair(edge) BY DEF Settled, SettledPair
  <1>2. Settled' => SettledPair(edge') BY DEF Settled, SettledPair
  <1> QED BY <1>1, <1>2

\* The second write of a plan shows what the first has shown already.
LEMMA SecondView ==
  ASSUME IInv, ~AtOdds, ~AtOdds', NEW h \in Handler, loc[h].ran, NEW c \in Commands,
         c = Head(loc[h].plan), c.do # "upsert", Half(edge, consent, loc[h], c), Effect(h, c),
         Settled', \A g \in Handler : ~loc'[g].ran
  PROVE  View' = View /\ WereFriends' = WereFriends
  <1> DEFINE l == loc[h]
             u == l.by
             v == Other(u)
             x == c.edge
             y == Other(x)
             o == Outcome(l)
  <1>0. /\ u \in User /\ v \in User /\ Other(v) = u /\ u # v /\ x \in User /\ y \in User /\ Other(y) = x
        /\ x # y /\ \A w \in User : w = u \/ w = v
        /\ edge'[y] = edge[y] /\ Performed(l.op, c, edge[x], edge'[x])
    BY UserFacts DEF IInv, TypeOK, Locals, Commands, Effect
  <1>1. ~CollidesAt(edge, l) BY <1>0 DEF CollidesAt, Half, Performed
  <1>2. \A g \in Handler : loc[g].ran => g = h BY DEF IInv, Orderly
  <1>3. View = Same(o) /\ (WereFriends <=> o = "BLOCKED" /\ \E w \in User : edge[w].was)
    <2>1. /\ ViewOf(edge, loc, torn, clashed) = Same(o)
          /\ WereOf(edge, loc, torn, clashed) <=> o = "BLOCKED" /\ \E w \in User : edge[w].was
      BY <1>1, <1>2, HalfView DEF AtOdds
    <2> QED BY <2>1, ViewIs
  <1>4. \A w \in User : Fits(edge', View', WereFriends', w)
    <2>1. \A w \in User :
            Fits(edge', ViewOf(edge', loc', torn', clashed'), WereOf(edge', loc', torn', clashed'), w)
      BY SettledIsPair, SettledView DEF AtOdds
    <2> QED BY <2>1, ViewIs
  <1>5. SettledPair(edge') BY SettledIsPair
  <1>6. NoFriend.status = "none" BY DEF NoFriend
  <1>7. o = CASE l.op \in {"send", "accept", "import"} -> "FRIENDS"
              [] l.op = "block"                        -> "BLOCKED"
              [] l.op = "unblock" /\ c.do = "update"   -> "FRIENDS"
              [] OTHER                                 -> "NONE"
    BY DEF Outcome
  <1> SUFFICES View' = View /\ (WereFriends' <=> WereFriends) BY ViewIs
  <1> HIDE DEF l, u, v, x, y, o
  <1>8. ASSUME o = "FRIENDS", edge'[x].status = "accepted"
        PROVE  View' = View /\ (WereFriends' <=> WereFriends)
    BY <1>0, <1>3, <1>4, <1>8 DEF Fits
  <1>9. ASSUME o = "NONE", edge'[x] = NoFriend, edge'[y] = NoFriend
        PROVE  View' = View /\ (WereFriends' <=> WereFriends)
    BY <1>0, <1>3, <1>4, <1>6, <1>9 DEF Fits, y
  <1>10. CASE l.op \in {"send", "accept", "import"} /\ edge'[x].status = "accepted"
    <2>1. o = "FRIENDS" BY <1>7, <1>10
    <2> QED BY <1>8, <1>10, <2>1
  <1>11. CASE l.op = "remove" /\ edge'[x] = NoFriend /\ edge'[y] = NoFriend
    <2>1. o = "NONE" BY <1>7, <1>11
    <2> QED BY <1>9, <1>11, <2>1
  <1>12. CASE l.op = "block" /\ y = u /\ edge[u].status = "blocked" /\ (edge[v].was => edge[u].was)
    <2>1. o = "BLOCKED" BY <1>7, <1>12
    <2>2. WereFriends <=> edge[u].was BY <1>0, <1>3, <1>12, <2>1
    <2>3. View' = Same("BLOCKED") /\ (WereFriends' <=> edge[u].was) BY <1>0, <1>4, <1>12 DEF Fits
    <2> QED BY <1>3, <2>1, <2>2, <2>3
  <1>13. CASE l.op = "unblock" /\ c.do = "update" /\ edge'[x].status = "accepted"
    <2>1. o = "FRIENDS" BY <1>7, <1>13
    <2> QED BY <1>8, <1>13, <2>1
  <1>14. CASE l.op = "unblock" /\ c.do = "delete" /\ edge'[x] = NoFriend /\ edge'[y] = NoFriend
    <2>1. o = "NONE" BY <1>7, <1>14
    <2> QED BY <1>9, <1>14, <2>1
  <1>15. \/ l.op \in {"send", "accept", "import"} /\ edge'[x].status = "accepted"
         \/ l.op = "remove" /\ edge'[x] = NoFriend /\ edge'[y] = NoFriend
         \/ l.op = "block" /\ y = u /\ edge[u].status = "blocked" /\ (edge[v].was => edge[u].was)
         \/ l.op = "unblock" /\ c.do = "update" /\ edge'[x].status = "accepted"
         \/ l.op = "unblock" /\ c.do = "delete" /\ edge'[x] = NoFriend /\ edge'[y] = NoFriend
    <2>1. Half(edge, consent, l, c) BY DEF l
    <2>2. x = v => y = u BY <1>0 DEF y
    <2>3. CASE c.do \in {"create", "update"} /\ c.status = "accepted"
      <3>1. edge'[x].status = "accepted" BY <1>0, <2>1, <2>3 DEF Half, Performed, u, v
      <3> QED BY <2>1, <2>3, <3>1 DEF Half, u, v
    <2>4. CASE c.do = "delete"
      <3>1. /\ l.op = "remove" \/ l.op = "unblock"
            /\ x = v /\ c.id = edge[v].id /\ edge[u] = NoFriend
        BY <2>1, <2>4 DEF Half, u, v, x
      <3>2. edge'[x] = NoFriend /\ edge'[y] = NoFriend BY <1>0, <2>2, <2>4, <3>1 DEF Performed
      <3> QED BY <2>4, <3>1, <3>2
    <2>5. CASE c.do \in {"create", "update"} /\ c.status # "accepted"
      <3>1. /\ l.op = "block" /\ x = v
            /\ edge[u].status = "blocked" /\ (edge[v].was => edge[u].was)
        BY <2>1, <2>5 DEF Half, u, v, x
      <3> QED BY <2>2, <3>1
    <2>6. c.do \in {"create", "update", "delete"} BY DEF Commands
    <2> QED BY <2>3, <2>4, <2>5, <2>6
  <1> QED BY <1>10, <1>11, <1>12, <1>13, <1>14, <1>15

\* The steps of the relation, in the terms of this module.
Moves ==
  \/ UNCHANGED <<View, WereFriends>>
  \/ \E u \in User : \/ View = Same("NONE") /\ View' = AskedBy(u) /\ (WereFriends' <=> WereFriends)
                     \/ /\ View = AskedBy(u) /\ View' \in {Same("FRIENDS"), Same("NONE")}
                        /\ WereFriends' <=> WereFriends
  \/ View = Same("FRIENDS") /\ View' = Same("NONE") /\ (WereFriends' <=> WereFriends)
  \/ View = Same("NONE") /\ View' = Same("FRIENDS") /\ (WereFriends' <=> WereFriends)
  \/ /\ View' = Same("BLOCKED")
     /\ \/ View = Same("NONE") /\ ~WereFriends'
        \/ \E u \in User : View = AskedBy(u) /\ ~WereFriends'
        \/ View = Same("FRIENDS") /\ WereFriends'
  \/ /\ View = Same("BLOCKED") /\ ~WereFriends'
     /\ View' = IF WereFriends THEN Same("FRIENDS") ELSE Same("NONE")
  \/ View \notin {Same("FRIENDS"), Same("UNKNOWN")} /\ View' = Same("CLASHED") /\ ~WereFriends'
  \/ View' = Same("UNKNOWN") /\ ~WereFriends'

LEMMA MovesRelate ==
  ASSUME Moves
  PROVE  [AcquaintanceOfPair!Next]_<<View, WereFriends>>
  <1>1. PICK a \in User : TRUE BY UserFacts
  <1>2. \A s : Same(s)[a] = s BY <1>1 DEF Same
  <1>3. \A u \in User : AskedBy(u)[a] \in {"PENDING_OUTGOING", "PENDING_INCOMING"} BY <1>1 DEF AskedBy
  <1>4. /\ AcquaintanceOfPair!None = Same("NONE") /\ AcquaintanceOfPair!Friends = Same("FRIENDS")
        /\ AcquaintanceOfPair!Blocked = Same("BLOCKED") /\ AcquaintanceOfPair!Unknown = Same("UNKNOWN")
        /\ AcquaintanceOfPair!Clashed = Same("CLASHED")
    BY DEF Same, AcquaintanceOfPair!None, AcquaintanceOfPair!Friends, AcquaintanceOfPair!Blocked,
           AcquaintanceOfPair!Unknown, AcquaintanceOfPair!Clashed, AcquaintanceOfPair!All
  <1>5. \A u \in User : AcquaintanceOfPair!Asked(u) = AskedBy(u) BY DEF AskedBy, AcquaintanceOfPair!Asked
  <1>6. WereFriends \in BOOLEAN /\ WereFriends' \in BOOLEAN BY ViewIs
  <1>7. \A r : View' = r /\ (WereFriends' <=> WereFriends) => AcquaintanceOfPair!Becomes(r)
    BY <1>6 DEF AcquaintanceOfPair!Becomes
  <1>8. CASE UNCHANGED <<View, WereFriends>> BY <1>8
  <1>9. ASSUME NEW u \in User, View = Same("NONE"), View' = AskedBy(u), WereFriends' <=> WereFriends
        PROVE  AcquaintanceOfPair!Next
    <2>1. AcquaintanceOfPair!Ask(u) BY <1>4, <1>5, <1>7, <1>9 DEF AcquaintanceOfPair!Ask
    <2> QED BY <2>1 DEF AcquaintanceOfPair!Next
  <1>10. ASSUME NEW u \in User, View = AskedBy(u), View' \in {Same("FRIENDS"), Same("NONE")},
                WereFriends' <=> WereFriends
         PROVE  AcquaintanceOfPair!Next
    <2>1. AcquaintanceOfPair!Accept(u) \/ AcquaintanceOfPair!Decline(u)
      BY <1>4, <1>5, <1>7, <1>10 DEF AcquaintanceOfPair!Accept, AcquaintanceOfPair!Decline
    <2> QED BY <2>1 DEF AcquaintanceOfPair!Next
  <1>11. CASE View = Same("FRIENDS") /\ View' = Same("NONE") /\ (WereFriends' <=> WereFriends)
    <2>1. AcquaintanceOfPair!Remove BY <1>4, <1>7, <1>11 DEF AcquaintanceOfPair!Remove
    <2> QED BY <2>1 DEF AcquaintanceOfPair!Next
  <1>12. CASE View = Same("NONE") /\ View' = Same("FRIENDS") /\ (WereFriends' <=> WereFriends)
    <2>1. AcquaintanceOfPair!Import BY <1>2, <1>4, <1>7, <1>12 DEF AcquaintanceOfPair!Import
    <2> QED BY <2>1 DEF AcquaintanceOfPair!Next
  <1>13. CASE /\ View' = Same("BLOCKED")
              /\ \/ View = Same("NONE") /\ ~WereFriends'
                 \/ \E u \in User : View = AskedBy(u) /\ ~WereFriends'
                 \/ View = Same("FRIENDS") /\ WereFriends'
    <2>1. View \notin {Same("BLOCKED"), Same("UNKNOWN"), Same("CLASHED")} BY <1>2, <1>3, <1>13
    <2>2. WereFriends' <=> View = Same("FRIENDS") BY <1>2, <1>3, <1>13
    <2>3. WereFriends' = (View = Same("FRIENDS")) BY <1>6, <2>2
    <2>4. AcquaintanceOfPair!Block BY <1>4, <1>13, <2>1, <2>3 DEF AcquaintanceOfPair!Block
    <2> QED BY <2>4 DEF AcquaintanceOfPair!Next
  <1>14. CASE /\ View = Same("BLOCKED") /\ ~WereFriends'
              /\ View' = IF WereFriends THEN Same("FRIENDS") ELSE Same("NONE")
    <2>1. AcquaintanceOfPair!Unblock BY <1>4, <1>6, <1>14 DEF AcquaintanceOfPair!Unblock
    <2> QED BY <2>1 DEF AcquaintanceOfPair!Next
  <1>15. CASE View' = Same("UNKNOWN") /\ ~WereFriends'
    <2>1. AcquaintanceOfPair!Lose BY <1>4, <1>6, <1>15 DEF AcquaintanceOfPair!Lose
    <2> QED BY <2>1 DEF AcquaintanceOfPair!Next
  <1>16. CASE /\ View \notin {Same("FRIENDS"), Same("UNKNOWN")}
              /\ View' = Same("CLASHED") /\ ~WereFriends'
    <2>1. AcquaintanceOfPair!Clash BY <1>4, <1>6, <1>16 DEF AcquaintanceOfPair!Clash
    <2> QED BY <2>1 DEF AcquaintanceOfPair!Next
  <1> QED BY <1>8, <1>9, <1>10, <1>11, <1>12, <1>13, <1>14, <1>15, <1>16 DEF Moves

\* The first write of a plan is where the request takes effect.
LEMMA FirstView ==
  ASSUME IInv, ~AtOdds, ~AtOdds', NEW h \in Handler, \A g \in Handler : ~loc[g].ran, Due(h),
         Settled, Planned(loc[h]), NEW c \in Commands, c = Head(loc[h].plan), Effect(h, c), Continue(h),
         Tail(loc[h].plan) = <<>> => Settled'
  PROVE  Moves
  <1> DEFINE l == loc[h]
             u == l.by
             v == Other(u)
             After == \A w \in User : Fits(edge', View', WereFriends', w)
  <1>0. /\ u \in User /\ v \in User /\ u # v /\ Other(v) = u /\ \A w \in User : w = u \/ w = v
        /\ edge[u] \in UserFriend /\ edge[v] \in UserFriend
        /\ Performed(l.op, c, edge[c.edge], edge'[c.edge]) /\ edge'[Other(c.edge)] = edge[Other(c.edge)]
    BY UserFacts DEF IInv, TypeOK, Locals, Effect
  <1>1. \A w \in User : Fits(edge, View, WereFriends, w)
    <2>1. \A w \in User : Fits(edge, ViewOf(edge, loc, torn, clashed), WereOf(edge, loc, torn, clashed), w)
      BY SettledIsPair, SettledView DEF AtOdds
    <2> QED BY <2>1, ViewIs
  <1>2. /\ edge[u].status = "accepted" <=> edge[v].status = "accepted"
        /\ edge[u].status \in {"blocked", "pending"} => edge[v].status # "pending"
        /\ edge[v].status \in {"blocked", "pending"} => edge[u].status # "pending"
        /\ edge[u].was => edge[v].was /\ edge[u].status = "blocked"
        /\ edge[v].was => edge[u].was /\ edge[v].status = "blocked"
        /\ edge[u].id = 0 <=> edge[u].status = "none"
        /\ edge[v].id = 0 <=> edge[v].status = "none"
        /\ edge[u].id = 0 => ~edge[u].target
        /\ edge[v].id = 0 => ~edge[v].target
    <2>1. NoFriend.status = "none" /\ NoFriend.target = FALSE BY DEF NoFriend
    <2> QED BY <1>0, <2>1 DEF Settled, Sound, IInv, Orderly
  <1>3. /\ edge[u].status \in {"none", "pending", "accepted", "declined", "blocked"}
        /\ edge[v].status \in {"none", "pending", "accepted", "declined", "blocked"}
    BY <1>0 DEF UserFriend, Statuses
  <1>4. NoFriend.id = 0 /\ NoFriend.status = "none" /\ NoFriend.was = FALSE BY DEF NoFriend
  <1>5. ASSUME NEW a, l.plan = <<a>>
        PROVE  a = c /\ After
    <2>1. Tail(l.plan) = <<>> /\ Head(l.plan) = a BY <1>5, PairFacts
    <2>2. loc' = [loc EXCEPT ![h] = NoLocals(AnyUser)] BY <2>1 DEF Continue
    <2>3. \A g \in Handler : ~loc'[g].ran
      <3>1. ~NoLocals(AnyUser).ran BY LocalsTypes, UserFacts
      <3> QED BY <2>2, <3>1 DEF IInv, TypeOK
    <2>4. Settled' BY <2>1
    <2>5. \A w \in User :
            Fits(edge', ViewOf(edge', loc', torn', clashed'), WereOf(edge', loc', torn', clashed'), w)
      BY <2>3, <2>4, SettledIsPair, SettledView DEF AtOdds
    <2> QED BY <2>1, <2>5, ViewIs
  <1>6. ASSUME NEW a, NEW b, NEW o, l.plan = <<a, b>>,
               o = CASE l.op \in {"send", "accept", "import"} -> "FRIENDS"
                     [] l.op = "block"                        -> "BLOCKED"
                     [] l.op = "unblock" /\ b.do = "update"   -> "FRIENDS"
                     [] OTHER                                 -> "NONE"
        PROVE  /\ a = c
               /\ \/ View' = Same("CLASHED") /\ ~WereFriends' /\ l.op = "import"
                  \/ /\ View' = Same(o)
                     /\ WereFriends' <=> o = "BLOCKED" /\ \E w \in User : edge'[w].was
               /\ l.op = "import" /\ edge'[b.edge].id # 0 => View' = Same("CLASHED") /\ ~WereFriends'
    <2> DEFINE k == [l EXCEPT !.plan = <<b>>, !.ran = TRUE]
    <2>1. Tail(l.plan) = <<b>> /\ Head(l.plan) = a /\ <<b>> # <<>> /\ Head(<<b>>) = b BY <1>6, PairFacts
    <2>2. loc' = [loc EXCEPT ![h] = k] BY <2>1 DEF Continue
    <2>3. k.op = l.op /\ k.plan = <<b>> /\ k.ran = TRUE BY DEF IInv, TypeOK, Locals
    <2> HIDE DEF k, l
    <2>4. loc'[h] = k /\ \A g \in Handler : loc'[g].ran => g = h BY <2>2 DEF IInv, TypeOK
    <2>5. Outcome(loc'[h]) = o BY <1>6, <2>1, <2>3, <2>4 DEF Outcome
    <2>6. loc'[h].ran BY <2>3, <2>4
    <2>7. /\ CollidesAt(edge', loc'[h]) =>
               /\ ViewOf(edge', loc', torn', clashed') = Same("CLASHED")
               /\ ~WereOf(edge', loc', torn', clashed')
          /\ ~CollidesAt(edge', loc'[h]) =>
               /\ ViewOf(edge', loc', torn', clashed') = Same(o)
               /\ WereOf(edge', loc', torn', clashed') <=> o = "BLOCKED" /\ \E w \in User : edge'[w].was
      BY <2>4, <2>5, <2>6, HalfView DEF AtOdds
    <2>8. CollidesAt(edge', loc'[h]) <=> l.op = "import" /\ edge'[b.edge].id # 0
      BY <2>1, <2>3, <2>4 DEF CollidesAt
    <2> QED BY <2>1, <2>7, <2>8, ViewIs DEF l
  <1> HIDE DEF l, u, v
  <1>7. CASE /\ l.op \in {"send", "accept"} /\ edge[v].status = "pending"
             /\ l.plan = AcceptPlan(l, edge[v])
    <2>1. l.plan = <<Update(v, edge[v].id, "accepted", "keep"), Upsert(u)>> BY <1>7 DEF AcceptPlan, u, v
    <2>2. View' = Same("FRIENDS") /\ ~WereFriends' BY <1>6, <1>7, <2>1
    <2>3. View = AskedBy(v) /\ ~WereFriends BY <1>0, <1>1, <1>7 DEF Fits
    <2> QED BY <1>0, <2>2, <2>3 DEF Moves
  <1>8. CASE /\ l.op = "send" /\ edge[u].status \in {"none", "declined"}
             /\ edge[v].status \notin {"blocked", "pending"} /\ l.plan = <<Create(u, "pending")>>
    <2>1. c = Create(u, "pending") /\ After BY <1>5, <1>8
    <2>2. c.do = "create" /\ c.edge = u /\ c.status = "pending" BY <2>1 DEF Create, Cmd
    <2>3. View = Same("NONE") /\ ~WereFriends BY <1>0, <1>1, <1>2, <1>3, <1>8 DEF Fits
    <2>4. CASE edge'[u].status = "pending"
      <3>1. View' = AskedBy(u) /\ ~WereFriends' BY <1>0, <2>1, <2>4 DEF Fits
      <3> QED BY <1>0, <2>3, <3>1 DEF Moves
    <2>5. CASE edge'[u] = edge[u]
      <3>1. edge'[v] = edge[v] BY <1>0, <2>2 DEF v
      <3>2. View' = Same("NONE") /\ ~WereFriends'
        BY <1>0, <1>2, <1>3, <1>8, <2>1, <2>5, <3>1 DEF Fits
      <3> QED BY <2>3, <3>2, ViewIs DEF Moves
    <2> QED BY <1>0, <2>2, <2>4, <2>5 DEF Performed
  <1>9. CASE /\ l.op = "decline" /\ edge[v].status = "pending"
             /\ l.plan = <<Update(v, edge[v].id, "declined", "keep")>>
    <2>1. c = Update(v, edge[v].id, "declined", "keep") /\ After BY <1>5, <1>9
    <2>2. c.do = "update" /\ c.edge = v /\ c.status = "declined" BY <2>1 DEF Update, Cmd
    <2>3. edge'[v].status = "declined" /\ edge'[u] = edge[u] BY <1>0, <2>2 DEF Performed
    <2>4. View = AskedBy(v) /\ ~WereFriends BY <1>0, <1>1, <1>9 DEF Fits
    <2>5. edge[u].status \in {"none", "declined"} BY <1>2, <1>3, <1>9
    <2>6. View' = Same("NONE") /\ ~WereFriends' BY <1>0, <2>1, <2>3, <2>5 DEF Fits
    <2> QED BY <1>0, <2>4, <2>6 DEF Moves
  <1>10. CASE l.own = edge[u] /\ l.rev = edge[v] /\ l.op = "remove" /\ edge[u].status = "accepted"
              /\ l.plan = RemovePlan(l)
    <2>1. l.plan = <<Delete(u, edge[u].id), Delete(v, edge[v].id)>>
      BY <1>2, <1>10, PlanShapes DEF u, v
    <2>2. View' = Same("NONE") /\ ~WereFriends' BY <1>6, <1>10, <2>1
    <2>3. View = Same("FRIENDS") /\ ~WereFriends BY <1>0, <1>1, <1>10 DEF Fits
    <2> QED BY <2>2, <2>3 DEF Moves
  <1>11. CASE l.own = edge[u] /\ l.rev = edge[v] /\ l.op = "block" /\ l.plan = BlockPlan(l)
    <2> DEFINE friends == edge[u].status = "accepted" /\ edge[v].status = "accepted"
               a == BlockOwn(l)
               b == BlockReverse(l)
    <2>1. l.plan = IF edge[v].id # 0 THEN <<a, b>> ELSE <<a>> BY <1>11, PlanShapes
    <2>2. a = c /\ (edge[v].id = 0 => After)
          /\ (edge[v].id # 0 => /\ View' = Same("BLOCKED")
                                /\ WereFriends' <=> \E w \in User : edge'[w].was)
      <3>1. CASE edge[v].id = 0 BY <1>5, <2>1, <3>1
      <3>2. CASE edge[v].id # 0
        <4>1. l.plan = <<a, b>> BY <2>1, <3>2
        <4> HIDE DEF a, b
        <4> QED BY <1>6, <1>11, <3>2, <4>1
      <3> QED BY <3>1, <3>2
    <2>3. /\ a.edge = u /\ a.status = "blocked"
          /\ \/ a.do = "update" /\ a.id = edge[u].id /\ a.flags = (IF friends THEN "was" ELSE "keep")
             \/ a.do = "create" /\ edge[u].id = 0
      BY <1>11 DEF BlockOwn, Befriended, Update, Create, Cmd, u
    <2> HIDE DEF a, b
    <2>4. /\ edge'[u].status = "blocked" /\ edge'[v] = edge[v]
          /\ edge'[u].was <=> friends \/ edge[u].was
      <3>1. edge'[v] = edge[v] BY <1>0, <2>2, <2>3 DEF v
      <3>2. Performed(l.op, c, edge[u], edge'[u]) BY <1>0, <2>2, <2>3
      <3>3. edge[u].id = 0 => ~edge[u].was /\ ~friends BY <1>2
      <3> QED BY <2>2, <2>3, <3>1, <3>2, <3>3 DEF Performed
    <2>5. View' = Same("BLOCKED") /\ (WereFriends' <=> friends \/ edge[u].was)
      <3>1. CASE edge[v].id = 0 BY <1>0, <2>2, <2>4, <3>1 DEF Fits
      <3>2. CASE edge[v].id # 0
        <4>1. WereFriends' <=> edge'[u].was \/ edge'[v].was BY <1>0, <2>2, <3>2
        <4> QED BY <1>2, <2>2, <2>4, <3>2, <4>1
      <3> QED BY <3>1, <3>2
    <2>6. CASE friends
      <3>1. View = Same("FRIENDS") BY <1>0, <1>1, <2>6 DEF Fits
      <3> QED BY <2>5, <2>6, <3>1 DEF Moves
    <2>7. CASE edge[u].status = "blocked" \/ edge[v].status = "blocked"
      <3>1. View = Same("BLOCKED") /\ (WereFriends <=> edge[u].was)
        BY <1>0, <1>1, <1>2, <2>7 DEF Fits
      <3>2. ~friends BY <1>2, <2>7
      <3> QED BY <2>5, <3>1, <3>2, ViewIs DEF Moves
    <2>8. CASE ~friends /\ ~(edge[u].status = "blocked" \/ edge[v].status = "blocked")
      <3>1. View = Same("NONE") \/ View = AskedBy(u) \/ View = AskedBy(v)
        BY <1>0, <1>1, <1>2, <1>3, <2>8 DEF Fits
      <3>2. ~WereFriends' BY <1>2, <2>5, <2>8
      <3> QED BY <1>0, <2>5, <3>1, <3>2 DEF Moves
    <2> QED BY <2>6, <2>7, <2>8
  <1>12. CASE l.own = edge[u] /\ l.rev = edge[v] /\ l.op = "unblock" /\ edge[u].status = "blocked"
              /\ l.plan = UnblockPlan(l) /\ edge[u].was /\ edge[v].was
    <2> DEFINE b == Update(v, edge[v].id, "accepted", "clear")
    <2>1. l.plan = <<Update(u, edge[u].id, "accepted", "clear"), b>> BY <1>12 DEF UnblockPlan, u, v
    <2>2. b.do = "update" BY DEF Update, Cmd
    <2> HIDE DEF b
    <2>3. View' = Same("FRIENDS") /\ ~WereFriends' BY <1>6, <1>12, <2>1, <2>2
    <2>4. View = Same("BLOCKED") /\ WereFriends BY <1>0, <1>1, <1>12 DEF Fits
    <2> QED BY <2>3, <2>4 DEF Moves
  <1>13. CASE l.own = edge[u] /\ l.rev = edge[v] /\ l.op = "unblock" /\ edge[u].status = "blocked"
              /\ l.plan = UnblockPlan(l) /\ ~(edge[u].was /\ edge[v].was)
    <2> DEFINE a == Delete(u, edge[u].id)
               b == Delete(v, edge[v].id)
    <2>1. l.plan = IF edge[v].target THEN <<a, b>> ELSE <<a>> BY <1>13, PlanShapes DEF u, v
    <2>2. a.do = "delete" /\ a.edge = u /\ a.id = edge[u].id /\ b.do = "delete" BY DEF Delete, Cmd
    <2> HIDE DEF a, b
    <2>3. View = Same("BLOCKED") /\ ~WereFriends BY <1>0, <1>1, <1>2, <1>13 DEF Fits
    <2>4. CASE edge[v].target
      <3>1. l.plan = <<a, b>> BY <2>1, <2>4
      <3>2. View' = Same("NONE") /\ ~WereFriends' BY <1>6, <1>13, <2>2, <3>1
      <3> QED BY <2>3, <3>2 DEF Moves
    <2>5. CASE ~edge[v].target
      <3>1. a = c /\ After BY <1>5, <2>1, <2>5
      <3>2. edge'[u] = NoFriend /\ edge'[v] = edge[v] BY <1>0, <2>2, <3>1 DEF Performed, v
      <3>3. ~edge[v].was BY <1>2, <1>13
      <3>4. edge[v].status \in {"none", "declined", "blocked"} BY <1>2, <1>3, <1>13
      <3>5. View' \in {Same("NONE"), Same("BLOCKED")} /\ ~WereFriends'
        BY <1>0, <1>4, <3>1, <3>2, <3>3, <3>4 DEF Fits
      <3> QED BY <2>3, <3>5, ViewIs DEF Moves
    <2> QED BY <2>4, <2>5
  <1>14. CASE l.own = edge[u] /\ l.rev = edge[v] /\ l.op = "import" /\ edge[u].status # "accepted"
              /\ l.plan = ImportPlan(l) /\ edge[v].status = "pending"
    <2>1. l.plan = <<Update(v, edge[v].id, "accepted", "keep"), Create(u, "accepted")>>
      BY <1>14 DEF ImportPlan, u, v
    <2>2. View' \in {Same("FRIENDS"), Same("CLASHED")} /\ ~WereFriends' BY <1>6, <1>14, <2>1
    <2>3. View = AskedBy(v) /\ ~WereFriends BY <1>0, <1>1, <1>14 DEF Fits
    <2>4. View \notin {Same("FRIENDS"), Same("UNKNOWN")} BY <1>0, <2>3 DEF Same, AskedBy
    <2> QED BY <1>0, <2>2, <2>3, <2>4 DEF Moves
  <1>15. CASE l.own = edge[u] /\ l.rev = edge[v] /\ l.op = "import" /\ edge[u].status # "accepted"
              /\ l.plan = ImportPlan(l) /\ edge[v].status # "pending"
    <2> DEFINE a == Create(u, "accepted")
               b == Create(v, "accepted")
    <2>1. l.plan = <<a, b>> BY <1>15 DEF ImportPlan, u, v
    <2>2. a.do = "create" /\ a.edge = u /\ b.edge = v BY DEF Create, Cmd
    <2> HIDE DEF a, b
    <2>3. a = c BY <1>6, <2>1
    <2>4. \/ View' = Same("CLASHED") /\ ~WereFriends'
          \/ View' = Same("FRIENDS") /\ ~WereFriends'
      BY <1>6, <1>15, <2>1
    <2>5. edge[u].id = 0 BY <1>0, <1>15, <2>2, <2>3 DEF Performed
    <2>6. CASE edge[v].status \in {"none", "declined"}
      <3>1. View = Same("NONE") /\ ~WereFriends BY <1>0, <1>1, <1>2, <2>5, <2>6 DEF Fits
      <3>2. View \notin {Same("FRIENDS"), Same("UNKNOWN")} BY <1>0, <3>1 DEF Same
      <3> QED BY <2>4, <3>1, <3>2 DEF Moves
    <2>7. CASE edge[v].status = "blocked"
      <3>1. edge'[v] = edge[v] /\ edge[v].id # 0 BY <1>0, <1>2, <2>2, <2>3, <2>7 DEF v
      <3>2. View' = Same("CLASHED") /\ ~WereFriends' BY <1>6, <1>15, <2>1, <2>2, <3>1
      <3>3. View = Same("BLOCKED") BY <1>0, <1>1, <2>7 DEF Fits
      <3>4. View \notin {Same("FRIENDS"), Same("UNKNOWN")} BY <1>0, <3>3 DEF Same
      <3> QED BY <3>2, <3>4 DEF Moves
    <2> QED BY <1>2, <1>3, <1>15, <2>6, <2>7
  <1> QED
    BY <1>7, <1>8, <1>9, <1>10, <1>11, <1>12, <1>13, <1>14, <1>15 DEF Planned, l, u, v

\* A step that writes nothing shows nothing new.
LEMMA StillView ==
  ASSUME IInv, ~AtOdds, ~AtOdds', edge' = edge, NEW h \in Handler,
         \A g \in Handler \ {h} : loc'[g] = loc[g], loc'[h].ran <=> loc[h].ran,
         loc[h].ran => loc'[h].op = loc[h].op /\ loc[h].op \notin {"import", "unblock"}
  PROVE  Moves
  <1>0. ~torn /\ ~torn' /\ ~clashed /\ ~clashed' BY DEF AtOdds
  <1>1. \A g \in Handler : loc'[g].ran <=> loc[g].ran OBVIOUS
  <1> SUFFICES /\ ViewOf(edge', loc', torn', clashed') = ViewOf(edge, loc, torn, clashed)
               /\ WereOf(edge', loc', torn', clashed') <=> WereOf(edge, loc, torn, clashed)
    BY ViewIs DEF Moves
  <1>2. CASE \A g \in Handler : ~loc[g].ran
    <2>1. ~CollideIn(edge, loc) /\ ~CollideIn(edge', loc') BY <1>1, <1>2 DEF CollideIn
    <2>2. ViewOf(edge', loc', torn', clashed') = ViewOf(edge, loc, torn, clashed)
      BY <1>0, <1>1, <1>2, <2>1 DEF ViewOf
    <2>3. WereOf(edge', loc', torn', clashed') <=> WereOf(edge, loc, torn, clashed)
      BY <1>0, <1>1, <1>2, <2>1 DEF WereOf
    <2> QED BY <2>2, <2>3
  <1>3. CASE \E g \in Handler : loc[g].ran
    <2>1. PICK g \in Handler : loc[g].ran BY <1>3
    <2>2. \A f \in Handler : (loc[f].ran => f = g) /\ (loc'[f].ran => f = g)
      BY <1>1, <2>1 DEF IInv, Orderly
    <2>3. /\ Outcome(loc'[g]) = Outcome(loc[g])
          /\ CollidesAt(edge', loc'[g]) <=> CollidesAt(edge, loc[g])
      <3>1. CASE g # h BY <3>1
      <3>2. CASE g = h BY <2>1, <3>2 DEF Outcome, CollidesAt
      <3> QED BY <3>1, <3>2
    <2>4. /\ CollidesAt(edge, loc[g]) =>
               ViewOf(edge, loc, torn, clashed) = Same("CLASHED") /\ ~WereOf(edge, loc, torn, clashed)
          /\ ~CollidesAt(edge, loc[g]) =>
               /\ ViewOf(edge, loc, torn, clashed) = Same(Outcome(loc[g]))
               /\ WereOf(edge, loc, torn, clashed) <=>
                    Outcome(loc[g]) = "BLOCKED" /\ \E u \in User : edge[u].was
      BY <1>0, <2>1, <2>2, HalfView
    <2>5. /\ CollidesAt(edge', loc'[g]) =>
               /\ ViewOf(edge', loc', torn', clashed') = Same("CLASHED")
               /\ ~WereOf(edge', loc', torn', clashed')
          /\ ~CollidesAt(edge', loc'[g]) =>
               /\ ViewOf(edge', loc', torn', clashed') = Same(Outcome(loc'[g]))
               /\ WereOf(edge', loc', torn', clashed') <=>
                    Outcome(loc'[g]) = "BLOCKED" /\ \E u \in User : edge'[u].was
      <3>1. loc'[g].ran /\ \A f \in Handler : loc'[f].ran => f = g BY <1>1, <2>1, <2>2
      <3> DEFINE pair == edge'
                 ls == loc'
                 lost == torn'
                 clash == clashed'
      <3>2. ~lost /\ ~clash /\ ls[g].ran /\ \A f \in Handler : ls[f].ran => f = g BY <1>0, <3>1
      <3> HIDE DEF pair, ls, lost, clash
      <3>3. /\ CollidesAt(pair, ls[g]) =>
                 ViewOf(pair, ls, lost, clash) = Same("CLASHED") /\ ~WereOf(pair, ls, lost, clash)
            /\ ~CollidesAt(pair, ls[g]) =>
                 /\ ViewOf(pair, ls, lost, clash) = Same(Outcome(ls[g]))
                 /\ WereOf(pair, ls, lost, clash) <=>
                      Outcome(ls[g]) = "BLOCKED" /\ \E u \in User : pair[u].was
        BY <2>1, <3>2, HalfView
      <3> QED BY <3>3 DEF pair, ls, lost, clash
    <2> QED BY <2>3, <2>4, <2>5
  <1> QED BY <1>2, <1>3

LEMMA LostMoves ==
  ASSUME torn'
  PROVE  Moves
  <1>1. ViewOf(edge', loc', torn', clashed') = Same("UNKNOWN") /\ ~WereOf(edge', loc', torn', clashed')
    BY LostView
  <1> QED BY <1>1, ViewIs DEF Moves

\* What has clashed stays so, whatever is written later.
LEMMA ClashStays ==
  ASSUME ~torn, ~torn', clashed, clashed'
  PROVE  Moves
  <1>1. ViewOf(edge, loc, torn, clashed) = Same("CLASHED") /\ ~WereOf(edge, loc, torn, clashed)
    BY ClashView
  <1>2. ViewOf(edge', loc', torn', clashed') = Same("CLASHED") /\ ~WereOf(edge', loc', torn', clashed')
    BY ClashView
  <1>3. View' = View /\ WereFriends' = WereFriends BY <1>1, <1>2, ViewIs
  <1> QED BY <1>3 DEF Moves

\* An import meets a document where it was to make one: with its first command, over what its
\* user has asked, declined or blocked; or with its second, which the first has shown already.
LEMMA ClashMoves ==
  ASSUME IInv, ~AtOdds, ~torn', clashed', NEW h \in Handler, Due(h), NEW c \in Commands,
         c = Head(loc[h].plan), loc[h].op = "import", c.do = "create", edge[c.edge].id # 0,
         ~overtaken[h], \A g \in Handler \ {h} : ~loc[g].ran
  PROVE  Moves
  <1> DEFINE l == loc[h]
             u == l.by
             v == Other(u)
  <1>1. View' = Same("CLASHED") /\ ~WereFriends'
    <2>1. ViewOf(edge', loc', torn', clashed') = Same("CLASHED") /\ ~WereOf(edge', loc', torn', clashed')
      BY ClashView
    <2> QED BY <2>1, ViewIs
  <1>2. AnyUser \in User /\ \A s : Same(s)[AnyUser] = s BY UserFacts DEF Same
  <1>3. CASE l.ran
    <2>1. CollidesAt(edge, l) BY DEF CollidesAt
    <2>2. ViewOf(edge, loc, torn, clashed) = Same("CLASHED")
      BY <1>3, <2>1, HalfView DEF AtOdds
    <2>3. View = Same("CLASHED") BY <2>2, ViewIs
    <2>4. View \notin {Same("FRIENDS"), Same("UNKNOWN")} BY <1>2, <2>3
    <2> QED BY <1>1, <2>4 DEF Moves
  <1>4. CASE ~l.ran
    <2>0. u \in User /\ v \in User /\ Other(v) = u BY UserFacts DEF IInv, TypeOK, Locals
    <2>1. Settled /\ Planned(l) /\ Sound BY <1>4 DEF IInv, Orderly, Current, Due
    <2>2. edge[u].status # "accepted" /\ l.plan = ImportPlan(l) /\ l.rev = edge[v]
      BY <2>1 DEF Planned
    <2>3. edge[v].status # "accepted" BY <2>0, <2>1, <2>2 DEF Settled
    <2>4. \A w \in User : Fits(edge, View, WereFriends, w)
      <3>1. \A w \in User :
              Fits(edge, ViewOf(edge, loc, torn, clashed), WereOf(edge, loc, torn, clashed), w)
        BY <1>4, <2>1, SettledIsPair, SettledView DEF AtOdds
      <3> QED BY <3>1, ViewIs
    <2>5. edge[v].status # "pending"
      <3>1. ASSUME edge[v].status = "pending" PROVE c.do = "update"
        <4>1. l.plan = <<Update(v, edge[v].id, "accepted", "keep"), Create(u, "accepted")>>
          BY <2>2, <3>1 DEF ImportPlan
        <4>2. c = Update(v, edge[v].id, "accepted", "keep") BY <4>1, PairFacts
        <4> QED BY <4>2 DEF Update, Cmd
      <3> QED BY <3>1
    <2>6. /\ edge[u].status \in {"none", "pending", "declined", "blocked"}
          /\ edge[v].status \in {"none", "declined", "blocked"}
      BY <2>0, <2>2, <2>3, <2>5 DEF IInv, TypeOK, UserFriend, Statuses
    <2>7. View \in {Same("NONE"), Same("BLOCKED"), AskedBy(u)}
      BY <2>0, <2>4, <2>6 DEF Fits
    <2>8. AskedBy(u)[AnyUser] \in {"PENDING_OUTGOING", "PENDING_INCOMING"} BY <1>2 DEF AskedBy
    <2>9. View \notin {Same("FRIENDS"), Same("UNKNOWN")} BY <1>2, <2>7, <2>8
    <2> QED BY <1>1, <2>9 DEF Moves
  <1> QED BY <1>3, <1>4

LEMMA ReadsMove ==
  ASSUME IInv, NEW h \in Handler, ~loc[h].ran,
         \/ RequestStep(h)
         \/ \E step, l : Reads(h, step, l) /\ ~l.ran
         \/ Abort(h)
  PROVE  Moves
  <1>1. CASE torn' BY <1>1, LostMoves
  <1>2. ASSUME ~torn', NEW l, ~l.ran, loc' = [loc EXCEPT ![h] = l], edge' = edge, torn' <=> torn,
               clashed' <=> clashed
        PROVE  Moves
    <2>1. ~torn /\ (\A g \in Handler \ {h} : loc'[g] = loc[g]) /\ loc'[h] = l
      BY <1>2 DEF IInv, TypeOK
    <2>2. loc'[h].ran <=> loc[h].ran BY <1>2, <2>1
    <2>3. CASE clashed BY <1>2, <2>1, <2>3, ClashStays
    <2>4. CASE ~clashed
      <3>1. ~AtOdds /\ ~AtOdds' BY <1>2, <2>1, <2>4 DEF AtOdds
      <3> QED BY <1>2, <2>1, <2>2, <3>1, StillView
    <2> QED BY <2>3, <2>4
  <1>3. CASE ~torn' /\ RequestStep(h)
    <2>1. \E u, op, step, rev : Receive(h, u, op, step, NoFriend, rev)
      BY <1>3 DEF RequestStep, SendFriendRequest, AcceptFriendRequest, DeclineFriendRequest,
                  RemoveFriend, BlockUser, UnblockUser, ImportContact, ReceivePair, ReceiveById
    <2>2. PICK u, op, step, rev : Receive(h, u, op, step, NoFriend, rev) BY <2>1
    <2> DEFINE l == [NoLocals(u) EXCEPT !.op = op, !.own = NoFriend, !.rev = rev]
    <2>3. ~l.ran BY DEF NoLocals
    <2>4. loc' = [loc EXCEPT ![h] = l] /\ edge' = edge /\ torn' = torn /\ clashed' = clashed
      BY <2>2 DEF Receive, collection
    <2> HIDE DEF l
    <2> QED BY <1>2, <1>3, <2>3, <2>4
  <1>4. CASE ~torn' /\ \E step, l : Reads(h, step, l) /\ ~l.ran
    <2>1. PICK step, l : Reads(h, step, l) /\ ~l.ran BY <1>4
    <2>2. loc' = [loc EXCEPT ![h] = l] /\ edge' = edge /\ torn' = torn /\ clashed' = clashed
      BY <2>1 DEF Reads, collection, history
    <2> QED BY <1>2, <1>4, <2>1, <2>2
  <1>5. CASE ~torn' /\ Abort(h)
    <2>1. ~NoLocals(AnyUser).ran BY LocalsTypes, UserFacts
    <2>2. /\ loc' = [loc EXCEPT ![h] = NoLocals(AnyUser)] /\ edge' = edge
          /\ (torn' <=> torn) /\ clashed' = clashed
      BY <1>5 DEF Abort, collection
    <2> QED BY <1>2, <1>5, <2>1, <2>2
  <1> QED BY <1>1, <1>3, <1>4, <1>5

LEMMA FindsMove ==
  ASSUME IInv, NEW h \in Handler, FindOwn(h) \/ FindReverse(h) \/ FindRequest(h)
  PROVE  Moves
  <1> DEFINE own == [loc[h] EXCEPT !.own = edge[loc[h].by]]
             rev == [loc[h] EXCEPT !.rev = edge[Other(loc[h].by)]]
  <1>0. loc[h] \in Locals /\ ~loc[h].ran /\ loc[h].op \in Ops
    BY DEF IInv, TypeOK, Shape, Locals, FindOwn, FindReverse, FindRequest
  <1>1. ~own.ran /\ ~rev.ran /\ rev.op = loc[h].op /\ ~NoLocals(AnyUser).ran
    BY <1>0, LocalsTypes, UserFacts DEF Locals
  <1>2. \A l, p : ~l.ran => ~[l EXCEPT !.plan = p].ran OBVIOUS
  <1>3. ASSUME NEW l, ~l.ran, Refuse(h) \/ (\E step : Reads(h, step, l)) \/ (\E p : Run(h, l, p))
        PROVE  Moves
    <2>1. \E step, k : Reads(h, step, k) /\ ~k.ran BY <1>1, <1>2, <1>3 DEF Refuse, Run
    <2> QED BY <1>0, <2>1, ReadsMove
  <1>4. CASE FindOwn(h)
    <2>1. Refuse(h) \/ Reads(h, "rev", own) BY <1>4 DEF FindOwn
    <2> HIDE DEF own
    <2> QED BY <1>1, <1>3, <2>1
  <1>5. CASE FindReverse(h)
    <2>1. Refuse(h) \/ Reads(h, "byid", rev) \/ (\E p : Run(h, rev, p))
      <3>1. rev.op \in {"send", "remove", "block", "unblock", "import"}
        BY <1>0, <1>1, <1>5 DEF IInv, Shape, Ops, FindReverse
      <3>2. CASE rev.op = "send" BY <1>5, <3>2 DEF FindReverse
      <3>3. CASE rev.op = "remove" BY <1>5, <3>3 DEF FindReverse
      <3>4. CASE rev.op = "block" BY <1>5, <3>4 DEF FindReverse
      <3>5. CASE rev.op = "unblock" BY <1>5, <3>5 DEF FindReverse
      <3>6. CASE rev.op = "import" BY <1>5, <3>6 DEF FindReverse
      <3> QED BY <3>1, <3>2, <3>3, <3>4, <3>5, <3>6
    <2> HIDE DEF rev
    <2> QED BY <1>1, <1>3, <2>1
  <1>6. CASE FindRequest(h)
    <2>1. Refuse(h) \/ (\E p : Run(h, loc[h], p)) BY <1>6 DEF FindRequest
    <2> QED BY <1>0, <1>3, <2>1
  <1> QED BY <1>4, <1>5, <1>6

\* An upsert is the second command of an acceptance; it writes nothing yet.
LEMMA UpsertMoves ==
  ASSUME IInv, NEW h \in Handler, UpsertDoc(h)
  PROVE  Moves
  <1> DEFINE c == Head(loc[h].plan)
             d == edge[c.edge]
             p == <<IF d.id # 0 THEN Update(c.edge, d.id, c.status, "keep") ELSE Create(c.edge, c.status)>>
             k == [loc[h] EXCEPT !.plan = p]
  <1>0. /\ loc[h] \in Locals /\ loc[h].plan \in Seq(Commands) /\ loc[h].plan # <<>> /\ c.do = "upsert"
        /\ Reads(h, "run", k)
    BY DEF IInv, TypeOK, Locals, UpsertDoc, Due
  <1>1. k.ran = loc[h].ran /\ k.op = loc[h].op BY <1>0 DEF Locals
  <1>2. c = loc[h].plan[1] BY <1>0
  <1> HIDE DEF c, k
  <1>3. CASE ~loc[h].ran BY <1>0, <1>1, <1>3, ReadsMove
  <1>4. CASE torn' BY <1>4, LostMoves
  <1>5. CASE ~torn' /\ clashed
    <2>1. ~torn /\ clashed' BY <1>0, <1>5 DEF Reads, history
    <2> QED BY <1>5, <2>1, ClashStays
  <1>6. CASE loc[h].ran /\ ~torn' /\ ~clashed
    <2>1. /\ edge' = edge /\ ~AtOdds /\ ~AtOdds' /\ loc'[h] = k
          /\ \A g \in Handler \ {h} : loc'[g] = loc[g]
      BY <1>0, <1>6 DEF Reads, collection, history, IInv, TypeOK, AtOdds
    <2>2. Half(edge, consent, loc[h], c) BY <1>2, <1>6, <2>1 DEF IInv, Orderly, Midway
    <2>3. loc[h].op \in {"send", "accept"} BY <1>0, <2>2 DEF Half
    <2> QED BY <1>1, <1>6, <2>1, <2>3, StillView
  <1> QED BY <1>3, <1>4, <1>5, <1>6

LEMMA WritesMove ==
  ASSUME IInv, NEW h \in Handler, CreateDoc(h) \/ UpdateDoc(h) \/ DeleteDoc(h)
  PROVE  Moves
  <1>0. Orderly' BY WritesOrderly
  <1>1. CASE torn' BY <1>1, LostMoves
  <1>2. CASE ~torn' /\ Abort(h)
    <2>1. ~loc[h].ran BY <1>2 DEF Abort
    <2> QED BY <1>2, <2>1, ReadsMove
  <1>3. ASSUME ~AtOdds', NEW c \in Commands, NEW doc \in UserFriend, c = Head(loc[h].plan), Due(h),
               Write(h, c, doc), Continue(h), ~AtOdds' => Effect(h, c)
        PROVE  Moves
    <2> DEFINE rest == Tail(loc[h].plan)
    <2>1. ~AtOdds /\ ~overtaken[h] /\ \A g \in Handler \ {h} : ~loc[g].ran
      BY <1>3 DEF Write, AtOdds, IInv, TypeOK
    <2>2. loc[h] \in Locals /\ loc[h].plan \in Seq(Commands) /\ loc[h].plan # <<>> /\ pc[h] = "run"
      BY <1>3 DEF IInv, TypeOK, Locals, Due
    <2>3. Effect(h, c) BY <1>3
    <2>4. rest = <<>> => (\A g \in Handler : ~loc'[g].ran) /\ Settled'
      <3>1. ~NoLocals(AnyUser).ran BY LocalsTypes, UserFacts
      <3>2. rest = <<>> => \A g \in Handler : ~loc'[g].ran
        BY <1>3, <2>1, <3>1 DEF Continue, IInv, TypeOK
      <3> QED BY <1>0, <1>3, <3>2 DEF Orderly
    <2>5. CASE loc[h].ran
      <3>1. Len(loc[h].plan) = 1 /\ Half(edge, consent, loc[h], loc[h].plan[1])
        BY <2>1, <2>5 DEF IInv, Orderly, Midway
      <3>2. rest = <<>> /\ loc[h].plan[1] = c BY <1>3, <2>2, <3>1, OnlyCommand
      <3>3. c.do # "upsert" BY <2>3 DEF Effect, Performed
      <3>4. View' = View /\ WereFriends' = WereFriends
        BY <1>3, <2>1, <2>3, <2>4, <2>5, <3>1, <3>2, <3>3, SecondView
      <3> QED BY <3>4 DEF Moves
    <2>6. CASE ~loc[h].ran
      <3>1. Settled /\ Planned(loc[h]) BY <2>1, <2>2, <2>6 DEF IInv, Orderly, Current
      <3>2. \A g \in Handler : ~loc[g].ran BY <2>1, <2>6
      <3> QED BY <1>3, <2>1, <2>3, <2>4, <3>1, <3>2, FirstView
    <2> QED BY <2>5, <2>6
  <1>4. \/ Abort(h)
        \/ \E c \in Commands, doc \in UserFriend :
             /\ c = Head(loc[h].plan) /\ Due(h) /\ Write(h, c, doc) /\ Continue(h)
             /\ ~AtOdds' => Effect(h, c)
    BY WriteFacts
  <1>5. ASSUME ~torn', clashed', NEW c \in Commands, NEW doc \in UserFriend,
               c = Head(loc[h].plan), Due(h), Write(h, c, doc)
        PROVE  Moves
    <2>1. ~torn /\ ~overtaken[h] /\ \A g \in Handler \ {h} : ~loc[g].ran
      BY <1>5 DEF Write, IInv, TypeOK
    <2>2. CASE clashed BY <1>5, <2>1, <2>2, ClashStays
    <2>3. CASE ~clashed
      <3>1. loc[h].op = "import" /\ c.do = "create" /\ edge[c.edge].id # 0
        BY <1>5, <2>3 DEF Write
      <3>2. ~AtOdds BY <2>1, <2>3 DEF AtOdds
      <3> QED BY <1>5, <2>1, <3>1, <3>2, ClashMoves
    <2> QED BY <2>2, <2>3
  <1>6. torn' \/ (~torn' /\ clashed') \/ ~AtOdds' BY DEF AtOdds
  <1> QED BY <1>1, <1>2, <1>3, <1>4, <1>5, <1>6

LEMMA NextMoves ==
  ASSUME IInv, [Next]_vars
  PROVE  Moves
  <1>1. CASE UNCHANGED vars
    <2>1. edge' = edge /\ loc' = loc /\ torn' = torn /\ clashed' = clashed
      BY <1>1 DEF vars, collection, handlers, history
    <2>2. View' = View /\ WereFriends' = WereFriends BY <2>1, ViewIs
    <2> QED BY <2>2 DEF Moves
  <1>2. ASSUME NEW h \in Handler, RequestStep(h) PROVE Moves
    <2>1. ~loc[h].ran
      BY <1>2 DEF IInv, Shape, RequestStep, SendFriendRequest, AcceptFriendRequest,
                  DeclineFriendRequest, RemoveFriend, BlockUser, UnblockUser, ImportContact,
                  ReceivePair, ReceiveById, Receive
    <2> QED BY <1>2, <2>1, ReadsMove
  <1>3. ASSUME NEW h \in Handler, Fail(h) PROVE Moves
    <2>1. CASE loc[h].ran BY <1>3, <2>1, LostMoves DEF Fail, Abort
    <2>2. CASE ~loc[h].ran BY <1>3, <2>2, ReadsMove DEF Fail
    <2> QED BY <2>1, <2>2
  <1> QED BY <1>1, <1>2, <1>3, FindsMove, UpsertMoves, WritesMove DEF Next

LEMMA InitView ==
  ASSUME Init
  PROVE  AcquaintanceOfPair!Init
  <1>1. \A h \in Handler : ~loc[h].ran
    <2>1. ~NoLocals(AnyUser).ran BY LocalsTypes, UserFacts
    <2> QED BY <2>1 DEF Init
  <1>2. \A u \in User : edge[u] = NoFriend /\ edge[Other(u)] = NoFriend BY UserFacts DEF Init
  <1>3. ~torn /\ ~clashed /\ ~CollideIn(edge, loc) BY <1>1 DEF Init, CollideIn
  <1>4. NoFriend.status = "none" /\ NoFriend.was = FALSE BY DocFacts
  <1>5. \A u \in User : StatusIn(edge, u) = "NONE" BY <1>2, <1>4 DEF StatusIn
  <1>6. ViewOf(edge, loc, torn, clashed) = Same("NONE") BY <1>1, <1>3, <1>5 DEF ViewOf, Same
  <1>7. ~WereOf(edge, loc, torn, clashed) BY <1>1, <1>2, <1>3, <1>4 DEF WereOf
  <1>8. AcquaintanceOfPair!None = Same("NONE")
    BY DEF Same, AcquaintanceOfPair!None, AcquaintanceOfPair!All
  <1> QED BY <1>6, <1>7, <1>8, ViewIs DEF AcquaintanceOfPair!Init

\* FriendsService and the contact import implement Acquaintance, for any number of requests: the
\* two documents are one relation, which a request moves with its first write and only as it
\* says.  Acquaintance promises nothing more after mixed writes or a half-way failure (Lose) or
\* after an import over a document there was (Clash); that the last happens to no two friends
\* is part of the theorem.
THEOREM ImplementsAcquaintance == Spec => ActsAsOneRelation
  <1>1. Init => AcquaintanceOfPair!Init BY InitView
  <1>2. IInv /\ [Next]_vars => [AcquaintanceOfPair!Next]_<<View, WereFriends>>
    BY NextMoves, MovesRelate
  <1> QED BY <1>1, <1>2, Invariance, PTL DEF Spec, ActsAsOneRelation, AcquaintanceOfPair!Spec
=============================================================================
