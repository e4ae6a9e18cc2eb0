------------------------------ MODULE Friendship ------------------------------
(***************************************************************************)
(* The relation of two users: FriendsService and the automatic friendships *)
(* of ContactSyncService over the collection user_friends.                 *)
(*                                                                         *)
(* A pair of users has two documents, one per direction, written one after *)
(* the other: edge[u] is the one whose userId is u.  A handler reads both, *)
(* decides, and then runs its plan, one action per query; the handlers     *)
(* interleave at every await.  A document that is deleted and made again   *)
(* has another id.                                                         *)
(***************************************************************************)
EXTENDS Integers, Sequences, FiniteSets

CONSTANTS User,         \* the two users
          Handler,      \* requests being served at a time
          MaxRequests,  \* bound: requests
          MaxFaults     \* bound: queries that fail

ASSUME FriendshipAssumption ==
  /\ IsFiniteSet(User) /\ Cardinality(User) = 2
  /\ MaxRequests \in Nat /\ MaxFaults \in Nat

VARIABLES
  edge, made,      \* user_friends, and the number of documents made so far
  pc, loc,         \* per handler: the next query, and its local variables
  consent,         \* history: u asked for the friendship, or accepted it
  blocks,          \* history: u has blocked the other, and no unblockUser came since
  overtaken,       \* history: another request has written since this one came
  torn, clashed,   \* history: see Write
  requests, faults

collection == <<edge, made>>
handlers   == <<pc, loc>>
history    == <<consent, blocks, overtaken, torn, clashed>>
bounds     == <<requests, faults>>
vars == <<collection, handlers, history, bounds>>

Other(u) == CHOOSE v \in User : v # u

Statuses == {"none", "pending", "accepted", "declined", "blocked"}
\* was: wasAcceptedFriendship; target: blockedByTarget
UserFriend == [id : Nat, status : Statuses, was : BOOLEAN, target : BOOLEAN]
NoFriend   == [id |-> 0, status |-> "none", was |-> FALSE, target |-> FALSE]

Ops      == {"send", "accept", "decline", "remove", "block", "unblock", "import"}
Commands == [do : {"create", "update", "upsert", "delete"}, edge : User, id : Nat,
             status : Statuses, flags : {"keep", "was", "target", "both", "clear"}]
Locals   == [op : Ops, by : User, own : UserFriend, rev : UserFriend, ran : BOOLEAN,
             plan : Seq(Commands)]
NoLocals(u) == [op |-> "send", by |-> u, own |-> NoFriend, rev |-> NoFriend, ran |-> FALSE,
                plan |-> <<>>]

AnyUser == CHOOSE u \in User : TRUE

Init ==
  /\ edge = [u \in User |-> NoFriend] /\ made = 0
  /\ pc = [h \in Handler |-> "idle"] /\ loc = [h \in Handler |-> NoLocals(AnyUser)]
  /\ consent = [u \in User |-> FALSE] /\ blocks = [u \in User |-> FALSE]
  /\ overtaken = [h \in Handler |-> FALSE] /\ torn = FALSE /\ clashed = FALSE
  /\ requests = 0 /\ faults = 0

-----------------------------------------------------------------------------
(* A request: the documents it reads, and what it decides *)

Cmd(do, u, id, status, flags) ==
  [do |-> do, edge |-> u, id |-> id, status |-> status, flags |-> flags]
Create(u, status)            == Cmd("create", u, 0, status, "keep")
Update(u, id, status, flags) == Cmd("update", u, id, status, flags)
Upsert(u)                    == Cmd("upsert", u, 0, "accepted", "keep")
Delete(u, id)                == Cmd("delete", u, id, "none", "keep")

Receive(h, u, op, step, own, rev) ==
  /\ pc[h] = "idle" /\ requests < MaxRequests
  /\ requests' = requests + 1
  /\ pc' = [pc EXCEPT ![h] = step]
  /\ loc' = [loc EXCEPT ![h] = [NoLocals(u) EXCEPT !.op = op, !.own = own, !.rev = rev]]
  /\ overtaken' = [overtaken EXCEPT ![h] = FALSE]
  /\ UNCHANGED <<collection, consent, blocks, torn, clashed, faults>>

\* Every other operation begins with findByUserAndFriend, in its own direction.
ReceivePair(h, u, op) == Receive(h, u, op, "own", NoFriend, NoFriend)

\* acceptFriendRequest and declineFriendRequest find the document by its id: it is the other's
\* request, and pending.
ReceiveById(h, u, op) ==
  /\ edge[Other(u)].id # 0
  /\ Receive(h, u, op, "byid", NoFriend, edge[Other(u)])

Reads(h, step, l) ==
  /\ pc' = [pc EXCEPT ![h] = step] /\ loc' = [loc EXCEPT ![h] = l]
  /\ UNCHANGED <<collection, history, bounds>>

Refuse(h) == Reads(h, "idle", NoLocals(AnyUser))
Run(h, l, plan) == Reads(h, "run", [l EXCEPT !.plan = plan])

\* acceptFriendRequest writes the request, then the reverse document whatever its state is.
AcceptPlan(l, d) == <<Update(Other(l.by), d.id, "accepted", "keep"), Upsert(l.by)>>

\* mutant: whatever the state of the request
FindRequestAnyState(h) ==
  LET l == loc[h]
      d == edge[Other(l.by)]
  IN /\ pc[h] = "byid"
     /\ IF d.id = l.rev.id
        THEN Run(h, l, IF l.op = "decline"
                       THEN <<Update(Other(l.by), d.id, "declined", "keep")>>
                       ELSE AcceptPlan(l, d))
        ELSE Refuse(h)

\* mutant: a status the schema does not list
FindRequestRejected(h) ==
  LET l == loc[h]
      d == edge[Other(l.by)]
  IN /\ pc[h] = "byid"
     /\ IF d.id = l.rev.id /\ d.status = "pending"
        THEN Run(h, l, IF l.op = "decline"
                       THEN <<Update(Other(l.by), d.id, "rejected", "keep")>>
                       ELSE AcceptPlan(l, d))
        ELSE Refuse(h)

FindRequest(h) ==
  LET l == loc[h]
      d == edge[Other(l.by)]
  IN /\ pc[h] = "byid"
     /\ IF d.id = l.rev.id /\ d.status = "pending"
        THEN Run(h, l, IF l.op = "decline"
                       THEN <<Update(Other(l.by), d.id, "declined", "keep")>>
                       ELSE AcceptPlan(l, d))
        ELSE Refuse(h)

\* What the own document makes each operation refuse.
Refuses(op, own) ==
  CASE op = "send"    -> own.status \in {"pending", "accepted", "blocked"}
    [] op = "unblock" -> own.status # "blocked"
    [] op = "import"  -> own.status = "accepted"
    [] OTHER          -> FALSE

FindOwn(h) ==
  LET l == loc[h]
      d == edge[l.by]
  IN /\ pc[h] = "own"
     /\ IF Refuses(l.op, d) THEN Refuse(h) ELSE Reads(h, "rev", [l EXCEPT !.own = d])

\* mutant: the reverse document stays
RemovePlanOneSided(l) == <<Delete(l.by, l.own.id)>>

RemovePlan(l) ==
  <<Delete(l.by, l.own.id)>>
    \o (IF l.rev.id # 0 THEN <<Delete(Other(l.by), l.rev.id)>> ELSE <<>>)

\* mutant: the friendship is not remembered
BlockPlanForgets(l) ==
  <<IF l.own.id # 0 THEN Update(l.by, l.own.id, "blocked", "keep") ELSE Create(l.by, "blocked")>>
    \o (IF l.rev.id # 0 THEN <<Update(Other(l.by), l.rev.id, "blocked", "target")>> ELSE <<>>)

\* A friendship is remembered in both documents.
BlockPlan(l) ==
  LET friends == l.own.status = "accepted" /\ l.rev.status = "accepted"
  IN <<IF l.own.id # 0 THEN Update(l.by, l.own.id, "blocked", IF friends THEN "was" ELSE "keep")
                       ELSE Create(l.by, "blocked")>>
       \o (IF l.rev.id # 0
           THEN <<Update(Other(l.by), l.rev.id, "blocked", IF friends THEN "both" ELSE "target")>>
           ELSE <<>>)

\* mutant: whoever has a document is made a friend again
UnblockPlanAnyone(l) ==
  IF l.rev.id # 0
  THEN <<Update(l.by, l.own.id, "accepted", "clear"),
         Update(Other(l.by), l.rev.id, "accepted", "clear")>>
  ELSE <<Delete(l.by, l.own.id)>>

UnblockPlan(l) ==
  IF l.own.was /\ l.rev.was
  THEN <<Update(l.by, l.own.id, "accepted", "clear"),
         Update(Other(l.by), l.rev.id, "accepted", "clear")>>
  ELSE <<Delete(l.by, l.own.id)>>
         \o (IF l.rev.target THEN <<Delete(Other(l.by), l.rev.id)>> ELSE <<>>)

\* autoFriendRegisteredContact
ImportPlan(l) ==
  IF l.rev.status = "pending"
  THEN <<Update(Other(l.by), l.rev.id, "accepted", "keep"), Create(l.by, "accepted")>>
  ELSE <<Create(l.by, "accepted"), Create(Other(l.by), "accepted")>>

\* A request of the other is accepted (acceptExistingRequest), which finds it again by its id.
FindReverse(h) ==
  LET l == [loc[h] EXCEPT !.rev = edge[Other(loc[h].by)]]
  IN /\ pc[h] = "rev"
     /\ CASE l.op = "send" ->
               IF l.rev.status = "blocked" THEN Refuse(h)
               ELSE IF l.rev.status = "pending" THEN Reads(h, "byid", l)
               ELSE Run(h, l, <<Create(l.by, "pending")>>)
          [] l.op = "remove" ->
               IF l.own.status # "accepted" THEN Refuse(h) ELSE Run(h, l, RemovePlan(l))
          [] l.op = "block"   -> Run(h, l, BlockPlan(l))
          [] l.op = "unblock" -> Run(h, l, UnblockPlan(l))
          [] l.op = "import"  -> Run(h, l, ImportPlan(l))

-----------------------------------------------------------------------------
(* The plan, query after query *)

\* A write on the pair.  torn records that writes of two requests mix: a handler writes after
\* another one has, or between two writes of another; and, in Abort, that a command fails
\* behind one that did not.  clashed records that a contact import, alone or not, finds a
\* document where it was to make one: that document stays as it is.
Write(h, c, doc) ==
  /\ edge' = [edge EXCEPT ![c.edge] = doc]
  /\ overtaken' = [g \in Handler |-> overtaken[g] \/ (g # h /\ pc[g] # "idle")]
  /\ torn' = \/ torn \/ overtaken[h]
             \/ \E g \in Handler \ {h} : loc[g].ran
  /\ clashed' = (clashed \/ (loc[h].op = "import" /\ c.do = "create" /\ edge[c.edge].id # 0))

\* What the command says about the users' wishes.
Wishes(h, c) ==
  LET l == loc[h]
  IN /\ consent' = CASE c.do = "delete"   -> [u \in User |-> FALSE]
                     [] l.op = "decline"  -> [consent EXCEPT ![Other(l.by)] = FALSE]
                     [] l.op = "import"   -> [u \in User |-> TRUE]
                     [] l.op \in {"send", "accept"} -> [consent EXCEPT ![l.by] = TRUE]
                     [] OTHER             -> consent
     /\ blocks' = CASE l.op = "block" /\ c.edge = l.by -> [blocks EXCEPT ![l.by] = TRUE]
                    [] l.op = "unblock" -> [blocks EXCEPT ![c.edge] = FALSE]
                    [] OTHER            -> blocks

Continue(h) ==
  LET rest == Tail(loc[h].plan)
  IN /\ pc' = [pc EXCEPT ![h] = IF rest = <<>> THEN "idle" ELSE "run"]
     /\ loc' = [loc EXCEPT ![h] = IF rest = <<>> THEN NoLocals(AnyUser)
                                  ELSE [@ EXCEPT !.plan = rest, !.ran = TRUE]]

Abort(h) ==
  /\ pc' = [pc EXCEPT ![h] = "idle"] /\ loc' = [loc EXCEPT ![h] = NoLocals(AnyUser)]
  /\ torn' = (torn \/ loc[h].ran)
  /\ UNCHANGED <<collection, consent, blocks, overtaken, clashed>>

Due(h) == pc[h] = "run" /\ loc[h].plan # <<>>

\* create; the unique index of the pair refuses a second document, and the one there is
\* answers in its place, unchanged.
CreateDoc(h) ==
  LET c == Head(loc[h].plan)
      d == edge[c.edge]
  IN /\ Due(h) /\ c.do = "create"
     /\ IF d.id = 0
        THEN /\ made' = made + 1
             /\ Write(h, c, [NoFriend EXCEPT !.id = made + 1, !.status = c.status])
        ELSE /\ Write(h, c, d) /\ UNCHANGED made
     /\ Wishes(h, c) /\ Continue(h)
     /\ UNCHANGED bounds

\* findByIdAndUpdate; a document that is gone fails the request.
UpdateDoc(h) ==
  LET c == Head(loc[h].plan)
      d == edge[c.edge]
  IN /\ Due(h) /\ c.do = "update"
     /\ IF d.id # c.id THEN Abort(h)
        ELSE /\ Write(h, c,
                  [d EXCEPT !.status = c.status,
                            !.was = IF c.flags \in {"was", "both"} THEN TRUE
                                    ELSE IF c.flags = "clear" THEN FALSE ELSE @,
                            !.target = IF c.flags \in {"target", "both"} THEN TRUE
                                       ELSE IF c.flags = "clear" THEN FALSE ELSE @])
             /\ Wishes(h, c) /\ Continue(h)
             /\ UNCHANGED made
     /\ UNCHANGED bounds

\* upsertFriendship looks for the document first.
UpsertDoc(h) ==
  LET l == loc[h]
      c == Head(l.plan)
      d == edge[c.edge]
  IN /\ Due(h) /\ c.do = "upsert"
     /\ Reads(h, "run", [l EXCEPT !.plan =
          <<IF d.id # 0 THEN Update(c.edge, d.id, c.status, "keep") ELSE Create(c.edge, c.status)>>])

DeleteDoc(h) ==
  LET c == Head(loc[h].plan)
  IN /\ Due(h) /\ c.do = "delete"
     /\ Write(h, c, IF edge[c.edge].id = c.id THEN NoFriend ELSE edge[c.edge])
     /\ Wishes(h, c) /\ Continue(h)
     /\ UNCHANGED <<made, bounds>>

\* A query fails, and the request with it.
Fail(h) ==
  /\ pc[h] # "idle" /\ faults < MaxFaults
  /\ faults' = faults + 1
  /\ Abort(h)
  /\ UNCHANGED requests

-----------------------------------------------------------------------------
SendFriendRequest(h, u)    == ReceivePair(h, u, "send")
AcceptFriendRequest(h, u)  == ReceiveById(h, u, "accept")
DeclineFriendRequest(h, u) == ReceiveById(h, u, "decline")
RemoveFriend(h, u)         == ReceivePair(h, u, "remove")
BlockUser(h, u)            == ReceivePair(h, u, "block")
UnblockUser(h, u)          == ReceivePair(h, u, "unblock")
ImportContact(h, u)        == ReceivePair(h, u, "import")

RequestStep(h) ==
  \E u \in User :
    \/ SendFriendRequest(h, u) \/ AcceptFriendRequest(h, u) \/ DeclineFriendRequest(h, u)
    \/ RemoveFriend(h, u) \/ BlockUser(h, u) \/ UnblockUser(h, u) \/ ImportContact(h, u)

Next == \E h \in Handler :
  \/ RequestStep(h) \/ FindOwn(h) \/ FindReverse(h) \/ FindRequest(h)
  \/ CreateDoc(h) \/ UpdateDoc(h) \/ UpsertDoc(h) \/ DeleteDoc(h) \/ Fail(h)

Spec == Init /\ [][Next]_vars

-----------------------------------------------------------------------------
\* getFriendStatus, as u sees the other
FriendStatus(u) ==
  LET own == edge[u].status
      rev == edge[Other(u)].status
  IN IF own = "accepted" /\ rev = "accepted" THEN "FRIENDS"
     ELSE IF "blocked" \in {own, rev}          THEN "BLOCKED"
     ELSE IF own = "pending"                   THEN "PENDING_OUTGOING"
     ELSE IF rev = "pending"                   THEN "PENDING_INCOMING"
     ELSE "NONE"

\* The list of friends is drawn from the own documents.
InFriendsList(u) == edge[u].status = "accepted"

Quiet == \A h \in Handler : pc[h] # "run"

\* The shape of the documents, of the handlers and of the history.
TypeOK ==
  /\ edge \in [User -> UserFriend] /\ made \in Nat
  /\ pc \in [Handler -> {"idle", "own", "rev", "byid", "run"}] /\ loc \in [Handler -> Locals]
  /\ consent \in [User -> BOOLEAN] /\ blocks \in [User -> BOOLEAN]
  /\ overtaken \in [Handler -> BOOLEAN] /\ torn \in BOOLEAN /\ clashed \in BOOLEAN
  /\ requests \in 0 .. MaxRequests /\ faults \in 0 .. MaxFaults

\* The two documents need not agree: requests whose writes mix, a request that failed half-way,
\* or an import over a document there was.
AtOdds == torn \/ clashed

\* Whoever has the other in his list of friends is told FRIENDS by getFriendStatus, and so is
\* the other: no sequence of requests leaves half a friendship, unless their writes mix, one
\* fails half-way, or a contact is imported over an own pending, declined or blocked document
\* or the other's declined or blocked one (autoFriendRegisteredContact then makes one half).
ListIsMutual ==
  Quiet /\ ~AtOdds => \A u \in User : InFriendsList(u) <=> FriendStatus(u) = "FRIENDS"

\* Nobody is made a friend without having asked for it or accepted it, unless a contact
\* import did: no block, unblock, decline or removal on the way brings a friendship about.
\* Exempt are the cases of AtOdds.
FriendsAgreed ==
  Quiet /\ ~AtOdds => \A u \in User : FriendStatus(u) = "FRIENDS" => consent[u]

\* A user's block stands until an unblockUser, his or the other's: no request, block, decline
\* or removal lifts it.  Exempt are the cases of AtOdds: after an import over the block the
\* importer's removeFriend deletes both documents.
BlockStands ==
  ~AtOdds => \A u \in User : blocks[u] => edge[u].status = "blocked"
-----------------------------------------------------------------------------
(* The relation that the two documents stand for.  A request takes effect   *)
(* with its first write.                                                    *)

\* What a handler between the writes of its plan is about to complete.
Outcome(l) ==
  CASE l.op \in {"send", "accept", "import"} -> "FRIENDS"
    [] l.op = "block"                        -> "BLOCKED"
    [] l.op = "unblock" /\ Head(l.plan).do = "update" -> "FRIENDS"
    [] OTHER                                 -> "NONE"

Writing == \E h \in Handler : loc[h].ran
Writer  == CHOOSE h \in Handler : loc[h].ran

\* A contact import that is about to find a document where it is to make one.
Collides ==
  \E h \in Handler :
    loc[h].ran /\ loc[h].op = "import" /\ edge[Head(loc[h].plan).edge].id # 0

View ==
  [u \in User |-> IF torn THEN "UNKNOWN"
                  ELSE IF clashed \/ Collides THEN "CLASHED"
                  ELSE IF Writing THEN Outcome(loc[Writer])
                  ELSE FriendStatus(u)]

WereFriends ==
  /\ ~AtOdds /\ ~Collides
  /\ Writing => Outcome(loc[Writer]) = "BLOCKED"
  /\ \E u \in User : edge[u].was

AcquaintanceOfPair == INSTANCE Acquaintance WITH view <- View, friends <- WereFriends

\* The requests act on the two documents as on one relation: each moves it once, with its first
\* write and the way it says, and its second write completes what the first began, whatever
\* the two have asked, blocked, declined or removed before.  Requests whose writes mix and one
\* that fails half-way (UNKNOWN) may leave anything; an import over a document there was
\* (CLASHED), which no friendship can meet, leaves two documents that agree no more.
ActsAsOneRelation == AcquaintanceOfPair!Spec
=============================================================================
