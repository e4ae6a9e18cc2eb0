---------------------------- MODULE Conversations ----------------------------
(***************************************************************************)
(* Conversations and their participants: ConversationsService over         *)
(* ConversationRepository, two collections and no transaction.             *)
(*                                                                         *)
(* A request runs in a handler, one action per query: the handlers         *)
(* interleave at every await, and what one has read may be gone when it    *)
(* writes.  The users a request names exist.                               *)
(***************************************************************************)
EXTENDS Integers, FiniteSets

CONSTANTS User,
          Starts,           \* the collections as earlier requests have left them
          NumConvs,         \* bound: conversations created
          Handler,          \* requests being served at a time
          MaxParticipants,  \* of a group (1000)
          MaxBatch,         \* bound: users one request adds
          MaxRequests,      \* bound: requests
          MaxFaults         \* bound: queries that fail

\* A direct conversation, with its two participants, is within the limit as well.
ASSUME ConversationsAssumption ==
  /\ NumConvs \in Nat /\ MaxBatch \in Nat /\ MaxRequests \in Nat /\ MaxFaults \in Nat
  /\ MaxParticipants \in Nat /\ MaxParticipants >= 2
  /\ IsFiniteSet(User) /\ "none" \notin User

Conv  == 1 .. NumConvs
Roles == {"owner", "admin", "member"}

VARIABLES
  conv,        \* conversations: its document, type "none" while there is none
  part,        \* conversation_participants: one document per pair, or none
  pc, loc,     \* per handler: the next query, and its local variables
  known,       \* history: complete direct conversations when the request came
  touched,     \* history: another request has written what this one has read
  excused,     \* history, per conversation: see Write
  requests, faults

collections == <<conv, part>>
handlers    == <<pc, loc>>
history     == <<known, touched, excused>>
bounds      == <<requests, faults>>
vars == <<collections, handlers, history, bounds>>

Ops == {"direct", "group", "add", "role", "remove", "leave", "delete", "rename"}
Steps == {"idle", "find", "examine", "save", "insert", "own", "count", "check", "lookup",
          "join", "target", "admins", "total", "setrole", "deactivate", "update"}

NoUser == "none"
NoDoc  == [role |-> "none", active |-> FALSE]
ConvDoc == [type : {"none", "direct", "group"}, isActive : BOOLEAN, editor : User \cup {NoUser}]
PartDoc == [role : Roles, active : BOOLEAN] \cup {NoDoc}
Locals == [op : Ops, c : Conv \cup {0}, by : User \cup {NoUser}, user : User \cup {NoUser},
           who : SUBSET User, todo : SUBSET User, cands : SUBSET Conv,
           role : Roles, found : BOOLEAN]
NoLocals == [op |-> "leave", c |-> 0, by |-> NoUser, user |-> NoUser, who |-> {}, todo |-> {},
             cands |-> {}, role |-> "member", found |-> FALSE]

\* Earlier requests, none of which had overlapped with another, have left nobody in what is
\* no conversation, every group with participants a manager, and everything within the limit.
ASSUME StartsAssumption == \A start \in Starts :
  /\ start.conv \in [Conv -> ConvDoc] /\ start.part \in [Conv -> [User -> PartDoc]]
  /\ \A c \in Conv :
       LET active == {u \in User : start.part[c][u].active}
       IN /\ start.conv[c].type = "none" => \A u \in User : start.part[c][u] = NoDoc
          /\ start.conv[c].type = "group" /\ active # {} =>
               \E u \in active : start.part[c][u].role \in {"admin", "owner"}
          /\ Cardinality(active) <= MaxParticipants

Init ==
  /\ \E start \in Starts : conv = start.conv /\ part = start.part
  /\ pc = [h \in Handler |-> "idle"] /\ loc = [h \in Handler |-> NoLocals]
  /\ known = [h \in Handler |-> {}]
  /\ touched = [h \in Handler |-> FALSE]
  /\ excused = [c \in Conv |-> {}]
  /\ requests = 0 /\ faults = 0

-----------------------------------------------------------------------------
(* Queries of the repository *)

Active(c)    == {u \in User : part[c][u].active}
Admins(c)    == {u \in Active(c) : part[c][u].role = "admin"}
Manages(c, u) == part[c][u].active /\ part[c][u].role \in {"admin", "owner"}
Managed(c)   == \E u \in User : Manages(c, u)

Direct(c, u, v) == /\ conv[c].type = "direct"
                   /\ {u, v} \subseteq Active(c)

Goto(h, step)   == pc' = [pc EXCEPT ![h] = step]
GotoWith(h, step, l) == Goto(h, step) /\ loc' = [loc EXCEPT ![h] = l]
Done(h)         == GotoWith(h, "idle", NoLocals)

\* An idle handler (RequestStep) takes a request.
Receive(h, step, l) ==
  /\ requests' = requests + 1
  /\ GotoWith(h, step, l)
  /\ touched' = [touched EXCEPT ![h] = FALSE]
  /\ UNCHANGED <<collections, excused, faults>>

Reads(h, step, l) == GotoWith(h, step, l) /\ UNCHANGED <<collections, history, bounds>>

\* The participant document of u becomes doc.  Handlers in flight on c have been overtaken.
\* A group may lose its last manager, or pass its limit, only by a request that was itself
\* overtaken, or when an owner leaves: excused records those.
Write(h, c, u, doc) ==
  LET after   == [part EXCEPT ![c][u] = doc]
      managed == \E x \in User : after[c][x].active /\ after[c][x].role \in {"admin", "owner"}
      stale   == touched[h] \/ (loc[h].op = "leave" /\ part[c][u].role = "owner")
  IN /\ part' = after
     /\ touched' = [g \in Handler |-> \/ touched[g]
                                      \/ g # h /\ loc[g].c = c /\ pc[g] \notin {"idle", "own"}]
     /\ excused' = [excused EXCEPT ![c] = @
          \cup (IF stale /\ ~managed THEN {"manager"} ELSE {})
          \cup (IF touched[h] /\ doc.active /\ ~part[c][u].active THEN {"size"} ELSE {})]
     /\ UNCHANGED <<conv, known, bounds>>

-----------------------------------------------------------------------------
(* Direct conversations, and the creation of both kinds *)

CreateDirectConversation(h, u, v) ==
  /\ u # v
  /\ Receive(h, "find", [NoLocals EXCEPT !.op = "direct", !.by = u, !.user = v])
  /\ known' = [known EXCEPT ![h] = {c \in Conv : Direct(c, u, v)}]

\* mutant: a pair is taken to have one conversation in common
FindAnyCommon(h) ==
  LET l == loc[h]
      common == {c \in Conv : {l.by, l.user} \subseteq Active(c)}
  IN /\ pc[h] = "find"
     /\ \/ \E c \in common : Reads(h, "examine", [l EXCEPT !.cands = {c}])
        \/ common = {} /\ Reads(h, "examine", l)

\* findDirectConversationByParticipants: the active participants of both ...
FindCommon(h) ==
  LET l == loc[h]
  IN /\ pc[h] = "find"
     /\ Reads(h, "examine",
              [l EXCEPT !.cands = {c \in Conv : {l.by, l.user} \subseteq Active(c)}])

\* ... then one conversation after another, until a direct one is found, active or not.
ExamineCommon(h) ==
  LET l == loc[h]
  IN /\ pc[h] = "examine"
     /\ \/ \E c \in l.cands :
             IF conv[c].type = "direct"
             THEN Reads(h, "idle", NoLocals)
             ELSE Reads(h, "examine", [l EXCEPT !.cands = @ \ {c}])
        \/ l.cands = {} /\ Reads(h, "save", [l EXCEPT !.who = {l.user}])

CreateGroupConversation(h, u, who) ==
  /\ Cardinality(who \cup {u}) \in 3 .. MaxParticipants
  /\ Receive(h, "save", [NoLocals EXCEPT !.op = "group", !.by = u, !.who = who \ {u}])
  /\ known' = [known EXCEPT ![h] = {}]

\* ConversationRepository.create: the conversation first ...
SaveConversation(h) ==
  /\ pc[h] = "save"
  /\ \E c \in Conv :
       /\ conv[c].type = "none"
       /\ \A d \in Conv : d < c => conv[d].type # "none"
       /\ conv' = [conv EXCEPT ![c] =
            [type |-> loc[h].op, isActive |-> TRUE, editor |-> NoUser]]
       /\ GotoWith(h, "insert", [loc[h] EXCEPT !.c = c])
  /\ UNCHANGED <<part, history, bounds>>

\* ... then its participants: the creator owns a group, and is admin of a direct conversation.
InsertParticipants(h) ==
  LET l == loc[h]
  IN /\ pc[h] = "insert"
     /\ part' = [part EXCEPT ![l.c] = [u \in User |->
          IF u = l.by THEN [role |-> IF l.op = "group" THEN "owner" ELSE "admin", active |-> TRUE]
          ELSE IF u \in l.who THEN [role |-> "member", active |-> TRUE] ELSE NoDoc]]
     /\ Done(h)
     /\ UNCHANGED <<conv, history, bounds>>

-----------------------------------------------------------------------------
(* Requests on a conversation that exists.  Nothing asks whether it is still *)
(* active, except its deletion.                                              *)

\* findById finds the conversation, and the request is of a kind its type allows.
Request(h, op, c, u, v, who, role) ==
  /\ conv[c].type # "none"
  /\ op \in {"add", "role", "remove"} => conv[c].type = "group"
  /\ Receive(h, "own", [NoLocals EXCEPT !.op = op, !.c = c, !.by = u, !.user = v,
                                        !.who = who, !.role = role])
  /\ known' = [known EXCEPT ![h] = {}]

AddParticipants(h, c, u, who, role) == who # {} /\ Request(h, "add", c, u, NoUser, who, role)
UpdateParticipantRole(h, c, u, v, role) == Request(h, "role", c, u, v, {}, role)
RemoveParticipant(h, c, u, v) == u # v /\ Request(h, "remove", c, u, v, {}, "member")
LeaveConversation(h, c, u) == Request(h, "leave", c, u, u, {}, "member")
DeleteConversation(h, c, u) == Request(h, "delete", c, u, NoUser, {}, "member")
UpdateConversationMetadata(h, c, u) == Request(h, "rename", c, u, NoUser, {}, "member")

\* getUserRole, or the participants findById came with
ReadOwnRole(h) ==
  LET l == loc[h]
      group == conv[l.c].type = "group"
      active == part[l.c][l.by].active
      allowed == CASE l.op = "leave"  -> active
                   [] l.op = "delete" -> Manages(l.c, l.by) /\ conv[l.c].isActive
                   [] l.op = "rename" -> IF group THEN Manages(l.c, l.by) ELSE active
                   [] OTHER           -> Manages(l.c, l.by)
      next == CASE l.op = "add"                -> "count"
                [] l.op \in {"role", "remove"} -> "target"
                [] l.op = "leave" -> IF group /\ part[l.c][l.by].role = "admin"
                                     THEN "admins" ELSE "deactivate"
                [] OTHER          -> "update"
  IN /\ pc[h] = "own"
     /\ IF allowed THEN Reads(h, next, l) ELSE Reads(h, "idle", NoLocals)

\* mutant: the users to add are not counted
CountOnlyPresent(h) ==
  LET l == loc[h]
  IN /\ pc[h] = "count"
     /\ IF Cardinality(Active(l.c)) < MaxParticipants
        THEN Reads(h, "check", [l EXCEPT !.todo = l.who, !.who = {}])
        ELSE Reads(h, "idle", NoLocals)

CountParticipants(h) ==
  LET l == loc[h]
  IN /\ pc[h] = "count"
     /\ IF Cardinality(Active(l.c)) + Cardinality(l.who) <= MaxParticipants
        THEN Reads(h, "check", [l EXCEPT !.todo = l.who, !.who = {}])
        ELSE Reads(h, "idle", NoLocals)

\* isUserParticipant, per user; a query that fails counts as not a participant.
CheckUser(h) ==
  LET l == loc[h]
  IN /\ pc[h] = "check"
     /\ \/ \E u \in l.todo :
             \/ Reads(h, "check", [l EXCEPT !.todo = @ \ {u},
                  !.who = IF part[l.c][u].active THEN @ ELSE @ \cup {u}])
             \/ /\ part[l.c][u].active /\ faults < MaxFaults
                /\ faults' = faults + 1
                /\ GotoWith(h, "check", [l EXCEPT !.todo = @ \ {u}, !.who = @ \cup {u}])
                /\ UNCHANGED <<collections, history, requests>>
        \/ l.todo = {} /\ Reads(h, "lookup", [l EXCEPT !.todo = l.who])

\* ConversationRepository.addParticipants, per user: findOne ...
FindParticipant(h) ==
  LET l == loc[h]
  IN /\ pc[h] = "lookup"
     /\ \/ \E u \in l.todo :
             IF part[l.c][u].active
             THEN Reads(h, "lookup", [l EXCEPT !.todo = @ \ {u}])
             ELSE Reads(h, "join", [l EXCEPT !.user = u, !.todo = @ \ {u},
                                             !.found = part[l.c][u] # NoDoc])
        \/ l.todo = {} /\ Reads(h, "idle", NoLocals)

\* mutant: someone who comes back is added as a new document would be
SaveParticipantAnew(h) ==
  LET l == loc[h]
  IN /\ pc[h] = "join"
     /\ GotoWith(h, "lookup", [l EXCEPT !.user = NoUser, !.found = FALSE])
     /\ Write(h, l.c, l.user, [role |-> "none", active |-> TRUE])

\* ... and save: someone who had left comes back in the role he had; a second document of a
\* pair is refused by the unique index.
SaveParticipant(h) ==
  LET l == loc[h]
      d == part[l.c][l.user]
  IN /\ pc[h] = "join"
     /\ GotoWith(h, "lookup", [l EXCEPT !.user = NoUser, !.found = FALSE])
     /\ IF l.found \/ d = NoDoc
        THEN Write(h, l.c, l.user, [role |-> IF l.found THEN d.role ELSE l.role, active |-> TRUE])
        ELSE UNCHANGED <<collections, history, bounds>>

ReadTargetRole(h) ==
  LET l == loc[h]
      d == part[l.c][l.user]
  IN /\ pc[h] = "target"
     /\ IF ~d.active \/ (l.op = "role" /\ d.role = l.role)
        THEN Reads(h, "idle", NoLocals)
        ELSE Reads(h, IF l.op = "role"
                      THEN IF l.user = l.by /\ l.role = "member" THEN "admins" ELSE "setrole"
                      ELSE IF d.role = "admin" THEN "admins" ELSE "deactivate", l)

\* mutant: the last admin is not kept
CountAdminsAny(h) ==
  LET l == loc[h]
  IN /\ pc[h] = "admins"
     /\ Reads(h, IF l.op = "role" THEN "setrole" ELSE "deactivate", l)

\* countAdmins counts the role admin, not owners.
CountAdmins(h) ==
  LET l == loc[h]
      n == Cardinality(Admins(l.c))
  IN /\ pc[h] = "admins"
     /\ IF l.op # "leave" /\ n <= 1
        THEN Reads(h, "idle", NoLocals)
        ELSE Reads(h, CASE l.op = "role" -> "setrole"
                        [] l.op = "leave" /\ n = 1 -> "total"
                        [] OTHER -> "deactivate", l)

\* The only admin may leave when nobody else is there.
CountOthers(h) ==
  /\ pc[h] = "total"
  /\ IF Cardinality(Active(loc[h].c)) > 1 THEN Reads(h, "idle", NoLocals)
                                          ELSE Reads(h, "deactivate", loc[h])

\* Both writes select the active participant again.
WriteRole(h) ==
  LET l == loc[h]
      d == part[l.c][l.user]
  IN /\ pc[h] = "setrole"
     /\ Done(h)
     /\ IF d.active THEN Write(h, l.c, l.user, [d EXCEPT !.role = l.role])
                    ELSE UNCHANGED <<collections, history, bounds>>

WriteLeft(h) ==
  LET l == loc[h]
      d == part[l.c][l.user]
  IN /\ pc[h] = "deactivate"
     /\ Done(h)
     /\ IF d.active THEN Write(h, l.c, l.user, [d EXCEPT !.active = FALSE])
                    ELSE UNCHANGED <<collections, history, bounds>>

\* softDeleteById, or updateById
UpdateConversation(h) ==
  LET l == loc[h]
  IN /\ pc[h] = "update"
     /\ conv' = IF l.op = "delete" THEN [conv EXCEPT ![l.c].isActive = FALSE]
                                   ELSE [conv EXCEPT ![l.c].editor = l.by]
     /\ Done(h)
     /\ UNCHANGED <<part, history, bounds>>

\* A query fails and the request with it; in the loop of addParticipants only that user is
\* given up.
Fail(h) ==
  /\ pc[h] \notin {"idle", "check"} /\ faults < MaxFaults
  /\ faults' = faults + 1
  /\ \/ pc[h] \notin {"lookup", "join"} /\ Done(h)
     \/ pc[h] = "join" /\ GotoWith(h, "lookup", [loc[h] EXCEPT !.user = NoUser, !.found = FALSE])
     \/ pc[h] = "lookup" /\ \E u \in loc[h].todo :
          GotoWith(h, "lookup", [loc[h] EXCEPT !.todo = @ \ {u}])
  /\ UNCHANGED <<collections, history, requests>>

-----------------------------------------------------------------------------
RequestStep(h) == pc[h] = "idle" /\ requests < MaxRequests /\ \E u \in User :
    \/ \E v \in User : CreateDirectConversation(h, u, v)
    \/ \E who \in SUBSET User : CreateGroupConversation(h, u, who)
    \/ \E c \in Conv :
         \/ \E who \in SUBSET User, r \in Roles :
              Cardinality(who) <= MaxBatch /\ AddParticipants(h, c, u, who, r)
         \/ \E v \in User, r \in Roles : UpdateParticipantRole(h, c, u, v, r)
         \/ \E v \in User : RemoveParticipant(h, c, u, v)
         \/ LeaveConversation(h, c, u)
         \/ DeleteConversation(h, c, u)
         \/ UpdateConversationMetadata(h, c, u)

CreateStep(h) == FindCommon(h) \/ ExamineCommon(h) \/ SaveConversation(h) \/ InsertParticipants(h)

AddStep(h) == CountParticipants(h) \/ CheckUser(h) \/ FindParticipant(h) \/ SaveParticipant(h)

ManageStep(h) == \/ ReadTargetRole(h) \/ CountAdmins(h) \/ CountOthers(h)
                 \/ WriteRole(h) \/ WriteLeft(h) \/ UpdateConversation(h)

Next == \E h \in Handler :
  RequestStep(h) \/ CreateStep(h) \/ ReadOwnRole(h) \/ AddStep(h) \/ ManageStep(h) \/ Fail(h)

Spec == Init /\ [][Next]_vars

-----------------------------------------------------------------------------
\* The shape of the two collections, of the handlers and of the history.
TypeOK ==
  /\ conv \in [Conv -> ConvDoc]
  /\ part \in [Conv -> [User -> PartDoc]]
  /\ pc \in [Handler -> Steps] /\ loc \in [Handler -> Locals]
  /\ known \in [Handler -> SUBSET Conv]
  /\ touched \in [Handler -> BOOLEAN]
  /\ excused \in [Conv -> SUBSET {"manager", "size"}]
  /\ requests \in 0 .. MaxRequests /\ faults \in 0 .. MaxFaults

\* createDirectConversation never makes a second conversation for a pair that had a direct
\* one when the request came and has it still, whatever groups the two share and whoever
\* joins or leaves them meanwhile.  (Two requests at once do make two.)
NoSecondDirect ==
  \A h \in Handler : loc[h].op = "direct" /\ pc[h] = "save" =>
    \A c \in known[h] : ~Direct(c, loc[h].by, loc[h].user)

\* A group that has participants has an owner or admin among them: the checks of leaving,
\* demoting oneself and removing suffice unless requests overlap or an owner leaves.
GroupKeepsManager ==
  \A c \in Conv : conv[c].type = "group" /\ Active(c) # {} /\ ~Managed(c) =>
    "manager" \in excused[c]

\* A group is not larger than its limit, unless two requests on it overlapped.
GroupKeepsLimit ==
  \A c \in Conv : Cardinality(Active(c)) > MaxParticipants => "size" \in excused[c]
=============================================================================
