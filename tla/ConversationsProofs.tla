------------------------- MODULE ConversationsProofs -------------------------
(***************************************************************************)
(* Proofs about conversations, for any users, any number of conversations  *)
(* and of requests being served: a pair that has a direct conversation is  *)
(* given no second one, and a group loses its last manager, or passes its  *)
(* limit, only by requests that overlap or an owner who leaves.            *)
(***************************************************************************)
EXTENDS Conversations, FiniteSetTheorems, TLAPS

CreateSteps == {"find", "examine", "save", "insert"}
AddSteps    == {"count", "check", "lookup", "join"}
InnerSteps  == AddSteps \cup {"target", "admins", "total", "setrole", "deactivate", "update"}
WriteSteps  == {"join", "setrole", "deactivate"}

\* What a request is doing follows from the query it is at.
ShapeOf(h) ==
  LET l == loc[h]
  IN /\ pc[h] # "idle" => l.by \in User
     /\ pc[h] \in {"find", "examine"} => l.op = "direct"
     /\ pc[h] \in {"save", "insert"} => l.op \in {"direct", "group"}
     /\ pc[h] = "own" => l.op \notin {"direct", "group"}
     /\ pc[h] \in AddSteps => l.op = "add"
     /\ pc[h] = "join" => l.user \in User /\ l.user \notin l.todo
     /\ pc[h] = "target" => l.op \in {"role", "remove"}
     /\ pc[h] = "admins" => l.op \in {"role", "remove", "leave"}
     /\ pc[h] = "total" => l.op = "leave"
     /\ pc[h] = "setrole" => l.op = "role"
     /\ pc[h] = "deactivate" => l.op \in {"remove", "leave"}
     /\ pc[h] = "update" => l.op \in {"delete", "rename"}
     /\ l.op \in {"direct", "role", "remove"} => l.user \in User
     /\ l.op = "leave" => l.user = l.by
     /\ l.op = "remove" => l.user # l.by

\* The conversation a request is about exists, and has participants once its own role has been
\* read; one that is being created has none yet.
PlaceOf(h) ==
  LET l == loc[h]
  IN /\ pc[h] \in {"own", "insert"} \cup InnerSteps => l.c \in Conv /\ conv[l.c].type # "none"
     /\ pc[h] \in {"own"} \cup InnerSteps /\ l.op \in {"add", "role", "remove"} =>
          conv[l.c].type = "group"
     /\ pc[h] \in InnerSteps => part[l.c][l.by] # NoDoc
     /\ pc[h] = "insert" => \A u \in User : part[l.c][u] = NoDoc
     /\ pc[h] = "join" /\ l.found => part[l.c][l.user] # NoDoc

\* What the checks of a request have established, as long as no other has written.
CheckedOf(h) ==
  LET l == loc[h]
  IN ~touched[h] =>
     /\ pc[h] \in AddSteps \cup {"target", "admins", "total"} => Manages(l.c, l.by)
     /\ pc[h] = "admins" /\ l.op = "leave" => part[l.c][l.by].role = "admin"
     /\ pc[h] = "setrole" => l.role # "member" \/ \E x \in User \ {l.user} : Manages(l.c, x)
     /\ pc[h] = "deactivate" /\ conv[l.c].type = "group" =>
          \/ \E x \in User \ {l.user} : Manages(l.c, x)
          \/ l.op = "leave" /\ Active(l.c) \subseteq {l.user}
          \/ l.op = "leave" /\ part[l.c][l.user].role \in {"member", "owner"}

\* The users a request is about to make participants.
Pending(h) ==
  LET l == loc[h]
  IN CASE pc[h] \in {"save", "insert"} -> l.who \cup {l.by}
       [] pc[h] = "check"  -> l.who \cup l.todo
       [] pc[h] = "lookup" -> l.todo
       [] pc[h] = "join"   -> l.todo \cup {l.user}
       [] OTHER            -> {}

\* There is room for them.
RoomOf(h) ==
  LET l == loc[h]
  IN /\ pc[h] \in {"save", "insert"} => Cardinality(Pending(h)) <= MaxParticipants
     /\ pc[h] \in {"check", "lookup", "join"} /\ ~touched[h] =>
          Cardinality(Active(l.c)) + Cardinality(Pending(h)) <= MaxParticipants

\* The direct conversations there were are still to be examined, or are complete no more.
ExaminedOf(h) ==
  LET l == loc[h]
  IN /\ \A c \in known[h] : conv[c].type = "direct" /\ \E u \in User : part[c][u] # NoDoc
     /\ pc[h] = "examine" => \A c \in known[h] : Direct(c, l.by, l.user) => c \in l.cands
     /\ pc[h] = "save" /\ l.op = "direct" => \A c \in known[h] : ~Direct(c, l.by, l.user)

Shape    == \A h \in Handler : ShapeOf(h)
Placed   == /\ \A c \in Conv : conv[c].type = "none" => \A u \in User : part[c][u] = NoDoc
            /\ \A h \in Handler : PlaceOf(h)
Private  == \A g, h \in Handler :
              pc[g] = "insert" /\ pc[h] = "insert" /\ loc[g].c = loc[h].c => g = h
Checked  == \A h \in Handler : CheckedOf(h)
Room     == \A h \in Handler : RoomOf(h)
Examined == \A h \in Handler : ExaminedOf(h)

IInv == /\ TypeOK /\ Shape /\ Placed /\ Private /\ Checked /\ Room /\ Examined
        /\ GroupKeepsManager /\ GroupKeepsLimit

-----------------------------------------------------------------------------
(* Types *)

LEMMA InitIsTyped == Init => TypeOK
  <1> SUFFICES ASSUME Init PROVE TypeOK
    OBVIOUS
  <1>1. conv \in [Conv -> ConvDoc] /\ part \in [Conv -> [User -> PartDoc]]
    BY StartsAssumption DEF Init
  <1>2. NoLocals \in Locals
    BY DEF NoLocals, Locals, Ops, Roles, NoUser
  <1>3. pc \in [Handler -> Steps] /\ loc \in [Handler -> Locals]
    BY <1>2 DEF Init, Steps
  <1>4. /\ known \in [Handler -> SUBSET Conv] /\ touched \in [Handler -> BOOLEAN]
        /\ excused \in [Conv -> SUBSET {"manager", "size"}]
    BY DEF Init
  <1>5. requests \in 0 .. MaxRequests /\ faults \in 0 .. MaxFaults
    BY ConversationsAssumption DEF Init
  <1> QED BY <1>1, <1>3, <1>4, <1>5 DEF TypeOK

\* What a request brings.
Received(h) ==
  LET l == loc'[h]
  IN /\ l \in Locals /\ l.by \in User
     /\ \/ /\ pc'[h] = "find" /\ l.op = "direct" /\ l.user \in User
           /\ known'[h] = {c \in Conv : Direct(c, l.by, l.user)}
        \/ /\ pc'[h] = "save" /\ l.op = "group" /\ known'[h] = {}
           /\ Cardinality(l.who \cup {l.by}) <= MaxParticipants
        \/ /\ pc'[h] = "own" /\ l.op \notin {"direct", "group"} /\ known'[h] = {}
           /\ l.c \in Conv /\ conv[l.c].type # "none"
           /\ l.op \in {"add", "role", "remove"} => conv[l.c].type = "group"
           /\ l.op \in {"role", "remove"} => l.user \in User
           /\ l.op = "leave" => l.user = l.by
           /\ l.op = "remove" => l.user # l.by

\* The handlers other than h go on as they were.
Others(h) ==
  \A g \in Handler \ {h} : /\ pc'[g] = pc[g] /\ loc'[g] = loc[g] /\ known'[g] = known[g]
                           /\ touched[g] => touched'[g]

LEMMA RequestOnConversation ==
  ASSUME TypeOK, NEW h \in Handler, NEW op \in Ops \ {"direct", "group"}, NEW c \in Conv,
         NEW u \in User, NEW v \in User \cup {NoUser}, NEW who \in SUBSET User, NEW role \in Roles,
         Request(h, op, c, u, v, who, role),
         op \in {"role", "remove"} => v \in User, op = "leave" => v = u, op = "remove" => v # u
  PROVE  Received(h)
  <1> DEFINE l == [NoLocals EXCEPT !.op = op, !.c = c, !.by = u, !.user = v,
                                   !.who = who, !.role = role]
  <1>1. l \in Locals /\ l.op = op /\ l.c = c /\ l.by = u /\ l.user = v
    BY DEF NoLocals, Locals
  <1>2. loc'[h] = l /\ pc'[h] = "own" /\ known'[h] = {}
    BY DEF Request, Receive, GotoWith, Goto, TypeOK
  <1>3. conv[c].type # "none" /\ (op \in {"add", "role", "remove"} => conv[c].type = "group")
    BY DEF Request
  <1> HIDE DEF l
  <1> QED BY <1>1, <1>2, <1>3 DEF Received

LEMMA RequestsAreSound ==
  ASSUME TypeOK, NEW h \in Handler, RequestStep(h)
  PROVE  Received(h)
  <1>1. PICK u \in User : \/ \E v \in User : CreateDirectConversation(h, u, v)
                          \/ \E who \in SUBSET User : CreateGroupConversation(h, u, who)
                          \/ \E c \in Conv :
                               \/ \E who \in SUBSET User, r \in Roles :
                                    Cardinality(who) <= MaxBatch /\ AddParticipants(h, c, u, who, r)
                               \/ \E v \in User, r \in Roles : UpdateParticipantRole(h, c, u, v, r)
                               \/ \E v \in User : RemoveParticipant(h, c, u, v)
                               \/ LeaveConversation(h, c, u)
                               \/ DeleteConversation(h, c, u)
                               \/ UpdateConversationMetadata(h, c, u)
    BY DEF RequestStep
  <1>2. ASSUME NEW v \in User, CreateDirectConversation(h, u, v) PROVE Received(h)
    <2> DEFINE l == [NoLocals EXCEPT !.op = "direct", !.by = u, !.user = v]
    <2>1. l \in Locals /\ l.op = "direct" /\ l.by = u /\ l.user = v
      BY DEF NoLocals, Locals, Ops, Roles
    <2>2. /\ loc'[h] = l /\ pc'[h] = "find"
          /\ known'[h] = {c \in Conv : Direct(c, u, v)}
      BY <1>2 DEF CreateDirectConversation, Receive, GotoWith, Goto, TypeOK
    <2> HIDE DEF l
    <2> QED BY <2>1, <2>2 DEF Received
  <1>3. ASSUME NEW who \in SUBSET User, CreateGroupConversation(h, u, who) PROVE Received(h)
    <2> DEFINE l == [NoLocals EXCEPT !.op = "group", !.by = u, !.who = who \ {u}]
    <2>1. l \in Locals /\ l.op = "group" /\ l.by = u /\ l.who = who \ {u}
      BY DEF NoLocals, Locals, Ops, Roles, NoUser
    <2>2. /\ loc'[h] = l /\ pc'[h] = "save" /\ known'[h] = {}
      BY <1>3 DEF CreateGroupConversation, Receive, GotoWith, Goto, TypeOK
    <2>3. Cardinality(who \cup {u}) <= MaxParticipants
      BY <1>3, ConversationsAssumption DEF CreateGroupConversation
    <2>4. (who \ {u}) \cup {u} = who \cup {u}
      OBVIOUS
    <2> HIDE DEF l
    <2> QED BY <2>1, <2>2, <2>3, <2>4 DEF Received
  <1>4. ASSUME NEW c \in Conv, NEW who \in SUBSET User, NEW r \in Roles,
               AddParticipants(h, c, u, who, r)
        PROVE  Received(h)
    BY <1>4, RequestOnConversation DEF AddParticipants, Ops
  <1>5. ASSUME NEW c \in Conv, NEW v \in User, NEW r \in Roles,
               UpdateParticipantRole(h, c, u, v, r)
        PROVE  Received(h)
    BY <1>5, RequestOnConversation DEF UpdateParticipantRole, Ops
  <1>6. ASSUME NEW c \in Conv, NEW v \in User, RemoveParticipant(h, c, u, v) PROVE Received(h)
    BY <1>6, RequestOnConversation DEF RemoveParticipant, Ops, Roles
  <1>7. ASSUME NEW c \in Conv, \/ LeaveConversation(h, c, u) \/ DeleteConversation(h, c, u)
                               \/ UpdateConversationMetadata(h, c, u)
        PROVE  Received(h)
    BY <1>7, RequestOnConversation
    DEF LeaveConversation, DeleteConversation, UpdateConversationMetadata, Ops, Roles
  <1> QED BY <1>1, <1>2, <1>3, <1>4, <1>5, <1>6, <1>7

\* A request that is received touches nothing but its handler.
LEMMA RequestsAreQuiet ==
  ASSUME TypeOK, NEW h \in Handler, RequestStep(h)
  PROVE  /\ UNCHANGED <<conv, part, excused, faults>> /\ requests' = requests + 1
         /\ pc[h] = "idle" /\ requests < MaxRequests
         /\ pc' = [pc EXCEPT ![h] = pc'[h]] /\ loc' = [loc EXCEPT ![h] = loc'[h]]
         /\ touched' = [touched EXCEPT ![h] = FALSE]
         /\ known' = [known EXCEPT ![h] = known'[h]]
  <1>1. PICK step, l, cs :
           /\ Receive(h, step, l) /\ known' = [known EXCEPT ![h] = cs]
           /\ pc[h] = "idle" /\ requests < MaxRequests
    BY DEF RequestStep, CreateDirectConversation, CreateGroupConversation, AddParticipants,
           UpdateParticipantRole, RemoveParticipant, LeaveConversation, DeleteConversation,
           UpdateConversationMetadata, Request, Steps
  <1> QED BY <1>1 DEF TypeOK, Receive, GotoWith, Goto, collections

\* A step of a request that has been received.
Serves(h) == CreateStep(h) \/ ReadOwnRole(h) \/ AddStep(h) \/ ManageStep(h) \/ Fail(h)

\* It moves its own handler, within the queries and the local variables there are.
LEMMA ServedSteps ==
  ASSUME TypeOK, Shape, NEW h \in Handler, Serves(h)
  PROVE  /\ pc' = [pc EXCEPT ![h] = pc'[h]] /\ loc' = [loc EXCEPT ![h] = loc'[h]]
         /\ pc'[h] \in Steps /\ loc'[h] \in Locals /\ known' = known /\ pc[h] # "idle"
  <1> DEFINE Moves == \E step \in Steps, l \in Locals : GotoWith(h, step, l)
             Served == Moves /\ known' = known /\ pc[h] # "idle"
  <1>0. SUFFICES Served
    BY DEF GotoWith, Goto, TypeOK
  <1>1. loc[h] \in Locals /\ NoLocals \in Locals /\ ShapeOf(h)
    BY DEF TypeOK, Shape, NoLocals, Locals, Ops, Roles, NoUser
  <1>2. CASE FindCommon(h)
    BY <1>1, <1>2 DEF FindCommon, Reads, Steps, history, Locals
  <1>3. CASE ExamineCommon(h)
    <2>1. [loc[h] EXCEPT !.who = {loc[h].user}] \in Locals \/ pc[h] # "examine"
      BY <1>1 DEF ShapeOf, Locals
    <2>2. \A c : [loc[h] EXCEPT !.cands = @ \ {c}] \in Locals
      BY <1>1 DEF Locals
    <2> QED BY <1>1, <1>3, <2>1, <2>2 DEF ExamineCommon, Reads, Steps, history
  <1>4. CASE SaveConversation(h)
    <2>1. \A c \in Conv : [loc[h] EXCEPT !.c = c] \in Locals
      BY <1>1 DEF Locals
    <2> QED BY <1>1, <1>4, <2>1 DEF SaveConversation, Steps, history
  <1>5. CASE InsertParticipants(h)
    BY <1>1, <1>5 DEF InsertParticipants, Done, Steps, history
  <1>6. CASE ReadOwnRole(h)
    BY <1>1, <1>6 DEF ReadOwnRole, Reads, Steps, history
  <1>7. CASE CountParticipants(h)
    <2>1. [loc[h] EXCEPT !.todo = loc[h].who, !.who = {}] \in Locals
      BY <1>1 DEF Locals
    <2> QED BY <1>1, <1>7, <2>1 DEF CountParticipants, Reads, Steps, history
  <1>8. CASE CheckUser(h)
    <2>1. [loc[h] EXCEPT !.todo = loc[h].who] \in Locals
      BY <1>1 DEF Locals
    <2>2. \A u \in User : /\ [loc[h] EXCEPT !.todo = @ \ {u}, !.who = @] \in Locals
                          /\ [loc[h] EXCEPT !.todo = @ \ {u}, !.who = @ \cup {u}] \in Locals
      BY <1>1 DEF Locals
    <2>3. loc[h].todo \subseteq User
      BY <1>1 DEF Locals
    <2> QED BY <1>1, <1>8, <2>1, <2>2, <2>3 DEF CheckUser, Reads, Steps, history
  <1>9. CASE FindParticipant(h)
    <2>1. \A u \in User, f \in BOOLEAN :
             /\ [loc[h] EXCEPT !.todo = @ \ {u}] \in Locals
             /\ [loc[h] EXCEPT !.user = u, !.todo = @ \ {u}, !.found = f] \in Locals
      BY <1>1 DEF Locals
    <2>2. loc[h].todo \subseteq User
      BY <1>1 DEF Locals
    <2>3. \A u : (part[loc[h].c][u] # NoDoc) \in BOOLEAN
      OBVIOUS
    <2> QED BY <1>1, <1>9, <2>1, <2>2, <2>3 DEF FindParticipant, Reads, Steps, history
  <1>10. CASE SaveParticipant(h)
    <2>1. [loc[h] EXCEPT !.user = NoUser, !.found = FALSE] \in Locals
      BY <1>1 DEF Locals
    <2> QED BY <1>10, <2>1 DEF SaveParticipant, Write, Steps, history
  <1>11. CASE ReadTargetRole(h)
    BY <1>1, <1>11 DEF ReadTargetRole, Reads, Steps, history
  <1>12. CASE CountAdmins(h) \/ CountOthers(h)
    BY <1>1, <1>12 DEF CountAdmins, CountOthers, Reads, Steps, history
  <1>13. CASE WriteRole(h) \/ WriteLeft(h)
    BY <1>1, <1>13 DEF WriteRole, WriteLeft, Write, Done, Steps, history
  <1>14. CASE UpdateConversation(h)
    BY <1>1, <1>14 DEF UpdateConversation, Done, Steps, history
  <1>15. CASE Fail(h)
    <2>1. [loc[h] EXCEPT !.user = NoUser, !.found = FALSE] \in Locals
      BY <1>1 DEF Locals
    <2>2. \A u : [loc[h] EXCEPT !.todo = @ \ {u}] \in Locals
      BY <1>1 DEF Locals
    <2> QED BY <1>1, <1>15, <2>1, <2>2 DEF Fail, Done, Steps, history
  <1> QED
    BY <1>2, <1>3, <1>4, <1>5, <1>6, <1>7, <1>8, <1>9, <1>10, <1>11, <1>12, <1>13, <1>14, <1>15
    DEF Serves, CreateStep, AddStep, ManageStep

\* What h writes to the participants of an existing conversation.
Writes(h, doc) ==
  LET l == loc[h]
      d == part[l.c][l.user]
  IN /\ doc \in PartDoc \ {NoDoc} /\ Write(h, l.c, l.user, doc)
     /\ \/ pc[h] = "join" /\ doc.active /\ (d = NoDoc \/ doc.role = d.role)
        \/ pc[h] = "setrole" /\ d.active /\ doc.active /\ doc.role = l.role
        \/ pc[h] = "deactivate" /\ d.active /\ ~doc.active /\ doc.role = d.role

\* A step leaves the collections alone, or makes one of these changes.
LEMMA StepSplit ==
  ASSUME TypeOK, Shape, Placed, NEW h \in Handler, Serves(h)
  PROVE  \/ UNCHANGED <<conv, part, touched, excused>>
         \/ SaveConversation(h) \/ InsertParticipants(h) \/ UpdateConversation(h)
         \/ \E doc : Writes(h, doc)
  <1> DEFINE l == loc[h]
             d == part[l.c][l.user]
             Split == UNCHANGED <<conv, part, touched, excused>> \/ \E doc : Writes(h, doc)
  <1>1. CASE FindCommon(h) \/ ExamineCommon(h) \/ ReadOwnRole(h) \/ CountParticipants(h)
             \/ CheckUser(h) \/ FindParticipant(h) \/ ReadTargetRole(h) \/ CountAdmins(h)
             \/ CountOthers(h) \/ Fail(h)
    BY <1>1 DEF FindCommon, ExamineCommon, ReadOwnRole, CountParticipants, CheckUser,
                FindParticipant, ReadTargetRole, CountAdmins, CountOthers, Fail, Reads,
                collections, history
  <1>2. ASSUME pc[h] \in WriteSteps
        PROVE  l.c \in Conv /\ l.user \in User /\ d \in PartDoc /\ l \in Locals
               /\ (pc[h] = "join" /\ l.found => d # NoDoc)
    <2>1. ShapeOf(h) /\ PlaceOf(h) /\ l \in Locals /\ part \in [Conv -> [User -> PartDoc]]
      BY DEF Shape, Placed, TypeOK
    <2>2. l.c \in Conv /\ (pc[h] = "join" /\ l.found => d # NoDoc)
      BY <1>2, <2>1 DEF PlaceOf, InnerSteps, AddSteps, WriteSteps
    <2>3. l.user \in User
      BY <1>2, <2>1 DEF ShapeOf, WriteSteps, AddSteps
    <2> QED BY <2>1, <2>2, <2>3
  <1>3. CASE SaveParticipant(h)
    <2>1. CASE UNCHANGED <<collections, history, bounds>>
      BY <2>1 DEF collections, history
    <2>2. ASSUME NEW doc, doc = [role |-> IF l.found THEN d.role ELSE l.role, active |-> TRUE],
                 l.found \/ d = NoDoc, Write(h, l.c, l.user, doc)
          PROVE  Split
      <3>1. pc[h] = "join"
        BY <1>3 DEF SaveParticipant
      <3>2. l.role \in Roles /\ d \in PartDoc /\ (l.found => d # NoDoc)
        BY <1>2, <3>1 DEF WriteSteps, Locals
      <3>3. doc \in PartDoc \ {NoDoc} /\ doc.active /\ (d = NoDoc \/ doc.role = d.role)
        BY <2>2, <3>2 DEF PartDoc, NoDoc, Roles
      <3> QED BY <2>2, <3>1, <3>3 DEF Writes
    <2> QED BY <1>3, <2>1, <2>2 DEF SaveParticipant
  <1>4. CASE WriteRole(h)
    <2>1. CASE UNCHANGED <<collections, history, bounds>>
      BY <2>1 DEF collections, history
    <2>2. ASSUME NEW doc, doc = [d EXCEPT !.role = l.role], d.active, Write(h, l.c, l.user, doc)
          PROVE  Split
      <3>1. pc[h] = "setrole"
        BY <1>4 DEF WriteRole
      <3>2. l.role \in Roles /\ d \in PartDoc
        BY <1>2, <3>1 DEF WriteSteps, Locals
      <3>3. doc \in PartDoc \ {NoDoc} /\ doc.active /\ doc.role = l.role
        BY <2>2, <3>2 DEF PartDoc, NoDoc, Roles
      <3> QED BY <2>2, <3>1, <3>3 DEF Writes
    <2> QED BY <1>4, <2>1, <2>2 DEF WriteRole
  <1>5. CASE WriteLeft(h)
    <2>1. CASE UNCHANGED <<collections, history, bounds>>
      BY <2>1 DEF collections, history
    <2>2. ASSUME NEW doc, doc = [d EXCEPT !.active = FALSE], d.active, Write(h, l.c, l.user, doc)
          PROVE  Split
      <3>1. pc[h] = "deactivate"
        BY <1>5 DEF WriteLeft
      <3>2. d \in PartDoc
        BY <1>2, <3>1 DEF WriteSteps
      <3>3. d \in [role : Roles, active : BOOLEAN]
        BY <2>2, <3>2 DEF PartDoc, NoDoc
      <3>4. /\ doc \in [role : Roles, active : BOOLEAN]
            /\ doc.active = FALSE /\ doc.role = d.role
        BY <2>2, <3>3
      <3>5. doc \in PartDoc \ {NoDoc}
        BY <3>4 DEF PartDoc, NoDoc, Roles
      <3> QED BY <2>2, <3>1, <3>4, <3>5 DEF Writes
    <2> QED BY <1>5, <2>1, <2>2 DEF WriteLeft
  <1> QED BY <1>1, <1>3, <1>4, <1>5 DEF Serves, CreateStep, AddStep, ManageStep

\* Only a failing query changes what is counted.
LEMMA ServedBounds ==
  ASSUME TypeOK, NEW h \in Handler, Serves(h)
  PROVE  requests' = requests /\ (faults' = faults \/ (faults < MaxFaults /\ faults' = faults + 1))
  BY DEF Serves, CreateStep, AddStep, ManageStep, FindCommon, ExamineCommon, SaveConversation,
         InsertParticipants, ReadOwnRole, CountParticipants, CheckUser, FindParticipant,
         SaveParticipant, ReadTargetRole, CountAdmins, CountOthers, WriteRole, WriteLeft,
         UpdateConversation, Fail, Reads, Write, bounds, history, collections

\* The handlers overtaken once h has written.
Overtaken(h) ==
  [g \in Handler |-> touched[g] \/ (g # h /\ loc[g].c = loc[h].c /\ pc[g] \notin {"idle", "own"})]

LEMMA Written ==
  ASSUME TypeOK, Shape, Placed, NEW h \in Handler, NEW doc, Writes(h, doc)
  PROVE  /\ loc[h].c \in Conv /\ loc[h].user \in User /\ doc \in PartDoc /\ doc # NoDoc
         /\ pc[h] \in WriteSteps /\ loc[h].op \in {"add", "role", "remove", "leave"}
         /\ conv' = conv /\ part' = [part EXCEPT ![loc[h].c][loc[h].user] = doc]
         /\ part'[loc[h].c][loc[h].user] = doc
         /\ \A c \in Conv, u \in User :
              c # loc[h].c \/ u # loc[h].user => part'[c][u] = part[c][u]
         /\ touched' = Overtaken(h)
  <1>1. pc[h] \in WriteSteps
    BY DEF Writes, WriteSteps
  <1>2. ShapeOf(h) /\ PlaceOf(h) /\ part \in [Conv -> [User -> PartDoc]]
    BY DEF Shape, Placed, TypeOK
  <1>3. loc[h].c \in Conv
    BY <1>1, <1>2 DEF PlaceOf, InnerSteps, AddSteps, WriteSteps
  <1>4. loc[h].user \in User /\ loc[h].op \in {"add", "role", "remove", "leave"}
    BY <1>1, <1>2 DEF ShapeOf, WriteSteps, AddSteps
  <1>5. part' = [part EXCEPT ![loc[h].c][loc[h].user] = doc] /\ conv' = conv
    BY DEF Writes, Write
  <1>6. touched' = Overtaken(h)
    BY DEF Writes, Write, Overtaken
  <1>7. doc \in PartDoc /\ doc # NoDoc
    BY DEF Writes
  <1> QED BY <1>1, <1>2, <1>3, <1>4, <1>5, <1>6, <1>7

\* The participants that InsertParticipants makes.
Made(l) == [u \in User |->
  IF u = l.by THEN [role |-> IF l.op = "group" THEN "owner" ELSE "admin", active |-> TRUE]
  ELSE IF u \in l.who THEN [role |-> "member", active |-> TRUE] ELSE NoDoc]

LEMMA Inserted ==
  ASSUME TypeOK, Shape, Placed, NEW h \in Handler, InsertParticipants(h)
  PROVE  /\ pc[h] = "insert" /\ loc[h].c \in Conv /\ conv[loc[h].c].type # "none"
         /\ \A u \in User : part[loc[h].c][u] = NoDoc
         /\ part' = [part EXCEPT ![loc[h].c] = Made(loc[h])] /\ Made(loc[h]) \in [User -> PartDoc]
         /\ UNCHANGED <<conv, touched, excused>>
  <1>1. pc[h] = "insert" /\ PlaceOf(h)
    BY DEF InsertParticipants, Placed
  <1>2. Made(loc[h]) \in [User -> PartDoc]
    BY DEF Made, PartDoc, NoDoc, Roles
  <1> QED BY <1>1, <1>2 DEF InsertParticipants, PlaceOf, Made, history

LEMMA Saved ==
  ASSUME TypeOK, Shape, Placed, NEW h \in Handler, SaveConversation(h)
  PROVE  \E c \in Conv :
         /\ conv[c].type = "none" /\ conv'[c].type = loc[h].op /\ loc'[h].c = c /\ pc'[h] = "insert"
         /\ loc'[h] = [loc[h] EXCEPT !.c = c] /\ loc[h].op \in {"direct", "group"}
         /\ conv' \in [Conv -> ConvDoc]
         /\ \A d \in Conv \ {c} : conv'[d] = conv[d]
         /\ UNCHANGED <<part, touched, excused>> /\ pc[h] = "save"
  <1>1. PICK c \in Conv :
       /\ conv[c].type = "none"
       /\ conv' = [conv EXCEPT ![c] =
            [type |-> loc[h].op, isActive |-> TRUE, editor |-> NoUser]]
       /\ GotoWith(h, "insert", [loc[h] EXCEPT !.c = c])
    BY DEF SaveConversation
  <1>2. pc[h] = "save" /\ ShapeOf(h) /\ UNCHANGED <<part, touched, excused>>
    BY DEF SaveConversation, Shape, history
  <1>3. loc[h].op \in {"direct", "group"}
    BY <1>2 DEF ShapeOf
  <1>4. [type |-> loc[h].op, isActive |-> TRUE, editor |-> NoUser] \in ConvDoc
    BY <1>3 DEF ConvDoc
  <1>5. conv' \in [Conv -> ConvDoc] /\ conv'[c].type = loc[h].op
    BY <1>1, <1>4 DEF TypeOK
  <1>6. \A d \in Conv \ {c} : conv'[d] = conv[d]
    BY <1>1 DEF TypeOK
  <1>7. pc'[h] = "insert" /\ loc'[h] = [loc[h] EXCEPT !.c = c] /\ loc'[h].c = c
    <2>1. pc'[h] = "insert" /\ loc'[h] = [loc[h] EXCEPT !.c = c] /\ loc[h] \in Locals
      BY <1>1 DEF GotoWith, Goto, TypeOK
    <2> QED BY <2>1 DEF Locals
  <1> QED BY <1>1, <1>2, <1>3, <1>5, <1>6, <1>7

LEMMA Updated ==
  ASSUME TypeOK, Shape, Placed, NEW h \in Handler, UpdateConversation(h)
  PROVE  /\ conv' \in [Conv -> ConvDoc] /\ \A c \in Conv : conv'[c].type = conv[c].type
         /\ UNCHANGED <<part, touched, excused>>
  <1>1. pc[h] = "update" /\ PlaceOf(h) /\ ShapeOf(h) /\ conv \in [Conv -> ConvDoc]
    BY DEF UpdateConversation, Placed, Shape, TypeOK
  <1>2. loc[h].c \in Conv /\ loc[h].by \in User
    BY <1>1 DEF PlaceOf, ShapeOf, InnerSteps
  <1>3. conv[loc[h].c] \in ConvDoc
    BY <1>1, <1>2
  <1>4. \A b \in BOOLEAN : /\ [conv[loc[h].c] EXCEPT !.isActive = b] \in ConvDoc
                           /\ [conv[loc[h].c] EXCEPT !.isActive = b].type = conv[loc[h].c].type
    BY <1>3 DEF ConvDoc
  <1>5. /\ [conv[loc[h].c] EXCEPT !.editor = loc[h].by] \in ConvDoc
        /\ [conv[loc[h].c] EXCEPT !.editor = loc[h].by].type = conv[loc[h].c].type
    BY <1>2, <1>3 DEF ConvDoc
  <1>6. PICK doc \in ConvDoc : doc.type = conv[loc[h].c].type /\ conv' = [conv EXCEPT ![loc[h].c] = doc]
    BY <1>4, <1>5, <1>1, <1>2 DEF UpdateConversation
  <1>7. UNCHANGED <<part, touched, excused>>
    BY DEF UpdateConversation, history
  <1> QED BY <1>1, <1>2, <1>6, <1>7

\* A step of handler h, whichever.
Takes(h) == RequestStep(h) \/ Serves(h)

LEMMA TypesKept ==
  ASSUME TypeOK, Shape, Placed, NEW h \in Handler, Takes(h)
  PROVE  TypeOK'
  <1>1. CASE RequestStep(h)
    <2>1. pc' \in [Handler -> Steps] /\ loc' \in [Handler -> Locals]
          /\ known' \in [Handler -> SUBSET Conv]
      <3>1. /\ pc' = [pc EXCEPT ![h] = pc'[h]] /\ loc' = [loc EXCEPT ![h] = loc'[h]]
            /\ known' = [known EXCEPT ![h] = known'[h]]
        BY <1>1, RequestsAreQuiet
      <3>2. pc'[h] \in Steps /\ loc'[h] \in Locals /\ known'[h] \subseteq Conv
        BY <1>1, RequestsAreSound DEF Received, Steps
      <3> QED BY <3>1, <3>2 DEF TypeOK
    <2>2. touched' \in [Handler -> BOOLEAN] /\ UNCHANGED <<conv, part, excused, faults>>
      BY <1>1, RequestsAreQuiet DEF TypeOK
    <2>3. requests' \in 0 .. MaxRequests
      BY <1>1, RequestsAreQuiet, ConversationsAssumption DEF TypeOK
    <2> QED BY <2>1, <2>2, <2>3 DEF TypeOK
  <1>2. CASE Serves(h)
    <2>1. pc' \in [Handler -> Steps] /\ loc' \in [Handler -> Locals]
          /\ known' \in [Handler -> SUBSET Conv]
      BY <1>2, ServedSteps DEF TypeOK
    <2>2. requests' \in 0 .. MaxRequests /\ faults' \in 0 .. MaxFaults
      BY <1>2, ServedBounds, ConversationsAssumption DEF TypeOK
    <2>3. conv' \in [Conv -> ConvDoc] /\ part' \in [Conv -> [User -> PartDoc]]
          /\ touched' \in [Handler -> BOOLEAN] /\ excused' \in [Conv -> SUBSET {"manager", "size"}]
      <3>1. CASE UNCHANGED <<conv, part, touched, excused>>
        BY <3>1 DEF TypeOK
      <3>2. CASE SaveConversation(h)
        BY <3>2, Saved DEF TypeOK
      <3>3. CASE InsertParticipants(h)
        <4>1. /\ loc[h].c \in Conv /\ part' = [part EXCEPT ![loc[h].c] = Made(loc[h])]
              /\ Made(loc[h]) \in [User -> PartDoc] /\ UNCHANGED <<conv, touched, excused>>
          BY <3>3, Inserted
        <4> QED BY <4>1 DEF TypeOK
      <3>4. CASE UpdateConversation(h)
        BY <3>4, Updated DEF TypeOK
      <3>5. ASSUME NEW doc, Writes(h, doc)
            PROVE  conv' \in [Conv -> ConvDoc] /\ part' \in [Conv -> [User -> PartDoc]]
              /\ touched' \in [Handler -> BOOLEAN] /\ excused' \in [Conv -> SUBSET {"manager", "size"}]
        <4>1. conv' \in [Conv -> ConvDoc] /\ part' \in [Conv -> [User -> PartDoc]]
          <5>1. /\ loc[h].c \in Conv /\ loc[h].user \in User /\ doc \in PartDoc /\ conv' = conv
                /\ part' = [part EXCEPT ![loc[h].c][loc[h].user] = doc]
            BY <3>5, Written
          <5> QED BY <5>1 DEF TypeOK
        <4>2. touched' \in [Handler -> BOOLEAN]
          <5>1. touched' = Overtaken(h)
            BY <3>5, Written
          <5>2. Overtaken(h) \in [Handler -> BOOLEAN]
            BY DEF Overtaken
          <5> QED BY <5>1, <5>2
        <4>3. excused' \in [Conv -> SUBSET {"manager", "size"}]
          BY <3>5 DEF TypeOK, Writes, Write
        <4> QED BY <4>1, <4>2, <4>3
      <3> QED BY <1>2, <3>1, <3>2, <3>3, <3>4, <3>5, StepSplit
    <2> QED BY <2>1, <2>2, <2>3 DEF TypeOK
  <1> QED BY <1>1, <1>2 DEF Takes

\* What a step leaves: the other handlers, the types of conversations and the documents there
\* are.  It makes participants only where it creates or joins, and who has read what it writes
\* is overtaken.
Leaves(h) ==
  /\ Others(h)
  /\ \A c \in Conv : conv[c].type # "none" => conv'[c].type = conv[c].type
  /\ \A c \in Conv, u \in User :
       /\ part[c][u] # NoDoc => part'[c][u] # NoDoc
       /\ part'[c][u].active =>
            part[c][u].active \/ (pc[h] \in {"insert", "join"} /\ c = loc[h].c)
  /\ \A c \in Conv :
       \/ part'[c] = part[c]
       \/ pc[h] = "insert" /\ c = loc[h].c /\ \A u \in User : part[c][u] = NoDoc
       \/ /\ pc[h] \in WriteSteps /\ c = loc[h].c
          /\ \A g \in Handler \ {h} : loc[g].c = c /\ pc[g] \notin {"idle", "own"} => touched'[g]

LEMMA Footprint ==
  ASSUME TypeOK, Shape, Placed, NEW h \in Handler, Takes(h)
  PROVE  Leaves(h)
  <1> USE DEF Leaves
  <1>1. CASE RequestStep(h)
    BY <1>1, RequestsAreQuiet DEF Others, TypeOK
  <1>2. CASE Serves(h)
    <2>1. ASSUME \A g \in Handler : touched[g] => touched'[g] PROVE Others(h)
      BY <1>2, <2>1, ServedSteps DEF Others, TypeOK
    <2>2. CASE UNCHANGED <<conv, part, touched, excused>>
      BY <2>1, <2>2
    <2>3. CASE SaveConversation(h)
      <3>1. PICK c \in Conv : /\ conv[c].type = "none" /\ \A d \in Conv \ {c} : conv'[d] = conv[d]
                              /\ UNCHANGED <<part, touched, excused>>
        BY <2>3, Saved
      <3> QED BY <2>1, <3>1
    <2>4. CASE InsertParticipants(h)
      <3>1. /\ pc[h] = "insert" /\ loc[h].c \in Conv /\ UNCHANGED <<conv, touched, excused>>
            /\ \A u \in User : part[loc[h].c][u] = NoDoc
            /\ part' = [part EXCEPT ![loc[h].c] = Made(loc[h])]
        BY <2>4, Inserted
      <3>2. \A c \in Conv : c # loc[h].c => part'[c] = part[c]
        BY <3>1 DEF TypeOK
      <3> QED BY <2>1, <3>1, <3>2
    <2>5. CASE UpdateConversation(h)
      BY <2>1, <2>5, Updated
    <2>6. ASSUME NEW doc, Writes(h, doc) PROVE Leaves(h)
      <3>1. /\ loc[h].c \in Conv /\ loc[h].user \in User /\ doc # NoDoc /\ pc[h] \in WriteSteps
            /\ conv' = conv /\ part' = [part EXCEPT ![loc[h].c][loc[h].user] = doc]
            /\ part'[loc[h].c][loc[h].user] = doc
            /\ \A c \in Conv, u \in User :
                 c # loc[h].c \/ u # loc[h].user => part'[c][u] = part[c][u]
        BY <2>6, Written
      <3>2. \A g \in Handler : touched'[g] = Overtaken(h)[g]
        BY <2>6, Written
      <3>3. Others(h)
        BY <2>1, <3>2 DEF Overtaken
      <3>4. \A c \in Conv, u \in User : part[c][u] # NoDoc => part'[c][u] # NoDoc
        BY <3>1
      <3>5. \A c \in Conv, u \in User : part'[c][u].active =>
              part[c][u].active \/ (pc[h] \in {"insert", "join"} /\ c = loc[h].c)
        BY <2>6, <3>1 DEF Writes
      <3>6. \A c \in Conv : c # loc[h].c => part'[c] = part[c]
        BY <3>1 DEF TypeOK
      <3>7. \A g \in Handler \ {h} :
              loc[g].c = loc[h].c /\ pc[g] \notin {"idle", "own"} => touched'[g]
        BY <3>2 DEF Overtaken
      <3> QED BY <3>1, <3>3, <3>4, <3>5, <3>6, <3>7
    <2> QED BY <1>2, <2>2, <2>3, <2>4, <2>5, <2>6, StepSplit
  <1> QED BY <1>1, <1>2 DEF Takes

-----------------------------------------------------------------------------
(* Where the requests are *)

\* A handler that goes on has the conversation, the requester and the kind of its request still.
Same(h) == /\ loc'[h].op = loc[h].op /\ loc'[h].by = loc[h].by /\ loc'[h].c = loc[h].c
Rests(h) == pc'[h] = "idle" /\ loc'[h] = NoLocals

LEMMA Moves ==
  ASSUME TypeOK, NEW h \in Handler, NEW step, NEW l, GotoWith(h, step, l)
  PROVE  pc'[h] = step /\ loc'[h] = l
  BY DEF TypeOK, GotoWith, Goto

LEMMA CountMoves ==
  ASSUME TypeOK, NEW h \in Handler, CountParticipants(h)
  PROVE  /\ pc[h] = "count" /\ UNCHANGED <<conv, part, known, touched, excused>>
         /\ \/ Rests(h)
            \/ /\ pc'[h] = "check" /\ Same(h) /\ loc'[h].user = loc[h].user
               /\ loc'[h].todo = loc[h].who /\ loc'[h].who = {}
               /\ Cardinality(Active(loc[h].c)) + Cardinality(loc[h].who) <= MaxParticipants
  <1> DEFINE m == [loc[h] EXCEPT !.todo = loc[h].who, !.who = {}]
  <1>1. loc[h] \in Locals
    BY DEF TypeOK
  <1>2. /\ pc[h] = "count" /\ UNCHANGED <<conv, part, known, touched, excused>>
        /\ \/ GotoWith(h, "idle", NoLocals)
           \/ GotoWith(h, "check", m) /\
              Cardinality(Active(loc[h].c)) + Cardinality(loc[h].who) <= MaxParticipants
    BY DEF CountParticipants, Reads, collections, history
  <1>3. /\ m.op = loc[h].op /\ m.by = loc[h].by /\ m.c = loc[h].c /\ m.user = loc[h].user
        /\ m.todo = loc[h].who /\ m.who = {}
    BY <1>1 DEF Locals
  <1> HIDE DEF m
  <1>4. CASE GotoWith(h, "idle", NoLocals)
    BY <1>2, <1>4, Moves DEF Rests
  <1>5. CASE GotoWith(h, "check", m) /\
              Cardinality(Active(loc[h].c)) + Cardinality(loc[h].who) <= MaxParticipants
    <2>1. pc'[h] = "check" /\ loc'[h] = m
      BY <1>5, Moves
    <2> QED BY <1>2, <1>3, <1>5, <2>1 DEF Same
  <1> QED BY <1>2, <1>4, <1>5

LEMMA CheckMoves ==
  ASSUME TypeOK, NEW h \in Handler, CheckUser(h)
  PROVE  /\ pc[h] = "check" /\ UNCHANGED <<conv, part, known, touched, excused>>
         /\ Same(h) /\ loc'[h].user = loc[h].user
         /\ \/ pc'[h] = "check" /\ loc'[h].who \cup loc'[h].todo \subseteq loc[h].who \cup loc[h].todo
            \/ pc'[h] = "lookup" /\ loc'[h].todo = loc[h].who
  <1> DEFINE l == loc[h]
             Take(u, W) == [l EXCEPT !.todo = @ \ {u}, !.who = W]
             Last == [l EXCEPT !.todo = l.who]
  <1>1. l \in Locals
    BY DEF TypeOK
  <1>2. pc[h] = "check" /\ UNCHANGED <<conv, part, known, touched, excused>>
    BY DEF CheckUser, Reads, collections, history
  <1>3. \/ \E u \in l.todo : \/ GotoWith(h, "check", Take(u, l.who))
                             \/ GotoWith(h, "check", Take(u, l.who \cup {u}))
        \/ GotoWith(h, "lookup", Last)
    BY DEF CheckUser, Reads
  <1>4. \A u, W : /\ Take(u, W).op = l.op /\ Take(u, W).by = l.by /\ Take(u, W).c = l.c
                  /\ Take(u, W).user = l.user /\ Take(u, W).who = W /\ Take(u, W).todo = l.todo \ {u}
    BY <1>1 DEF Locals
  <1>5. /\ Last.op = l.op /\ Last.by = l.by /\ Last.c = l.c /\ Last.user = l.user
        /\ Last.todo = l.who
    BY <1>1 DEF Locals
  <1> HIDE DEF Take, Last
  <1>6. ASSUME NEW u \in l.todo, NEW W, W \subseteq l.who \cup {u}, GotoWith(h, "check", Take(u, W))
        PROVE  /\ Same(h) /\ loc'[h].user = loc[h].user /\ pc'[h] = "check"
               /\ loc'[h].who \cup loc'[h].todo \subseteq loc[h].who \cup loc[h].todo
    <2>1. pc'[h] = "check" /\ loc'[h] = Take(u, W)
      BY <1>6, Moves
    <2> QED BY <1>4, <1>6, <2>1 DEF Same
  <1>7. CASE GotoWith(h, "lookup", Last)
    <2>1. pc'[h] = "lookup" /\ loc'[h] = Last
      BY <1>7, Moves
    <2> QED BY <1>2, <1>5, <2>1 DEF Same
  <1>8. ASSUME NEW u \in l.todo, \/ GotoWith(h, "check", Take(u, l.who))
                                 \/ GotoWith(h, "check", Take(u, l.who \cup {u}))
        PROVE  /\ Same(h) /\ loc'[h].user = loc[h].user /\ pc'[h] = "check"
               /\ loc'[h].who \cup loc'[h].todo \subseteq loc[h].who \cup loc[h].todo
    BY <1>6, <1>8
  <1> QED BY <1>2, <1>3, <1>7, <1>8

LEMMA FindMoves ==
  ASSUME TypeOK, NEW h \in Handler, FindParticipant(h)
  PROVE  /\ pc[h] = "lookup" /\ UNCHANGED <<conv, part, known, touched, excused>>
         /\ \/ Rests(h)
            \/ /\ pc'[h] = "lookup" /\ Same(h) /\ loc'[h].user = loc[h].user
               /\ loc'[h].todo \subseteq loc[h].todo
            \/ /\ pc'[h] = "join" /\ Same(h) /\ loc'[h].user \in loc[h].todo
               /\ loc'[h].todo = loc[h].todo \ {loc'[h].user}
               /\ loc'[h].found => part[loc[h].c][loc'[h].user] # NoDoc
  <1> DEFINE l == loc[h]
             Skip(u) == [l EXCEPT !.todo = @ \ {u}]
             Take(u, f) == [l EXCEPT !.user = u, !.todo = @ \ {u}, !.found = f]
  <1>1. l \in Locals
    BY DEF TypeOK
  <1>2. pc[h] = "lookup" /\ UNCHANGED <<conv, part, known, touched, excused>>
    BY DEF FindParticipant, Reads, collections, history
  <1>3. ASSUME NEW u \in l.todo, NEW f, f = (part[l.c][u] # NoDoc), GotoWith(h, "join", Take(u, f))
        PROVE  /\ pc'[h] = "join" /\ Same(h) /\ loc'[h].user \in loc[h].todo
               /\ loc'[h].todo = loc[h].todo \ {loc'[h].user}
               /\ loc'[h].found => part[loc[h].c][loc'[h].user] # NoDoc
    <2>1. /\ Take(u, f).op = l.op /\ Take(u, f).by = l.by /\ Take(u, f).c = l.c
          /\ Take(u, f).user = u /\ Take(u, f).todo = l.todo \ {u} /\ Take(u, f).found = f
      BY <1>1 DEF Locals
    <2> HIDE DEF Take
    <2>2. pc'[h] = "join" /\ loc'[h] = Take(u, f)
      BY <1>3, Moves
    <2> QED BY <1>3, <2>1, <2>2 DEF Same
  <1>4. ASSUME NEW u \in l.todo, GotoWith(h, "lookup", Skip(u))
        PROVE  /\ pc'[h] = "lookup" /\ Same(h) /\ loc'[h].user = loc[h].user
               /\ loc'[h].todo \subseteq loc[h].todo
    <2>1. /\ Skip(u).op = l.op /\ Skip(u).by = l.by /\ Skip(u).c = l.c
          /\ Skip(u).user = l.user /\ Skip(u).todo = l.todo \ {u}
      BY <1>1 DEF Locals
    <2> HIDE DEF Skip
    <2>2. pc'[h] = "lookup" /\ loc'[h] = Skip(u)
      BY <1>4, Moves
    <2> QED BY <2>1, <2>2 DEF Same
  <1>5. CASE GotoWith(h, "idle", NoLocals)
    BY <1>2, <1>5, Moves DEF Rests
  <1>6. \/ \E u \in l.todo : \/ GotoWith(h, "lookup", Skip(u))
                             \/ GotoWith(h, "join", Take(u, part[l.c][u] # NoDoc))
        \/ GotoWith(h, "idle", NoLocals)
    BY DEF FindParticipant, Reads
  <1> QED BY <1>2, <1>3, <1>4, <1>5, <1>6

LEMMA JoinMoves ==
  ASSUME TypeOK, NEW h \in Handler,
         SaveParticipant(h) \/ (Fail(h) /\ pc[h] = "join")
  PROVE  /\ pc[h] = "join" /\ pc'[h] = "lookup" /\ Same(h)
         /\ loc'[h].user = NoUser /\ loc'[h].todo = loc[h].todo
  <1>1. pc[h] = "join" /\ GotoWith(h, "lookup", [loc[h] EXCEPT !.user = NoUser, !.found = FALSE])
    BY DEF SaveParticipant, Fail
  <1>2. loc[h] \in Locals
    BY DEF TypeOK
  <1>3. LET m == [loc[h] EXCEPT !.user = NoUser, !.found = FALSE]
        IN m.op = loc[h].op /\ m.by = loc[h].by /\ m.c = loc[h].c /\ m.user = NoUser /\ m.todo = loc[h].todo
    BY <1>2 DEF Locals
  <1> QED BY <1>1, <1>3, Moves DEF Same

LEMMA FailMoves ==
  ASSUME TypeOK, NEW h \in Handler, Fail(h), pc[h] # "join"
  PROVE  /\ UNCHANGED <<conv, part, known, touched, excused>>
         /\ \/ Rests(h)
            \/ /\ pc[h] = "lookup" /\ pc'[h] = "lookup" /\ Same(h) /\ loc'[h].user = loc[h].user
               /\ loc'[h].todo \subseteq loc[h].todo
  <1>1. UNCHANGED <<conv, part, known, touched, excused>>
    BY DEF Fail, collections, history
  <1>2. CASE pc[h] # "lookup"
    BY <1>1, <1>2, Moves DEF Fail, Done, Rests
  <1>3. CASE pc[h] = "lookup"
    <2>1. PICK u \in loc[h].todo : GotoWith(h, "lookup", [loc[h] EXCEPT !.todo = @ \ {u}])
      BY <1>3 DEF Fail
    <2>2. loc[h] \in Locals
      BY DEF TypeOK
    <2>3. LET m == [loc[h] EXCEPT !.todo = loc[h].todo \ {u}]
          IN m.op = loc[h].op /\ m.by = loc[h].by /\ m.c = loc[h].c /\ m.user = loc[h].user
             /\ m.todo = loc[h].todo \ {u}
      BY <2>2 DEF Locals
    <2> QED BY <1>1, <1>3, <2>1, <2>3, Moves DEF Same
  <1> QED BY <1>2, <1>3

LEMMA OwnMoves ==
  ASSUME TypeOK, NEW h \in Handler, ReadOwnRole(h)
  PROVE  LET l == loc[h]
         IN /\ pc[h] = "own" /\ UNCHANGED <<conv, part, known, touched, excused>>
            /\ \/ Rests(h)
               \/ /\ loc'[h] = l /\ part[l.c][l.by].active
                  /\ \/ pc'[h] = "count" /\ l.op = "add" /\ Manages(l.c, l.by)
                     \/ pc'[h] = "target" /\ l.op \in {"role", "remove"} /\ Manages(l.c, l.by)
                     \/ pc'[h] = "admins" /\ l.op = "leave" /\ part[l.c][l.by].role = "admin"
                     \/ /\ pc'[h] = "deactivate" /\ l.op = "leave"
                        /\ conv[l.c].type # "group" \/ part[l.c][l.by].role # "admin"
                     \/ pc'[h] = "update" /\ l.op \notin {"add", "role", "remove", "leave"}
  <1> DEFINE l == loc[h]
             group == conv[l.c].type = "group"
             active == part[l.c][l.by].active
             allowed == CASE l.op = "leave"  -> active
                          [] l.op = "delete" -> Manages(l.c, l.by) /\ conv[l.c].isActive
                          [] l.op = "rename" -> IF group THEN Manages(l.c, l.by) ELSE active
                          [] OTHER           -> Manages(l.c, l.by)
             next == CASE l.op = "add"                -> "count"
                       [] l.op \in {"role", "remove"} -> "target"
                       [] l.op = "leave" -> IF group /\ part[l.c][l.by].role = "admin"
                                            THEN "admins" ELSE "deactivate"
                       [] OTHER          -> "update"
  <1>1. pc[h] = "own" /\ UNCHANGED <<conv, part, known, touched, excused>>
    BY DEF ReadOwnRole, Reads, collections, history
  <1>2. \/ GotoWith(h, "idle", NoLocals)
        \/ allowed /\ GotoWith(h, next, l)
    BY DEF ReadOwnRole, Reads
  <1>3. CASE GotoWith(h, "idle", NoLocals)
    BY <1>1, <1>3, Moves DEF Rests
  <1>4. CASE allowed /\ GotoWith(h, next, l)
    <2>1. pc'[h] = next /\ loc'[h] = l
      BY <1>4, Moves
    <2>2. active
      BY <1>4 DEF Manages
    <2>3. l.op \in {"add", "role", "remove"} => Manages(l.c, l.by)
      BY <1>4
    <2>4. /\ l.op = "add" => next = "count"
          /\ l.op \in {"role", "remove"} => next = "target"
          /\ l.op = "leave" =>
               \/ next = "admins" /\ part[l.c][l.by].role = "admin"
               \/ next = "deactivate" /\ (~group \/ part[l.c][l.by].role # "admin")
          /\ l.op \notin {"add", "role", "remove", "leave"} => next = "update"
      OBVIOUS
    <2> HIDE DEF next, allowed
    <2> QED BY <1>1, <2>1, <2>2, <2>3, <2>4
  <1> QED BY <1>2, <1>3, <1>4

LEMMA TargetMoves ==
  ASSUME TypeOK, NEW h \in Handler, ReadTargetRole(h)
  PROVE  LET l == loc[h]
         IN /\ pc[h] = "target" /\ UNCHANGED <<conv, part, known, touched, excused>>
            /\ \/ Rests(h)
               \/ /\ loc'[h] = l
                  /\ \/ pc'[h] = "admins"
                     \/ pc'[h] = "setrole" /\ l.op = "role" /\ (l.user # l.by \/ l.role # "member")
                     \/ pc'[h] = "deactivate" /\ l.op # "role"
  BY Moves DEF ReadTargetRole, Reads, Rests, collections, history

LEMMA AdminsMoves ==
  ASSUME TypeOK, NEW h \in Handler, CountAdmins(h) \/ CountOthers(h)
  PROVE  LET l == loc[h]
         IN /\ pc[h] \in {"admins", "total"} /\ UNCHANGED <<conv, part, known, touched, excused>>
            /\ \/ Rests(h)
               \/ /\ loc'[h] = l
                  /\ \/ /\ pc[h] = "admins" /\ pc'[h] = "total" /\ l.op = "leave"
                        /\ Cardinality(Admins(l.c)) = 1
                     \/ /\ pc[h] = "admins" /\ pc'[h] \in {"setrole", "deactivate"}
                        /\ pc'[h] = "setrole" <=> l.op = "role"
                        /\ l.op # "leave" => ~(Cardinality(Admins(l.c)) <= 1)
                        /\ l.op = "leave" => Cardinality(Admins(l.c)) # 1
                     \/ /\ pc[h] = "total" /\ pc'[h] = "deactivate"
                        /\ ~(Cardinality(Active(l.c)) > 1)
  BY Moves DEF CountAdmins, CountOthers, Reads, Rests, collections, history

LEMMA WriterRests ==
  ASSUME TypeOK, NEW h \in Handler,
         \/ WriteRole(h) \/ WriteLeft(h) \/ UpdateConversation(h) \/ InsertParticipants(h)
  PROVE  Rests(h)
  BY Moves DEF WriteRole, WriteLeft, UpdateConversation, InsertParticipants, Done, Rests

LEMMA CreateMoves ==
  ASSUME TypeOK, NEW h \in Handler, FindCommon(h) \/ ExamineCommon(h)
  PROVE  LET l == loc[h]
             m == loc'[h]
         IN /\ UNCHANGED <<conv, part, known, touched, excused>>
            /\ \/ Rests(h)
               \/ /\ pc[h] = "find" /\ pc'[h] = "examine" /\ m.op = l.op /\ m.by = l.by /\ m.user = l.user
                  /\ m.cands = {c \in Conv : {l.by, l.user} \subseteq Active(c)}
               \/ /\ pc[h] = "examine" /\ pc'[h] = "examine"
                  /\ m.op = l.op /\ m.by = l.by /\ m.user = l.user
                  /\ \E c \in l.cands : conv[c].type # "direct" /\ m.cands = l.cands \ {c}
               \/ /\ pc[h] = "examine" /\ pc'[h] = "save" /\ l.cands = {}
                  /\ m.op = l.op /\ m.by = l.by /\ m.user = l.user /\ m.who = {l.user}
  <1> DEFINE l == loc[h]
             Set(S) == [l EXCEPT !.cands = S]
             Next0 == [l EXCEPT !.who = {l.user}]
  <1>1. UNCHANGED <<conv, part, known, touched, excused>>
    BY DEF FindCommon, ExamineCommon, Reads, collections, history
  <1>2. l \in Locals
    BY DEF TypeOK
  <1>3. \A S : Set(S).op = l.op /\ Set(S).by = l.by /\ Set(S).user = l.user /\ Set(S).cands = S
    BY <1>2 DEF Locals
  <1>4. /\ Next0.op = l.op /\ Next0.by = l.by /\ Next0.user = l.user /\ Next0.who = {l.user}
    BY <1>2 DEF Locals
  <1>5. \/ /\ pc[h] = "find"
           /\ GotoWith(h, "examine", Set({c \in Conv : {l.by, l.user} \subseteq Active(c)}))
        \/ /\ pc[h] = "examine"
           /\ \E c \in l.cands : /\ conv[c].type # "direct"
                                 /\ GotoWith(h, "examine", Set(l.cands \ {c}))
        \/ pc[h] = "examine" /\ l.cands = {} /\ GotoWith(h, "save", Next0)
        \/ GotoWith(h, "idle", NoLocals)
    BY DEF FindCommon, ExamineCommon, Reads
  <1> HIDE DEF Set, Next0
  <1>6. ASSUME NEW step, NEW m, GotoWith(h, step, m) PROVE pc'[h] = step /\ loc'[h] = m
    BY <1>6, Moves
  <1>7. CASE GotoWith(h, "examine", Set({c \in Conv : {l.by, l.user} \subseteq Active(c)}))
             /\ pc[h] = "find"
    <2> DEFINE S == {c \in Conv : {l.by, l.user} \subseteq Active(c)}
    <2>1. pc'[h] = "examine" /\ loc'[h] = Set(S)
      BY <1>6, <1>7
    <2> HIDE DEF S
    <2>2. loc'[h].op = l.op /\ loc'[h].by = l.by /\ loc'[h].user = l.user /\ loc'[h].cands = S
      BY <1>3, <2>1
    <2> QED BY <1>1, <1>7, <2>1, <2>2 DEF S
  <1>8. ASSUME NEW c \in l.cands, conv[c].type # "direct", pc[h] = "examine",
               GotoWith(h, "examine", Set(l.cands \ {c}))
        PROVE  /\ pc'[h] = "examine" /\ loc'[h].op = l.op /\ loc'[h].by = l.by
               /\ loc'[h].user = l.user /\ loc'[h].cands = l.cands \ {c}
    BY <1>3, <1>6, <1>8
  <1>9. CASE pc[h] = "examine" /\ l.cands = {} /\ GotoWith(h, "save", Next0)
    BY <1>1, <1>4, <1>6, <1>9
  <1>10. CASE GotoWith(h, "idle", NoLocals)
    BY <1>1, <1>6, <1>10 DEF Rests
  <1> QED BY <1>1, <1>5, <1>7, <1>8, <1>9, <1>10

LEMMA ShapeKept ==
  ASSUME TypeOK, Shape, Placed, NEW h \in Handler, Takes(h)
  PROVE  Shape'
  <1>1. ASSUME NEW g \in Handler \ {h} PROVE ShapeOf(g)'
    <2>1. pc'[g] = pc[g] /\ loc'[g] = loc[g] /\ ShapeOf(g)
      BY Footprint DEF Leaves, Others, Shape
    <2> QED BY <2>1 DEF ShapeOf
  <1> SUFFICES ShapeOf(h)'
    BY <1>1 DEF Shape
  <1>2. loc[h] \in Locals /\ ShapeOf(h) /\ h \in DOMAIN pc /\ h \in DOMAIN loc
    BY DEF TypeOK, Shape
  <1>3. CASE RequestStep(h)
    BY <1>3, RequestsAreSound DEF Received, ShapeOf, AddSteps
  <1>4. ASSUME pc'[h] = "idle", loc'[h] = NoLocals PROVE ShapeOf(h)'
    BY <1>4 DEF ShapeOf, NoLocals, AddSteps
  <1>5. CASE FindCommon(h) \/ ExamineCommon(h)
    BY <1>2, <1>4, <1>5 DEF FindCommon, ExamineCommon, Reads, GotoWith, Goto, ShapeOf, Locals, AddSteps
  <1>6. CASE SaveConversation(h) \/ InsertParticipants(h)
    BY <1>2, <1>4, <1>6 DEF SaveConversation, InsertParticipants, Done, GotoWith, Goto, ShapeOf, Locals, AddSteps
  <1>7. CASE ReadOwnRole(h)
    BY <1>2, <1>4, <1>7 DEF ReadOwnRole, Reads, GotoWith, Goto, ShapeOf, Locals, AddSteps, Ops
  <1>8. CASE CountParticipants(h)
    BY <1>2, <1>4, <1>8, CountMoves DEF Same, Rests, ShapeOf, AddSteps
  <1>9. CASE CheckUser(h)
    BY <1>2, <1>9, CheckMoves DEF Same, ShapeOf, AddSteps
  <1>15. CASE FindParticipant(h)
    <2>1. loc[h].todo \subseteq User
      BY <1>2 DEF Locals
    <2> QED BY <1>2, <1>4, <1>15, <2>1, FindMoves DEF Same, Rests, ShapeOf, AddSteps
  <1>10. CASE SaveParticipant(h)
    BY <1>2, <1>10, JoinMoves DEF Same, ShapeOf, AddSteps
  <1>11. CASE ReadTargetRole(h)
    BY <1>2, <1>4, <1>11 DEF ReadTargetRole, Reads, GotoWith, Goto, ShapeOf, AddSteps
  <1>12. CASE CountAdmins(h) \/ CountOthers(h)
    BY <1>2, <1>4, <1>12 DEF CountAdmins, CountOthers, Reads, GotoWith, Goto, ShapeOf, AddSteps
  <1>13. CASE WriteRole(h) \/ WriteLeft(h) \/ UpdateConversation(h)
    BY <1>2, <1>4, <1>13 DEF WriteRole, WriteLeft, UpdateConversation, Done, GotoWith, Goto
  <1>14. CASE Fail(h)
    BY <1>2, <1>4, <1>14, JoinMoves, FailMoves DEF Same, Rests, ShapeOf, AddSteps
  <1> QED BY <1>3, <1>5, <1>6, <1>7, <1>8, <1>9, <1>10, <1>11, <1>12, <1>13, <1>14, <1>15
          DEF Takes, Serves, CreateStep, AddStep, ManageStep

LEMMA PlacedKept ==
  ASSUME TypeOK, Shape, Placed, Private, NEW h \in Handler, Takes(h)
  PROVE  Placed'
  <1>1. Leaves(h) /\ PlaceOf(h) /\ ShapeOf(h) /\ loc[h] \in Locals
    BY Footprint DEF Placed, Shape, TypeOK
  <1>2. pc[h] \in WriteSteps \cup {"insert"} => loc[h].c \in Conv /\ conv[loc[h].c].type # "none"
    BY <1>1 DEF PlaceOf, InnerSteps, AddSteps, WriteSteps
  <1>3. ASSUME NEW c \in Conv, conv'[c].type = "none" PROVE \A u \in User : part'[c][u] = NoDoc
    <2>1. conv[c].type = "none"
      BY <1>1, <1>3 DEF Leaves
    <2>2. part'[c] = part[c]
      BY <1>1, <1>2, <2>1 DEF Leaves
    <2> QED BY <2>1, <2>2 DEF Placed
  <1>4. ASSUME NEW g \in Handler \ {h} PROVE PlaceOf(g)'
    <2>1. pc'[g] = pc[g] /\ loc'[g] = loc[g] /\ PlaceOf(g) /\ ShapeOf(g) /\ loc[g] \in Locals
      BY <1>1 DEF Leaves, Others, Placed, Shape, TypeOK
    <2>2. ASSUME pc[g] \in {"own"} \cup InnerSteps
          PROVE  PlaceOf(g)'
      <3>1. pc[g] # "insert" /\ pc[g] # "idle" /\ loc[g].c \in Conv /\ loc[g].by \in User
            /\ (pc[g] = "join" => loc[g].user \in User)
        BY <2>1, <2>2 DEF PlaceOf, ShapeOf, InnerSteps, AddSteps
      <3>2. conv'[loc[g].c].type = conv[loc[g].c].type /\ conv[loc[g].c].type # "none"
        BY <1>1, <2>1, <2>2, <3>1 DEF Leaves, PlaceOf
      <3>3. \A u \in User : part[loc[g].c][u] # NoDoc => part'[loc[g].c][u] # NoDoc
        BY <1>1, <3>1 DEF Leaves
      <3> QED BY <2>1, <3>1, <3>2, <3>3 DEF PlaceOf, InnerSteps, AddSteps
    <2>3. ASSUME pc[g] = "insert" PROVE PlaceOf(g)'
      <3>1. loc[g].c \in Conv /\ conv[loc[g].c].type # "none" /\ \A u \in User : part[loc[g].c][u] = NoDoc
        BY <2>1, <2>3 DEF PlaceOf
      <3>2. conv'[loc[g].c].type = conv[loc[g].c].type
        BY <1>1, <3>1 DEF Leaves
      <3>3. ~(pc[h] = "insert" /\ loc[h].c = loc[g].c)
        BY <2>3 DEF Private
      <3>4. ~(pc[h] \in WriteSteps /\ loc[h].c = loc[g].c)
        BY <1>1, <3>1 DEF PlaceOf, ShapeOf, WriteSteps, InnerSteps, AddSteps
      <3>5. part'[loc[g].c] = part[loc[g].c]
        BY <1>1, <3>1, <3>3, <3>4 DEF Leaves
      <3> QED BY <2>1, <2>3, <3>1, <3>2, <3>5 DEF PlaceOf, InnerSteps, AddSteps
    <2>4. ASSUME pc[g] \notin {"own", "insert"} \cup InnerSteps PROVE PlaceOf(g)'
      BY <2>1, <2>4 DEF PlaceOf, InnerSteps, AddSteps
    <2> QED BY <2>2, <2>3, <2>4
  <1> SUFFICES PlaceOf(h)'
    BY <1>3, <1>4 DEF Placed
  <1>5. ASSUME pc'[h] \in {"idle", "find", "examine", "save"} PROVE PlaceOf(h)'
    BY <1>5 DEF PlaceOf, InnerSteps, AddSteps
  <1>6. CASE RequestStep(h)
    <2>1. UNCHANGED <<conv, part>> /\ Received(h)
      BY <1>6, RequestsAreSound, RequestsAreQuiet
    <2> QED BY <1>5, <2>1 DEF Received, PlaceOf, InnerSteps, AddSteps
  <1>7. CASE SaveConversation(h)
    <2>1. PICK c \in Conv : /\ conv[c].type = "none" /\ loc'[h].c = c /\ pc'[h] = "insert"
                            /\ conv'[c].type \in {"direct", "group"} /\ UNCHANGED part
      BY <1>7, Saved
    <2>2. \A u \in User : part[c][u] = NoDoc
      BY <2>1 DEF Placed
    <2> QED BY <2>1, <2>2 DEF PlaceOf, InnerSteps, AddSteps
  <1>8. CASE ReadOwnRole(h)
    <2>1. CASE Rests(h)
      BY <1>5, <2>1 DEF Rests
    <2>2. CASE ~Rests(h)
      <3>1. /\ pc[h] = "own" /\ UNCHANGED <<conv, part>> /\ loc'[h] = loc[h]
            /\ part[loc[h].c][loc[h].by].active
            /\ pc'[h] \in {"count", "target", "admins", "deactivate", "update"}
        BY <1>8, <2>2, OwnMoves
      <3>2. part[loc[h].c][loc[h].by] # NoDoc
        BY <3>1 DEF NoDoc
      <3> QED BY <1>1, <3>1, <3>2 DEF PlaceOf, InnerSteps, AddSteps
    <2> QED BY <2>1, <2>2
  <1>9. ASSUME pc[h] \in InnerSteps, pc'[h] \in InnerSteps, Same(h),
               pc'[h] = "join" /\ loc'[h].found => part[loc[h].c][loc'[h].user] # NoDoc,
               pc'[h] = "join" => loc'[h].user \in User
        PROVE  PlaceOf(h)'
    <2>1. /\ loc'[h].c = loc[h].c /\ loc'[h].by = loc[h].by /\ loc'[h].op = loc[h].op
          /\ loc[h].c \in Conv /\ loc[h].by \in User /\ conv[loc[h].c].type # "none"
          /\ pc'[h] # "insert"
      BY <1>1, <1>9 DEF Same, PlaceOf, ShapeOf, InnerSteps, AddSteps
    <2>2. \A u \in User : part[loc[h].c][u] # NoDoc => part'[loc[h].c][u] # NoDoc
      BY <1>1, <2>1 DEF Leaves
    <2>3. conv'[loc[h].c].type = conv[loc[h].c].type
      BY <1>1, <2>1 DEF Leaves
    <2> QED BY <1>1, <1>9, <2>1, <2>2, <2>3 DEF PlaceOf
  <1>10. CASE CountParticipants(h) \/ CheckUser(h) \/ SaveParticipant(h) \/ (Fail(h) /\ pc[h] = "join")
    BY <1>5, <1>9, <1>10, CountMoves, CheckMoves, JoinMoves DEF Rests, InnerSteps, AddSteps
  <1>11. CASE FindParticipant(h)
    <2>1. loc[h].todo \subseteq User
      BY <1>1 DEF Locals
    <2> QED BY <1>5, <1>9, <1>11, <2>1, FindMoves DEF Rests, InnerSteps, AddSteps
  <1>12. CASE ReadTargetRole(h) \/ CountAdmins(h) \/ CountOthers(h)
    BY <1>5, <1>9, <1>12, TargetMoves, AdminsMoves DEF Rests, Same, InnerSteps, AddSteps
  <1>13. CASE Fail(h) /\ pc[h] # "join"
    BY <1>5, <1>9, <1>13, FailMoves DEF Rests, InnerSteps, AddSteps
  <1>14. CASE FindCommon(h) \/ ExamineCommon(h)
    BY <1>5, <1>14, CreateMoves DEF Rests
  <1>15. CASE WriteRole(h) \/ WriteLeft(h) \/ UpdateConversation(h) \/ InsertParticipants(h)
    BY <1>5, <1>15, WriterRests DEF Rests
  <1> QED BY <1>6, <1>7, <1>8, <1>10, <1>11, <1>12, <1>13, <1>14, <1>15
          DEF Takes, Serves, CreateStep, AddStep, ManageStep

LEMMA PrivateKept ==
  ASSUME TypeOK, Shape, Placed, Private, NEW h \in Handler, Takes(h)
  PROVE  Private'
  <1>1. Leaves(h)
    BY Footprint
  <1>2. \A g \in Handler \ {h} : pc'[g] = pc[g] /\ loc'[g] = loc[g]
    BY <1>1 DEF Leaves, Others
  <1>3. CASE pc'[h] # "insert"
    BY <1>2, <1>3 DEF Private
  <1>4. CASE pc'[h] = "insert"
    <2>1. ~RequestStep(h)
      BY <1>4, RequestsAreSound DEF Received
    <2>2. SaveConversation(h)
      BY <1>4, <2>1, OwnMoves, TargetMoves, AdminsMoves, CountMoves, CheckMoves, FindMoves, JoinMoves,
         FailMoves, CreateMoves, WriterRests
      DEF Rests, Takes, Serves, CreateStep, AddStep, ManageStep
    <2>3. PICK c \in Conv : conv[c].type = "none" /\ loc'[h].c = c
      BY <2>2, Saved
    <2>4. \A g \in Handler : pc[g] = "insert" => loc[g].c # c
      BY <2>3 DEF Placed, PlaceOf
    <2> QED BY <1>2, <2>3, <2>4 DEF Private
  <1> QED BY <1>3, <1>4

-----------------------------------------------------------------------------
(* What the checks establish *)

LEMMA FiniteUsers ==
  ASSUME NEW S \in SUBSET User
  PROVE  IsFiniteSet(S) /\ Cardinality(S) \in Nat
  <1>1. IsFiniteSet(User)
    BY ConversationsAssumption
  <1>2. IsFiniteSet(S)
    BY <1>1, FS_Subset
  <1> QED BY <1>2, FS_CardinalityType

LEMMA Fewer ==
  ASSUME NEW S \in SUBSET User, NEW T \in SUBSET S
  PROVE  Cardinality(T) <= Cardinality(S)
  <1>1. IsFiniteSet(S)
    BY FiniteUsers
  <1> QED BY <1>1, FS_Subset

\* More than one leaves another one beside u.
LEMMA Several ==
  ASSUME NEW S \in SUBSET User, NEW u, ~(Cardinality(S) <= 1)
  PROVE  \E x \in S : x # u
  <1> SUFFICES ASSUME \A x \in S : x = u PROVE FALSE
    OBVIOUS
  <1>1. S \in SUBSET {u}
    OBVIOUS
  <1>2. IsFiniteSet({u}) /\ Cardinality({u}) = 1
    BY FS_Singleton
  <1>3. Cardinality(S) <= 1
    BY <1>1, <1>2, FS_Subset
  <1> QED BY <1>3

LEMMA Sole ==
  ASSUME NEW S \in SUBSET User, NEW u \in S, ~(Cardinality(S) > 1)
  PROVE  S = {u}
  <1> SUFFICES ASSUME NEW x \in S, x # u PROVE FALSE
    OBVIOUS
  <1>1. IsFiniteSet({u}) /\ Cardinality({u}) = 1
    BY FS_Singleton
  <1>2. Cardinality({u} \cup {x}) = 2
    <2> DEFINE U == {u}
    <2>1. IsFiniteSet(U) /\ Cardinality(U) = 1 /\ x \notin U
      BY <1>1
    <2> HIDE DEF U
    <2>2. Cardinality(U \cup {x}) = Cardinality(U) + 1
      BY <2>1, FS_AddElement
    <2> QED BY <2>1, <2>2 DEF U
  <1>3. Cardinality({u} \cup {x}) <= Cardinality(S)
    BY Fewer
  <1> QED BY <1>2, <1>3, FiniteUsers

\* Nobody writes what a request has read without overtaking it.
LEMMA Undisturbed ==
  ASSUME TypeOK, Shape, Placed, NEW h \in Handler, Takes(h), NEW g \in Handler \ {h},
         pc[g] \in InnerSteps, ~touched'[g]
  PROVE  /\ ~touched[g] /\ loc[g].c \in Conv /\ part'[loc[g].c] = part[loc[g].c]
         /\ conv'[loc[g].c].type = conv[loc[g].c].type
  <1>1. Leaves(h) /\ PlaceOf(g) /\ ShapeOf(g)
    BY Footprint DEF Placed, Shape
  <1>2. ~touched[g]
    BY <1>1 DEF Leaves, Others
  <1>3. loc[g].c \in Conv /\ loc[g].by \in User /\ part[loc[g].c][loc[g].by] # NoDoc
        /\ conv[loc[g].c].type # "none"
    BY <1>1 DEF PlaceOf, ShapeOf, InnerSteps, AddSteps
  <1>4. pc[g] \notin {"idle", "own"}
    BY DEF InnerSteps, AddSteps
  <1>5. part'[loc[g].c] = part[loc[g].c]
    BY <1>1, <1>3, <1>4 DEF Leaves
  <1> QED BY <1>1, <1>2, <1>3, <1>5 DEF Leaves

LEMMA CheckedKept ==
  ASSUME TypeOK, Shape, Placed, Checked, NEW h \in Handler, Takes(h)
  PROVE  Checked'
  <1>0. Leaves(h)
    BY Footprint
  <1>1. ASSUME NEW g \in Handler \ {h} PROVE CheckedOf(g)'
    <2> SUFFICES ASSUME ~touched'[g], pc[g] \in InnerSteps PROVE CheckedOf(g)'
      BY <1>0 DEF Leaves, Others, CheckedOf, InnerSteps
    <2>1. pc'[g] = pc[g] /\ loc'[g] = loc[g]
      BY <1>0 DEF Leaves, Others
    <2>2. CheckedOf(g) /\ ~touched[g]
      BY Undisturbed DEF Checked
    <2>3. PICK c \in Conv : /\ c = loc[g].c /\ part'[c] = part[c] /\ conv'[c].type = conv[c].type
      BY Undisturbed
    <2> QED BY <2>1, <2>2, <2>3 DEF CheckedOf, Manages, Active
  <1> SUFFICES ASSUME ~touched'[h] PROVE CheckedOf(h)'
    BY <1>1 DEF Checked, CheckedOf
  <1>2. /\ loc[h] \in Locals /\ ShapeOf(h) /\ PlaceOf(h) /\ CheckedOf(h)
        /\ part \in [Conv -> [User -> PartDoc]]
    BY DEF TypeOK, Shape, Placed, Checked
  <1>3. ASSUME pc'[h] \notin AddSteps \cup {"target", "admins", "total", "setrole", "deactivate"}
        PROVE  CheckedOf(h)'
    BY <1>3 DEF CheckedOf
  <1>4. CASE RequestStep(h)
    BY <1>3, <1>4, RequestsAreSound DEF Received, AddSteps
  <1>5. ASSUME pc[h] \in InnerSteps \cup {"own"}
        PROVE  loc[h].c \in Conv /\ loc[h].by \in User /\ part[loc[h].c][loc[h].by] \in PartDoc
    <2>1. loc[h].c \in Conv /\ loc[h].by \in User
      BY <1>2, <1>5 DEF PlaceOf, ShapeOf, InnerSteps, AddSteps
    <2> QED BY <1>2, <2>1
  <1>6. CASE ReadOwnRole(h)
    <2>1. CASE Rests(h)
      BY <1>3, <2>1 DEF Rests, AddSteps
    <2>2. CASE ~Rests(h)
      <3> DEFINE l == loc[h]
      <3>1. /\ pc[h] = "own" /\ UNCHANGED <<conv, part, touched>> /\ loc'[h] = l
            /\ part[l.c][l.by].active
            /\ \/ pc'[h] \in {"count", "target"} /\ l.op # "leave" /\ Manages(l.c, l.by)
               \/ pc'[h] = "admins" /\ l.op = "leave" /\ part[l.c][l.by].role = "admin"
               \/ /\ pc'[h] = "deactivate" /\ l.op = "leave"
                  /\ conv[l.c].type # "group" \/ part[l.c][l.by].role # "admin"
               \/ pc'[h] = "update"
        BY <1>6, <2>2, OwnMoves
      <3>2. l.op = "leave" => l.user = l.by
        BY <1>2 DEF ShapeOf
      <3>3. part[l.c][l.by].role \in Roles
        BY <1>5, <3>1 DEF PartDoc, NoDoc
      <3>4. PICK c \in Conv : c = l.c
        BY <1>5, <3>1
      <3>5. CASE pc'[h] \in {"count", "target"} /\ l.op # "leave" /\ Manages(l.c, l.by)
        BY <3>1, <3>4, <3>5 DEF CheckedOf, Manages, AddSteps
      <3>6. CASE pc'[h] = "admins" /\ l.op = "leave" /\ part[l.c][l.by].role = "admin"
        BY <3>1, <3>4, <3>6 DEF CheckedOf, Manages, AddSteps
      <3>7. CASE /\ pc'[h] = "deactivate" /\ l.op = "leave"
                 /\ conv[l.c].type # "group" \/ part[l.c][l.by].role # "admin"
        BY <3>1, <3>2, <3>3, <3>4, <3>7 DEF CheckedOf, Manages, AddSteps, Roles
      <3>8. CASE pc'[h] = "update"
        BY <1>3, <3>8 DEF AddSteps
      <3> QED BY <3>1, <3>5, <3>6, <3>7, <3>8
    <2> QED BY <2>1, <2>2
  <1>7. ASSUME pc[h] \in AddSteps, pc'[h] \in AddSteps, Same(h),
               UNCHANGED <<part, touched>>
        PROVE  CheckedOf(h)'
    <2>1. PICK c \in Conv : c = loc[h].c /\ c = loc'[h].c
      BY <1>5, <1>7 DEF Same, InnerSteps
    <2> QED BY <1>2, <1>7, <2>1 DEF CheckedOf, Manages, Same, AddSteps
  <1>8. CASE CountParticipants(h) \/ CheckUser(h) \/ FindParticipant(h)
    BY <1>3, <1>7, <1>8, CountMoves, CheckMoves, FindMoves DEF Rests, AddSteps
  <1>9. CASE Fail(h)
    BY <1>3, <1>7, <1>9, JoinMoves, FailMoves DEF Rests, AddSteps, Fail, collections, history
  <1>10. CASE SaveParticipant(h)
    <2>1. pc[h] = "join" /\ pc'[h] = "lookup" /\ Same(h)
      BY <1>10, JoinMoves
    <2>2. CASE UNCHANGED <<collections, history, bounds>>
      BY <1>7, <2>1, <2>2 DEF AddSteps, collections, history
    <2>3. CASE ~UNCHANGED <<collections, history, bounds>>
      <3>1. PICK doc : Write(h, loc[h].c, loc[h].user, doc) /\ doc.active
                       /\ (part[loc[h].c][loc[h].user] # NoDoc => doc.role = part[loc[h].c][loc[h].user].role)
        BY <1>10, <2>3 DEF SaveParticipant
      <3>2. /\ loc[h].c \in Conv /\ loc[h].by \in User /\ loc[h].user \in User
            /\ loc'[h].c = loc[h].c /\ loc'[h].by = loc[h].by
        BY <1>2, <1>5, <2>1 DEF Same, InnerSteps, AddSteps, ShapeOf
      <3>3. ~touched[h]
        BY <3>1 DEF Write
      <3>4. Manages(loc[h].c, loc[h].by)
        BY <1>2, <2>1, <3>3 DEF CheckedOf, AddSteps
      <3>5. part' = [part EXCEPT ![loc[h].c][loc[h].user] = doc]
        BY <3>1 DEF Write
      <3>6. PICK c \in Conv : c = loc[h].c /\ c = loc'[h].c
        BY <3>2
      <3>7. PICK u \in User : u = loc[h].by /\ u = loc'[h].by
        BY <3>2
      <3>8. part'[c][u].active /\ part'[c][u].role \in {"admin", "owner"}
        <4>1. CASE u = loc[h].user
          BY <1>2, <3>1, <3>2, <3>4, <3>5, <3>6, <3>7, <4>1 DEF Manages, NoDoc
        <4>2. CASE u # loc[h].user
          BY <1>2, <3>2, <3>4, <3>5, <3>6, <3>7, <4>2 DEF Manages
        <4> QED BY <4>1, <4>2
      <3> QED BY <2>1, <3>6, <3>7, <3>8 DEF CheckedOf, Manages, AddSteps
    <2> QED BY <2>2, <2>3
  <1>11. CASE ReadTargetRole(h)
    <2>1. CASE Rests(h)
      BY <1>3, <2>1 DEF Rests, AddSteps
    <2>2. CASE ~Rests(h)
      <3> DEFINE l == loc[h]
      <3>1. /\ pc[h] = "target" /\ UNCHANGED <<conv, part, touched>> /\ loc'[h] = l
            /\ \/ pc'[h] = "admins"
               \/ pc'[h] = "setrole" /\ (l.user # l.by \/ l.role # "member")
               \/ pc'[h] = "deactivate" /\ l.op # "role"
        BY <1>11, <2>2, TargetMoves
      <3>2. /\ Manages(l.c, l.by) /\ l.op \in {"role", "remove"} /\ l.by \in User
            /\ (l.op = "remove" => l.user # l.by)
        BY <1>2, <3>1 DEF CheckedOf, ShapeOf
      <3>3. PICK c \in Conv : c = l.c
        BY <1>5, <3>1 DEF InnerSteps
      <3>4. Manages(c, l.by)'
        BY <3>1, <3>2, <3>3 DEF Manages
      <3> QED BY <3>1, <3>2, <3>3, <3>4 DEF CheckedOf, AddSteps
    <2> QED BY <2>1, <2>2
  <1>12. CASE CountAdmins(h) \/ CountOthers(h)
    <2>1. CASE Rests(h)
      BY <1>3, <2>1 DEF Rests, AddSteps
    <2>2. CASE ~Rests(h)
      <3> DEFINE l == loc[h]
      <3>1. /\ pc[h] \in {"admins", "total"} /\ UNCHANGED <<conv, part, touched>> /\ loc'[h] = l
            /\ \/ pc[h] = "admins" /\ pc'[h] = "total"
               \/ /\ pc[h] = "admins" /\ pc'[h] \in {"setrole", "deactivate"}
                  /\ l.op # "leave" => ~(Cardinality(Admins(l.c)) <= 1)
                  /\ l.op = "leave" => Cardinality(Admins(l.c)) # 1
               \/ /\ pc[h] = "total" /\ pc'[h] = "deactivate"
                  /\ ~(Cardinality(Active(l.c)) > 1)
        BY <1>12, <2>2, AdminsMoves
      <3>2. Manages(l.c, l.by) /\ l.by \in User /\ (l.op = "leave" => l.user = l.by)
        BY <1>2, <3>1 DEF CheckedOf, ShapeOf
      <3>3. PICK c \in Conv : c = l.c
        BY <1>5, <3>1 DEF InnerSteps
      <3>4. CASE pc[h] = "admins" /\ pc'[h] = "total"
        BY <3>1, <3>2, <3>3, <3>4 DEF CheckedOf, Manages, AddSteps
      <3>5. CASE /\ pc[h] = "admins" /\ pc'[h] \in {"setrole", "deactivate"}
                 /\ l.op # "leave" => ~(Cardinality(Admins(l.c)) <= 1)
                 /\ l.op = "leave" => Cardinality(Admins(l.c)) # 1
        <4>1. Admins(c) \in SUBSET User
          BY DEF Admins, Active
        <4>2. ~(Cardinality(Admins(c)) <= 1)
          <5>1. CASE l.op # "leave"
            BY <3>3, <3>5, <5>1
          <5>2. CASE l.op = "leave"
            <6>1. l.by \in Admins(c)
              BY <1>2, <3>1, <3>2, <3>3, <3>5, <5>2 DEF CheckedOf, Admins, Active, Manages
            <6>2. Cardinality(Admins(c)) # 0
              BY <4>1, <6>1, FiniteUsers, FS_EmptySet
            <6> QED BY <3>3, <3>5, <4>1, <5>2, <6>2, FiniteUsers
          <5> QED BY <5>1, <5>2
        <4>3. PICK x \in Admins(c) : x # l.user
          BY <4>1, <4>2, Several
        <4>4. x \in User \ {l.user} /\ Manages(c, x)'
          BY <3>1, <4>3 DEF Admins, Active, Manages
        <4> QED BY <3>1, <3>3, <3>5, <4>4 DEF CheckedOf, AddSteps
      <3>6. CASE pc[h] = "total" /\ pc'[h] = "deactivate" /\ ~(Cardinality(Active(l.c)) > 1)
        <4>1. Active(c) \in SUBSET User /\ l.by \in Active(c)
          BY <3>2, <3>3 DEF Active, Manages
        <4>2. Active(c) = {l.by}
          BY <3>3, <3>6, <4>1, Sole
        <4>3. Active(c)' = Active(c)
          BY <3>1 DEF Active
        <4>4. l.op = "leave"
          BY <1>2, <3>6 DEF ShapeOf
        <4> QED BY <3>1, <3>2, <3>3, <3>6, <4>2, <4>3, <4>4 DEF CheckedOf, AddSteps
      <3> QED BY <3>1, <3>4, <3>5, <3>6
    <2> QED BY <2>1, <2>2
  <1>13. CASE WriteRole(h) \/ WriteLeft(h) \/ UpdateConversation(h) \/ InsertParticipants(h)
    BY <1>3, <1>13, WriterRests DEF Rests, AddSteps
  <1>14. CASE FindCommon(h) \/ ExamineCommon(h)
    BY <1>3, <1>14, CreateMoves DEF Rests, AddSteps
  <1>15. CASE SaveConversation(h)
    BY <1>3, <1>15, Saved DEF AddSteps
  <1> QED BY <1>4, <1>6, <1>8, <1>9, <1>10, <1>11, <1>12, <1>13, <1>14, <1>15
          DEF Takes, Serves, CreateStep, AddStep, ManageStep

LEMMA RoomKept ==
  ASSUME TypeOK, Shape, Placed, Room, NEW h \in Handler, Takes(h)
  PROVE  Room'
  <1>0. Leaves(h)
    BY Footprint
  <1>1. ASSUME NEW g \in Handler \ {h} PROVE RoomOf(g)'
    <2>1. pc'[g] = pc[g] /\ loc'[g] = loc[g] /\ RoomOf(g) /\ Pending(g)' = Pending(g)
      BY <1>0 DEF Leaves, Others, Room, Pending
    <2>2. CASE pc[g] \in {"check", "lookup", "join"} /\ ~touched'[g]
      <3>1. PICK c \in Conv : /\ c = loc[g].c /\ part'[c] = part[c] /\ ~touched[g]
        BY <2>2, Undisturbed DEF InnerSteps, AddSteps
      <3>2. Active(c)' = Active(c)
        BY <3>1 DEF Active
      <3> QED BY <2>1, <2>2, <3>1, <3>2 DEF RoomOf
    <2>3. CASE ~(pc[g] \in {"check", "lookup", "join"} /\ ~touched'[g])
      BY <2>1, <2>3 DEF RoomOf
    <2> QED BY <2>2, <2>3
  <1> SUFFICES RoomOf(h)'
    BY <1>1 DEF Room
  <1>2. /\ loc[h] \in Locals /\ ShapeOf(h) /\ PlaceOf(h) /\ RoomOf(h)
        /\ loc[h].who \subseteq User /\ loc[h].todo \subseteq User
    BY DEF TypeOK, Shape, Placed, Room, Locals
  <1>3. ASSUME pc'[h] \notin {"save", "insert", "check", "lookup", "join"} PROVE RoomOf(h)'
    BY <1>3 DEF RoomOf
  <1>4. ASSUME pc[h] \in {"check", "lookup", "join"}, pc'[h] \in {"check", "lookup", "join"},
               UNCHANGED <<part, touched>>, loc'[h].c = loc[h].c,
               NEW S \in SUBSET User, S = Pending(h), Pending(h)' \subseteq S
        PROVE  RoomOf(h)'
    <2>1. PICK c \in Conv : c = loc[h].c
      BY <1>2, <1>4 DEF PlaceOf, InnerSteps, AddSteps
    <2>2. Active(c)' = Active(c) /\ Active(c) \in SUBSET User
      BY <1>4 DEF Active
    <2>3. PICK T \in SUBSET S : T = Pending(h)'
      BY <1>4
    <2>4. Cardinality(T) <= Cardinality(S) /\ Cardinality(S) \in Nat /\ Cardinality(T) \in Nat
          /\ Cardinality(Active(c)) \in Nat
      BY <2>2, Fewer, FiniteUsers
    <2>5. ~touched[h] => Cardinality(Active(c)) + Cardinality(S) <= MaxParticipants
      BY <1>2, <1>4, <2>1 DEF RoomOf
    <2>6. ~touched[h] => Cardinality(Active(c)) + Cardinality(T) <= MaxParticipants
      BY <2>4, <2>5, ConversationsAssumption
    <2> QED BY <1>4, <2>1, <2>2, <2>3, <2>6 DEF RoomOf
  <1>5. CASE RequestStep(h)
    BY <1>5, RequestsAreSound DEF Received, RoomOf, Pending
  <1>6. CASE ReadOwnRole(h)
    BY <1>3, <1>6, OwnMoves DEF Rests
  <1>7. CASE CountParticipants(h)
    <2>1. CASE Rests(h)
      BY <1>3, <2>1 DEF Rests
    <2>2. CASE ~Rests(h)
      <3>1. /\ pc[h] = "count" /\ pc'[h] = "check" /\ Same(h) /\ UNCHANGED part
            /\ loc'[h].todo = loc[h].who /\ loc'[h].who = {}
            /\ Cardinality(Active(loc[h].c)) + Cardinality(loc[h].who) <= MaxParticipants
        BY <1>7, <2>2, CountMoves
      <3>2. PICK c \in Conv : c = loc[h].c /\ c = loc'[h].c
        BY <1>2, <3>1 DEF PlaceOf, Same, InnerSteps, AddSteps
      <3>3. Active(c)' = Active(c) /\ Pending(h)' = loc[h].who
        BY <3>1 DEF Active, Pending
      <3> QED BY <3>1, <3>2, <3>3 DEF RoomOf
    <2> QED BY <2>1, <2>2
  <1>8. CASE CheckUser(h)
    <2>1. /\ pc[h] = "check" /\ Same(h) /\ UNCHANGED <<part, touched>>
          /\ \/ pc'[h] = "check" /\ loc'[h].who \cup loc'[h].todo \subseteq loc[h].who \cup loc[h].todo
             \/ pc'[h] = "lookup" /\ loc'[h].todo = loc[h].who
      BY <1>8, CheckMoves
    <2>2. Pending(h) = loc[h].who \cup loc[h].todo /\ Pending(h)' \subseteq Pending(h)
      BY <2>1 DEF Pending
    <2> QED BY <1>2, <1>4, <2>1, <2>2 DEF Same
  <1>9. ASSUME pc[h] = "lookup", pc'[h] = "lookup", Same(h), loc'[h].todo \subseteq loc[h].todo,
               UNCHANGED <<part, touched>>
        PROVE  RoomOf(h)'
    <2>1. Pending(h) = loc[h].todo /\ Pending(h)' = loc'[h].todo
      BY <1>9 DEF Pending
    <2> QED BY <1>2, <1>4, <1>9, <2>1 DEF Same
  <1>10. CASE FindParticipant(h)
    <2>1. CASE pc'[h] = "join"
      <3>1. /\ pc[h] = "lookup" /\ Same(h) /\ loc'[h].user \in loc[h].todo
            /\ loc'[h].todo = loc[h].todo \ {loc'[h].user} /\ UNCHANGED <<part, touched>>
        BY <1>10, <2>1, FindMoves DEF Rests
      <3>2. Pending(h) = loc[h].todo /\ Pending(h)' = loc[h].todo
        BY <2>1, <3>1 DEF Pending
      <3> QED BY <1>2, <1>4, <2>1, <3>1, <3>2 DEF Same
    <2>2. CASE pc'[h] # "join"
      BY <1>3, <1>9, <1>10, <2>2, FindMoves DEF Rests
    <2> QED BY <2>1, <2>2
  <1>11. CASE pc[h] = "join" /\ (SaveParticipant(h) \/ Fail(h))
    <2>1. /\ pc'[h] = "lookup" /\ Same(h) /\ loc'[h].todo = loc[h].todo
      BY <1>11, JoinMoves
    <2>2. PICK c \in Conv, u \in User : c = loc[h].c /\ u = loc[h].user /\ u \notin loc[h].todo
      BY <1>2, <1>11 DEF PlaceOf, ShapeOf, InnerSteps, AddSteps
    <2>3. Pending(h)' = loc[h].todo /\ Pending(h) = loc[h].todo \cup {u}
      BY <1>11, <2>1, <2>2 DEF Pending
    <2>4. CASE UNCHANGED <<part, touched>>
      BY <1>2, <1>4, <1>11, <2>1, <2>2, <2>3, <2>4 DEF Same
    <2>5. CASE ~UNCHANGED <<part, touched>>
      <3>1. PICK doc : Write(h, c, u, doc)
        BY <1>11, <2>2, <2>5 DEF SaveParticipant, Fail, collections, history
      <3>2. /\ touched'[h] = touched[h] /\ part' = [part EXCEPT ![c][u] = doc]
        BY <3>1 DEF Write, TypeOK
      <3>3. Active(c)' \subseteq Active(c) \cup {u}
        BY <3>2 DEF Active, TypeOK
      <3>4. Active(c) \in SUBSET User /\ Active(c)' \in SUBSET User
        BY DEF Active
      <3>5. Cardinality(Active(c) \cup {u}) <= Cardinality(Active(c)) + 1
        BY <3>4, FiniteUsers, FS_AddElement
      <3>6. PICK T \in SUBSET (Active(c) \cup {u}) : T = Active(c)'
        BY <3>3
      <3>7. Cardinality(T) <= Cardinality(Active(c) \cup {u})
        BY <3>4, Fewer
      <3>8. Cardinality(loc[h].todo \cup {u}) = Cardinality(loc[h].todo) + 1
        BY <1>2, <2>2, FiniteUsers, FS_AddElement
      <3>9. ~touched[h] =>
              Cardinality(Active(c)) + Cardinality(loc[h].todo \cup {u}) <= MaxParticipants
        BY <1>2, <1>11, <2>2, <2>3 DEF RoomOf
      <3>10. /\ Cardinality(T) \in Nat /\ Cardinality(Active(c)) \in Nat
             /\ Cardinality(loc[h].todo) \in Nat /\ Cardinality(Active(c) \cup {u}) \in Nat
        BY <1>2, <3>4, FiniteUsers
      <3>11. ~touched[h] => Cardinality(T) + Cardinality(loc[h].todo) <= MaxParticipants
        BY <3>5, <3>7, <3>8, <3>9, <3>10, ConversationsAssumption
      <3> QED BY <2>1, <2>2, <2>3, <3>2, <3>6, <3>11 DEF RoomOf, Same
    <2> QED BY <2>4, <2>5
  <1>12. CASE Fail(h) /\ pc[h] # "join"
    BY <1>3, <1>9, <1>12, FailMoves DEF Rests
  <1>13. CASE ReadTargetRole(h) \/ CountAdmins(h) \/ CountOthers(h)
    BY <1>3, <1>13, TargetMoves, AdminsMoves DEF Rests
  <1>14. CASE WriteRole(h) \/ WriteLeft(h) \/ UpdateConversation(h) \/ InsertParticipants(h)
    BY <1>3, <1>14, WriterRests DEF Rests
  <1>15. CASE FindCommon(h) \/ ExamineCommon(h)
    <2>1. CASE pc'[h] # "save"
      BY <1>3, <1>15, <2>1, CreateMoves DEF Rests
    <2>2. CASE pc'[h] = "save"
      <3>1. loc'[h].who = {loc[h].user} /\ loc'[h].by = loc[h].by
        BY <1>15, <2>2, CreateMoves DEF Rests
      <3>2. Pending(h)' = {loc[h].user} \cup {loc[h].by}
        BY <2>2, <3>1 DEF Pending
      <3> DEFINE U == {loc[h].user}
      <3>3. IsFiniteSet(U) /\ Cardinality(U) = 1
        BY FS_Singleton
      <3> HIDE DEF U
      <3>4. Cardinality(U \cup {loc[h].by}) \in {1, 2}
        BY <3>3, FS_AddElement
      <3>5. Cardinality(U \cup {loc[h].by}) <= MaxParticipants
        BY <3>4, ConversationsAssumption
      <3>6. Cardinality({loc[h].user} \cup {loc[h].by}) <= MaxParticipants
        BY <3>5 DEF U
      <3> QED BY <2>2, <3>2, <3>6 DEF RoomOf
    <2> QED BY <2>1, <2>2
  <1>16. CASE SaveConversation(h)
    <2>1. pc[h] = "save" /\ pc'[h] = "insert" /\ \E c \in Conv : loc'[h] = [loc[h] EXCEPT !.c = c]
      BY <1>16, Saved
    <2>2. Pending(h)' = Pending(h)
      BY <1>2, <2>1 DEF Pending, Locals
    <2> QED BY <1>2, <2>1, <2>2 DEF RoomOf
  <1>17. pc[h] = "join" \/ ~SaveParticipant(h)
    BY DEF SaveParticipant
  <1> QED BY <1>5, <1>6, <1>7, <1>8, <1>10, <1>11, <1>12, <1>13, <1>14, <1>15, <1>16, <1>17
          DEF Takes, Serves, CreateStep, AddStep, ManageStep

-----------------------------------------------------------------------------
(* What is promised *)

LEMMA ExaminedKept ==
  ASSUME TypeOK, Shape, Placed, Examined, NEW h \in Handler, Takes(h)
  PROVE  Examined'
  <1>1. Leaves(h)
    BY Footprint
  <1>2. ASSUME NEW g \in Handler, NEW c \in known[g]
        PROVE  /\ c \in Conv /\ conv'[c].type = "direct" /\ \E x \in User : part'[c][x] # NoDoc
               /\ \A u \in User, v \in User : Direct(c, u, v)' => Direct(c, u, v)
    <2>1. c \in Conv /\ conv[c].type = "direct" /\ \E x \in User : part[c][x] # NoDoc
      BY DEF Examined, ExaminedOf, TypeOK
    <2>2. conv'[c].type = "direct" /\ \E x \in User : part'[c][x] # NoDoc
      BY <1>1, <2>1 DEF Leaves
    <2>3. ~(pc[h] \in {"insert", "join"} /\ c = loc[h].c)
      BY <2>1 DEF Placed, PlaceOf, Shape, ShapeOf, InnerSteps, AddSteps
    <2>4. \A x \in User : part'[c][x].active => part[c][x].active
      BY <1>1, <2>1, <2>3 DEF Leaves
    <2> QED BY <2>1, <2>2, <2>4 DEF Direct, Active
  <1>3. ASSUME NEW g \in Handler, known'[g] = known[g],
               pc'[g] \notin {"examine", "save"} \/ (pc'[g] = "save" /\ loc'[g].op = "group")
        PROVE  ExaminedOf(g)'
    <2>1. \A c \in known[g] : conv'[c].type = "direct" /\ \E x \in User : part'[c][x] # NoDoc
      BY <1>2
    <2> QED BY <1>3, <2>1 DEF ExaminedOf
  <1>4. ASSUME NEW g \in Handler, known'[g] = known[g], loc[g].by \in User, loc[g].user \in User,
               pc'[g] = "examine" \/ (pc'[g] = "save" /\ loc'[g].op = "direct"),
               loc'[g].by = loc[g].by, loc'[g].user = loc[g].user,
               \A c \in known[g] : Direct(c, loc[g].by, loc[g].user) =>
                 pc'[g] = "examine" /\ c \in loc'[g].cands
        PROVE  ExaminedOf(g)'
    <2>1. \A c \in known[g] : conv'[c].type = "direct" /\ \E x \in User : part'[c][x] # NoDoc
      BY <1>2
    <2>2. PICK u \in User, v \in User : u = loc[g].by /\ v = loc[g].user
      BY <1>4
    <2>3. \A c \in known[g] : Direct(c, u, v)' => Direct(c, u, v)
      BY <1>2
    <2>4. \A c \in known'[g] : Direct(c, u, v)' => pc'[g] = "examine" /\ c \in loc'[g].cands
      BY <1>4, <2>2, <2>3
    <2> QED BY <1>4, <2>1, <2>2, <2>4 DEF ExaminedOf
  <1>5. ASSUME NEW g \in Handler \ {h} PROVE ExaminedOf(g)'
    <2>1. pc'[g] = pc[g] /\ loc'[g] = loc[g] /\ known'[g] = known[g] /\ ExaminedOf(g) /\ ShapeOf(g)
      BY <1>1 DEF Leaves, Others, Examined, Shape
    <2>2. CASE pc[g] = "examine" \/ (pc[g] = "save" /\ loc[g].op = "direct")
      <3>1. loc[g].by \in User /\ loc[g].user \in User
        BY <2>1, <2>2 DEF ShapeOf
      <3> QED BY <1>4, <2>1, <2>2, <3>1 DEF ExaminedOf
    <2>3. CASE ~(pc[g] = "examine" \/ (pc[g] = "save" /\ loc[g].op = "direct"))
      BY <1>3, <2>1, <2>3 DEF ShapeOf
    <2> QED BY <2>2, <2>3
  <1> SUFFICES ExaminedOf(h)'
    BY <1>5 DEF Examined
  <1>6. ShapeOf(h) /\ ExaminedOf(h) /\ known[h] \subseteq Conv /\ loc[h] \in Locals
    BY DEF Shape, Examined, TypeOK
  <1>7. CASE RequestStep(h)
    <2>1. Received(h) /\ UNCHANGED <<conv, part>>
      BY <1>7, RequestsAreSound, RequestsAreQuiet
    <2>2. CASE known'[h] = {}
      BY <2>1, <2>2 DEF Received, ExaminedOf
    <2>3. CASE known'[h] # {}
      <3>1. pc'[h] = "find" /\ loc'[h].by \in User
            /\ known'[h] = {c \in Conv : Direct(c, loc'[h].by, loc'[h].user)}
        BY <2>1, <2>3 DEF Received
      <3>2. \A c \in known'[h] : conv[c].type = "direct" /\ part[c][loc'[h].by] # NoDoc
        BY <3>1 DEF Direct, Active, NoDoc
      <3> QED BY <2>1, <3>1, <3>2 DEF ExaminedOf
    <2> QED BY <2>2, <2>3
  <1>8. CASE FindCommon(h) \/ ExamineCommon(h)
    <2>1. known' = known
      BY <1>8, CreateMoves
    <2>2. CASE Rests(h)
      BY <1>3, <2>1, <2>2 DEF Rests
    <2>3. CASE ~Rests(h)
      <3>1. /\ loc'[h].op = loc[h].op /\ loc'[h].by = loc[h].by /\ loc'[h].user = loc[h].user
            /\ \/ pc[h] = "find" /\ pc'[h] = "examine"
                  /\ loc'[h].cands = {c \in Conv : {loc[h].by, loc[h].user} \subseteq Active(c)}
               \/ /\ pc[h] = "examine" /\ pc'[h] = "examine"
                  /\ \E c \in loc[h].cands :
                       conv[c].type # "direct" /\ loc'[h].cands = loc[h].cands \ {c}
               \/ pc[h] = "examine" /\ pc'[h] = "save" /\ loc[h].cands = {}
        BY <1>8, <2>3, CreateMoves
      <3>2. loc[h].op = "direct" /\ loc[h].by \in User /\ loc[h].user \in User
        BY <1>6, <3>1 DEF ShapeOf
      <3>3. \A c \in known[h] : Direct(c, loc[h].by, loc[h].user) =>
              pc'[h] = "examine" /\ c \in loc'[h].cands
        BY <1>6, <3>1 DEF ExaminedOf, Direct
      <3> QED BY <1>4, <2>1, <3>1, <3>2, <3>3
    <2> QED BY <2>2, <2>3
  <1>9. ASSUME Serves(h), ~(FindCommon(h) \/ ExamineCommon(h)) PROVE ExaminedOf(h)'
    <2>1. known'[h] = known[h]
      BY <1>9, ServedSteps
    <2>2. pc'[h] \notin {"examine", "save"}
      BY <1>9, OwnMoves, TargetMoves, AdminsMoves, CountMoves, CheckMoves, FindMoves, JoinMoves,
         FailMoves, WriterRests, Saved
      DEF Rests, Serves, CreateStep, AddStep, ManageStep
    <2> QED BY <1>3, <2>1, <2>2
  <1> QED BY <1>7, <1>8, <1>9 DEF Takes

\* A participant more is one more at most.
LEMMA OneMore ==
  ASSUME NEW S \in SUBSET User, NEW T \in SUBSET User, NEW u, T \subseteq S \cup {u}
  PROVE  Cardinality(T) <= Cardinality(S) + 1
  <1>1. IsFiniteSet(S) /\ IsFiniteSet(S \cup {u})
    BY FiniteUsers, FS_AddElement
  <1>2. Cardinality(S \cup {u}) \in {Cardinality(S), Cardinality(S) + 1}
    BY <1>1, FS_AddElement
  <1>3. Cardinality(T) <= Cardinality(S \cup {u})
    BY <1>1, FS_Subset
  <1> QED BY <1>2, <1>3, FiniteUsers

LEMMA LimitKept ==
  ASSUME TypeOK, Shape, Placed, Room, GroupKeepsLimit, NEW h \in Handler, Takes(h)
  PROVE  GroupKeepsLimit'
  <1> SUFFICES ASSUME NEW c \in Conv, Cardinality(Active(c)') > MaxParticipants
               PROVE  "size" \in excused'[c]
    BY DEF GroupKeepsLimit
  <1>1. CASE part'[c] = part[c] /\ excused[c] \subseteq excused'[c]
    <2>1. Active(c)' = Active(c)
      BY <1>1 DEF Active
    <2> QED BY <1>1, <2>1 DEF GroupKeepsLimit
  <1>2. CASE UNCHANGED <<part, excused>>
    BY <1>1, <1>2
  <1>3. CASE RequestStep(h)
    BY <1>2, <1>3, RequestsAreQuiet
  <1>4. CASE SaveConversation(h) \/ UpdateConversation(h)
    BY <1>2, <1>4, Saved, Updated
  <1>5. CASE InsertParticipants(h)
    <2>1. /\ pc[h] = "insert" /\ loc[h].c \in Conv /\ excused' = excused
          /\ part' = [part EXCEPT ![loc[h].c] = Made(loc[h])]
      BY <1>5, Inserted
    <2>2. CASE c # loc[h].c
      BY <1>1, <2>1, <2>2 DEF TypeOK
    <2>3. CASE c = loc[h].c
      <3>1. part'[c] = Made(loc[h])
        BY <2>1, <2>3 DEF TypeOK
      <3>2. loc[h].by \in User /\ loc[h].who \subseteq User
        BY <2>1 DEF Shape, ShapeOf, TypeOK, Locals
      <3>3. Active(c)' \subseteq loc[h].who \cup {loc[h].by}
        BY <3>1 DEF Active, Made, NoDoc
      <3>4. PICK T \in SUBSET (loc[h].who \cup {loc[h].by}) : T = Active(c)'
        BY <3>3
      <3>5. Cardinality(T) <= Cardinality(loc[h].who \cup {loc[h].by})
        BY <3>2, Fewer
      <3>6. Cardinality(loc[h].who \cup {loc[h].by}) <= MaxParticipants
        BY <2>1 DEF Room, RoomOf, Pending
      <3>7. Cardinality(T) \in Nat /\ Cardinality(loc[h].who \cup {loc[h].by}) \in Nat
        BY <3>2, FiniteUsers
      <3> QED BY <3>4, <3>5, <3>6, <3>7, ConversationsAssumption
    <2> QED BY <2>2, <2>3
  <1>6. ASSUME NEW doc, Writes(h, doc) PROVE "size" \in excused'[c]
    <2>1. /\ loc[h].c \in Conv /\ loc[h].user \in User
          /\ part' = [part EXCEPT ![loc[h].c][loc[h].user] = doc]
          /\ part'[loc[h].c][loc[h].user] = doc
          /\ \A d \in Conv, u \in User : d # loc[h].c \/ u # loc[h].user => part'[d][u] = part[d][u]
      BY <1>6, Written
    <2>2. excused[c] \subseteq excused'[c]
      BY <1>6 DEF Writes, Write, TypeOK
    <2>3. CASE c # loc[h].c
      BY <1>1, <2>1, <2>2, <2>3 DEF TypeOK
    <2>4. CASE c = loc[h].c
      <3>1. Active(c) \in SUBSET User /\ Active(c)' \in SUBSET User
        BY DEF Active
      <3>2. CASE Active(c)' \subseteq Active(c)
        <4>1. PICK T \in SUBSET Active(c) : T = Active(c)'
          BY <3>2
        <4>2. Cardinality(Active(c)) > MaxParticipants
          BY <3>1, <4>1, Fewer, FiniteUsers, ConversationsAssumption
        <4> QED BY <2>2, <4>2 DEF GroupKeepsLimit
      <3>3. CASE ~(Active(c)' \subseteq Active(c))
        <4>1. doc.active /\ ~part[c][loc[h].user].active
          BY <2>1, <2>4, <3>3 DEF Active
        <4>2. pc[h] = "join"
          BY <1>6, <2>4, <4>1 DEF Writes
        <4>3. CASE touched[h]
          BY <1>6, <2>4, <4>1, <4>3 DEF Writes, Write, TypeOK
        <4>4. CASE ~touched[h]
          <5> DEFINE P == loc[h].todo \cup {loc[h].user}
          <5>1. Cardinality(Active(c)) + Cardinality(P) <= MaxParticipants
            BY <2>4, <4>2, <4>4 DEF Room, RoomOf, Pending
          <5>2. P \in SUBSET User /\ P # {}
            BY <2>1 DEF TypeOK, Locals
          <5> HIDE DEF P
          <5>3. Cardinality(P) \in Nat /\ Cardinality(P) # 0
            BY <5>2, FiniteUsers, FS_EmptySet
          <5>4. PICK T \in SUBSET User : T = Active(c)'
            BY <3>1
          <5>5. T \subseteq Active(c) \cup {loc[h].user}
            BY <2>1, <2>4, <5>4 DEF Active
          <5>6. Cardinality(T) <= Cardinality(Active(c)) + 1
            BY <3>1, <5>5, OneMore
          <5>7. Cardinality(T) \in Nat /\ Cardinality(Active(c)) \in Nat
            BY <3>1, <5>4, FiniteUsers
          <5> QED BY <5>1, <5>3, <5>4, <5>6, <5>7, ConversationsAssumption
        <4> QED BY <4>3, <4>4
      <3> QED BY <3>2, <3>3
    <2> QED BY <2>3, <2>4
  <1> QED BY <1>2, <1>3, <1>4, <1>5, <1>6, StepSplit DEF Takes

LEMMA ManagerKept ==
  ASSUME TypeOK, Shape, Placed, Checked, GroupKeepsManager, NEW h \in Handler, Takes(h)
  PROVE  GroupKeepsManager'
  <1> SUFFICES ASSUME NEW c \in Conv, conv'[c].type = "group", Active(c)' # {}
               PROVE  Managed(c)' \/ "manager" \in excused'[c]
    BY DEF GroupKeepsManager
  <1>1. CASE part'[c] = part[c] /\ conv[c].type = "group" /\ excused[c] \subseteq excused'[c]
    <2>1. Active(c)' = Active(c) /\ (Managed(c) => Managed(c)')
      BY <1>1 DEF Active, Managed, Manages
    <2> QED BY <1>1, <2>1 DEF GroupKeepsManager
  <1>2. CASE UNCHANGED <<conv, part, excused>>
    BY <1>1, <1>2
  <1>3. CASE RequestStep(h)
    BY <1>2, <1>3, RequestsAreQuiet
  <1>4. CASE SaveConversation(h)
    <2>1. PICK d \in Conv : /\ conv[d].type = "none" /\ \A e \in Conv \ {d} : conv'[e] = conv[e]
                            /\ UNCHANGED <<part, excused>>
      BY <1>4, Saved
    <2>2. CASE c # d
      BY <1>1, <2>1, <2>2
    <2>3. CASE c = d
      <3>1. \A u \in User : part'[c][u] = NoDoc
        BY <2>1, <2>3 DEF Placed
      <3> QED BY <3>1 DEF Active, NoDoc
    <2> QED BY <2>2, <2>3
  <1>5. CASE UpdateConversation(h)
    BY <1>1, <1>5, Updated
  <1>6. CASE InsertParticipants(h)
    <2>1. /\ pc[h] = "insert" /\ loc[h].c \in Conv /\ UNCHANGED <<conv, excused>>
          /\ part' = [part EXCEPT ![loc[h].c] = Made(loc[h])]
      BY <1>6, Inserted
    <2>2. CASE c # loc[h].c
      BY <1>1, <2>1, <2>2 DEF TypeOK
    <2>3. CASE c = loc[h].c
      <3>1. part'[c] = Made(loc[h]) /\ loc[h].by \in User
        BY <2>1, <2>3 DEF TypeOK, Shape, ShapeOf
      <3>2. part'[c][loc[h].by].active /\ part'[c][loc[h].by].role \in {"admin", "owner"}
        BY <3>1 DEF Made
      <3> QED BY <3>1, <3>2 DEF Managed, Manages
    <2> QED BY <2>2, <2>3
  <1>7. ASSUME NEW doc, Writes(h, doc) PROVE Managed(c)' \/ "manager" \in excused'[c]
    <2>1. /\ loc[h].c \in Conv /\ loc[h].user \in User /\ conv' = conv
          /\ part' = [part EXCEPT ![loc[h].c][loc[h].user] = doc]
          /\ part'[loc[h].c][loc[h].user] = doc
          /\ \A d \in Conv, u \in User : d # loc[h].c \/ u # loc[h].user => part'[d][u] = part[d][u]
      BY <1>7, Written
    <2>2. excused[c] \subseteq excused'[c]
      BY <1>7 DEF Writes, Write, TypeOK
    <2>3. CASE c # loc[h].c
      BY <1>1, <2>1, <2>2, <2>3 DEF TypeOK
    <2>4. CASE c = loc[h].c
      <3> DEFINE l == loc[h]
                 d == part[c][l.user]
      <3>1. CASE touched[h] \/ (l.op = "leave" /\ d.role = "owner")
        BY <1>7, <2>1, <2>4, <3>1 DEF Writes, Write, TypeOK, Managed, Manages
      <3>2. CASE ~(touched[h] \/ (l.op = "leave" /\ d.role = "owner"))
        <4>1. CheckedOf(h) /\ ShapeOf(h)
          BY DEF Checked, Shape
        <4>2. ASSUME NEW x \in User, x # l.user, Manages(c, x) PROVE Managed(c)'
          <5>1. part'[c][x] = part[c][x]
            BY <2>1, <2>4, <4>2
          <5> QED BY <4>2, <5>1 DEF Managed, Manages
        <4>3. ASSUME doc.active, doc.role \in {"admin", "owner"} PROVE Managed(c)'
          BY <2>1, <2>4, <4>3 DEF Managed, Manages
        <4>4. CASE pc[h] = "join" /\ doc.active /\ (d = NoDoc \/ doc.role = d.role)
          <5>1. Manages(c, l.by) /\ l.by \in User
            BY <2>4, <3>2, <4>1, <4>4 DEF CheckedOf, ShapeOf, AddSteps
          <5>2. CASE l.by = l.user
            BY <4>3, <4>4, <5>1, <5>2 DEF Manages, NoDoc
          <5>3. CASE l.by # l.user
            BY <4>2, <5>1, <5>3
          <5> QED BY <5>2, <5>3
        <4>5. CASE pc[h] = "setrole" /\ doc.active /\ doc.role = l.role
          <5>1. CASE l.role # "member"
            <6>1. l.role \in {"admin", "owner"}
              BY <5>1 DEF TypeOK, Locals, Roles
            <6> QED BY <4>3, <4>5, <6>1
          <5>2. CASE l.role = "member"
            BY <2>4, <3>2, <4>1, <4>2, <4>5, <5>2 DEF CheckedOf
          <5> QED BY <5>1, <5>2
        <4>6. CASE pc[h] = "deactivate" /\ d.active /\ ~doc.active
          <5>1. conv[c].type = "group"
            BY <2>1
          <5>2. \/ \E x \in User \ {l.user} : Manages(c, x)
                \/ l.op = "leave" /\ Active(c) \subseteq {l.user}
                \/ l.op = "leave" /\ part[c][l.user].role \in {"member", "owner"}
            BY <2>4, <3>2, <4>1, <4>6, <5>1 DEF CheckedOf
          <5>3. CASE \E x \in User \ {l.user} : Manages(c, x)
            BY <4>2, <5>3
          <5>4. CASE Active(c) \subseteq {l.user}
            <6>1. \A x \in User : ~part'[c][x].active
              BY <2>1, <2>4, <4>6, <5>4 DEF Active
            <6> QED BY <6>1 DEF Active
          <5>5. CASE l.op = "leave" /\ part[c][l.user].role \in {"member", "owner"}
            <6>1. part[c][l.user].role = "member"
              BY <3>2, <5>5
            <6>2. Active(c) # {}
              BY <2>1, <4>6 DEF Active
            <6>3. CASE "manager" \in excused[c]
              BY <2>2, <6>3
            <6>4. CASE "manager" \notin excused[c]
              <7>1. PICK x \in User : Manages(c, x)
                BY <5>1, <6>2, <6>4 DEF GroupKeepsManager, Managed
              <7>2. x # l.user
                BY <6>1, <7>1 DEF Manages
              <7> QED BY <4>2, <7>1, <7>2
            <6> QED BY <6>3, <6>4
          <5> QED BY <5>2, <5>3, <5>4, <5>5
        <4> QED BY <1>7, <2>4, <4>4, <4>5, <4>6 DEF Writes
      <3> QED BY <3>1, <3>2
    <2> QED BY <2>3, <2>4
  <1> QED BY <1>2, <1>3, <1>4, <1>5, <1>6, <1>7, StepSplit DEF Takes

-----------------------------------------------------------------------------
(* The invariant, and the theorems *)

LEMMA Initially == Init => IInv
  <1> SUFFICES ASSUME Init PROVE IInv
    OBVIOUS
  <1>1. TypeOK
    BY InitIsTyped
  <1>2. PICK start \in Starts : conv = start.conv /\ part = start.part
    BY DEF Init
  <1>3. /\ \A h \in Handler : pc[h] = "idle" /\ loc[h] = NoLocals /\ known[h] = {}
        /\ NoLocals.op = "leave" /\ NoLocals.user = NoLocals.by
    BY DEF Init, NoLocals
  <1>4. Shape /\ Private /\ Checked /\ Room /\ Examined
    BY <1>3 DEF Shape, ShapeOf, Private, Checked, CheckedOf, Room, RoomOf, Examined, ExaminedOf, AddSteps
  <1>5. \A c \in Conv : conv[c].type = "none" => \A u \in User : part[c][u] = NoDoc
    BY <1>2, StartsAssumption
  <1>6. Placed
    BY <1>3, <1>5 DEF Placed, PlaceOf, InnerSteps, AddSteps
  <1>7. ASSUME NEW c \in Conv
        PROVE  /\ conv[c].type = "group" /\ Active(c) # {} => Managed(c)
               /\ Cardinality(Active(c)) <= MaxParticipants
    <2>1. /\ start.conv[c].type = "group" /\ {u \in User : start.part[c][u].active} # {} =>
               \E u \in {u \in User : start.part[c][u].active} : start.part[c][u].role \in {"admin", "owner"}
          /\ Cardinality({u \in User : start.part[c][u].active}) <= MaxParticipants
      BY StartsAssumption
    <2> QED BY <1>2, <2>1 DEF Active, Managed, Manages
  <1>8. GroupKeepsManager
    BY <1>7 DEF GroupKeepsManager
  <1>9. \A c \in Conv : Cardinality(Active(c)) \in Nat
    BY FiniteUsers DEF Active
  <1>10. GroupKeepsLimit
    BY <1>7, <1>9, ConversationsAssumption DEF GroupKeepsLimit
  <1> QED BY <1>1, <1>4, <1>6, <1>8, <1>10 DEF IInv

LEMMA Inductive == IInv /\ [Next]_vars => IInv'
  <1> SUFFICES ASSUME IInv, [Next]_vars PROVE IInv'
    OBVIOUS
  <1>1. CASE UNCHANGED vars
    <2>1. UNCHANGED <<conv, part, pc, loc, known, touched, excused, requests, faults>>
      BY <1>1 DEF vars, collections, handlers, history, bounds
    <2>2. TypeOK' /\ GroupKeepsManager' /\ GroupKeepsLimit'
      BY <2>1 DEF IInv, TypeOK, GroupKeepsManager, GroupKeepsLimit, Active, Managed, Manages
    <2>3. Shape' /\ Placed' /\ Private'
      BY <2>1 DEF IInv, Shape, ShapeOf, Placed, PlaceOf, Private
    <2>4. Checked' /\ Room' /\ Examined'
      BY <2>1 DEF IInv, Checked, CheckedOf, Room, RoomOf, Pending, Examined, ExaminedOf, Direct,
                  Active, Manages
    <2> QED BY <2>2, <2>3, <2>4 DEF IInv
  <1>2. CASE Next
    <2>1. PICK h \in Handler : Takes(h)
      BY <1>2 DEF Next, Takes, Serves
    <2> QED BY <2>1, TypesKept, ShapeKept, PlacedKept, PrivateKept, CheckedKept, RoomKept,
               ExaminedKept, ManagerKept, LimitKept DEF IInv
  <1> QED BY <1>1, <1>2

LEMMA Always == Spec => []IInv
  <1>1. Init => IInv
    BY Initially
  <1>2. IInv /\ [Next]_vars => IInv'
    BY Inductive
  <1> QED BY <1>1, <1>2, PTL DEF Spec

\* The two collections, the local variables of the requests and the history keep their shape:
\* no document is stored without a role, and no query is made about nobody or nowhere.
THEOREM TypeCorrect == Spec => []TypeOK
  <1>1. IInv => TypeOK
    BY DEF IInv
  <1> QED BY <1>1, Always, PTL

\* createDirectConversation saves a conversation only for a pair that has none any more of
\* those it had when the request came.
THEOREM DirectStaysUnique == Spec => []NoSecondDirect
  <1>1. IInv => NoSecondDirect
    BY DEF IInv, Examined, ExaminedOf, NoSecondDirect
  <1> QED BY <1>1, Always, PTL

\* A group whose requests do not overlap, and whose owners stay, always has a manager among
\* its participants.
THEOREM GroupsStayManaged == Spec => []GroupKeepsManager
  <1>1. IInv => GroupKeepsManager
    BY DEF IInv
  <1> QED BY <1>1, Always, PTL

\* A group whose requests do not overlap never passes its limit.
THEOREM GroupsStayLimited == Spec => []GroupKeepsLimit
  <1>1. IInv => GroupKeepsLimit
    BY DEF IInv
  <1> QED BY <1>1, Always, PTL
=============================================================================
