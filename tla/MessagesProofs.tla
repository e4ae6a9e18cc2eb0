---------------------------- MODULE MessagesProofs ----------------------------
(***************************************************************************)
(* Proofs about stored messages and the cached last message, for any       *)
(* users, conversations and bounds.                                        *)
(***************************************************************************)
EXTENDS Messages, SequenceTheorems, FiniteSetTheorems, TLAPS

Kind  == {"send", "post", "forward", "edit", "delete", "mark", "read", "pages", "cursor", None}
Label == {"new", "create", "save", "cache", "edit", "find", "delete", "mark", "look", "key",
          "reread", "write", "page", "done"}
Doc   == [conv : Conversation, sender : User, text : Text, at : 1 .. clock, read : BOOLEAN,
          edited : BOOLEAN, deleted : BOOLEAN]
Hash  == [id : 0 .. made, readBy : SUBSET User]
Handler ==
  [do : Kind, pc : Label, user : User \cup {None}, msg : 0 .. made, at : Nat,
   text : Text \cup {None}, conv : Conversation \cup {None},
   todo : Seq(Message \cup Conversation), seen : SUBSET Stored, due : SUBSET Stored,
   gone : SUBSET Stored, hash : Hash]

\* A cached last message is a stored one of its conversation, and those it names as readers
\* have a read key or sent it.
Honest(h, c) ==
  /\ h.id = 0 => h.readBy = {}
  /\ h.id # 0 =>
       /\ h.id \in Stored /\ doc[h.id].conv = c
       /\ \A u \in h.readBy : <<h.id, u>> \in readKey \/ doc[h.id].sender = u

\* What a handler holds at each of its awaits.
HandlerOK(q) ==
  /\ q \in Handler
  /\ q.do = "forward" => q.todo \in Seq(Conversation)
  /\ q.pc \in {"create", "save", "cache"} =>
       q.conv \in Conversation /\ q.user \in User /\ q.text \in Text
  /\ q.pc = "save" => q.msg \in 1 .. made /\ q.msg \notin Stored /\ q.at \in 1 .. clock
  /\ q.pc = "cache" => q.msg \in Stored /\ doc[q.msg].conv = q.conv /\ doc[q.msg].sender = q.user
  /\ q.pc = "edit" => q.msg \in Stored /\ q.text \in Text
  /\ q.pc = "delete" => q.msg \in Stored
  /\ q.pc \in {"find", "delete", "mark"} => q.todo # <<>>
  /\ q.pc \in {"mark", "look", "key", "reread", "write"} => q.user \in User
  /\ q.pc = "mark" /\ q.do = "read" => q.conv \in Conversation /\ q.seen \subseteq Stored
  /\ q.pc \in {"look", "key", "reread", "write"} => q.conv \in Conversation
  /\ q.pc \in {"key", "reread", "write"} => q.hash.id \in Stored
  /\ q.pc \in {"reread", "write"} => <<q.hash.id, q.user>> \in readKey
  /\ q.pc = "write" => Honest(q.hash, q.conv)

StoreOK ==
  /\ made \in 0 .. MaxMessages /\ clock \in 1 .. made
  /\ Stored \subseteq 1 .. made /\ doc \in [Stored -> Doc]
  /\ aged \subseteq Stored

HandlersOK == req \in [Request -> Handler] /\ \A r \in Request : HandlerOK(req[r])

\* No two handlers are about to store the same message.
Distinct ==
  \A r, q \in Request : At(r, "save") /\ At(q, "save") /\ req[r].msg = req[q].msg => r = q

\* A deletion is announced when it happens, and only then.
Announced ==
  /\ announced \in [Message -> {0, 1}]
  /\ \A m \in Message : announced[m] = 1 <=> (m \in Stored /\ doc[m].deleted)

LastOK ==
  /\ cache \in [Conversation -> Hash] /\ \A c \in Conversation : Honest(cache[c], c)
  /\ readKey \subseteq Stored \X User

(* The inductive invariant: what the properties say of the store and the    *)
(* cache, and what every handler in flight believes of them.                *)
IInv == StoreOK /\ HandlersOK /\ Distinct /\ Announced /\ LastOK

-----------------------------------------------------------------------------
LEMMA IdleOK ==
  ASSUME IInv
  PROVE  /\ Idle \in Handler
         /\ HandlerOK([Idle EXCEPT !.pc = "done"])
  <1>1. Idle \in Handler
    BY DEF Idle, Handler, Kind, Label, NoCache, Hash, IInv, StoreOK
  <1> DEFINE q == [Idle EXCEPT !.pc = "done"]
  <1>2. q \in Handler /\ q.pc = "done" /\ q.todo = <<>>
    BY <1>1 DEF Handler, Label, Idle
  <1>3. <<>> \in Seq(Conversation) OBVIOUS
  <1> HIDE DEF q
  <1>4. HandlerOK(q)
    BY <1>2, <1>3 DEF HandlerOK
  <1> QED BY <1>1, <1>4 DEF q

\* A step that changes only one handler's locals, and does not leave it about to store.
LEMMA LocalStep ==
  ASSUME IInv, NEW r \in Request, NEW q, HandlerOK(q),
         q.pc = "save" => At(r, "save") /\ q.msg = req[r].msg,
         req' = [req EXCEPT ![r] = q],
         UNCHANGED <<store, last, aged, announced>>
  PROVE  IInv'
  <1>1. doc' = doc /\ made' = made /\ clock' = clock /\ cache' = cache /\ readKey' = readKey
    BY DEF store, last
  <1>2. StoreOK' /\ Announced' /\ LastOK'
    BY <1>1 DEF IInv, StoreOK, Announced, LastOK, Honest, Stored, Doc, Hash
  <1>3. \A x : HandlerOK(x) => HandlerOK(x)'
    BY <1>1 DEF HandlerOK, Handler, Hash, Stored, Honest
  <1>4. HandlersOK'
    <2>1. req' \in [Request -> Handler] /\ \A p \in Request : HandlerOK(req'[p])
      BY DEF IInv, HandlersOK, HandlerOK
    <2>2. Handler' = Handler
      BY <1>1 DEF Handler, Hash, Stored
    <2> QED BY <1>3, <2>1, <2>2 DEF HandlersOK
  <1>5. Distinct'
    BY DEF IInv, HandlersOK, Distinct, At
  <1> QED BY <1>2, <1>4, <1>5 DEF IInv

LEMMA DoneStep ==
  ASSUME IInv, NEW r \in Request, Done(r), UNCHANGED <<store, last, aged, announced>>
  PROVE  IInv'
  <1> DEFINE q == [Idle EXCEPT !.pc = "done"]
  <1>1. HandlerOK(q) BY IdleOK
  <1>2. q.pc = "done" BY DEF Idle
  <1> HIDE DEF q
  <1>3. req' = [req EXCEPT ![r] = q] BY DEF Done, q
  <1> QED BY <1>1, <1>2, <1>3, LocalStep

-----------------------------------------------------------------------------
(* The steps that begin a request.                                          *)

LEMMA StoredFacts ==
  ASSUME IInv
  PROVE  /\ Stored \subseteq Message /\ Stored \subseteq 0 .. made /\ 0 \notin Stored
         /\ \A m \in Stored : doc[m].text \in Text /\ doc[m].sender \in User
                               /\ doc[m].conv \in Conversation /\ doc[m].at \in 1 .. clock
  <1>1. \A m \in Stored : doc[m] \in Doc
    BY DEF IInv, StoreOK
  <1>2. \A m \in Stored : doc[m].text \in Text /\ doc[m].sender \in User
                          /\ doc[m].conv \in Conversation /\ doc[m].at \in 1 .. clock
    BY <1>1 DEF Doc
  <1>3. Stored \subseteq 1 .. made /\ made \in 0 .. MaxMessages
    BY DEF IInv, StoreOK
  <1> HIDE DEF Stored
  <1> QED BY <1>2, <1>3, MessagesAssumption DEF Message

LEMMA SendStep ==
  ASSUME IInv, NEW r \in Request, NEW do \in {"send", "post"}, NEW u \in User,
         NEW c \in Conversation, NEW t \in Text, Send(r, do, u, c, t)
  PROVE  IInv'
  <1> DEFINE q == [Idle EXCEPT !.do = do, !.pc = "create", !.user = u, !.conv = c, !.text = t]
  <1>1. q \in Handler /\ q.do # "forward" /\ q.pc = "create"
        /\ q.conv = c /\ q.user = u /\ q.text = t
    BY IdleOK DEF Handler, Kind, Label, Idle
  <1>2. req' = [req EXCEPT ![r] = q] BY DEF Send
  <1> HIDE DEF q
  <1>3. HandlerOK(q) BY <1>1 DEF HandlerOK
  <1> QED BY <1>1, <1>2, <1>3, LocalStep DEF Send, history

LEMMA ForwardStep ==
  ASSUME IInv, NEW r \in Request, NEW u \in User, NEW m \in Stored, NEW c \in Conversation,
         NEW targets \in {<<c>>, <<c, Home>>}, Forward(r, u, m, targets)
  PROVE  IInv'
  <1> DEFINE q == [Idle EXCEPT !.do = "forward", !.pc = "create", !.user = u,
                     !.text = doc[m].text, !.conv = Head(targets), !.todo = Tail(targets)]
  <1>1. Head(targets) \in Conversation /\ Tail(targets) \in Seq(Conversation)
    <2>1. CASE targets = <<c>> BY <2>1
    <2>2. CASE targets = <<c, Home>>
      <3>1. Tail(<<c, Home>>) = <<Home>> /\ Head(<<c, Home>>) = c OBVIOUS
      <3> QED BY <2>2, <3>1, MessagesAssumption
    <2> QED BY <2>1, <2>2
  <1>2. Tail(targets) \in Seq(Message \cup Conversation)
    BY <1>1
  <1>3. q \in Handler /\ q.todo = Tail(targets) /\ q.pc = "create"
        /\ q.conv = Head(targets) /\ q.user = u /\ q.text \in Text
    BY <1>1, <1>2, IdleOK, StoredFacts DEF Handler, Kind, Label, Idle
  <1>4. req' = [req EXCEPT ![r] = q] BY DEF Forward
  <1> HIDE DEF q
  <1>5. HandlerOK(q) BY <1>1, <1>3 DEF HandlerOK
  <1> QED BY <1>3, <1>4, <1>5, LocalStep DEF Forward, history

LEMMA EditStep ==
  ASSUME IInv, NEW r \in Request, NEW u \in User, NEW m \in Stored,
         NEW t \in Text \cup {None}, Edit(r, u, m, t)
  PROVE  IInv'
  <1> DEFINE q == [Idle EXCEPT !.do = "edit", !.pc = "edit", !.user = u, !.msg = m,
                               !.text = EditText(m, t)]
  <1>1. EditText(m, t) \in Text BY StoredFacts DEF EditText
  <1>2. q \in Handler /\ q.do = "edit" /\ q.pc = "edit" /\ q.msg = m /\ q.text \in Text
    BY <1>1, IdleOK, StoredFacts DEF Handler, Kind, Label, Idle
  <1>3. req' = [req EXCEPT ![r] = q] BY DEF Edit
  <1> HIDE DEF q
  <1>4. HandlerOK(q) BY <1>2 DEF HandlerOK
  <1> QED BY <1>2, <1>3, <1>4, LocalStep DEF Edit, history

LEMMA ListFacts ==
  ASSUME IInv, NEW list \in Lists
  PROVE  /\ list \in Seq(Message \cup Conversation) /\ list # <<>>
         /\ ToSet(list) \subseteq Stored
  <1>1. CASE \E m \in Stored : list = <<m>>
    BY <1>1, StoredFacts DEF ToSet
  <1>2. CASE \E m \in Stored, k \in Stored : list = <<m, k>>
    BY <1>2, StoredFacts DEF ToSet
  <1> QED BY <1>1, <1>2 DEF Lists

LEMMA BulkStep ==
  ASSUME IInv, NEW r \in Request, NEW u \in User, NEW do \in {"delete", "mark"},
         NEW list \in Lists, Bulk(r, do, u, list)
  PROVE  IInv'
  <1> DEFINE pc == IF do = "delete" THEN "find" ELSE "mark"
             q == [Idle EXCEPT !.do = do, !.user = u, !.todo = list, !.pc = pc]
  <1>1. pc \in {"find", "mark"} OBVIOUS
  <1>2. req' = [req EXCEPT ![r] = q] BY DEF Bulk
  <1> HIDE DEF pc
  <1>3. q \in Handler /\ q.do \notin {"forward", "read"} /\ q.pc \in {"find", "mark"}
        /\ q.user = u /\ q.todo # <<>>
    BY <1>1, IdleOK, ListFacts DEF Handler, Kind, Label, Idle
  <1> HIDE DEF q
  <1>4. HandlerOK(q) BY <1>3 DEF HandlerOK
  <1> QED BY <1>2, <1>3, <1>4, LocalStep DEF Bulk, history

LEMMA ReadStep ==
  ASSUME IInv, NEW r \in Request, NEW u \in User, NEW list \in Lists,
         ReadMessages(r, u, Home, list)
  PROVE  IInv'
  <1> DEFINE q == [Idle EXCEPT !.do = "read", !.pc = "mark", !.user = u, !.conv = Home,
                               !.todo = list, !.seen = ToSet(list)]
  <1>1. q \in Handler /\ q.do = "read" /\ q.pc = "mark" /\ q.user = u /\ q.conv = Home
        /\ q.todo # <<>>
    BY IdleOK, ListFacts, MessagesAssumption DEF Handler, Kind, Label, Idle
  <1>2. req' = [req EXCEPT ![r] = q] BY DEF ReadMessages
  <1> HIDE DEF q
  <1>3. HandlerOK(q) BY <1>1, MessagesAssumption DEF HandlerOK, Handler
  <1> QED BY <1>1, <1>2, <1>3, LocalStep DEF ReadMessages, history

LEMMA WalkStep ==
  ASSUME IInv, NEW r \in Request, NEW do \in {"pages", "cursor"}, Walk(r, do, Home)
  PROVE  IInv'
  <1> DEFINE at == IF do = "pages" THEN 1 ELSE 0
             q == [Idle EXCEPT !.do = do, !.pc = "page", !.conv = Home, !.due = In(Home),
                               !.gone = {m \in Stored : doc[m].deleted}, !.at = at]
  <1>1. at \in Nat OBVIOUS
  <1>2. req' = [req EXCEPT ![r] = q] BY DEF Walk
  <1> HIDE DEF at
  <1>0. In(Home) \subseteq Stored /\ made \in 0 .. made
    BY MessagesAssumption DEF In, IInv, StoreOK
  <1>3. q \in Handler /\ q.do # "forward" /\ q.pc = "page"
    BY <1>0, <1>1, IdleOK, MessagesAssumption DEF Handler, Kind, Label, Idle
  <1> HIDE DEF q
  <1>4. HandlerOK(q) BY <1>3 DEF HandlerOK
  <1> QED BY <1>2, <1>3, <1>4, LocalStep DEF Walk, history

LEMMA StartsStep ==
  ASSUME IInv, NEW r \in Request, Starts(r)
  PROVE  IInv'
  BY SendStep, EditStep, ForwardStep, BulkStep, ReadStep, WalkStep DEF Starts

-----------------------------------------------------------------------------
(* The store and the read keys only grow: what the other handlers hold      *)
(* stays true, but for one about to store a message that is there now.      *)

Grows ==
  /\ made' \in made .. MaxMessages /\ clock' \in clock .. made' /\ Stored \subseteq Stored'
  /\ \A m \in Stored : doc'[m].conv = doc[m].conv /\ doc'[m].sender = doc[m].sender
  /\ readKey \subseteq readKey'

LEMMA HandlerKept ==
  ASSUME IInv, Grows
  PROVE  \A q : HandlerOK(q) /\ (q.pc = "save" => q.msg \notin Stored') => HandlerOK(q)'
  <1> SUFFICES ASSUME NEW q, HandlerOK(q), q.pc = "save" => q.msg \notin Stored'
               PROVE  HandlerOK(q)'
    OBVIOUS
  <1>1. made \in Nat /\ made' \in Nat /\ made <= made' /\ clock \in Nat /\ clock <= clock'
        /\ clock' \in Nat
    BY MessagesAssumption DEF IInv, StoreOK, Grows
  <1>2. Hash \subseteq Hash' BY <1>1 DEF Hash
  <1>3. Handler \subseteq Handler'
    <2>1. 0 .. made \subseteq 0 .. made' /\ SUBSET Stored \subseteq SUBSET Stored'
      BY <1>1 DEF Grows
    <2> QED BY <1>2, <2>1 DEF Handler
  <1>4. q \in Handler' BY <1>3 DEF HandlerOK
  <1>5. q.pc = "write" => Honest(q.hash, q.conv)'
    BY DEF Grows, Honest, HandlerOK
  <1>6. q.pc = "save" => q.msg \in 1 .. made' /\ q.at \in 1 .. clock'
    BY <1>1 DEF HandlerOK
  <1>7. q.pc = "cache" => q.msg \in Stored' /\ doc'[q.msg].conv = q.conv
                          /\ doc'[q.msg].sender = q.user
    BY DEF Grows, HandlerOK
  <1>8. Stored \subseteq Stored' /\ readKey \subseteq readKey' BY DEF Grows
  <1> HIDE DEF Stored
  <1> QED BY <1>4, <1>5, <1>6, <1>7, <1>8 DEF HandlerOK

LEMMA GrowingStep ==
  ASSUME IInv, Grows, NEW r \in Request, NEW q, HandlerOK(q)',
         req' = [req EXCEPT ![r] = q], StoreOK', Announced', LastOK',
         \A p \in Request \ {r} : At(p, "save") =>
           req[p].msg \notin Stored' /\ (q.pc = "save" => req[p].msg # q.msg)
  PROVE  IInv'
  <1>1. \A p \in Request \ {r} : HandlerOK(req[p]) /\ req'[p] = req[p]
    BY DEF IInv, HandlersOK
  <1>2. \A x : HandlerOK(x) /\ (x.pc = "save" => x.msg \notin Stored') => HandlerOK(x)'
    BY HandlerKept
  <1>3. \A p \in Request : At(p, "save") <=> req[p].pc = "save" BY DEF At
  <1>4. HandlersOK'
    <2>1. req' \in [Request -> Handler']
      <3>1. \A p \in Request : req'[p] \in Handler'
        <4>1. \A x : HandlerOK(x)' => x \in Handler' BY DEF HandlerOK
        <4>2. req'[r] = q BY DEF IInv, HandlersOK
        <4> QED BY <1>1, <1>2, <1>3, <4>1, <4>2
      <3>2. req' = [p \in Request |-> req'[p]] BY DEF IInv, HandlersOK
      <3> QED BY <3>1, <3>2
    <2> QED BY <1>1, <1>2, <1>3, <2>1 DEF HandlersOK, IInv
  <1>5. Distinct'
    BY <1>1, <1>3 DEF Distinct, IInv, HandlersOK, At
  <1> QED BY <1>4, <1>5 DEF IInv

LEMMA HandlerFacts ==
  ASSUME IInv, NEW r \in Request
  PROVE  HandlerOK(req[r]) /\ req[r] \in Handler
  BY DEF IInv, HandlersOK

-----------------------------------------------------------------------------
(* Sending.                                                                 *)

LEMMA CreateStep ==
  ASSUME IInv, NEW r \in Request, Create(r)
  PROVE  IInv'
  <1>0. PICK q : q = [req[r] EXCEPT !.pc = "save", !.msg = made + 1, !.at = clock']
    OBVIOUS
  <1>1. made \in Nat /\ made' = made + 1 /\ made' \in 1 .. MaxMessages
        /\ clock \in 1 .. made /\ clock' \in {clock, clock + 1}
    BY MessagesAssumption DEF IInv, StoreOK, Create
  <1>2. doc' = doc /\ cache' = cache /\ readKey' = readKey /\ aged' = aged
        /\ announced' = announced /\ Stored' = Stored
    BY DEF Create, last, Stored
  <1>3. Grows BY <1>1, <1>2 DEF Grows, Stored
  <1>4. clock' \in 1 .. made' /\ clock <= clock' /\ made <= made'
    BY <1>1
  <1>5. StoreOK'
    <2>1. Doc \subseteq Doc' BY <1>1, <1>4 DEF Doc
    <2>2. doc' \in [Stored' -> Doc'] BY <1>2, <2>1 DEF IInv, StoreOK
    <2>3. Stored' \subseteq 1 .. made' BY <1>1, <1>2 DEF IInv, StoreOK
    <2>4. aged' \subseteq Stored' BY <1>2 DEF IInv, StoreOK
    <2> QED BY <1>1, <1>4, <2>2, <2>3, <2>4 DEF StoreOK
  <1>6. Announced' BY <1>2 DEF IInv, Announced
  <1>7. LastOK'
    <2>1. Hash \subseteq Hash' BY <1>1 DEF Hash
    <2> QED BY <1>2, <2>1 DEF IInv, LastOK, Honest
  <1>8. HandlerOK(q)'
    <2>1. HandlerOK(req[r]) /\ req[r].pc = "create" /\ req[r] \in Handler
      BY HandlerFacts DEF Create, At
    <2>2. q \in Handler'
      <3>1. Hash \subseteq Hash' BY <1>1 DEF Hash
      <3>2. made + 1 \in 0 .. made' /\ clock' \in Nat BY <1>1
      <3> QED BY <1>0, <1>2, <2>1, <3>1, <3>2 DEF Handler, Label
    <2>3. q.pc = "save" /\ q.msg = made + 1 /\ q.at = clock' /\ q.do = req[r].do
          /\ q.todo = req[r].todo /\ q.conv = req[r].conv /\ q.user = req[r].user
          /\ q.text = req[r].text
      BY <1>0, <2>1 DEF Handler
    <2>4. made + 1 \notin Stored' /\ made + 1 \in 1 .. made'
      BY <1>1, <1>2 DEF IInv, StoreOK
    <2> QED BY <1>4, <2>1, <2>2, <2>3, <2>4 DEF HandlerOK
  <1>10. q.msg = made + 1 BY <1>0, HandlerFacts DEF Handler
  <1>9. \A p \in Request \ {r} : At(p, "save") =>
          req[p].msg \notin Stored' /\ (q.pc = "save" => req[p].msg # q.msg)
    <2> SUFFICES ASSUME NEW p \in Request \ {r}, At(p, "save")
                 PROVE  req[p].msg \notin Stored' /\ req[p].msg # made + 1
      BY <1>10
    <2>1. req[p].msg \in 1 .. made /\ req[p].msg \notin Stored
      BY HandlerFacts DEF HandlerOK, At
    <2> HIDE DEF Stored
    <2> QED BY <1>1, <1>2, <2>1
  <1>11. req' = [req EXCEPT ![r] = q] BY <1>0 DEF Create
  <1> QED BY <1>3, <1>5, <1>6, <1>7, <1>8, <1>9, <1>11, GrowingStep

LEMMA SaveStep ==
  ASSUME IInv, NEW r \in Request, Save(r)
  PROVE  IInv'
  <1> DEFINE n == req[r].msg
             new == NewDoc(req[r].conv, req[r].user, req[r].text, req[r].at)
  <1>1. HandlerOK(req[r]) /\ req[r] \in Handler /\ req[r].pc = "save"
    BY HandlerFacts DEF Save, At
  <1>2. made' = made /\ clock' = clock /\ cache' = cache /\ readKey' = readKey /\ aged' = aged
        /\ announced' = announced
    BY DEF Save, last, history
  <1>3. n \in 1 .. made /\ n \notin Stored /\ made \in Nat /\ clock \in 1 .. made
        /\ made \in 0 .. MaxMessages /\ n \in Message
    BY <1>1, MessagesAssumption DEF HandlerOK, IInv, StoreOK, Message
  <1>4. new \in Doc /\ new.conv = req[r].conv /\ new.sender = req[r].user /\ ~new.deleted
    BY <1>1 DEF HandlerOK, NewDoc, Doc
  <1>5. doc' = [m \in Stored \cup {n} |-> IF m = n THEN new ELSE doc[m]]
    BY DEF Save
  <1> HIDE DEF new
  <1>6. Stored' = Stored \cup {n} /\ doc'[n] = new /\ \A m \in Stored : doc'[m] = doc[m]
    BY <1>3, <1>5 DEF Stored
  <1>7. Grows BY <1>2, <1>3, <1>6 DEF Grows
  <1>8. StoreOK'
    <2>1. Doc' = Doc BY <1>2 DEF Doc
    <2>2. \A m \in Stored \cup {n} : doc'[m] \in Doc
      BY <1>4, <1>6 DEF IInv, StoreOK
    <2>3. doc' \in [Stored' -> Doc']
      BY <1>5, <1>6, <2>1, <2>2
    <2>4. Stored' \subseteq 1 .. made' /\ aged' \subseteq Stored'
      BY <1>2, <1>3, <1>6 DEF IInv, StoreOK
    <2> HIDE DEF n
    <2> QED BY <1>2, <1>3, <2>3, <2>4 DEF StoreOK
  <1>9. Announced'
    <2>1. \A m \in Message : m \in Stored' /\ doc'[m].deleted <=> m \in Stored /\ doc[m].deleted
      BY <1>3, <1>4, <1>6
    <2> QED BY <1>2, <2>1 DEF IInv, Announced
  <1>10. LastOK'
    <2>1. Hash' = Hash BY <1>2 DEF Hash
    <2> QED BY <1>2, <1>6, <2>1 DEF IInv, LastOK, Honest
  <1>11. \A p \in Request \ {r} : At(p, "save") => req[p].msg \notin Stored'
    BY <1>1, <1>6, HandlerFacts DEF HandlerOK, At, IInv, Distinct
  <1>12. \A q : q \in Handler => q \in Handler'
    BY <1>2, <1>6 DEF Handler, Hash
  <1>13. CASE req[r].do = "send"
    <2>0. PICK q : q = [req[r] EXCEPT !.pc = "cache"] OBVIOUS
    <2>1. q \in Handler' /\ q.pc = "cache" /\ q.do = req[r].do /\ q.msg = n
          /\ q.todo = req[r].todo /\ q.conv = req[r].conv /\ q.user = req[r].user
          /\ q.text = req[r].text
      BY <1>1, <1>12, <2>0 DEF Handler, Label
    <2>2. req' = [req EXCEPT ![r] = q] BY <1>13, <2>0 DEF Save, AfterSave, Goto
    <2>3. HandlerOK(q)' BY <1>1, <1>4, <1>6, <2>1 DEF HandlerOK
    <2> QED BY <1>7, <1>8, <1>9, <1>10, <1>11, <2>1, <2>2, <2>3, GrowingStep
  <1>14. CASE req[r].do = "forward" /\ Len(req[r].todo) > 0
    <2>0. PICK q : q = [req[r] EXCEPT !.pc = "create", !.conv = Head(req[r].todo),
                                      !.todo = Tail(@)]
      OBVIOUS
    <2>1. Head(req[r].todo) \in Conversation /\ Tail(req[r].todo) \in Seq(Conversation)
          /\ Tail(req[r].todo) \in Seq(Message \cup Conversation)
      <3>1. req[r].todo \in Seq(Conversation) /\ req[r].todo # <<>>
        BY <1>1, <1>14 DEF HandlerOK
      <3>2. Tail(req[r].todo) \in Seq(Conversation) BY <3>1
      <3> QED BY <3>1, <3>2
    <2>2. q \in Handler' /\ q.pc = "create" /\ q.conv \in Conversation
          /\ q.todo \in Seq(Conversation) /\ q.user = req[r].user /\ q.text = req[r].text
      BY <1>1, <1>12, <2>0, <2>1 DEF Handler, Label
    <2>3. req' = [req EXCEPT ![r] = q] BY <1>14, <2>0 DEF Save, AfterSave
    <2>4. HandlerOK(q)' BY <1>1, <2>2 DEF HandlerOK
    <2> QED BY <1>7, <1>8, <1>9, <1>10, <1>11, <2>2, <2>3, <2>4, GrowingStep
  <1>15. CASE Done(r)
    <2> DEFINE q == [Idle EXCEPT !.pc = "done"]
    <2>1. HandlerOK(q) /\ q.pc = "done" BY IdleOK DEF Idle
    <2>2. req' = [req EXCEPT ![r] = q] BY <1>15 DEF Done
    <2> HIDE DEF q
    <2>3. HandlerOK(q)' BY <1>7, <2>1, HandlerKept
    <2> QED BY <1>7, <1>8, <1>9, <1>10, <1>11, <2>1, <2>2, <2>3, GrowingStep
  <1> QED BY <1>13, <1>14, <1>15 DEF Save, AfterSave

LEMMA UpdateOnSendStep ==
  ASSUME IInv, NEW r \in Request, UpdateOnSend(r)
  PROVE  IInv'
  <1> DEFINE n == req[r].msg
             c == req[r].conv
             hash == [id |-> n, readBy |-> {req[r].user}]
  <1>1. HandlerOK(req[r]) /\ req[r].pc = "cache" BY HandlerFacts DEF UpdateOnSend, At
  <1>2. doc' = doc /\ made' = made /\ clock' = clock /\ readKey' = readKey /\ aged' = aged
        /\ announced' = announced /\ cache' = [cache EXCEPT ![c] = hash] /\ Stored' = Stored
    BY DEF UpdateOnSend, store, Stored
  <1>3. hash \in Hash /\ Honest(hash, c)
    BY <1>1, StoredFacts DEF HandlerOK, Hash, Honest
  <1> HIDE DEF hash
  <1>4. LastOK'
    <2>1. Hash' = Hash /\ \A h, d : Honest(h, d) => Honest(h, d)'
      BY <1>2 DEF Hash, Honest
    <2>2. cache' \in [Conversation -> Hash] /\ \A d \in Conversation : Honest(cache'[d], d)
      BY <1>2, <1>3 DEF IInv, LastOK
    <2> QED BY <1>2, <2>1, <2>2 DEF IInv, LastOK
  <1>5. StoreOK' /\ Announced'
    BY <1>2 DEF IInv, StoreOK, Announced, Doc
  <1>6. Grows BY <1>2, MessagesAssumption DEF Grows, IInv, StoreOK
  <1>7. PICK q : q = [Idle EXCEPT !.pc = "done"] OBVIOUS
  <1>8. HandlerOK(q) /\ q.pc = "done" BY <1>7, IdleOK DEF Idle
  <1>9. HandlerOK(q)' BY <1>6, <1>8, HandlerKept
  <1>10. req' = [req EXCEPT ![r] = q] BY <1>7 DEF UpdateOnSend, Done
  <1>11. \A p \in Request \ {r} : At(p, "save") => req[p].msg \notin Stored'
    BY <1>2, HandlerFacts DEF HandlerOK, At
  <1> QED BY <1>4, <1>5, <1>6, <1>8, <1>9, <1>10, <1>11, GrowingStep

-----------------------------------------------------------------------------
(* Editing, deleting and marking change a document, not whose it is nor     *)
(* where.                                                                   *)

\* A step that rewrites documents in place.
LEMMA DocStep ==
  ASSUME IInv, NEW r \in Request, NEW q, HandlerOK(q), q.pc # "save",
         req' = [req EXCEPT ![r] = q], doc' \in [Stored -> Doc],
         \A m \in Stored : doc'[m].conv = doc[m].conv /\ doc'[m].sender = doc[m].sender,
         Announced', UNCHANGED <<made, clock, last, aged>>
  PROVE  IInv'
  <1>1. made' = made /\ clock' = clock /\ cache' = cache /\ readKey' = readKey /\ aged' = aged
    BY DEF last
  <1>2. Stored' = Stored BY DEF Stored
  <1> HIDE DEF Stored
  <1>3. Grows BY <1>1, <1>2, MessagesAssumption DEF Grows, IInv, StoreOK
  <1>4. Doc' = Doc /\ Hash' = Hash BY <1>1 DEF Doc, Hash
  <1>5. StoreOK' BY <1>1, <1>2, <1>4 DEF IInv, StoreOK
  <1>6. LastOK' BY <1>1, <1>2, <1>4 DEF IInv, LastOK, Honest
  <1>7. HandlerOK(q)' BY <1>3, HandlerKept
  <1>8. \A p \in Request \ {r} : At(p, "save") => req[p].msg \notin Stored'
    BY <1>2, HandlerFacts DEF HandlerOK, At
  <1> QED BY <1>3, <1>5, <1>6, <1>7, <1>8, GrowingStep

LEMMA TailFacts ==
  ASSUME NEW S, NEW s \in Seq(S), s # <<>>, Len(s) # 1
  PROVE  Tail(s) \in Seq(S) /\ Tail(s) # <<>>
  <1>0. Len(s) \in Nat \ {0} BY EmptySeq
  <1>1. Len(s) \in Nat /\ Len(s) > 1
    <2>1. \A n \in Nat \ {0} : n # 1 => n > 1 OBVIOUS
    <2> QED BY <1>0, <2>1, Zenon
  <1>2. Tail(s) \in Seq(S) /\ Len(Tail(s)) = Len(s) - 1 BY <1>1
  <1>3. Len(Tail(s)) # 0 BY <1>1, <1>2
  <1> QED BY <1>2, <1>3

\* What a handler becomes when it goes on to the next message of its list, or ends.
LEMMA NextOfStep ==
  ASSUME IInv, NEW r \in Request, NEW pc \in {"find", "mark"}, NextOf(r, pc),
         req[r].pc \in {"find", "delete", "mark"}, pc = "mark" => req[r].pc = "mark"
  PROVE  \E q : HandlerOK(q) /\ q.pc # "save" /\ req' = [req EXCEPT ![r] = q]
  <1>1. HandlerOK(req[r]) /\ req[r] \in Handler BY HandlerFacts
  <1>2. CASE Len(req[r].todo) = 1
    <2>1. req' = [req EXCEPT ![r] = [Idle EXCEPT !.pc = "done"]]
      BY <1>2 DEF NextOf, Done
    <2>2. [Idle EXCEPT !.pc = "done"].pc = "done" BY DEF Idle
    <2> QED BY <2>1, <2>2, IdleOK
  <1>3. CASE Len(req[r].todo) # 1
    <2>0. PICK q : q = [req[r] EXCEPT !.todo = Tail(@), !.pc = pc] OBVIOUS
    <2>1. req[r].todo \in Seq(Message \cup Conversation) /\ req[r].todo # <<>>
      BY <1>1 DEF Handler, HandlerOK
    <2>2. Tail(req[r].todo) \in Seq(Message \cup Conversation) /\ Tail(req[r].todo) # <<>>
      BY <1>3, <2>1, TailFacts
    <2>3. q \in Handler /\ q.pc = pc /\ q.do = req[r].do /\ q.user = req[r].user
          /\ q.conv = req[r].conv /\ q.seen = req[r].seen
          /\ q.todo = Tail(req[r].todo) /\ q.todo # <<>>
      BY <1>1, <2>0, <2>2 DEF Handler, Label
    <2>4. q.do = "forward" => q.todo \in Seq(Conversation)
      <3> SUFFICES ASSUME q.do = "forward" PROVE Tail(req[r].todo) \in Seq(Conversation)
        BY <2>3
      <3>1. req[r].todo \in Seq(Conversation) BY <1>1, <2>3 DEF HandlerOK
      <3> QED BY <2>1, <3>1
    <2>6. HandlerOK(q) BY <1>1, <2>3, <2>4 DEF HandlerOK
    <2>5. req' = [req EXCEPT ![r] = q] BY <1>3, <2>0 DEF NextOf
    <2> QED BY <2>3, <2>5, <2>6
  <1> QED BY <1>2, <1>3

LEMMA EditUpdateStep ==
  ASSUME IInv, NEW r \in Request, EditUpdate(r)
  PROVE  IInv'
  <1> DEFINE n == req[r].msg
  <1>1. HandlerOK(req[r]) /\ req[r].pc = "edit" BY HandlerFacts DEF EditUpdate, At
  <1>2. n \in Stored /\ req[r].text \in Text /\ doc[n] \in Doc /\ doc \in [Stored -> Doc]
    BY <1>1 DEF HandlerOK, IInv, StoreOK
  <1>3. announced' = announced BY DEF EditUpdate, history
  <1>4. PICK q : q = [Idle EXCEPT !.pc = "done"] OBVIOUS
  <1>5. HandlerOK(q) /\ q.pc = "done" BY <1>4, IdleOK DEF Idle
  <1>6. req' = [req EXCEPT ![r] = q] BY <1>4 DEF EditUpdate, Done
  <1>7. PICK d : d = [doc[n] EXCEPT !.text = req[r].text, !.edited = TRUE] OBVIOUS
  <1>8. d \in Doc /\ d.conv = doc[n].conv /\ d.sender = doc[n].sender /\ d.deleted = doc[n].deleted
    BY <1>2, <1>7 DEF Doc
  <1>9. doc' \in {doc, [doc EXCEPT ![n] = d]}
    BY <1>7 DEF EditUpdate, UpdateById
  <1>10. doc' \in [Stored -> Doc] /\ \A m \in Stored : doc'[m].conv = doc[m].conv
           /\ doc'[m].sender = doc[m].sender /\ doc'[m].deleted = doc[m].deleted
    BY <1>2, <1>8, <1>9
  <1>11. Announced'
    <2>1. Stored' = Stored BY <1>9 DEF Stored
    <2> HIDE DEF Stored
    <2> QED BY <1>3, <1>10, <2>1 DEF IInv, Announced
  <1> QED BY <1>5, <1>6, <1>10, <1>11, DocStep DEF EditUpdate

LEMMA FindStep ==
  ASSUME IInv, NEW r \in Request, Find(r)
  PROVE  IInv'
  <1>1. HandlerOK(req[r]) /\ req[r] \in Handler /\ req[r].pc = "find"
    BY HandlerFacts DEF Find, At
  <1> DEFINE n == Head(req[r].todo)
  <1>2. CASE n \in Stored /\ req' = [req EXCEPT ![r].pc = "delete", ![r].msg = n]
    <2>0. PICK q : q = [req[r] EXCEPT !.pc = "delete", !.msg = n] OBVIOUS
    <2>1. n \in 0 .. made BY <1>2, StoredFacts
    <2> HIDE DEF n
    <2>2. q \in Handler /\ q.pc = "delete" /\ q.do = req[r].do /\ q.msg = n
          /\ q.todo = req[r].todo
      BY <1>1, <2>0, <2>1 DEF Handler, Label
    <2>3. HandlerOK(q) BY <1>1, <1>2, <2>2 DEF HandlerOK
    <2>4. req' = [req EXCEPT ![r] = q] BY <1>2, <2>0
    <2> QED BY <2>2, <2>3, <2>4, LocalStep DEF Find, history
  <1>3. CASE NextOf(r, "find")
    <2>1. \E q : HandlerOK(q) /\ q.pc # "save" /\ req' = [req EXCEPT ![r] = q]
      BY <1>1, <1>3, NextOfStep
    <2> QED BY <2>1, LocalStep DEF Find, history
  <1> QED BY <1>2, <1>3 DEF Find, Live

LEMMA DeleteStep ==
  ASSUME IInv, NEW r \in Request, Delete(r)
  PROVE  IInv'
  <1> DEFINE n == req[r].msg
  <1>1. HandlerOK(req[r]) /\ req[r].pc = "delete" BY HandlerFacts DEF Delete, At
  <1>2. n \in Stored /\ n \in Message /\ doc[n] \in Doc /\ doc \in [Stored -> Doc]
    BY <1>1, StoredFacts DEF HandlerOK, IInv, StoreOK
  <1>3. \E q : HandlerOK(q) /\ q.pc # "save" /\ req' = [req EXCEPT ![r] = q]
    BY <1>1, NextOfStep DEF Delete
  <1>4. CASE ~Live(n)
    <2>1. doc' = doc /\ announced' = announced BY <1>4 DEF Delete, SoftDelete
    <2>2. Stored' = Stored BY <2>1 DEF Stored
    <2>3. Announced' BY <2>1, <2>2 DEF IInv, Announced
    <2> QED BY <1>2, <1>3, <2>1, <2>3, DocStep DEF Delete
  <1>5. CASE Live(n)
    <2>1. PICK d : d = [doc[n] EXCEPT !.deleted = TRUE] OBVIOUS
    <2>2. d \in Doc /\ d.conv = doc[n].conv /\ d.sender = doc[n].sender /\ d.deleted
      BY <1>2, <2>1 DEF Doc
    <2>3. doc' = [doc EXCEPT ![n] = d] /\ announced' = [announced EXCEPT ![n] = @ + 1]
      BY <1>5, <2>1 DEF Delete, SoftDelete
    <2>4. doc' \in [Stored -> Doc] /\ \A m \in Stored : doc'[m].conv = doc[m].conv
            /\ doc'[m].sender = doc[m].sender
      BY <1>2, <2>2, <2>3
    <2>5. announced[n] = 0 /\ announced \in [Message -> {0, 1}]
      BY <1>2, <1>5 DEF IInv, Announced, Live
    <2>6. announced' \in [Message -> {0, 1}] /\ announced'[n] = 1
      BY <1>2, <2>3, <2>5
    <2>7. Stored' = Stored BY <2>3 DEF Stored
    <2>8. Announced'
      <3> SUFFICES ASSUME NEW m \in Message
                   PROVE  announced'[m] = 1 <=> (m \in Stored' /\ doc'[m].deleted)
        BY <2>6 DEF Announced
      <3>1. CASE m = n BY <1>2, <2>2, <2>3, <2>6, <2>7, <3>1
      <3>2. CASE m # n
        <4>1. announced'[m] = announced[m] /\ (m \in Stored => doc'[m] = doc[m])
          BY <1>2, <2>3, <2>5, <3>2
        <4> HIDE DEF Stored
        <4> QED BY <2>7, <4>1 DEF IInv, Announced
      <3> QED BY <3>1, <3>2
    <2> QED BY <1>3, <2>4, <2>8, DocStep DEF Delete
  <1> QED BY <1>4, <1>5

LEMMA MarkAsReadStep ==
  ASSUME IInv, NEW r \in Request, MarkAsRead(r)
  PROVE  IInv'
  <1> DEFINE n == Head(req[r].todo)
  <1>1. HandlerOK(req[r]) /\ req[r] \in Handler /\ req[r].pc = "mark"
    BY HandlerFacts DEF MarkAsRead, At
  <1>2. doc \in [Stored -> Doc] BY DEF IInv, StoreOK
  <1>3. announced' = announced BY DEF MarkAsRead, history
  <1>4. \E q : HandlerOK(q) /\ q.pc # "save" /\ req' = [req EXCEPT ![r] = q]
    <2>1. CASE NextOf(r, "mark") BY <1>1, <2>1, NextOfStep
    <2>2. CASE req[r].do = "read" /\ Goto(r, "look")
      <3>0. PICK q : q = [req[r] EXCEPT !.pc = "look"] OBVIOUS
      <3>1. q \in Handler /\ q.pc = "look" /\ q.do = "read" /\ q.conv = req[r].conv
            /\ q.user = req[r].user
        BY <1>1, <2>2, <3>0 DEF Handler, Label
      <3>2. HandlerOK(q) BY <1>1, <2>2, <3>1 DEF HandlerOK
      <3>3. req' = [req EXCEPT ![r] = q] BY <2>2, <3>0 DEF Goto
      <3> QED BY <3>1, <3>2, <3>3
    <2> QED BY <2>1, <2>2 DEF MarkAsRead
  <1>5. CASE doc' = doc
    <2>1. Announced' BY <1>3, <1>5 DEF IInv, Announced, Stored
    <2> QED BY <1>2, <1>4, <1>5, <2>1, DocStep DEF MarkAsRead
  <1>6. CASE Live(n) /\ doc' = [doc EXCEPT ![n].read = TRUE]
    <2>0. n \in Stored BY <1>6 DEF Live
    <2> HIDE DEF n
    <2>1. PICK d : d = [doc[n] EXCEPT !.read = TRUE] OBVIOUS
    <2>2. d \in Doc /\ d.conv = doc[n].conv /\ d.sender = doc[n].sender
          /\ d.deleted = doc[n].deleted
      BY <1>2, <2>0, <2>1 DEF Doc
    <2>3. doc' = [doc EXCEPT ![n] = d] BY <1>6, <2>1
    <2>4. doc' \in [Stored -> Doc] /\ \A m \in Stored : doc'[m].conv = doc[m].conv
            /\ doc'[m].sender = doc[m].sender /\ doc'[m].deleted = doc[m].deleted
      BY <1>2, <2>0, <2>2, <2>3
    <2>5. Stored' = Stored BY <2>3 DEF Stored
    <2>6. Announced'
      <3> HIDE DEF Stored
      <3> QED BY <1>3, <2>4, <2>5 DEF IInv, Announced
    <2> QED BY <1>4, <2>4, <2>6, DocStep DEF MarkAsRead
  <1> QED BY <1>5, <1>6 DEF MarkAsRead

-----------------------------------------------------------------------------
(* A reading and the last message.                                          *)

LEMMA LookStep ==
  ASSUME IInv, NEW r \in Request, Look(r)
  PROVE  IInv'
  <1> DEFINE c == req[r].conv
  <1>1. HandlerOK(req[r]) /\ req[r] \in Handler /\ req[r].pc = "look"
    BY HandlerFacts DEF Look, At
  <1>2. c \in Conversation /\ req[r].seen \subseteq Stored
    BY <1>1 DEF HandlerOK, Handler
  <1>3. CASE Done(r) BY <1>3, DoneStep DEF Look, history
  <1>4. CASE cache[c].id \in req[r].seen
             /\ req' = [req EXCEPT ![r].hash = cache[c], ![r].pc = "key"]
    <2>1. cache[c] \in Hash /\ cache[c].id \in Stored
      BY <1>2, <1>4 DEF IInv, LastOK
    <2>2. PICK q : q = [req[r] EXCEPT !.hash = cache[c], !.pc = "key"] OBVIOUS
    <2>3. q \in Handler /\ q.pc = "key" /\ q.do = req[r].do /\ q.todo = req[r].todo
          /\ q.hash = cache[c] /\ q.conv = req[r].conv /\ q.user = req[r].user
      BY <1>1, <2>1, <2>2 DEF Handler, Label
    <2>4. HandlerOK(q) BY <1>1, <2>1, <2>3 DEF HandlerOK
    <2>5. req' = [req EXCEPT ![r] = q] BY <1>4, <2>2
    <2> QED BY <2>3, <2>4, <2>5, LocalStep DEF Look, history
  <1> QED BY <1>3, <1>4 DEF Look

LEMMA SetReadKeyStep ==
  ASSUME IInv, NEW r \in Request, SetReadKey(r)
  PROVE  IInv'
  <1>1. HandlerOK(req[r]) /\ req[r] \in Handler /\ req[r].pc = "key"
    BY HandlerFacts DEF SetReadKey, At
  <1> DEFINE key == <<req[r].hash.id, req[r].user>>
  <1>2. key \in Stored \X User BY <1>1 DEF HandlerOK
  <1>3. doc' = doc /\ made' = made /\ clock' = clock /\ cache' = cache /\ aged' = aged
        /\ announced' = announced /\ readKey' = readKey \cup {key}
    BY DEF SetReadKey, store, history
  <1> HIDE DEF key
  <1>4. Stored' = Stored /\ Hash' = Hash /\ Doc' = Doc BY <1>3 DEF Stored, Hash, Doc
  <1>5. Grows BY <1>3, <1>4, MessagesAssumption DEF Grows, IInv, StoreOK
  <1>6. StoreOK' /\ Announced' BY <1>3, <1>4 DEF IInv, StoreOK, Announced
  <1>7. LastOK' BY <1>2, <1>3, <1>4 DEF IInv, LastOK, Honest
  <1>8. PICK q : q = [req[r] EXCEPT !.pc = "reread"] OBVIOUS
  <1>9. q \in Handler /\ q.pc = "reread" /\ q.do = req[r].do /\ q.todo = req[r].todo
        /\ q.hash = req[r].hash /\ q.conv = req[r].conv /\ q.user = req[r].user
    BY <1>1, <1>8 DEF Handler, Label
  <1>10. HandlerOK(q)'
    <2>1. q \in Handler' BY <1>3, <1>4, <1>9 DEF Handler
    <2>2. q.hash.id \in Stored' /\ <<q.hash.id, q.user>> \in readKey'
      BY <1>2, <1>3, <1>4, <1>9 DEF key
    <2>3. q.user \in User /\ q.conv \in Conversation
          /\ (q.do = "forward" => q.todo \in Seq(Conversation))
      BY <1>1, <1>9 DEF HandlerOK
    <2> QED BY <1>9, <2>1, <2>2, <2>3 DEF HandlerOK
  <1>11. req' = [req EXCEPT ![r] = q] BY <1>8 DEF SetReadKey, Goto
  <1>12. \A p \in Request \ {r} : At(p, "save") => req[p].msg \notin Stored'
    BY <1>4, HandlerFacts DEF HandlerOK, At
  <1> QED BY <1>5, <1>6, <1>7, <1>9, <1>10, <1>11, <1>12, GrowingStep

LEMMA ReadHashStep ==
  ASSUME IInv, NEW r \in Request, ReadHash(r)
  PROVE  IInv'
  <1> DEFINE c == req[r].conv
  <1>1. HandlerOK(req[r]) /\ req[r] \in Handler /\ req[r].pc = "reread"
    BY HandlerFacts DEF ReadHash, At
  <1>2. CASE Done(r) BY <1>2, DoneStep DEF ReadHash, history
  <1>3. CASE cache[c].id = req[r].hash.id
             /\ req' = [req EXCEPT ![r].hash = cache[c], ![r].pc = "write"]
    <2>1. c \in Conversation /\ cache[c] \in Hash /\ Honest(cache[c], c)
          /\ cache[c].id \in Stored
      BY <1>1, <1>3 DEF HandlerOK, IInv, LastOK
    <2>2. PICK q : q = [req[r] EXCEPT !.hash = cache[c], !.pc = "write"] OBVIOUS
    <2>3. q \in Handler /\ q.pc = "write" /\ q.do = req[r].do /\ q.todo = req[r].todo
          /\ q.hash = cache[c] /\ q.conv = c /\ q.user = req[r].user
      BY <1>1, <2>1, <2>2 DEF Handler, Label
    <2>4. HandlerOK(q) BY <1>1, <1>3, <2>1, <2>3 DEF HandlerOK
    <2>5. req' = [req EXCEPT ![r] = q] BY <1>3, <2>2
    <2> QED BY <2>3, <2>4, <2>5, LocalStep DEF ReadHash, history
  <1> QED BY <1>2, <1>3 DEF ReadHash

LEMMA WriteHashStep ==
  ASSUME IInv, NEW r \in Request, WriteHash(r)
  PROVE  IInv'
  <1> DEFINE c == req[r].conv
             hash == [req[r].hash EXCEPT !.readBy = @ \cup {req[r].user}]
  <1>1. HandlerOK(req[r]) /\ req[r] \in Handler /\ req[r].pc = "write"
    BY HandlerFacts DEF WriteHash, At
  <1>2. doc' = doc /\ made' = made /\ clock' = clock /\ readKey' = readKey /\ aged' = aged
        /\ announced' = announced /\ cache' = [cache EXCEPT ![c] = hash] /\ Stored' = Stored
    BY DEF WriteHash, store, history, Stored
  <1>3. hash \in Hash /\ hash.id = req[r].hash.id
        /\ hash.readBy = req[r].hash.readBy \cup {req[r].user}
    BY <1>1 DEF HandlerOK, Handler, Hash
  <1> HIDE DEF hash
  <1>4. Honest(hash, c)
    BY <1>1, <1>3, StoredFacts DEF HandlerOK, Honest
  <1>5. LastOK'
    <2>1. Hash' = Hash /\ \A h, d : Honest(h, d) => Honest(h, d)'
      BY <1>2 DEF Hash, Honest
    <2>2. cache' \in [Conversation -> Hash] /\ \A d \in Conversation : Honest(cache'[d], d)
      BY <1>2, <1>3, <1>4 DEF IInv, LastOK
    <2> QED BY <1>2, <2>1, <2>2 DEF IInv, LastOK
  <1>6. StoreOK' /\ Announced' BY <1>2 DEF IInv, StoreOK, Announced, Doc
  <1>7. Grows BY <1>2, MessagesAssumption DEF Grows, IInv, StoreOK
  <1>8. PICK q : q = [Idle EXCEPT !.pc = "done"] OBVIOUS
  <1>9. HandlerOK(q) /\ q.pc = "done" BY <1>8, IdleOK DEF Idle
  <1>10. HandlerOK(q)' BY <1>7, <1>9, HandlerKept
  <1>11. req' = [req EXCEPT ![r] = q] BY <1>8 DEF WriteHash, Done
  <1>12. \A p \in Request \ {r} : At(p, "save") => req[p].msg \notin Stored'
    BY <1>2, HandlerFacts DEF HandlerOK, At
  <1> QED BY <1>5, <1>6, <1>7, <1>9, <1>10, <1>11, <1>12, GrowingStep

-----------------------------------------------------------------------------
(* Listing, and time.                                                       *)

LEMMA NextPageStep ==
  ASSUME IInv, NEW r \in Request, NextPage(r)
  PROVE  IInv'
  <1> DEFINE found == {m \in In(req[r].conv) :
                         req[r].do = "cursor" /\ req[r].at > 0 => doc[m].at < req[r].at}
             skip == IF req[r].do = "cursor" THEN 0 ELSE Skip(req[r].at)
             Oldest(page) == {m \in page : \A k \in page : doc[k].at >= doc[m].at}
             After(page) == IF req[r].do = "cursor" THEN {doc[m].at : m \in Oldest(page)}
                            ELSE {req[r].at + 1}
  <1>1. HandlerOK(req[r]) /\ req[r] \in Handler /\ req[r].pc = "page"
    BY HandlerFacts DEF NextPage, At
  <1>2. PICK page \in Page(found, skip, Limit) :
          \/ page = {} /\ req' = [req EXCEPT ![r].pc = "done", ![r].at = 0]
          \/ \E at \in After(page) :
               page # {} /\ req' = [req EXCEPT ![r].seen = @ \cup page, ![r].at = at]
    BY DEF NextPage
  <1> HIDE DEF found, skip
  <1>3. page \subseteq found BY DEF Page, TopOf
  <1>4. page \subseteq Stored BY <1>3 DEF found, In
  <1>5. CASE page = {} /\ req' = [req EXCEPT ![r].pc = "done", ![r].at = 0]
    <2>1. PICK q : q = [req[r] EXCEPT !.pc = "done", !.at = 0] OBVIOUS
    <2>2. q \in Handler /\ q.pc = "done" /\ q.do = req[r].do /\ q.todo = req[r].todo
      BY <1>1, <2>1 DEF Handler, Label
    <2>3. HandlerOK(q) BY <1>1, <2>2 DEF HandlerOK
    <2>4. req' = [req EXCEPT ![r] = q] BY <1>5, <2>1
    <2> QED BY <2>2, <2>3, <2>4, LocalStep DEF NextPage, history
  <1>6. ASSUME NEW at \in After(page),
               req' = [req EXCEPT ![r].seen = @ \cup page, ![r].at = at]
        PROVE  IInv'
    <2>1. at \in Nat
      <3>1. \A m \in Stored : doc[m].at \in Nat BY StoredFacts
      <3>2. req[r].at + 1 \in Nat BY <1>1 DEF Handler
      <3> QED BY <1>4, <3>1, <3>2
    <2> HIDE DEF After
    <2>2. PICK q : q = [req[r] EXCEPT !.seen = @ \cup page, !.at = at] OBVIOUS
    <2>3. q \in Handler /\ q.pc = "page" /\ q.do = req[r].do /\ q.todo = req[r].todo
      BY <1>1, <1>4, <2>1, <2>2 DEF Handler
    <2>4. HandlerOK(q) BY <1>1, <2>3 DEF HandlerOK
    <2>5. req' = [req EXCEPT ![r] = q] BY <1>6, <2>2
    <2> QED BY <2>3, <2>4, <2>5, LocalStep DEF NextPage, history
  <1> QED BY <1>2, <1>5, <1>6

LEMMA DayPassesStep ==
  ASSUME IInv, DayPasses
  PROVE  IInv'
  <1>1. doc' = doc /\ made' = made /\ clock' = clock /\ cache' = cache /\ readKey' = readKey
        /\ req' = req /\ announced' = announced /\ aged' = Stored /\ Stored' = Stored
    BY DEF DayPasses, store, last, history, Stored
  <1>2. StoreOK' /\ Announced' /\ LastOK'
    BY <1>1 DEF IInv, StoreOK, Announced, LastOK, Honest, Doc, Hash
  <1>3. HandlersOK'
    <2>1. \A x : HandlerOK(x) => HandlerOK(x)'
      BY <1>1 DEF HandlerOK, Handler, Hash, Stored, Honest
    <2>2. Handler' = Handler BY <1>1 DEF Handler, Hash
    <2> QED BY <1>1, <2>1, <2>2 DEF IInv, HandlersOK
  <1>4. Distinct' BY <1>1 DEF IInv, Distinct, At
  <1> QED BY <1>2, <1>3, <1>4 DEF IInv

\* The copy of a conversation and its read keys go while no handler counts on them.
LEMMA CacheExpiresStep ==
  ASSUME IInv, NEW c \in Conversation, CacheExpires(c)
  PROVE  IInv'
  <1>1. doc' = doc /\ made' = made /\ clock' = clock /\ aged' = aged /\ req' = req
        /\ announced' = announced /\ Stored' = Stored
        /\ cache' = [cache EXCEPT ![c] = NoCache]
        /\ readKey' = {k \in readKey : doc[k[1]].conv # c}
    BY DEF CacheExpires, store, Stored
  <1>2. Hash' = Hash /\ Handler' = Handler /\ Doc' = Doc
    BY <1>1 DEF Hash, Handler, Doc
  <1>3. StoreOK' /\ Announced' BY <1>1, <1>2 DEF IInv, StoreOK, Announced
  <1>4. LastOK'
    <2>1. NoCache \in Hash /\ Honest(NoCache, c)'
      BY MessagesAssumption DEF NoCache, Hash, Honest, IInv, StoreOK
    <2>2. \A d \in Conversation \ {c} : Honest(cache[d], d)'
      BY <1>1 DEF IInv, LastOK, Honest
    <2>3. cache' \in [Conversation -> Hash] /\ cache'[c] = NoCache
          /\ \A d \in Conversation \ {c} : cache'[d] = cache[d]
      BY <1>1, <2>1 DEF IInv, LastOK
    <2>4. readKey' \subseteq Stored' \X User BY <1>1 DEF IInv, LastOK
    <2> QED BY <1>2, <2>1, <2>2, <2>3, <2>4 DEF LastOK
  <1>5. HandlersOK'
    <2>1. \A x : HandlerOK(x) /\ x.pc \in {"new", "done"} => HandlerOK(x)'
      BY <1>2 DEF HandlerOK
    <2>2. \A p \in Request : req[p].pc \in {"new", "done"} BY DEF CacheExpires
    <2> QED BY <1>1, <1>2, <2>1, <2>2 DEF IInv, HandlersOK
  <1>6. Distinct' BY <1>1 DEF IInv, Distinct, At
  <1> QED BY <1>3, <1>4, <1>5, <1>6 DEF IInv

LEMMA StepInv == IInv /\ [Next]_vars => IInv'
  <1> SUFFICES ASSUME IInv, [Next]_vars PROVE IInv' OBVIOUS
  <1>1. ASSUME NEW r \in Request, Forbidden(r) PROVE IInv'
    BY <1>1, DoneStep DEF Forbidden, history
  <1>2. ASSUME NEW r \in Request,
               \/ Starts(r) \/ Create(r) \/ Save(r) \/ UpdateOnSend(r) \/ Forbidden(r)
               \/ EditUpdate(r) \/ Find(r) \/ Delete(r) \/ MarkAsRead(r)
               \/ Look(r) \/ SetReadKey(r) \/ ReadHash(r) \/ WriteHash(r) \/ NextPage(r)
        PROVE  IInv'
    BY <1>1, <1>2, StartsStep, CreateStep, SaveStep, UpdateOnSendStep, EditUpdateStep, FindStep,
       DeleteStep, MarkAsReadStep, LookStep, SetReadKeyStep, ReadHashStep, WriteHashStep,
       NextPageStep
  <1>3. CASE UNCHANGED vars
    <2>1. /\ doc' = doc /\ made' = made /\ clock' = clock /\ cache' = cache
          /\ readKey' = readKey /\ req' = req /\ aged' = aged /\ announced' = announced
      BY <1>3 DEF vars, store, last, history
    <2>2. StoreOK' /\ Announced' /\ LastOK' /\ Distinct'
      BY <2>1 DEF IInv, StoreOK, Announced, LastOK, Honest, Doc, Hash, Stored, Distinct, At
    <2>3. \A x : HandlerOK(x) => HandlerOK(x)'
      BY <2>1 DEF HandlerOK, Handler, Hash, Stored, Honest
    <2>4. Handler' = Handler BY <2>1 DEF Handler, Hash, Stored
    <2>5. HandlersOK' BY <2>1, <2>3, <2>4 DEF IInv, HandlersOK
    <2> QED BY <2>2, <2>5 DEF IInv
  <1> QED BY <1>2, <1>3, DayPassesStep, CacheExpiresStep DEF Next

LEMMA InitInv == Init => IInv
  <1> SUFFICES ASSUME Init PROVE IInv OBVIOUS
  <1> DEFINE n == Len(Old)
             t0 == CHOOSE t \in Text : TRUE
  <1>1. n \in Nat \ {0} /\ n <= MaxMessages /\ Home \in Conversation /\ t0 \in Text
        /\ MaxMessages \in Nat /\ \A m \in 1 .. n : Old[m] \in User
    BY MessagesAssumption, EmptySeq
  <1>2. Last(Old) = Old[n] /\ Old[n] \in User BY <1>1 DEF Last
  <1>3. made = n /\ clock = n /\ readKey = {} /\ aged = {} /\ req = [r \in Request |-> Idle]
        /\ announced = [m \in Message |-> 0]
        /\ doc = [m \in 1 .. n |-> NewDoc(Home, Old[m], t0, m)]
        /\ cache = [c \in Conversation |-> IF c = Home THEN [id |-> n, readBy |-> {Old[n]}]
                                           ELSE NoCache]
    BY <1>2 DEF Init
  <1> HIDE DEF n, t0
  <1>4. Stored = 1 .. n BY <1>3 DEF Stored
  <1>5. \A m \in 1 .. n : NewDoc(Home, Old[m], t0, m) \in Doc
          /\ ~NewDoc(Home, Old[m], t0, m).deleted
          /\ NewDoc(Home, Old[m], t0, m).conv = Home
          /\ NewDoc(Home, Old[m], t0, m).sender = Old[m]
    BY <1>1, <1>3 DEF NewDoc, Doc
  <1>6. \A m \in Stored : doc[m] \in Doc /\ ~doc[m].deleted /\ doc[m].conv = Home
                          /\ doc[m].sender = Old[m]
    BY <1>3, <1>4, <1>5
  <1>7. StoreOK
    <2>1. doc \in [Stored -> Doc] BY <1>3, <1>4, <1>5
    <2> QED BY <1>1, <1>3, <1>4, <2>1 DEF StoreOK
  <1>8. Announced BY <1>3, <1>6 DEF Announced
  <1>9. LastOK
    <2>1. [id |-> n, readBy |-> {Old[n]}] \in Hash /\ NoCache \in Hash
      BY <1>1, <1>2, <1>3 DEF Hash, NoCache
    <2>2. Honest([id |-> n, readBy |-> {Old[n]}], Home)
      BY <1>1, <1>4, <1>6 DEF Honest
    <2>3. \A c \in Conversation : Honest(NoCache, c) BY DEF Honest, NoCache
    <2> QED BY <1>3, <2>1, <2>2, <2>3 DEF LastOK
  <1>10. Idle \in Handler /\ Idle.pc = "new" /\ Idle.do = None /\ Idle.todo = <<>>
    BY <1>1, <1>3 DEF Idle, Handler, Kind, Label, NoCache, Hash
  <1>11. HandlerOK(Idle)
    <2>1. <<>> \in Seq(Conversation) OBVIOUS
    <2> QED BY <1>10, <2>1 DEF HandlerOK
  <1>12. HandlersOK BY <1>3, <1>10, <1>11 DEF HandlersOK
  <1>13. Distinct BY <1>3, <1>10 DEF Distinct, At
  <1> QED BY <1>7, <1>8, <1>9, <1>12, <1>13 DEF IInv

LEMMA Inductive == Spec => []IInv
  BY InitInv, StepInv, PTL DEF Spec

-----------------------------------------------------------------------------
(* The theorems.                                                            *)

\* Types: whatever the users, the bounds and the interleaving, a stored message has a text,
\* a sender and a conversation, and its deletion is announced at most once (createMessage,
\* editMessage, deleteMessage).
THEOREM TypeCorrect == Spec => []TypeOK
  <1>1. IInv => TypeOK
    <2> SUFFICES ASSUME IInv PROVE TypeOK OBVIOUS
    <2>1. StoreOK /\ LastOK /\ Announced BY DEF IInv
    <2>2. clock \in 0 .. MaxMessages /\ Stored \subseteq Message
      BY <2>1, MessagesAssumption, StoredFacts DEF StoreOK
    <2>3. readKey \subseteq Message \X User BY <2>1, <2>2 DEF LastOK
    <2>4. announced \in [Message -> 0 .. 1]
      <3>1. {0, 1} = 0 .. 1 OBVIOUS
      <3> QED BY <2>1, <3>1 DEF Announced
    <2>5. \A r \in Request : req[r].pc \in Label /\ req[r].msg \in 0 .. made
                             /\ req[r].seen \cup req[r].due \cup req[r].gone \subseteq Stored
      BY HandlerFacts DEF Handler
    <2> QED BY <2>1, <2>2, <2>3, <2>4, <2>5 DEF TypeOK, StoreOK, LastOK, Doc, Hash, Label
  <1> QED BY <1>1, Inductive, PTL

\* The readers the conversation list shows for a last message sent it or read it: a handler
\* that marks a message never writes its reader into the copy of another one, however many
\* readings, sends and expirations interleave (updateLastMessageReadStatus).
THEOREM ReadersAreHonest == Spec => []ReadByIsHonest
  <1>1. IInv => ReadByIsHonest
    <2> SUFFICES ASSUME IInv, NEW c \in Conversation, NEW u \in cache[c].readBy
                 PROVE  \/ <<cache[c].id, u>> \in readKey
                        \/ cache[c].id \in Stored /\ doc[cache[c].id].sender = u
      BY DEF ReadByIsHonest
    <2> QED BY DEF IInv, LastOK, Honest
  <1> QED BY <1>1, Inductive, PTL

LEMMA DeletedKept ==
  ASSUME IInv, [Next]_vars, NEW m \in Stored, doc[m].deleted
  PROVE  m \in Stored' /\ doc'[m] = doc[m]
  <1>1. ASSUME doc' = doc PROVE m \in Stored' /\ doc'[m] = doc[m]
    BY <1>1 DEF Stored
  <1>2. ASSUME NEW r \in Request, Save(r) PROVE m \in Stored' /\ doc'[m] = doc[m]
    <2>1. req[r].msg # m BY <1>2, HandlerFacts DEF Save, At, HandlerOK
    <2>2. doc' = [k \in Stored \cup {req[r].msg} |->
                    IF k = req[r].msg
                    THEN NewDoc(req[r].conv, req[r].user, req[r].text, req[r].at) ELSE doc[k]]
      BY <1>2 DEF Save
    <2>3. Stored' = Stored \cup {req[r].msg} BY <2>2 DEF Stored
    <2> HIDE DEF Stored
    <2> QED BY <2>1, <2>2, <2>3
  <1>3. ASSUME NEW k, ~doc[k].deleted, NEW d, doc' = [doc EXCEPT ![k] = d]
        PROVE  m \in Stored' /\ doc'[m] = doc[m]
    <2>1. k # m BY <1>3
    <2> QED BY <1>3, <2>1 DEF Stored
  <1>4. ASSUME NEW r \in Request, EditUpdate(r) PROVE m \in Stored' /\ doc'[m] = doc[m]
    BY <1>1, <1>3, <1>4 DEF EditUpdate, UpdateById, Live
  <1>5. ASSUME NEW r \in Request, Delete(r) PROVE m \in Stored' /\ doc'[m] = doc[m]
    BY <1>1, <1>3, <1>5 DEF Delete, SoftDelete, Live
  <1>6. ASSUME NEW r \in Request, MarkAsRead(r) PROVE m \in Stored' /\ doc'[m] = doc[m]
    BY <1>1, <1>3, <1>6 DEF MarkAsRead, Live
  <1>7. ASSUME NEW r \in Request,
               \/ Starts(r) \/ Create(r) \/ UpdateOnSend(r) \/ Forbidden(r) \/ Find(r)
               \/ Look(r) \/ SetReadKey(r) \/ ReadHash(r) \/ WriteHash(r) \/ NextPage(r)
        PROVE  doc' = doc
    BY <1>7 DEF Starts, Send, Edit, Forward, Bulk, ReadMessages, Walk, Create, UpdateOnSend,
                Forbidden, Find, Look, SetReadKey, ReadHash, WriteHash, NextPage, store
  <1>8. ASSUME DayPasses \/ (\E c \in Conversation : CacheExpires(c)) \/ UNCHANGED vars
        PROVE  doc' = doc
    BY <1>8 DEF DayPasses, CacheExpires, vars, store
  <1> QED BY <1>1, <1>2, <1>4, <1>5, <1>6, <1>7, <1>8 DEF Next

\* A deleted message stays as it was and its deletion is announced once, though edits and
\* deletions that found it alive are still to run (updateById, softDelete).
THEOREM DeletionsAreFinal == Spec => DeletedIsFinal
  <1>1. IInv /\ IInv' /\ [Next]_vars =>
          [\A m \in Stored : doc[m].deleted =>
             doc'[m] = doc[m] /\ announced[m] = 1 /\ announced'[m] = 1]_<<doc, announced>>
    <2> SUFFICES ASSUME IInv, IInv', [Next]_vars, NEW m \in Stored, doc[m].deleted
                 PROVE  doc'[m] = doc[m] /\ announced[m] = 1 /\ announced'[m] = 1
      OBVIOUS
    <2>1. m \in Stored' /\ doc'[m] = doc[m] /\ m \in Message BY DeletedKept, StoredFacts
    <2>2. announced[m] = 1 BY <2>1 DEF IInv, Announced
    <2>3. announced'[m] = 1 BY <2>1 DEF IInv, Announced
    <2> QED BY <2>1, <2>2, <2>3
  <1> QED BY <1>1, Inductive, PTL DEF Spec, DeletedIsFinal

-----------------------------------------------------------------------------
(* The cached last message.  What a send or a reading will write is held   *)
(* against the newest message cached so far.                               *)

\* A send whose message is not yet cached.
InHand(q) == q.do = "send" /\ q.pc \in {"save", "cache"}

\* Message id may stand in the cache of c.
Fits(id, c) == id = top[c] \/ {id, top[c]} \subseteq overlapped \/ top[c] \in overtaken

HeldOK(q) ==
  /\ q.pc = "cache" => q.do = "send"
  /\ InHand(q) /\ q.msg < top[q.conv] => {q.msg, top[q.conv]} \subseteq overlapped
  /\ q.pc = "write" => Fits(q.hash.id, q.conv)

(* Inductive beside IInv: two sends in hand overlapped, and so did a send in *)
(* hand and the newest message cached, if that is newer than its own.        *)
Latest ==
  /\ top \in [Conversation -> 0 .. made] /\ overlapped \subseteq 1 .. made
  /\ \A r \in Request : HeldOK(req[r])
  /\ \A r, q \in Request :
       r # q /\ InHand(req[r]) /\ InHand(req[q]) /\ req[r].conv = req[q].conv =>
         req[r].msg \in overlapped
  /\ \A c \in Conversation : Fits(cache[c].id, c)

\* Where a step takes request r: to a message in hand, or to a write of the hash.
TurnsOK(r) ==
  /\ \A p \in Request \ {r} : req'[p] = req[p]
  /\ req'[r].pc = "cache" => req'[r].do = "send"
  /\ InHand(req'[r]) => \/ Create(r)
                        \/ InHand(req[r]) /\ req'[r].msg = req[r].msg /\ req'[r].conv = req[r].conv
  /\ req'[r].pc = "write" => req'[r].conv \in Conversation /\ req'[r].hash = cache[req'[r].conv]

Moves(r) ==
  \/ Starts(r) \/ Create(r) \/ Save(r) \/ UpdateOnSend(r) \/ Forbidden(r)
  \/ EditUpdate(r) \/ Find(r) \/ Delete(r) \/ MarkAsRead(r)
  \/ Look(r) \/ SetReadKey(r) \/ ReadHash(r) \/ WriteHash(r) \/ NextPage(r)

LEMMA Turns ==
  ASSUME IInv, NEW r \in Request, Moves(r)
  PROVE  TurnsOK(r)
  <1>1. req \in [Request -> Handler] /\ req[r] \in Handler
    BY HandlerFacts DEF IInv, HandlersOK
  <1>2. ASSUME NEW q, req' = [req EXCEPT ![r] = q]
        PROVE  req'[r] = q /\ \A p \in Request \ {r} : req'[p] = req[p]
    BY <1>1, <1>2
  <1>3. ASSUME NEW q, req' = [req EXCEPT ![r] = q], q.pc \notin {"save", "cache", "write"}
        PROVE  TurnsOK(r)
    BY <1>2, <1>3 DEF TurnsOK, InHand
  <1>5. ASSUME Done(r) PROVE TurnsOK(r)
    <2>1. [Idle EXCEPT !.pc = "done"].pc = "done"
      BY DEF Idle
    <2> QED BY <1>3, <1>5, <2>1 DEF Done
  <1>6. \A pc : [req[r] EXCEPT !.pc = pc].pc = pc
    BY <1>1 DEF Handler
  <1>7. ASSUME NEW pc \in {"find", "mark"}, NextOf(r, pc) PROVE TurnsOK(r)
    <2>1. PICK q : q = [req[r] EXCEPT !.todo = Tail(@), !.pc = pc]
      OBVIOUS
    <2>2. q.pc = pc
      BY <1>1, <2>1 DEF Handler
    <2>3. Done(r) \/ req' = [req EXCEPT ![r] = q]
      BY <1>7, <2>1 DEF NextOf
    <2> QED BY <1>3, <1>5, <2>2, <2>3
  <1>8. ASSUME NEW pc, pc \notin {"save", "cache", "write"}, Goto(r, pc) PROVE TurnsOK(r)
    BY <1>3, <1>6, <1>8 DEF Goto
  <1>9. CASE Starts(r)
    <2>1. \A do, u, c, t : [Idle EXCEPT !.do = do, !.pc = "create", !.user = u, !.conv = c, !.text = t].pc
                             = "create"
      BY DEF Idle
    <2>2. \A u, t, c, l : [Idle EXCEPT !.do = "forward", !.pc = "create", !.user = u, !.text = t,
                                       !.conv = c, !.todo = l].pc = "create"
      BY DEF Idle
    <2>3. \A u, m, t : [Idle EXCEPT !.do = "edit", !.pc = "edit", !.user = u, !.msg = m, !.text = t].pc = "edit"
      BY DEF Idle
    <2>4. \A do, u, l, pc : [Idle EXCEPT !.do = do, !.user = u, !.todo = l, !.pc = pc].pc = pc
      BY DEF Idle
    <2>5. \A u, c, l, s : [Idle EXCEPT !.do = "read", !.pc = "mark", !.user = u, !.conv = c, !.todo = l,
                                       !.seen = s].pc = "mark"
      BY DEF Idle
    <2>6. \A do, c, d, g, a : [Idle EXCEPT !.do = do, !.pc = "page", !.conv = c, !.due = d, !.gone = g,
                                           !.at = a].pc = "page"
      BY DEF Idle
    <2>7. ASSUME NEW do, NEW u, NEW c, NEW t, Send(r, do, u, c, t) PROVE TurnsOK(r)
      BY <1>3, <2>1, <2>7 DEF Send
    <2>8. ASSUME NEW u, NEW m, NEW targets, Forward(r, u, m, targets) PROVE TurnsOK(r)
      BY <1>3, <2>2, <2>8 DEF Forward
    <2>9. ASSUME NEW u, NEW m, NEW t, Edit(r, u, m, t) PROVE TurnsOK(r)
      BY <1>3, <2>3, <2>9 DEF Edit
    <2>10. ASSUME NEW do, NEW u, NEW l, Bulk(r, do, u, l) PROVE TurnsOK(r)
      <3>1. PICK pc : pc = IF do = "delete" THEN "find" ELSE "mark"
        OBVIOUS
      <3>2. PICK q : q = [Idle EXCEPT !.do = do, !.user = u, !.todo = l, !.pc = pc]
        OBVIOUS
      <3>3. q.pc = pc
        BY <2>4, <3>2
      <3>4. req' = [req EXCEPT ![r] = q]
        BY <2>10, <3>1, <3>2 DEF Bulk
      <3> QED BY <1>3, <3>1, <3>3, <3>4
    <2>11. ASSUME NEW u, NEW c, NEW l, ReadMessages(r, u, c, l) PROVE TurnsOK(r)
      BY <1>3, <2>5, <2>11 DEF ReadMessages
    <2>12. ASSUME NEW do, NEW c, Walk(r, do, c) PROVE TurnsOK(r)
      BY <1>3, <2>6, <2>12 DEF Walk
    <2> QED BY <1>9, <2>7, <2>8, <2>9, <2>10, <2>11, <2>12 DEF Starts
  <1>10. CASE Create(r)
    <2>1. PICK q : q = [req[r] EXCEPT !.pc = "save", !.msg = made + 1, !.at = clock']
      OBVIOUS
    <2>2. req' = [req EXCEPT ![r] = q] /\ q.pc = "save"
      BY <1>1, <1>10, <2>1 DEF Create, Handler
    <2> QED BY <1>2, <1>10, <2>2 DEF TurnsOK
  <1>11. CASE Save(r)
    <2>1. CASE req[r].do = "send"
      <3>1. req' = [req EXCEPT ![r] = [req[r] EXCEPT !.pc = "cache"]] /\ req[r].pc = "save"
        BY <1>11, <2>1 DEF Save, AfterSave, Goto, At
      <3>2. /\ [req[r] EXCEPT !.pc = "cache"].pc = "cache"
            /\ [req[r] EXCEPT !.pc = "cache"].do = req[r].do
            /\ [req[r] EXCEPT !.pc = "cache"].msg = req[r].msg
            /\ [req[r] EXCEPT !.pc = "cache"].conv = req[r].conv
        BY <1>1 DEF Handler
      <3> QED BY <1>2, <2>1, <3>1, <3>2 DEF TurnsOK, InHand
    <2>2. CASE req[r].do # "send"
      <3>1. PICK q : q = [req[r] EXCEPT !.pc = "create", !.conv = Head(req[r].todo), !.todo = Tail(@)]
        OBVIOUS
      <3>2. q.pc = "create"
        BY <1>1, <3>1 DEF Handler
      <3>3. Done(r) \/ req' = [req EXCEPT ![r] = q]
        BY <1>11, <2>2, <3>1 DEF Save, AfterSave
      <3> QED BY <1>3, <1>5, <3>2, <3>3
    <2> QED BY <2>1, <2>2
  <1>12. CASE ReadHash(r)
    <2>1. CASE Done(r)
      BY <1>5, <2>1
    <2>2. CASE req' = [req EXCEPT ![r].hash = cache[req[r].conv], ![r].pc = "write"]
      <3>1. PICK q : q = [req[r] EXCEPT !.hash = cache[req[r].conv], !.pc = "write"]
        OBVIOUS
      <3>2. /\ req' = [req EXCEPT ![r] = q] /\ q.pc = "write"
            /\ q.conv = req[r].conv /\ q.hash = cache[req[r].conv]
        BY <1>1, <2>2, <3>1 DEF Handler
      <3>3. req[r].conv \in Conversation
        BY <1>12, HandlerFacts DEF HandlerOK, ReadHash, At
      <3> QED BY <1>2, <3>2, <3>3 DEF TurnsOK, InHand
    <2> QED BY <1>12, <2>1, <2>2 DEF ReadHash
  <1>13. CASE Find(r) \/ Delete(r)
    <2>1. PICK q : q = [req[r] EXCEPT !.pc = "delete", !.msg = Head(req[r].todo)]
      OBVIOUS
    <2>2. q.pc = "delete"
      BY <1>1, <2>1 DEF Handler
    <2>3. NextOf(r, "find") \/ req' = [req EXCEPT ![r] = q]
      BY <1>13, <2>1 DEF Find, Delete
    <2> QED BY <1>3, <1>7, <2>2, <2>3
  <1>14. CASE MarkAsRead(r)
    BY <1>7, <1>8, <1>14 DEF MarkAsRead
  <1>15. CASE Look(r) \/ SetReadKey(r)
    <2>1. PICK q : q = [req[r] EXCEPT !.hash = cache[req[r].conv], !.pc = "key"]
      OBVIOUS
    <2>2. q.pc = "key"
      BY <1>1, <2>1 DEF Handler
    <2>3. Done(r) \/ Goto(r, "reread") \/ req' = [req EXCEPT ![r] = q]
      BY <1>15, <2>1 DEF Look, SetReadKey
    <2> QED BY <1>3, <1>5, <1>8, <2>2, <2>3
  <1>16. CASE UpdateOnSend(r) \/ Forbidden(r) \/ EditUpdate(r) \/ WriteHash(r)
    BY <1>5, <1>16 DEF UpdateOnSend, Forbidden, EditUpdate, WriteHash
  <1>17. CASE NextPage(r)
    <2>1. ASSUME NEW s, NEW a, req' = [req EXCEPT ![r].seen = @ \cup s, ![r].at = a]
          PROVE  TurnsOK(r)
      <3>1. PICK q : q = [req[r] EXCEPT !.seen = @ \cup s, !.at = a]
        OBVIOUS
      <3>2. q.pc = "page" /\ req' = [req EXCEPT ![r] = q]
        BY <1>1, <1>17, <2>1, <3>1 DEF Handler, NextPage, At
      <3> QED BY <1>3, <3>2
    <2>2. ASSUME req' = [req EXCEPT ![r].pc = "done", ![r].at = 0]
          PROVE  TurnsOK(r)
      <3>1. PICK q : q = [req[r] EXCEPT !.pc = "done", !.at = 0]
        OBVIOUS
      <3>2. q.pc = "done" /\ req' = [req EXCEPT ![r] = q]
        BY <1>1, <2>2, <3>1 DEF Handler
      <3> QED BY <1>3, <3>2
    <2> QED BY <1>17, <2>1, <2>2 DEF NextPage
  <1> QED BY <1>9, <1>10, <1>11, <1>12, <1>13, <1>14, <1>15, <1>16, <1>17 DEF Moves

LEMMA LatestFacts ==
  ASSUME IInv, Latest
  PROVE  /\ made \in Nat /\ req \in [Request -> Handler] /\ cache \in [Conversation -> Hash]
         /\ \A r \in Request : /\ req[r] \in Handler /\ HeldOK(req[r])
                               /\ InHand(req[r]) => req[r].conv \in Conversation /\ req[r].msg \in 1 .. made
                               /\ req[r].pc = "write" => req[r].conv \in Conversation
         /\ \A c \in Conversation : top[c] \in 0 .. made /\ Fits(cache[c].id, c)
  <1>1. made \in Nat /\ cache \in [Conversation -> Hash] /\ Stored \subseteq 1 .. made
    BY MessagesAssumption DEF IInv, StoreOK, LastOK
  <1>2. \A r \in Request : HandlerOK(req[r]) /\ req[r] \in Handler
    BY HandlerFacts
  <1>3. \A r \in Request : InHand(req[r]) => req[r].conv \in Conversation /\ req[r].msg \in 1 .. made
    BY <1>1, <1>2 DEF InHand, HandlerOK
  <1>4. \A r \in Request : req[r].pc = "write" => req[r].conv \in Conversation
    BY <1>2 DEF HandlerOK
  <1> QED BY <1>1, <1>2, <1>3, <1>4 DEF Latest, IInv, HandlersOK

\* A step that neither creates nor caches a message.
LEMMA QuietLatest ==
  ASSUME IInv, Latest, NEW r \in Request, TurnsOK(r), ~Create(r),
         UNCHANGED <<made, top, overlapped, overtaken>>,
         \A c \in Conversation : cache'[c].id = cache[c].id \/ Fits(cache'[c].id, c)
  PROVE  Latest'
  <1>1. /\ req \in [Request -> Handler] /\ \A p \in Request : HeldOK(req[p])
        /\ \A c \in Conversation : Fits(cache[c].id, c)
    BY LatestFacts
  <1>2. \A id, c : Fits(id, c) => Fits(id, c)'
    BY DEF Fits
  <1>3. ASSUME NEW p \in Request \ {r} PROVE HeldOK(req[p])'
    <2>1. req'[p] = req[p] /\ HeldOK(req[p])
      BY <1>1 DEF TurnsOK
    <2> QED BY <2>1 DEF HeldOK, InHand, Fits
  <1>4. ASSUME NEW q, q = req'[r] PROVE HeldOK(q)'
    <2>1. InHand(q) /\ q.msg < top[q.conv] => {q.msg, top[q.conv]} \subseteq overlapped
      BY <1>1, <1>4 DEF TurnsOK, HeldOK
    <2>2. q.pc = "write" => Fits(q.hash.id, q.conv)
      BY <1>1, <1>4 DEF TurnsOK
    <2>3. q.pc = "cache" => q.do = "send"
      BY <1>4 DEF TurnsOK
    <2> QED BY <1>2, <2>1, <2>2, <2>3 DEF HeldOK, InHand
  <1>5. ASSUME NEW p \in Request PROVE HeldOK(req[p])'
    BY <1>3, <1>4 DEF HeldOK, InHand
  <1>6. \A c \in Conversation : Fits(cache[c].id, c)'
    BY <1>1, <1>2
  <1>7. top' \in [Conversation -> 0 .. made'] /\ overlapped' \subseteq 1 .. made'
    BY DEF Latest
  <1>8. \A p, q \in Request :
          p # q /\ InHand(req'[p]) /\ InHand(req'[q]) /\ req'[p].conv = req'[q].conv =>
            req'[p].msg \in overlapped
    <2>1. \A p \in Request : InHand(req'[p]) =>
            InHand(req[p]) /\ req'[p].msg = req[p].msg /\ req'[p].conv = req[p].conv
      BY DEF TurnsOK
    <2> QED BY <2>1 DEF Latest
  <1> QED BY <1>5, <1>6, <1>7, <1>8 DEF Latest, InHand

\* A message is given its id while others are in hand: with them it is marked.
LEMMA CreateLatest ==
  ASSUME IInv, Latest, NEW r \in Request, Create(r), TurnsOK(r)
  PROVE  Latest'
  <1>1. /\ made \in Nat /\ req \in [Request -> Handler]
        /\ \A p \in Request : HeldOK(req[p])
        /\ \A p \in Request : InHand(req[p]) => req[p].conv \in Conversation /\ req[p].msg \in 1 .. made
        /\ \A c \in Conversation : top[c] \in 0 .. made /\ Fits(cache[c].id, c)
    BY LatestFacts
  <1>2. /\ made' = made + 1 /\ cache' = cache /\ top' = top /\ overtaken' = overtaken
        /\ overlapped' = IF req[r].do = "send" /\ Sending(req[r].conv) # {}
                         THEN overlapped \cup {made + 1} \cup {req[q].msg : q \in Sending(req[r].conv)}
                         ELSE overlapped
    BY DEF Create, last
  <1>3. /\ req'[r].pc = "save" /\ req'[r].msg = made + 1 /\ req'[r].do = req[r].do
        /\ req'[r].conv = req[r].conv /\ \A p \in Request \ {r} : req'[p] = req[p]
    <2>1. PICK q : q = [req[r] EXCEPT !.pc = "save", !.msg = made + 1, !.at = clock']
      OBVIOUS
    <2>2. req' = [req EXCEPT ![r] = q]
      BY <2>1 DEF Create
    <2>3. q.pc = "save" /\ q.msg = made + 1 /\ q.do = req[r].do /\ q.conv = req[r].conv
      BY <1>1, <2>1 DEF Handler
    <2> QED BY <1>1, <2>2, <2>3
  <1>4. req[r].conv \in Conversation
    BY HandlerFacts DEF HandlerOK, Create, At
  <1>5. overlapped \subseteq overlapped'
    BY <1>2
  <1>6. \A q \in Request : q \in Sending(req[r].conv) <=> InHand(req[q]) /\ req[q].conv = req[r].conv
    BY DEF Sending, InHand
  <1>7. ASSUME NEW p \in Request PROVE HeldOK(req[p])'
    <2>1. CASE p = r
      <3>1. ~(req'[r].msg < top'[req'[r].conv])
        BY <1>1, <1>2, <1>3, <1>4
      <3> QED BY <1>3, <2>1, <3>1 DEF HeldOK, InHand
    <2>2. CASE p # r
      <3>1. req'[p] = req[p] /\ HeldOK(req[p])
        BY <1>1, <1>3, <2>2
      <3> QED BY <1>2, <1>5, <3>1 DEF HeldOK, InHand, Fits
    <2> QED BY <2>1, <2>2
  <1>8. \A c \in Conversation : Fits(cache[c].id, c)'
    BY <1>1, <1>2, <1>5 DEF Fits
  <1>9. ASSUME NEW p \in Request, NEW q \in Request, p # q, InHand(req'[p]), InHand(req'[q]),
               req'[p].conv = req'[q].conv
        PROVE  req'[p].msg \in overlapped'
    <2>1. CASE p # r /\ q # r
      BY <1>3, <1>5, <1>9, <2>1 DEF Latest
    <2>2. CASE p = r
      <3>1. q \in Sending(req[r].conv) /\ req[r].do = "send"
        BY <1>3, <1>6, <1>9, <2>2 DEF InHand
      <3> QED BY <1>2, <1>3, <2>2, <3>1
    <2>3. CASE q = r
      <3>1. p \in Sending(req[r].conv) /\ req[r].do = "send"
        BY <1>3, <1>6, <1>9, <2>3 DEF InHand
      <3> QED BY <1>2, <1>3, <1>9, <2>3, <3>1
    <2> QED BY <2>1, <2>2, <2>3
  <1>10. overlapped' \subseteq 1 .. made'
    <2>1. overlapped \subseteq 1 .. made
      BY DEF Latest
    <2>2. {req[q].msg : q \in Sending(req[r].conv)} \subseteq 1 .. made
      BY <1>1, <1>6 DEF Sending
    <2>3. 1 .. made \subseteq 1 .. made + 1 /\ made + 1 \in 1 .. made + 1
      BY <1>1
    <2> QED BY <1>2, <2>1, <2>2, <2>3
  <1>11. top' \in [Conversation -> 0 .. made']
    <2>1. 0 .. made \subseteq 0 .. made + 1
      BY <1>1
    <2> QED BY <1>2, <2>1 DEF Latest
  <1> QED BY <1>7, <1>8, <1>9, <1>10, <1>11 DEF Latest, InHand

\* A message is cached: older ones in hand overlapped with it, a reading about to write is overtaken.
LEMMA UpdateLatest ==
  ASSUME IInv, Latest, NEW r \in Request, UpdateOnSend(r), TurnsOK(r)
  PROVE  Latest'
  <1> DEFINE m == req[r].msg
             d == req[r].conv
  <1>1. /\ made \in Nat /\ req \in [Request -> Handler] /\ cache \in [Conversation -> Hash]
        /\ \A p \in Request : HeldOK(req[p])
        /\ \A p \in Request : /\ InHand(req[p]) => req[p].conv \in Conversation /\ req[p].msg \in 1 .. made
                              /\ req[p].pc = "write" => req[p].conv \in Conversation
        /\ \A c \in Conversation : top[c] \in 0 .. made /\ Fits(cache[c].id, c)
    BY LatestFacts
  <1>2. /\ req[r].pc = "cache" /\ InHand(req[r]) /\ d \in Conversation /\ m \in 1 .. made
        /\ cache' = [cache EXCEPT ![d] = [id |-> m, readBy |-> {req[r].user}]]
        /\ top' = [top EXCEPT ![d] = IF m > @ THEN m ELSE @]
        /\ overtaken' = IF \E q \in Request : At(q, "write") /\ req[q].conv = d
                        THEN overtaken \cup {m} ELSE overtaken
        /\ made' = made /\ overlapped' = overlapped
    BY <1>1 DEF UpdateOnSend, At, HeldOK, InHand, store
  <1>3. req'[r].pc = "done" /\ \A p \in Request \ {r} : req'[p] = req[p]
    <2>1. [Idle EXCEPT !.pc = "done"].pc = "done"
      BY DEF Idle
    <2> QED BY <1>1, <2>1 DEF UpdateOnSend, Done
  <1>4. /\ top \in [Conversation -> 0 .. made]
        /\ \A p \in Request \ {r} : InHand(req[p]) /\ req[p].conv = d =>
             req[p].msg \in overlapped /\ m \in overlapped
    BY <1>2 DEF Latest
  <1>5. /\ top' \in [Conversation -> 0 .. made]
        /\ \A c \in Conversation \ {d} : top'[c] = top[c] /\ cache'[c] = cache[c]
        /\ top'[d] = (IF m > top[d] THEN m ELSE top[d]) /\ cache'[d].id = m
    <2>1. 1 .. made \subseteq 0 .. made
      OBVIOUS
    <2> QED BY <1>1, <1>2, <1>4, <2>1
  <1> HIDE DEF m, d
  <1>6. m < top[d] => {m, top[d]} \subseteq overlapped
    BY <1>1, <1>2 DEF HeldOK, m, d
  <1>7. ASSUME NEW p \in Request PROVE HeldOK(req[p])'
    <2>1. CASE p = r
      BY <1>3, <2>1 DEF HeldOK, InHand
    <2>2. CASE p # r
      <3>1. req'[p] = req[p] /\ HeldOK(req[p])
        BY <1>1, <1>3, <2>2
      <3>2. ASSUME InHand(req[p]), req[p].msg < top'[req[p].conv]
            PROVE  {req[p].msg, top'[req[p].conv]} \subseteq overlapped
        <4>1. CASE req[p].conv # d \/ top'[d] = top[d]
          BY <1>1, <1>5, <3>1, <3>2, <4>1 DEF HeldOK
        <4>2. CASE req[p].conv = d /\ top'[d] = m
          BY <1>4, <2>2, <3>2, <4>2
        <4> QED BY <1>5, <4>1, <4>2
      <3>3. ASSUME req[p].pc = "write"
            PROVE  \/ req[p].hash.id = top'[req[p].conv]
                   \/ {req[p].hash.id, top'[req[p].conv]} \subseteq overlapped
                   \/ top'[req[p].conv] \in overtaken'
        <4>1. CASE req[p].conv # d \/ top'[d] = top[d]
          BY <1>1, <1>2, <1>5, <3>1, <3>3, <4>1 DEF HeldOK, Fits
        <4>2. CASE req[p].conv = d /\ top'[d] = m
          BY <1>2, <3>3, <4>2 DEF At
        <4> QED BY <1>5, <4>1, <4>2
      <3> QED BY <1>2, <3>1, <3>2, <3>3 DEF HeldOK, InHand, Fits
    <2> QED BY <2>1, <2>2
  <1>8. ASSUME NEW c \in Conversation PROVE Fits(cache[c].id, c)'
    <2>1. CASE c # d
      BY <1>1, <1>2, <1>5, <2>1 DEF Fits
    <2>2. CASE c = d
      <3>1. top[d] \in Nat /\ m \in Nat
        BY <1>1, <1>2
      <3>2. m = top'[d] \/ {m, top'[d]} \subseteq overlapped
        BY <1>5, <1>6, <3>1
      <3> QED BY <1>2, <1>5, <2>2, <3>2 DEF Fits
    <2> QED BY <2>1, <2>2
  <1>9. ASSUME NEW p \in Request, NEW q \in Request, p # q, InHand(req'[p]), InHand(req'[q]),
               req'[p].conv = req'[q].conv
        PROVE  req'[p].msg \in overlapped
    BY <1>3, <1>9 DEF Latest, InHand
  <1>10. overlapped' \subseteq 1 .. made'
    BY <1>2 DEF Latest
  <1> QED BY <1>2, <1>5, <1>7, <1>8, <1>9, <1>10 DEF Latest, InHand

LEMMA ExpiresLatest ==
  ASSUME IInv, Latest, NEW d \in Conversation, CacheExpires(d)
  PROVE  Latest'
  <1>1. /\ made' = made /\ req' = req /\ overlapped' = overlapped /\ overtaken' = overtaken
        /\ cache' = [cache EXCEPT ![d] = NoCache] /\ top' = [top EXCEPT ![d] = 0]
        /\ \A p \in Request : req[p].pc \in {"new", "done"}
    BY DEF CacheExpires, store
  <1>2. /\ made \in Nat /\ cache \in [Conversation -> Hash]
        /\ \A c \in Conversation : Fits(cache[c].id, c)
    BY LatestFacts
  <1>3. \A p \in Request : HeldOK(req[p])'
    BY <1>1 DEF HeldOK, InHand
  <1>4. top' \in [Conversation -> 0 .. made'] /\ overlapped' \subseteq 1 .. made'
    BY <1>1, <1>2 DEF Latest
  <1>5. \A c \in Conversation : Fits(cache[c].id, c)'
    <2>1. cache'[d].id = 0 /\ top'[d] = 0
      BY <1>1, <1>2 DEF Latest, NoCache
    <2>2. \A c \in Conversation \ {d} : cache'[c] = cache[c] /\ top'[c] = top[c]
      BY <1>1, <1>2 DEF Latest
    <2> QED BY <1>1, <1>2, <2>1, <2>2 DEF Fits
  <1> QED BY <1>1, <1>3, <1>4, <1>5 DEF Latest, InHand

LEMMA LatestKept == IInv /\ Latest /\ [Next]_vars => Latest'
  <1> SUFFICES ASSUME IInv, Latest, [Next]_vars PROVE Latest'
    OBVIOUS
  <1>1. ASSUME UNCHANGED <<made, req, cache, top, overlapped, overtaken>> PROVE Latest'
    BY <1>1 DEF Latest, HeldOK, InHand, Fits
  <1>2. CASE DayPasses \/ UNCHANGED vars
    BY <1>1, <1>2 DEF DayPasses, vars, store, last, history
  <1>3. ASSUME NEW r \in Request, Moves(r) PROVE Latest'
    <2>1. TurnsOK(r)
      BY <1>3, Turns
    <2>2. ASSUME UNCHANGED <<made, top, overlapped, overtaken>>, ~Create(r),
                 \A c \in Conversation : cache'[c].id = cache[c].id \/ Fits(cache'[c].id, c)
          PROVE  Latest'
      BY <2>1, <2>2, QuietLatest
    <2>3. CASE \/ Starts(r) \/ Forbidden(r) \/ Save(r) \/ EditUpdate(r) \/ Find(r) \/ Delete(r)
               \/ MarkAsRead(r) \/ Look(r) \/ SetReadKey(r) \/ ReadHash(r) \/ NextPage(r)
      <3>1. UNCHANGED <<made, cache, top, overlapped, overtaken>>
        BY <2>3 DEF Starts, Send, Forward, Edit, Bulk, ReadMessages, Walk, Forbidden, Save, EditUpdate, Find,
                    Delete, MarkAsRead, Look, SetReadKey, ReadHash, NextPage, store, last, history
      <3>2. made' # made + 1
        BY <3>1, LatestFacts
      <3> QED BY <2>2, <3>1, <3>2 DEF Create
    <2>4. CASE WriteHash(r)
      <3>1. /\ req[r].pc = "write" /\ req[r].conv \in Conversation /\ Fits(req[r].hash.id, req[r].conv)
            /\ req[r].hash \in Hash /\ cache \in [Conversation -> Hash] /\ made \in Nat
        BY <2>4, LatestFacts DEF WriteHash, At, HeldOK, Handler
      <3>2. cache' = [cache EXCEPT ![req[r].conv] = [req[r].hash EXCEPT !.readBy = @ \cup {req[r].user}]]
            /\ UNCHANGED <<made, top, overlapped, overtaken>>
        BY <2>4 DEF WriteHash, store, history
      <3>3. [req[r].hash EXCEPT !.readBy = @ \cup {req[r].user}].id = req[r].hash.id
        BY <3>1 DEF Hash
      <3>4. \A c \in Conversation : cache'[c].id = cache[c].id \/ Fits(cache'[c].id, c)
        BY <3>1, <3>2, <3>3
      <3>5. ~Create(r)
        BY <3>1, <3>2 DEF Create
      <3> QED BY <2>2, <3>2, <3>4, <3>5
    <2> QED BY <1>3, <2>1, <2>3, <2>4, CreateLatest, UpdateLatest DEF Moves
  <1> QED BY <1>2, <1>3, ExpiresLatest DEF Next, Moves

LEMMA InitLatest == Init => Latest
  <1> SUFFICES ASSUME Init PROVE Latest
    OBVIOUS
  <1>1. IInv
    BY InitInv
  <1>2. made \in Nat /\ cache \in [Conversation -> Hash]
    BY <1>1, MessagesAssumption DEF IInv, StoreOK, LastOK
  <1>5. /\ req = [r \in Request |-> Idle]
        /\ top = [c \in Conversation |-> cache[c].id] /\ overlapped = {}
    BY DEF Init
  <1>3. Idle.pc = "new"
    BY DEF Idle
  <1>4. top \in [Conversation -> 0 .. made] /\ \A c \in Conversation : Fits(cache[c].id, c)
    BY <1>2, <1>5 DEF Hash, Fits
  <1> QED BY <1>3, <1>4, <1>5 DEF Latest, HeldOK, InHand

\* The last message the conversation list shows is the newest one sent through the socket, for
\* any number of sends, readings and expirations, but for sends that overlapped and a newest
\* that was cached while a reading held the older one (updateLastMessageOnSend).
THEOREM CachedIsLatest == Spec => []CacheIsLatest
  <1>1. Spec => []Latest
    BY InitLatest, LatestKept, Inductive, PTL DEF Spec
  <1>2. Latest => CacheIsLatest
    BY DEF Latest, Fits, CacheIsLatest
  <1> QED BY <1>1, <1>2, PTL

-----------------------------------------------------------------------------
(* Pages.  A message that shares its time with no other is on a page, or    *)
(* before it, or has at least as many newer messages as the page ends with. *)

LEMMA TopFacts ==
  ASSUME NEW S, IsFiniteSet(S), NEW n \in Nat, NEW page \in TopOf(S, n)
  PROVE  /\ page \subseteq S /\ IsFiniteSet(page) /\ Cardinality(page) \in Nat
         /\ Cardinality(page) <= n
         /\ page # S => Cardinality(page) = n
         /\ \A m \in page, k \in S \ page : doc[m].at >= doc[k].at
  <1>1. /\ page \in SUBSET S
        /\ Cardinality(page) = IF Cardinality(S) < n THEN Cardinality(S) ELSE n
        /\ \A m \in page, k \in S \ page : doc[m].at >= doc[k].at
    BY DEF TopOf
  <1>2. /\ IsFiniteSet(page) /\ Cardinality(page) \in Nat /\ Cardinality(S) \in Nat
        /\ Cardinality(page) = Cardinality(S) => page = S
    BY <1>1, FS_Subset, FS_CardinalityType
  <1> QED BY <1>1, <1>2

\* The messages of S newer than m.
Newer(S, m) == {k \in S : doc[k].at > doc[m].at}

LEMMA PageFacts ==
  ASSUME NEW S, IsFiniteSet(S), \A k \in S : doc[k].at \in Nat,
         NEW n \in Nat, NEW l \in Nat \ {0},
         NEW first \in TopOf(S, n), NEW page \in TopOf(S \ first, l),
         NEW m \in S, \A k \in S \ {m} : doc[k].at # doc[m].at
  PROVE  /\ IsFiniteSet(Newer(S, m)) /\ Cardinality(Newer(S, m)) \in Nat
         /\ m \in first => Cardinality(Newer(S, m)) < n
         /\ m \notin first /\ m \notin page => page # {} /\ Cardinality(Newer(S, m)) >= n + l
  <1> DEFINE A == Newer(S, m)
  <1>1. A \subseteq S /\ m \notin A
    BY DEF Newer
  <1>2. IsFiniteSet(A) /\ Cardinality(A) \in Nat /\ IsFiniteSet(S \ first)
    BY <1>1, FS_Subset, FS_CardinalityType
  <1>3. /\ first \subseteq S /\ IsFiniteSet(first) /\ Cardinality(first) \in Nat
        /\ Cardinality(first) <= n /\ (first # S => Cardinality(first) = n)
        /\ \A i \in first, k \in S \ first : doc[i].at >= doc[k].at
    BY TopFacts
  <1>4. /\ page \subseteq S \ first /\ IsFiniteSet(page) /\ Cardinality(page) \in Nat
        /\ (page # S \ first => Cardinality(page) = l)
        /\ \A i \in page, k \in (S \ first) \ page : doc[i].at >= doc[k].at
    BY <1>2, TopFacts
  <1>5. ASSUME m \in first PROVE Cardinality(A) < n
    <2>1. A \cup {m} \subseteq first
      BY <1>3, <1>5 DEF Newer
    <2>2. Cardinality(A \cup {m}) = Cardinality(A) + 1 /\ IsFiniteSet(A \cup {m})
      BY <1>1, <1>2, FS_AddElement
    <2>3. Cardinality(A \cup {m}) <= Cardinality(first)
      BY <1>3, <2>1, FS_Subset
    <2> QED BY <1>2, <1>3, <2>2, <2>3
  <1>6. ASSUME m \notin first, m \notin page
        PROVE  page # {} /\ Cardinality(A) >= n + l
    <2>1. first # S /\ page # S \ first
      BY <1>6
    <2>2. Cardinality(first) = n /\ Cardinality(page) = l
      BY <1>3, <1>4, <2>1
    <2>3. first \cup page \subseteq A
      BY <1>3, <1>4, <1>6 DEF Newer
    <2>4. first \cap page = {}
      BY <1>4
    <2>5. Cardinality(first \cup page) = Cardinality(first) + Cardinality(page) - Cardinality({})
          /\ IsFiniteSet(first \cup page)
      BY <1>3, <1>4, <2>4, FS_Union
    <2>6. Cardinality(first \cup page) <= Cardinality(A)
      BY <1>2, <2>3, FS_Subset
    <2>7. Cardinality({}) = 0
      BY FS_EmptySet
    <2>8. page # {}
      BY <2>2, <2>7
    <2> QED BY <1>2, <2>2, <2>5, <2>6, <2>7, <2>8
  <1> QED BY <1>2, <1>5, <1>6

-----------------------------------------------------------------------------
(* Walks.  A page never passes over a message that was due: what shares its *)
(* time, and a deletion that moves the pages, are the exceptions the        *)
(* property makes.                                                          *)

Shared(m) == \E k \in Stored \ {m} : doc[k].at = doc[m].at
Lost(q) == \E k \in Stored \ q.gone : doc[k].conv = q.conv /\ doc[k].deleted

\* Message m is on a page that the walk has asked for.
Reached(q, m) ==
  IF q.do = "cursor" THEN q.at > 0 /\ doc[m].at >= q.at
  ELSE Cardinality(Newer(In(q.conv), m)) < (q.at - 1) * Limit

\* A message that was due was seen, or is still ahead.
Ahead(q, m) ==
  \/ ~Live(m) \/ m \in q.seen \/ Shared(m)
  \/ q.do = "pages" /\ Lost(q)
  \/ q.pc = "page" /\ ~Reached(q, m)

WalkOK(q) ==
  q.due # {} =>
    /\ q.pc \in {"page", "done"} /\ q.conv \in Conversation /\ q.at \in Nat
    /\ q.pc = "page" => q.do \in {"pages", "cursor"}
    /\ q.pc = "page" /\ q.do = "pages" => q.at # 0
    /\ q.due \subseteq Stored /\ q.gone \subseteq Stored /\ \A k \in q.gone : doc[k].deleted
    /\ \A m \in q.due : doc[m].conv = q.conv /\ Ahead(q, m)

Walks == \A r \in Request : WalkOK(req[r])

LEMMA Ages ==
  ASSUME IInv, [Next]_vars, NEW m \in Stored
  PROVE  /\ m \in Stored' /\ doc'[m].conv = doc[m].conv /\ doc'[m].at = doc[m].at
         /\ doc[m].deleted => doc'[m].deleted
  <1> DEFINE Kept == /\ m \in Stored' /\ doc'[m].conv = doc[m].conv /\ doc'[m].at = doc[m].at
                     /\ (doc[m].deleted => doc'[m].deleted)
  <1>1. ASSUME doc' = doc PROVE Kept
    BY <1>1 DEF Stored
  <1>2. ASSUME NEW r \in Request, Save(r) PROVE Kept
    <2>1. req[r].msg # m BY <1>2, HandlerFacts DEF Save, At, HandlerOK
    <2>2. doc' = [k \in Stored \cup {req[r].msg} |->
                    IF k = req[r].msg
                    THEN NewDoc(req[r].conv, req[r].user, req[r].text, req[r].at) ELSE doc[k]]
      BY <1>2 DEF Save
    <2>3. Stored' = Stored \cup {req[r].msg} BY <2>2 DEF Stored
    <2> HIDE DEF Stored
    <2> QED BY <2>1, <2>2, <2>3
  <1>3. doc \in [Stored -> Doc] /\ doc[m] \in Doc
    BY DEF IInv, StoreOK
  <1>4. ASSUME NEW k, NEW d, doc' = [doc EXCEPT ![k] = d],
               k = m => d.conv = doc[m].conv /\ d.at = doc[m].at /\ (doc[m].deleted => d.deleted)
        PROVE  Kept
    BY <1>3, <1>4 DEF Stored
  <1>5. ASSUME NEW r \in Request, EditUpdate(r) PROVE Kept
    <2>1. PICK k : k = req[r].msg OBVIOUS
    <2>2. PICK d : d = [doc[k] EXCEPT !.text = req[r].text, !.edited = TRUE] OBVIOUS
    <2>3. doc' = doc \/ doc' = [doc EXCEPT ![k] = d]
      BY <1>5, <2>1, <2>2 DEF EditUpdate, UpdateById
    <2>4. k = m => d.conv = doc[m].conv /\ d.at = doc[m].at /\ d.deleted = doc[m].deleted
      BY <1>3, <2>2 DEF Doc
    <2> QED BY <1>1, <1>4, <2>3, <2>4
  <1>6. ASSUME NEW r \in Request, Delete(r) PROVE Kept
    <2>1. PICK k : k = req[r].msg OBVIOUS
    <2>2. PICK d : d = [doc[k] EXCEPT !.deleted = TRUE] OBVIOUS
    <2>3. doc' = doc \/ doc' = [doc EXCEPT ![k] = d]
      BY <1>6, <2>1, <2>2 DEF Delete, SoftDelete
    <2>4. k = m => d.conv = doc[m].conv /\ d.at = doc[m].at /\ d.deleted
      BY <1>3, <2>2 DEF Doc
    <2> QED BY <1>1, <1>4, <2>3, <2>4
  <1>7. ASSUME NEW r \in Request, MarkAsRead(r) PROVE Kept
    <2>1. PICK k : k = Head(req[r].todo) OBVIOUS
    <2>2. PICK d : d = [doc[k] EXCEPT !.read = TRUE] OBVIOUS
    <2>3. doc' = doc \/ doc' = [doc EXCEPT ![k] = d]
      BY <1>7, <2>1, <2>2 DEF MarkAsRead
    <2>4. k = m => d.conv = doc[m].conv /\ d.at = doc[m].at /\ d.deleted = doc[m].deleted
      BY <1>3, <2>2 DEF Doc
    <2> QED BY <1>1, <1>4, <2>3, <2>4
  <1>8. ASSUME NEW r \in Request,
               \/ Starts(r) \/ Create(r) \/ UpdateOnSend(r) \/ Forbidden(r) \/ Find(r)
               \/ Look(r) \/ SetReadKey(r) \/ ReadHash(r) \/ WriteHash(r) \/ NextPage(r)
        PROVE  doc' = doc
    BY <1>8 DEF Starts, Send, Edit, Forward, Bulk, ReadMessages, Walk, Create, UpdateOnSend,
                Forbidden, Find, Look, SetReadKey, ReadHash, WriteHash, NextPage, store
  <1>9. ASSUME DayPasses \/ (\E c \in Conversation : CacheExpires(c)) \/ UNCHANGED vars
        PROVE  doc' = doc
    BY <1>9 DEF DayPasses, CacheExpires, vars, store
  <1>10. Kept
    BY <1>1, <1>2, <1>5, <1>6, <1>7, <1>8, <1>9 DEF Next
  <1> QED BY <1>10

LEMMA InFacts ==
  ASSUME IInv, NEW c
  PROVE  IsFiniteSet(In(c)) /\ In(c) \subseteq Stored /\ \A k \in Stored : doc[k].at \in Nat
  <1>1. made \in Nat /\ Stored \subseteq 1 .. made /\ clock \in Nat
    BY MessagesAssumption DEF IInv, StoreOK
  <1>2. In(c) \subseteq Stored
    BY DEF In
  <1>3. IsFiniteSet(1 .. made)
    BY <1>1, FS_Interval
  <1>4. IsFiniteSet(In(c))
    <2>1. In(c) \subseteq 1 .. made
      BY <1>1, <1>2
    <2> QED BY <1>3, <2>1, FS_Subset
  <1>5. \A k \in Stored : doc[k].at \in 1 .. clock
    BY StoredFacts
  <1> QED BY <1>1, <1>2, <1>4, <1>5

\* Whatever another request does, a walk stays as complete as it was.
LEMMA WalkKept ==
  ASSUME IInv, IInv', [Next]_vars, NEW q, WalkOK(q)
  PROVE  WalkOK(q)'
  <1> SUFFICES ASSUME q.due # {} PROVE WalkOK(q)'
    BY DEF WalkOK
  <1>1. /\ q.pc \in {"page", "done"} /\ q.conv \in Conversation /\ q.at \in Nat
        /\ (q.pc = "page" => q.do \in {"pages", "cursor"})
        /\ (q.pc = "page" /\ q.do = "pages" => q.at # 0)
        /\ q.due \subseteq Stored /\ q.gone \subseteq Stored /\ (\A k \in q.gone : doc[k].deleted)
        /\ \A m \in q.due : doc[m].conv = q.conv /\ Ahead(q, m)
    BY DEF WalkOK
  <1>2. \A k \in Stored : /\ k \in Stored' /\ doc'[k].conv = doc[k].conv /\ doc'[k].at = doc[k].at
                          /\ (doc[k].deleted => doc'[k].deleted)
    BY Ages
  <1>3. Lost(q) => Lost(q)'
    BY <1>2 DEF Lost
  <1>4. ASSUME NEW m \in q.due PROVE Ahead(q, m)'
    <2>1. m \in Stored /\ doc[m].conv = q.conv /\ Ahead(q, m)
      BY <1>1
    <2>2. ~Live(m) => ~Live(m)'
      BY <1>2, <2>1 DEF Live
    <2>3. Shared(m) => Shared(m)'
      BY <1>2, <2>1 DEF Shared
    <2>4. ASSUME q.pc = "page", ~Reached(q, m), ~(q.do = "pages" /\ Lost(q)') PROVE ~Reached(q, m)'
      <3>1. CASE q.do = "cursor"
        BY <1>2, <2>1, <2>4, <3>1 DEF Reached
      <3>2. CASE q.do = "pages"
        <4> DEFINE A == Newer(In(q.conv), m)
                   B == Newer(In(q.conv), m)'
        <4>1. A \subseteq B
          <5> SUFFICES ASSUME NEW k \in A PROVE k \in B
            OBVIOUS
          <5>1. k \in Stored /\ ~doc[k].deleted /\ doc[k].conv = q.conv /\ doc[k].at > doc[m].at
            BY DEF Newer, In, Live
          <5>2. ~doc'[k].deleted
            <6>1. k \notin q.gone
              BY <1>1, <5>1
            <6>2. k \in Stored' /\ doc'[k].conv = q.conv
              BY <1>2, <5>1
            <6> QED BY <2>4, <3>2, <6>1, <6>2 DEF Lost
          <5>3. k \in Stored' /\ doc'[k].conv = q.conv /\ doc'[k].at > doc'[m].at
            BY <1>2, <2>1, <5>1
          <5> QED BY <5>2, <5>3 DEF Newer, In, Live
        <4>2. IsFiniteSet(In(q.conv)) /\ IsFiniteSet(In(q.conv)')
          <5>1. IsFiniteSet(In(q.conv))
            BY InFacts
          <5>2. IsFiniteSet(In(q.conv)')
            <6>1. Stored' \subseteq 1 .. made' /\ made' \in Nat
              BY MessagesAssumption DEF IInv, StoreOK
            <6>2. In(q.conv)' \subseteq 1 .. made'
              BY <6>1 DEF In
            <6>3. IsFiniteSet(1 .. made')
              BY <6>1, FS_Interval
            <6> QED BY <6>2, <6>3, FS_Subset
          <5> QED BY <5>1, <5>2
        <4>3. A \subseteq In(q.conv) /\ B \subseteq (In(q.conv)')
          BY DEF Newer
        <4>4. IsFiniteSet(B) /\ IsFiniteSet(A)
          BY <4>2, <4>3, FS_Subset
        <4>5. Cardinality(A) <= Cardinality(B) /\ Cardinality(A) \in Nat /\ Cardinality(B) \in Nat
          BY <4>1, <4>4, FS_Subset, FS_CardinalityType
        <4> DEFINE n == (q.at - 1) * Limit
        <4>6. n \in Int
          BY <1>1, MessagesAssumption
        <4>7. ~(Cardinality(A) < n)
          BY <2>4, <3>2 DEF Reached
        <4> HIDE DEF A, B, n
        <4>8. ~(Cardinality(B) < n)
          BY <4>5, <4>6, <4>7
        <4> QED BY <3>2, <4>8 DEF Reached, B, n
      <3> QED BY <1>1, <2>4, <3>1, <3>2
    <2> QED BY <1>3, <2>1, <2>2, <2>3, <2>4 DEF Ahead
  <1>5. q.due \subseteq Stored' /\ q.gone \subseteq Stored' /\ (\A k \in q.gone : doc'[k].deleted)
        /\ \A m \in q.due : doc'[m].conv = q.conv
    BY <1>1, <1>2
  <1> QED BY <1>1, <1>4, <1>5 DEF WalkOK

\* A request begins to walk: all that is due is still ahead.
LEMMA WalkBegins ==
  ASSUME IInv, NEW r \in Request, NEW do \in {"pages", "cursor"}, Walk(r, do, Home)
  PROVE  WalkOK(req'[r])
  <1> DEFINE at == IF do = "pages" THEN 1 ELSE 0
             dead == {k \in Stored : doc[k].deleted}
  <1>1. PICK q : q = [Idle EXCEPT !.do = do, !.pc = "page", !.conv = Home, !.due = In(Home),
                                  !.gone = dead, !.at = at]
    OBVIOUS
  <1>2. req \in [Request -> Handler]
    BY DEF IInv, HandlersOK
  <1>3. req'[r] = q
    BY <1>1, <1>2 DEF Walk
  <1>4. q.do = do /\ q.pc = "page" /\ q.conv = Home /\ q.due = In(Home) /\ q.gone = dead /\ q.at = at
    BY <1>1 DEF Idle
  <1>5. In(Home) \subseteq Stored /\ dead \subseteq Stored /\ \A k \in dead : doc[k].deleted
    BY DEF In
  <1>6. at \in Nat /\ (do = "pages" => at = 1) /\ (do = "cursor" => at = 0)
    OBVIOUS
  <1> HIDE DEF at, dead
  <1>7. ASSUME NEW m \in In(Home) PROVE doc[m].conv = Home /\ ~Reached(q, m)
    <2>1. doc[m].conv = Home
      BY DEF In
    <2>2. CASE do = "cursor"
      BY <1>4, <1>6, <2>1, <2>2 DEF Reached
    <2>3. CASE do = "pages"
      <3>1. Newer(In(Home), m) \subseteq In(Home)
        BY DEF Newer
      <3>2. Cardinality(Newer(In(Home), m)) \in Nat
        BY <3>1, InFacts, FS_Subset, FS_CardinalityType
      <3>3. (1 - 1) * Limit = 0
        BY MessagesAssumption
      <3> QED BY <1>4, <1>6, <2>1, <2>3, <3>2, <3>3 DEF Reached
    <2> QED BY <2>1, <2>2, <2>3
  <1> QED BY <1>3, <1>4, <1>5, <1>6, <1>7, MessagesAssumption DEF WalkOK, Ahead

LEMMA PagesEnd ==
  ASSUME NEW a \in Nat \ {0}, NEW l \in Nat
  PROVE  (a - 1) * l \in Nat /\ (a - 1) * l + l = ((a + 1) - 1) * l
  <1>1. PICK b \in Nat : a = b + 1
    <2>1. a - 1 \in Nat /\ a = (a - 1) + 1
      OBVIOUS
    <2> QED BY <2>1
  <1>2. a - 1 = b /\ (a + 1) - 1 = b + 1
    BY <1>1
  <1>3. b * l \in Nat /\ (b + 1) * l = b * l + l
    OBVIOUS
  <1> QED BY <1>2, <1>3

\* The page asked for has every message that would fall behind the walk.
LEMMA PageTurns ==
  ASSUME IInv, NEW r \in Request, WalkOK(req[r]), NextPage(r)
  PROVE  WalkOK(req'[r])
  <1> DEFINE q == req[r]
             byCursor == q.do = "cursor"
             all == In(q.conv)
             found == {k \in all : byCursor /\ q.at > 0 => doc[k].at < q.at}
             skip == IF byCursor THEN 0 ELSE Skip(q.at)
             Oldest(page) == {k \in page : \A i \in page : doc[i].at >= doc[k].at}
             After(page) == IF byCursor THEN {doc[k].at : k \in Oldest(page)} ELSE {q.at + 1}
  <1>1. q \in Handler /\ q.pc = "page" /\ req \in [Request -> Handler]
    BY DEF IInv, HandlersOK, NextPage, At
  <1>2. PICK page \in Page(found, skip, Limit) :
          \/ page = {} /\ req' = [req EXCEPT ![r].pc = "done", ![r].at = 0]
          \/ \E at \in After(page) :
               page # {} /\ req' = [req EXCEPT ![r].seen = @ \cup page, ![r].at = at]
    BY DEF NextPage
  <1>3. PICK first \in TopOf(found, skip) : page \in TopOf(found \ first, Limit)
    BY <1>2 DEF Page
  <1>4. IsFiniteSet(all) /\ all \subseteq Stored /\ (\A k \in Stored : doc[k].at \in Nat)
        /\ Limit \in Nat \ {0}
    BY InFacts, MessagesAssumption
  <1>5. found \subseteq all /\ IsFiniteSet(found) /\ \A k \in found : doc[k].at \in Nat
    <2>1. found \subseteq all
      OBVIOUS
    <2> QED BY <1>4, <2>1, FS_Subset
  \* What the walk holds afterwards.
  <1>6. PICK p : /\ req'[r] = p /\ p.do = q.do /\ p.conv = q.conv /\ p.due = q.due /\ p.gone = q.gone
                 /\ \/ page = {} /\ p.pc = "done" /\ p.at = 0 /\ p.seen = q.seen
                    \/ page # {} /\ p.pc = "page" /\ p.at \in After(page) /\ p.seen = q.seen \cup page
    <2>1. CASE page = {} /\ req' = [req EXCEPT ![r].pc = "done", ![r].at = 0]
      <3>1. PICK p : p = [req[r] EXCEPT !.pc = "done", !.at = 0]
        OBVIOUS
      <3>2. req' = [req EXCEPT ![r] = p]
        BY <2>1, <3>1
      <3> QED BY <1>1, <2>1, <3>1, <3>2 DEF Handler
    <2>2. ASSUME NEW at \in After(page), page # {},
                 req' = [req EXCEPT ![r].seen = @ \cup page, ![r].at = at]
          PROVE  \E p : /\ req'[r] = p /\ p.do = q.do /\ p.conv = q.conv /\ p.due = q.due
                        /\ p.gone = q.gone /\ page # {} /\ p.pc = "page" /\ p.at \in After(page)
                        /\ p.seen = q.seen \cup page
      <3>1. PICK p : p = [req[r] EXCEPT !.seen = @ \cup page, !.at = at]
        OBVIOUS
      <3>2. req' = [req EXCEPT ![r] = p]
        BY <2>2, <3>1
      <3>3. /\ p.do = q.do /\ p.conv = q.conv /\ p.due = q.due /\ p.gone = q.gone /\ p.pc = "page"
            /\ p.at = at /\ p.seen = q.seen \cup page
        BY <1>1, <3>1 DEF Handler
      <3> QED BY <1>1, <2>2, <3>2, <3>3
    <2> QED BY <1>2, <2>1, <2>2
  <1> SUFFICES ASSUME q.due # {} PROVE WalkOK(p)
    BY <1>6 DEF WalkOK
  <1>7. /\ q.conv \in Conversation /\ q.at \in Nat /\ q.do \in {"pages", "cursor"}
        /\ (q.do = "pages" => q.at # 0)
        /\ q.due \subseteq Stored /\ q.gone \subseteq Stored /\ (\A k \in q.gone : doc[k].deleted)
        /\ \A m \in q.due : doc[m].conv = q.conv /\ Ahead(q, m)
    BY <1>1 DEF WalkOK
  <1>8. page \subseteq found
    <2>1. IsFiniteSet(found \ first)
      BY <1>5, FS_Subset
    <2> QED BY <1>3, <1>4, <2>1, TopFacts
  <1>9. p.pc = "page" => p.at \in Nat /\ (p.do = "pages" => p.at # 0)
    BY <1>4, <1>5, <1>6, <1>7, <1>8
  <1>10. ASSUME NEW m \in q.due, Live(m), m \notin q.seen, ~Shared(m), ~(q.do = "pages" /\ Lost(q)),
                m \notin page
         PROVE  page # {} /\ (p.pc = "page" => ~Reached(p, m))
    <2>1. m \in all /\ doc[m].conv = q.conv /\ ~Reached(q, m) /\ m \in Stored
      BY <1>1, <1>7, <1>10 DEF Ahead, In, Live
    <2>2. \A k \in all \ {m} : doc[k].at # doc[m].at
      BY <1>4, <1>10 DEF Shared
    <2>3. CASE q.do = "cursor"
      <3>1. m \in found
        BY <1>4, <1>7, <2>1, <2>3 DEF Reached
      <3>2. /\ first \subseteq found /\ IsFiniteSet(first) /\ Cardinality(first) <= 0
            /\ Cardinality(first) \in Nat
        <4>1. skip = 0
          BY <2>3
        <4> QED BY <1>3, <1>5, <4>1, TopFacts
      <3>3. first = {}
        BY <3>2, FS_EmptySet
      <3>4. m \notin first
        BY <3>3
      <3>5. page # {}
        BY <1>3, <1>4, <1>5, <1>10, <2>2, <3>1, <3>4, <2>3, PageFacts
      <3>6. \A k \in page : doc[k].at >= doc[m].at
        <4>1. IsFiniteSet(found \ first) /\ m \in found \ first
          BY <1>5, <3>1, <3>4, FS_Subset
        <4> QED BY <1>3, <1>4, <1>10, <4>1, TopFacts
      <3>7. \A k \in page : doc[k].at > doc[m].at
        BY <1>4, <1>5, <1>8, <1>10, <2>1, <2>2, <3>6
      <3>8. p.pc = "page" => p.at > doc[m].at /\ p.at \in Nat
        BY <1>6, <1>9, <2>3, <3>7
      <3> QED BY <1>4, <1>6, <2>1, <2>3, <3>5, <3>8 DEF Reached
    <2>4. CASE q.do = "pages"
      <3>1. found = all /\ skip = (q.at - 1) * Limit
        BY <2>4 DEF Skip
      <3>2. skip \in Nat /\ skip + Limit = ((q.at + 1) - 1) * Limit
        BY <1>4, <1>7, <2>4, <3>1, PagesEnd
      <3>3. ~(Cardinality(Newer(all, m)) < skip)
        BY <2>1, <2>4, <3>1 DEF Reached
      <3>4. /\ Cardinality(Newer(all, m)) \in Nat
            /\ m \in first => Cardinality(Newer(all, m)) < skip
            /\ m \notin first /\ m \notin page => page # {} /\ Cardinality(Newer(all, m)) >= skip + Limit
        <4>1. first \in TopOf(all, skip) /\ page \in TopOf(all \ first, Limit)
          BY <1>3, <3>1
        <4>2. \A k \in all : doc[k].at \in Nat
          BY <1>4
        <4> HIDE DEF all, skip
        <4> QED BY <1>4, <2>1, <2>2, <3>2, <4>1, <4>2, PageFacts
      <3>5. page # {} /\ Cardinality(Newer(all, m)) >= skip + Limit
        BY <1>10, <3>3, <3>4
      <3>6. p.at = q.at + 1 /\ p.do = "pages"
        BY <1>6, <2>4, <3>5
      <3>7. (p.at - 1) * Limit = skip + Limit /\ Limit \in Nat
        BY <1>4, <3>2, <3>6
      <3>8. Newer(In(p.conv), m) = Newer(all, m)
        BY <1>6
      <3> HIDE DEF all, skip
      <3>9. ~(Cardinality(Newer(all, m)) < (p.at - 1) * Limit)
        BY <3>2, <3>4, <3>5, <3>7
      <3> QED BY <3>5, <3>6, <3>8, <3>9 DEF Reached
    <2> QED BY <1>7, <2>3, <2>4
  <1>11. Lost(p) <=> Lost(q)
    BY <1>6 DEF Lost
  <1>12. ASSUME NEW m \in q.due PROVE Ahead(p, m)
    BY <1>6, <1>10, <1>11 DEF Ahead
  <1>13. p.at \in Nat /\ p.pc \in {"page", "done"}
    BY <1>6, <1>9
  <1> QED BY <1>6, <1>7, <1>9, <1>12, <1>13 DEF WalkOK

LEMMA WalksTurn ==
  ASSUME IInv, Walks, NEW r \in Request, Moves(r)
  PROVE  WalkOK(req'[r]) /\ \A p \in Request \ {r} : req'[p] = req[p]
  <1>0. \A p \in Request \ {r} : req'[p] = req[p]
    BY Turns DEF TurnsOK
  <1>1. req \in [Request -> Handler] /\ req[r] \in Handler /\ WalkOK(req[r])
    BY HandlerFacts DEF IInv, HandlersOK, Walks
  <1>2. ASSUME NEW q, req' = [req EXCEPT ![r] = q], q.due = {} PROVE WalkOK(req'[r])
    BY <1>1, <1>2 DEF WalkOK
  <1>3. ASSUME Done(r) PROVE WalkOK(req'[r])
    <2>1. [Idle EXCEPT !.pc = "done"].due = {}
      BY DEF Idle
    <2> QED BY <1>2, <1>3, <2>1 DEF Done
  <1>4. CASE Starts(r)
    <2>1. \A do, u, c, t : [Idle EXCEPT !.do = do, !.pc = "create", !.user = u, !.conv = c, !.text = t].due
                             = {}
      BY DEF Idle
    <2>2. \A u, t, c, l : [Idle EXCEPT !.do = "forward", !.pc = "create", !.user = u, !.text = t,
                                       !.conv = c, !.todo = l].due = {}
      BY DEF Idle
    <2>3. \A u, m, t : [Idle EXCEPT !.do = "edit", !.pc = "edit", !.user = u, !.msg = m, !.text = t].due = {}
      BY DEF Idle
    <2>4. \A do, u, l, pc : [Idle EXCEPT !.do = do, !.user = u, !.todo = l, !.pc = pc].due = {}
      BY DEF Idle
    <2>5. \A u, c, l, s : [Idle EXCEPT !.do = "read", !.pc = "mark", !.user = u, !.conv = c, !.todo = l,
                                       !.seen = s].due = {}
      BY DEF Idle
    <2>6. ASSUME NEW do, NEW u, NEW c, NEW t, Send(r, do, u, c, t) PROVE WalkOK(req'[r])
      BY <1>2, <2>1, <2>6 DEF Send
    <2>7. ASSUME NEW u, NEW m, NEW targets, Forward(r, u, m, targets) PROVE WalkOK(req'[r])
      BY <1>2, <2>2, <2>7 DEF Forward
    <2>8. ASSUME NEW u, NEW m, NEW t, Edit(r, u, m, t) PROVE WalkOK(req'[r])
      BY <1>2, <2>3, <2>8 DEF Edit
    <2>9. ASSUME NEW do, NEW u, NEW l, Bulk(r, do, u, l) PROVE WalkOK(req'[r])
      BY <1>2, <2>4, <2>9 DEF Bulk
    <2>10. ASSUME NEW u, NEW c, NEW l, ReadMessages(r, u, c, l) PROVE WalkOK(req'[r])
      BY <1>2, <2>5, <2>10 DEF ReadMessages
    <2>11. WalkOK(req'[r])
      BY <1>4, <2>6, <2>7, <2>8, <2>9, <2>10, WalkBegins DEF Starts
    <2> QED BY <1>0, <2>11
  <1>5. CASE NextPage(r)
    BY <1>0, <1>1, <1>5, PageTurns
  <1>6. ASSUME ~Starts(r), ~NextPage(r) PROVE WalkOK(req'[r])
    <2>1. req[r].pc \notin {"page", "done"}
      BY <1>6 DEF Moves, Create, Save, UpdateOnSend, Forbidden, EditUpdate, Find, Delete, MarkAsRead, Look,
                  SetReadKey, ReadHash, WriteHash, At
    <2>2. req[r].due = {}
      BY <1>1, <2>1 DEF WalkOK
    <2>3. ASSUME NEW pc, Goto(r, pc) PROVE WalkOK(req'[r])
      <3>1. [req[r] EXCEPT !.pc = pc].due = {}
        BY <1>1, <2>2 DEF Handler
      <3> QED BY <1>2, <2>3, <3>1 DEF Goto
    <2>4. ASSUME NEW pc, NextOf(r, pc) PROVE WalkOK(req'[r])
      <3>1. PICK q : q = [req[r] EXCEPT !.todo = Tail(@), !.pc = pc]
        OBVIOUS
      <3>2. q.due = {}
        BY <1>1, <2>2, <3>1 DEF Handler
      <3>3. Done(r) \/ req' = [req EXCEPT ![r] = q]
        BY <2>4, <3>1 DEF NextOf
      <3> QED BY <1>2, <1>3, <3>2, <3>3
    <2>5. CASE Create(r)
      <3>1. PICK q : q = [req[r] EXCEPT !.pc = "save", !.msg = made + 1, !.at = clock']
        OBVIOUS
      <3>2. req' = [req EXCEPT ![r] = q] /\ q.due = {}
        BY <1>1, <2>2, <2>5, <3>1 DEF Create, Handler
      <3> QED BY <1>2, <3>2
    <2>6. CASE Save(r)
      <3>1. PICK q : q = [req[r] EXCEPT !.pc = "create", !.conv = Head(req[r].todo), !.todo = Tail(@)]
        OBVIOUS
      <3>2. q.due = {}
        BY <1>1, <2>2, <3>1 DEF Handler
      <3>3. Done(r) \/ Goto(r, "cache") \/ req' = [req EXCEPT ![r] = q]
        BY <2>6, <3>1 DEF Save, AfterSave
      <3> QED BY <1>2, <1>3, <2>3, <3>2, <3>3
    <2>7. CASE Find(r) \/ Delete(r)
      <3>1. PICK q : q = [req[r] EXCEPT !.pc = "delete", !.msg = Head(req[r].todo)]
        OBVIOUS
      <3>2. q.due = {}
        BY <1>1, <2>2, <3>1 DEF Handler
      <3>3. NextOf(r, "find") \/ req' = [req EXCEPT ![r] = q]
        BY <2>7, <3>1 DEF Find, Delete
      <3> QED BY <1>2, <2>4, <3>2, <3>3
    <2>8. CASE MarkAsRead(r)
      BY <2>3, <2>4, <2>8 DEF MarkAsRead
    <2>9. CASE Look(r) \/ SetReadKey(r) \/ ReadHash(r)
      <3>1. \A s \in {"key", "write"} : [req[r] EXCEPT !.hash = cache[req[r].conv], !.pc = s].due = {}
        BY <1>1, <2>2 DEF Handler
      <3>2. \/ Done(r) \/ Goto(r, "reread")
            \/ \E s \in {"key", "write"} :
                 req' = [req EXCEPT ![r] = [req[r] EXCEPT !.hash = cache[req[r].conv], !.pc = s]]
        BY <1>1, <2>9 DEF Look, SetReadKey, ReadHash
      <3> QED BY <1>2, <1>3, <2>3, <3>1, <3>2
    <2>10. CASE UpdateOnSend(r) \/ Forbidden(r) \/ EditUpdate(r) \/ WriteHash(r)
      BY <1>3, <2>10 DEF UpdateOnSend, Forbidden, EditUpdate, WriteHash
    <2> QED BY <1>6, <2>5, <2>6, <2>7, <2>8, <2>9, <2>10 DEF Moves
  <1> QED BY <1>0, <1>4, <1>5, <1>6

LEMMA WalksKept == IInv /\ IInv' /\ Walks /\ [Next]_vars => Walks'
  <1> SUFFICES ASSUME IInv, IInv', Walks, [Next]_vars, NEW p \in Request
               PROVE  WalkOK(req[p])'
    BY DEF Walks
  <1>1. PICK q : q = req'[p]
    OBVIOUS
  <1>2. WalkOK(q)
    <2>1. CASE q = req[p]
      BY <2>1 DEF Walks
    <2>2. ASSUME NEW r \in Request, Moves(r) PROVE WalkOK(q)
      <3>1. WalkOK(req'[r]) /\ \A i \in Request \ {r} : req'[i] = req[i]
        BY <2>2, WalksTurn
      <3> QED BY <1>1, <3>1 DEF Walks
    <2>3. ASSUME DayPasses \/ (\E c \in Conversation : CacheExpires(c)) \/ UNCHANGED vars
          PROVE  q = req[p]
      BY <1>1, <2>3 DEF DayPasses, CacheExpires, vars
    <2> QED BY <2>1, <2>2, <2>3 DEF Next, Moves
  <1>3. WalkOK(q)'
    BY <1>2, WalkKept
  <1> QED BY <1>1, <1>3 DEF WalkOK, Ahead, Lost, Reached

\* A client that walks back through a conversation to its end has seen every message that was
\* there when it began and still is, for any history, page size and interleaving, but for the
\* exceptions of the property (findByConversationId by page and by cursor).
THEOREM WalksAreComplete == Spec => []WalkIsComplete
  <1>1. Init => Walks
    <2>1. Idle.due = {}
      BY DEF Idle
    <2> QED BY <2>1 DEF Init, Walks, WalkOK
  <1>2. Spec => []Walks
    BY <1>1, WalksKept, Inductive, PTL DEF Spec
  <1>3. Walks => WalkIsComplete
    <2> SUFFICES ASSUME Walks, NEW r \in Request, At(r, "done"), NEW m \in req[r].due
                 PROVE  \/ ~Live(m) \/ m \in req[r].seen
                        \/ \E k \in Stored \ {m} : doc[k].at = doc[m].at
                        \/ req[r].do = "pages" /\ \E k \in Stored \ req[r].gone :
                             doc[k].conv = req[r].conv /\ doc[k].deleted
      BY DEF WalkIsComplete
    <2>1. Ahead(req[r], m) /\ req[r].pc = "done"
      BY DEF Walks, WalkOK, At
    <2> QED BY <2>1 DEF Ahead, Shared, Lost
  <1> QED BY <1>2, <1>3, PTL
=============================================================================
