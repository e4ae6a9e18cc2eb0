------------------------------- MODULE Messages -------------------------------
(***************************************************************************)
(* The life of stored messages after they were accepted: sending, editing, *)
(* deleting, forwarding, reading, listing page by page, and the copy of    *)
(* each conversation's last message that Redis keeps for the conversation  *)
(* list.  Requests interleave at every await.  Who takes part in a         *)
(* conversation is the matter of Conversations; delivery, of               *)
(* MessageDelivery.                                                        *)
(***************************************************************************)
EXTENDS Integers, Sequences, FiniteSets, SequencesExt

CONSTANTS User, Admin, Text,
          Conversation,
          None,
          Old,           \* the messages stored at first: a sequence of their senders
          Home,          \* the conversation they are in
          MaxMessages,   \* bound: messages ever created
          MaxRequests,   \* bound: requests
          Limit          \* messages to a page

ASSUME MessagesAssumption ==
  /\ Admin \subseteq User /\ None \notin Conversation \cup Text /\ Text # {}
  /\ Home \in Conversation /\ Old \in Seq(User) \ {<<>>}
  /\ MaxMessages \in Nat /\ Len(Old) <= MaxMessages
  /\ MaxRequests \in Nat /\ Limit \in Nat \ {0}

Message == 1 .. MaxMessages
Request == 1 .. MaxRequests

VARIABLES
  doc,       \* the messages collection: stored message -> document
  made,      \* messages given an id and a creation time
  clock,     \* the creation time of the latest
  cache,     \* lastmsg:conv of each conversation
  readKey,   \* lastmsg:read: <<message, user>>
  req,       \* per request: its handler
  aged,      \* messages created more than a day ago
  announced, \* history: message.deleted events
  top,       \* history: the newest message a send has cached, per conversation
  overlapped, overtaken  \* history: see Create, UpdateOnSend

store   == <<doc, made, clock>>
last    == <<cache, readKey>>
history == <<announced, top, overlapped, overtaken>>
vars == <<store, last, req, aged, history>>

Stored == DOMAIN doc
Live(m) == m \in Stored /\ ~doc[m].deleted
In(c) == {m \in Stored : Live(m) /\ doc[m].conv = c}

NewDoc(c, u, t, at) ==
  [conv |-> c, sender |-> u, text |-> t, at |-> at, read |-> FALSE, edited |-> FALSE,
   deleted |-> FALSE]
NoCache == [id |-> 0, readBy |-> {}]
Idle == [do |-> None, pc |-> "new", user |-> None, msg |-> 0, at |-> 0, text |-> None,
         conv |-> None, todo |-> <<>>, seen |-> {}, due |-> {}, gone |-> {}, hash |-> NoCache]

Init ==
  /\ doc = [m \in 1 .. Len(Old) |-> NewDoc(Home, Old[m], CHOOSE t \in Text : TRUE, m)]
  /\ made = Len(Old) /\ clock = Len(Old)
  /\ cache = [c \in Conversation |-> IF c = Home THEN [id |-> Len(Old), readBy |-> {Last(Old)}]
                                    ELSE NoCache]
  /\ readKey = {} /\ aged = {}
  /\ req = [r \in Request |-> Idle]
  /\ announced = [m \in Message |-> 0]
  /\ top = [c \in Conversation |-> cache[c].id] /\ overlapped = {} /\ overtaken = {}

At(r, pc) == req[r].pc = pc
Goto(r, pc) == req' = [req EXCEPT ![r].pc = pc]
Done(r) == req' = [req EXCEPT ![r] = [Idle EXCEPT !.pc = "done"]]
\* A request begins; the requests are alike, so they begin in order.
Begin(r) == At(r, "new") /\ \A q \in 1 .. r - 1 : ~At(q, "new")

-----------------------------------------------------------------------------
(* sendMessage, from the socket ("send") or over HTTP ("post"); and the     *)
(* copies of a forwarded message.                                           *)
Send(r, do, u, c, t) ==
  /\ Begin(r)
  /\ req' = [req EXCEPT ![r] = [Idle EXCEPT !.do = do, !.pc = "create", !.user = u,
                                            !.conv = c, !.text = t]]
  /\ UNCHANGED <<store, last, aged, history>>

Sending(c) ==
  {q \in Request : req[q].do = "send" /\ req[q].conv = c /\ req[q].pc \in {"save", "cache"}}

\* create: the id and the time are given before the insertion is awaited.
\* overlapped: socket sends of one conversation of which one began within the other.
Create(r) ==
  /\ At(r, "create") /\ made < MaxMessages
  /\ made' = made + 1
  /\ clock' \in {clock, clock + 1}
  /\ req' = [req EXCEPT ![r].pc = "save", ![r].msg = made + 1, ![r].at = clock']
  /\ overlapped' = IF req[r].do = "send" /\ Sending(req[r].conv) # {}
                   THEN overlapped \cup {made + 1}
                          \cup {req[q].msg : q \in Sending(req[r].conv)}
                   ELSE overlapped
  /\ UNCHANGED <<doc, last, aged, announced, top, overtaken>>

AfterSave(r) ==
  CASE req[r].do = "send" -> Goto(r, "cache")
    [] req[r].do = "forward" /\ Len(req[r].todo) > 0 ->
         req' = [req EXCEPT ![r].pc = "create", ![r].conv = Head(req[r].todo),
                            ![r].todo = Tail(@)]
    [] OTHER -> Done(r)

Save(r) ==
  /\ At(r, "save")
  /\ doc' = [m \in Stored \cup {req[r].msg} |->
               IF m = req[r].msg THEN NewDoc(req[r].conv, req[r].user, req[r].text, req[r].at)
               ELSE doc[m]]
  /\ AfterSave(r)
  /\ UNCHANGED <<made, clock, last, aged, history>>

\* updateLastMessageOnSend: the hash is written whole, whatever it held.
\* overtaken: messages cached while a reading has the older hash in its hands.
UpdateOnSend(r) ==
  LET m == req[r].msg  c == req[r].conv
  IN  /\ At(r, "cache")
      /\ cache' = [cache EXCEPT ![c] = [id |-> m, readBy |-> {req[r].user}]]
      /\ top' = [top EXCEPT ![c] = IF m > @ THEN m ELSE @]
      /\ overtaken' = IF \E q \in Request : At(q, "write") /\ req[q].conv = c
                      THEN overtaken \cup {m} ELSE overtaken
      /\ Done(r)
      /\ UNCHANGED <<store, readKey, aged, announced, overlapped>>

\* The membership check of a later target fails: the copies already sent stay.
Forbidden(r) ==
  /\ At(r, "create") /\ Done(r)
  /\ UNCHANGED <<store, last, aged, history>>

Forward(r, u, m, targets) ==
  /\ Begin(r) /\ Live(m)
  /\ req' = [req EXCEPT ![r] = [Idle EXCEPT !.do = "forward", !.pc = "create", !.user = u,
                 !.text = doc[m].text, !.conv = Head(targets), !.todo = Tail(targets)]]
  /\ UNCHANGED <<store, last, aged, history>>

-----------------------------------------------------------------------------
(* editMessage and deleteMessage: the message is read, the user is checked, *)
(* and the command that follows finds the message again.                    *)

MayEdit(u, m) == doc[m].sender = u /\ m \notin aged
MayDelete(u, m) == doc[m].sender = u \/ u \in Admin

\* Mutant: an edit without a text erases it.
EditTextGiven(m, t) == t

\* The new text; or none, and the text read now is what the edit will write.
EditText(m, t) == IF t = None THEN doc[m].text ELSE t

Edit(r, u, m, t) ==
  /\ Begin(r) /\ Live(m) /\ MayEdit(u, m)
  /\ req' = [req EXCEPT ![r] = [Idle EXCEPT !.do = "edit", !.pc = "edit", !.user = u,
                                            !.msg = m, !.text = EditText(m, t)]]
  /\ UNCHANGED <<store, last, aged, history>>

\* updateById: a message deleted meanwhile is not found.
UpdateById(r) ==
  LET m == req[r].msg
  IN  doc' = IF Live(m) THEN [doc EXCEPT ![m] = [@ EXCEPT !.text = req[r].text, !.edited = TRUE]]
             ELSE doc

EditUpdate(r) ==
  /\ At(r, "edit") /\ UpdateById(r) /\ Done(r)
  /\ UNCHANGED <<made, clock, last, aged, history>>

\* Over HTTP one message, or several one after the other (bulkOperation).
Bulk(r, do, u, todo) ==
  /\ Begin(r)
  /\ req' = [req EXCEPT ![r] = [Idle EXCEPT !.do = do, !.user = u, !.todo = todo,
                                            !.pc = IF do = "delete" THEN "find" ELSE "mark"]]
  /\ UNCHANGED <<store, last, aged, history>>

\* The next message of a bulk request, or its end; a failure on one is counted.
NextOf(r, pc) ==
  IF Len(req[r].todo) = 1 THEN Done(r)
  ELSE req' = [req EXCEPT ![r].todo = Tail(@), ![r].pc = pc]

Find(r) ==
  LET m == Head(req[r].todo)
  IN  /\ At(r, "find")
      /\ IF Live(m) /\ MayDelete(req[r].user, m)
         THEN req' = [req EXCEPT ![r].pc = "delete", ![r].msg = m]
         ELSE NextOf(r, "find")
      /\ UNCHANGED <<store, last, aged, history>>

\* Mutant: the deletion does not ask whether the message is deleted already.
SoftDeleteAgain(r) ==
  /\ doc' = [doc EXCEPT ![req[r].msg].deleted = TRUE]
  /\ announced' = [announced EXCEPT ![req[r].msg] = @ + 1]

\* softDelete counts what it modified; the event follows only a deletion.
SoftDelete(r) ==
  LET m == req[r].msg
  IN  IF Live(m)
      THEN /\ doc' = [doc EXCEPT ![m].deleted = TRUE]
           /\ announced' = [announced EXCEPT ![m] = @ + 1]
      ELSE UNCHANGED <<doc, announced>>

Delete(r) ==
  /\ At(r, "delete") /\ SoftDelete(r) /\ NextOf(r, "find")
  /\ UNCHANGED <<made, clock, last, aged, top, overlapped, overtaken>>

\* createdAt is compared with the clock of the server: a day passes.
DayPasses ==
  /\ aged = {} /\ aged' = Stored
  /\ UNCHANGED <<store, last, req, history>>

-----------------------------------------------------------------------------
(* Reading: mark_as_read and batch_mark_read of the socket ("read"), which   *)
(* go on to the last message; markAsRead over HTTP ("mark").                *)

ReadMessages(r, u, c, todo) ==
  /\ Begin(r)
  /\ req' = [req EXCEPT ![r] = [Idle EXCEPT !.do = "read", !.pc = "mark", !.user = u,
                                            !.conv = c, !.todo = todo,
                                            !.seen = ToSet(todo)]]
  /\ UNCHANGED <<store, last, aged, history>>

\* markAsRead: not one's own message, not a deleted one.
MarkAsRead(r) ==
  LET m == Head(req[r].todo)  u == req[r].user
  IN  /\ At(r, "mark")
      /\ doc' = IF Live(m) /\ doc[m].sender # u THEN [doc EXCEPT ![m].read = TRUE] ELSE doc
      /\ IF Len(req[r].todo) = 1 /\ req[r].do = "read" THEN Goto(r, "look")
         ELSE NextOf(r, "mark")
      /\ UNCHANGED <<made, clock, last, aged, history>>

\* The gateway's updateLastMessageReadStatus: is the last message among those read?
Look(r) ==
  LET hash == cache[req[r].conv]
  IN  /\ At(r, "look")
      /\ IF hash.id \in req[r].seen
         THEN req' = [req EXCEPT ![r].hash = hash, ![r].pc = "key"]
         ELSE Done(r)
      /\ UNCHANGED <<store, last, aged, history>>

SetReadKey(r) ==
  /\ At(r, "key")
  /\ readKey' = readKey \cup {<<req[r].hash.id, req[r].user>>}
  /\ Goto(r, "reread")
  /\ UNCHANGED <<store, cache, aged, history>>

\* Mutant: the service does not compare the message it finds with the one that was read.
ReadHashAny(r) ==
  /\ At(r, "reread")
  /\ req' = [req EXCEPT ![r].hash = cache[req[r].conv], ![r].pc = "write"]
  /\ UNCHANGED <<store, last, aged, history>>

\* Mutant: the service saves the second reading and writes back the gateway's.
ReadHashOnce(r) ==
  At(r, "reread") /\ Goto(r, "write") /\ UNCHANGED <<store, last, aged, history>>

\* The service reads the hash again; it may be of another message by now.
ReadHash(r) ==
  LET hash == cache[req[r].conv]
  IN  /\ At(r, "reread")
      /\ IF hash.id = req[r].hash.id
         THEN req' = [req EXCEPT ![r].hash = hash, ![r].pc = "write"]
         ELSE Done(r)
      /\ UNCHANGED <<store, last, aged, history>>

WriteHash(r) ==
  /\ At(r, "write")
  /\ cache' = [cache EXCEPT ![req[r].conv] =
                 [req[r].hash EXCEPT !.readBy = @ \cup {req[r].user}]]
  /\ Done(r)
  /\ UNCHANGED <<store, readKey, aged, history>>

\* A week without a message or a reading; the two hours of a read key passed before.
CacheExpires(c) ==
  /\ cache[c] # NoCache /\ \A r \in Request : req[r].pc \in {"new", "done"}
  /\ cache' = [cache EXCEPT ![c] = NoCache] /\ top' = [top EXCEPT ![c] = 0]
  /\ readKey' = {k \in readKey : doc[k[1]].conv # c}
  /\ UNCHANGED <<store, req, aged, announced, overlapped, overtaken>>

-----------------------------------------------------------------------------
(* A client walks the history back, page by page: by number, or with the    *)
(* time of the oldest message it has for a cursor.                          *)

\* Newest first; the order of messages created at one time is open.
TopOf(set, n) ==
  {page \in SUBSET set :
     /\ Cardinality(page) = IF Cardinality(set) < n THEN Cardinality(set) ELSE n
     /\ \A m \in page, k \in set \ page : doc[m].at >= doc[k].at}
Page(set, skip, n) == UNION {TopOf(set \ first, n) : first \in TopOf(set, skip)}

Walk(r, do, c) ==
  /\ Begin(r)
  /\ req' = [req EXCEPT ![r] = [Idle EXCEPT !.do = do, !.pc = "page", !.conv = c,
                 !.due = In(c), !.gone = {m \in Stored : doc[m].deleted},
                 !.at = IF do = "pages" THEN 1 ELSE 0]]
  /\ UNCHANGED <<store, last, aged, history>>

\* Mutant: pages counted from zero.
SkipAll(page) == page * Limit

Skip(page) == (page - 1) * Limit

NextPage(r) ==
  LET byCursor == req[r].do = "cursor"
      found == {m \in In(req[r].conv) : byCursor /\ req[r].at > 0 => doc[m].at < req[r].at}
      Oldest(page) == {m \in page : \A k \in page : doc[k].at >= doc[m].at}
      After(page) == IF byCursor THEN {doc[m].at : m \in Oldest(page)} ELSE {req[r].at + 1}
  IN  /\ At(r, "page")
      /\ \E page \in Page(found, IF byCursor THEN 0 ELSE Skip(req[r].at), Limit) :
           \/ page = {} /\ req' = [req EXCEPT ![r].pc = "done", ![r].at = 0]
           \/ \E at \in After(page) :
                page # {} /\ req' = [req EXCEPT ![r].seen = @ \cup page, ![r].at = at]
      /\ UNCHANGED <<store, last, aged, history>>

\* The messages a request may name: one, or two.
Lists == {<<m>> : m \in Stored}
           \cup {l \in {<<m, k>> : m \in Stored, k \in Stored} : l[1] < l[2]}

Starts(r) ==
  \E u \in User :
    \/ \E c \in Conversation, t \in Text, do \in {"send", "post"} : Send(r, do, u, c, t)
    \/ \E m \in Stored, t \in Text \cup {None} : Edit(r, u, m, t)
    \/ \E m \in Stored, c \in Conversation :
         \E targets \in {<<c>>, <<c, Home>>} : Forward(r, u, m, targets)
    \/ \E list \in Lists, do \in {"delete", "mark"} : Bulk(r, do, u, list)
    \/ \E list \in Lists : ReadMessages(r, u, Home, list)
    \/ \E do \in {"pages", "cursor"} : Walk(r, do, Home)

Next ==
  \/ \E r \in Request :
       \/ Starts(r) \/ Create(r) \/ Save(r) \/ UpdateOnSend(r) \/ Forbidden(r)
       \/ EditUpdate(r) \/ Find(r) \/ Delete(r) \/ MarkAsRead(r)
       \/ Look(r) \/ SetReadKey(r) \/ ReadHash(r) \/ WriteHash(r) \/ NextPage(r)
  \/ DayPasses
  \/ \E c \in Conversation : CacheExpires(c)

Spec == Init /\ [][Next]_vars

-----------------------------------------------------------------------------
(* Properties.                                                              *)

\* Types: a stored message always has a text, whatever an edit left out (editMessage).
TypeOK ==
  /\ Stored \subseteq 1 .. made /\ made \in 0 .. MaxMessages /\ clock \in 0 .. MaxMessages
  /\ doc \in [Stored -> [conv : Conversation, sender : User, text : Text, at : 1 .. clock,
                         read : BOOLEAN, edited : BOOLEAN, deleted : BOOLEAN]]
  /\ cache \in [Conversation -> [id : 0 .. made, readBy : SUBSET User]]
  /\ readKey \subseteq (Message \X User) /\ aged \subseteq Stored
  /\ \A r \in Request :
       /\ req[r].pc \in {"new", "create", "save", "cache", "edit", "find", "delete", "mark",
                        "look", "key", "reread", "write", "page", "done"}
       /\ req[r].msg \in 0 .. made
       /\ req[r].seen \cup req[r].due \cup req[r].gone \subseteq Stored
  /\ announced \in [Message -> 0 .. 1]

\* The conversation list names as readers of the last message only its sender and users who
\* read that message, though a reading finds another message in the cache than it went to
\* mark (updateLastMessageReadStatus of the gateway, then of LastMessageService).
ReadByIsHonest ==
  \A c \in Conversation : LET m == cache[c].id IN
    \A u \in cache[c].readBy : <<m, u>> \in readKey \/ (m \in Stored /\ doc[m].sender = u)

\* The cached last message is the newest one sent through the socket, unless two sends
\* overlapped or the newest was cached while a reading held the older one
\* (updateLastMessageOnSend and cacheLastMessage compare no times).
CacheIsLatest ==
  \A c \in Conversation :
    \/ cache[c].id = top[c]
    \/ {cache[c].id, top[c]} \subseteq overlapped
    \/ top[c] \in overtaken

\* What a deleted message was stays as it was, edits and deletions that found it alive
\* included, and its deletion is announced once (updateById, softDelete, deleteMessage).
DeletedIsFinal ==
  [][\A m \in Stored : doc[m].deleted =>
       doc'[m] = doc[m] /\ announced[m] = 1 /\ announced'[m] = 1]_<<doc, announced>>

\* A client that walks to the end of the history has seen every message that was there when
\* it began and still is, unless another has the same time of creation or, when it walks by
\* page numbers, a message was deleted meanwhile (findByConversationId).
WalkIsComplete ==
  \A r \in Request : At(r, "done") /\ req[r].do \in {"pages", "cursor"} =>
    \A m \in req[r].due :
      \/ ~Live(m) \/ m \in req[r].seen
      \/ \E k \in Stored \ {m} : doc[k].at = doc[m].at
      \/ req[r].do = "pages" /\ \E k \in Stored \ req[r].gone :
           doc[k].conv = req[r].conv /\ doc[k].deleted
===============================================================================
