----------------------------- MODULE ChunkUpload -----------------------------
(***************************************************************************)
(* One chunked upload: ChunkUploadService over the session                 *)
(* RedisChunkSessionService keeps in Redis, the chunk files StorageService *)
(* keeps on disk and the files collection.                                 *)
(*                                                                         *)
(* A request occupies a slot of Proc; one action per Redis command (a Lua  *)
(* script is one command), file operation or query, so any two requests of *)
(* the session interleave at every await.  The owner of the session sends  *)
(* them; checksums and sizes are checked against the request itself and    *)
(* only their outcome is kept.                                             *)
(***************************************************************************)
EXTENDS Integers, FiniteSets

CONSTANTS N,            \* totalChunks
          Proc,         \* requests served at the same time
          MaxRequests,  \* bound: requests the client sends
          MaxFaults     \* bound: storage commands that fail

ASSUME ChunkUploadAssumption ==
  N \in Nat \ {0} /\ MaxRequests \in Nat /\ MaxFaults \in Nat

Chunk == 0 .. N - 1

VARIABLES
  session,     \* chunk_session: status, and whether updatedAt is recent
  expired,     \* expiresAt has passed
  uploaded,    \* the set chunk_uploaded
  failed,      \* the set chunk_failed
  progress,    \* chunk_progress: its completedChunks
  disk,        \* the chunk files
  blobs,       \* assembled files in the store
  files,       \* documents of the files collection with this content
  pc, loc,     \* the requests being served
  requests, faults,
  received,    \* history: chunks that were on disk in full
  torn,        \* history: chunks whose last write failed half-way
  cleaned,     \* history: a cleanup of the chunk files has begun
  unrecorded   \* history: a failure could not be recorded, Redis failing too

redis == <<session, expired, uploaded, failed, progress>>
store == <<disk, blobs, files>>
history == <<received, torn, cleaned, unrecorded>>
vars == <<redis, store, pc, loc, requests, faults, history>>

-----------------------------------------------------------------------------
Status == {"none", "pending", "uploading", "assembling", "completed", "failed", "cancelled"}
Op     == {"none", "upload", "complete", "cancel", "progress"}
Label  == {"idle", "get", "members", "resume", "write", "wrote", "mark", "report",
           "fail", "assemble", "read", "store", "find", "create", "sign", "done",
           "abort", "cancel", "clean"}

Session  == [status : Status, recent : BOOLEAN]
Locals   == [op : Op, chunk : Chunk, valid : BOOLEAN, session : Session,
             uploaded : SUBSET Chunk, next : 0 .. N, whole : BOOLEAN,
             todo : SUBSET Chunk]

NoLocals == [op |-> "none", chunk |-> 0, valid |-> TRUE,
             session |-> [status |-> "none", recent |-> FALSE],
             uploaded |-> {}, next |-> 0, whole |-> TRUE, todo |-> {}]

(* Type correctness of the session, the storage and the requests in flight. *)
TypeOK ==
  /\ session \in Session
  /\ expired \in BOOLEAN
  /\ uploaded \in SUBSET Chunk /\ failed \in SUBSET Chunk
  /\ progress \in 0 .. N
  /\ disk \in [Chunk -> {"absent", "partial", "whole"}]
  /\ blobs \in Nat /\ files \in Nat
  /\ pc \in [Proc -> Label] /\ loc \in [Proc -> Locals]
  /\ requests \in 0 .. MaxRequests /\ faults \in 0 .. MaxFaults
  /\ received \in SUBSET Chunk /\ torn \in SUBSET Chunk
  /\ cleaned \in BOOLEAN /\ unrecorded \in BOOLEAN

Init ==
  /\ session = [status |-> "none", recent |-> FALSE]
  /\ expired = FALSE
  /\ uploaded = {} /\ failed = {}
  /\ progress = 0
  /\ disk = [k \in Chunk |-> "absent"]
  /\ blobs = 0 /\ files = 0
  /\ pc = [p \in Proc |-> "idle"]
  /\ loc = [p \in Proc |-> NoLocals]
  /\ requests = 0 /\ faults = 0
  /\ received = {} /\ torn = {} /\ cleaned = FALSE /\ unrecorded = FALSE

At(p, l)   == pc[p] = l
Goto(p, l) == pc' = [pc EXCEPT ![p] = l]
Finish(p)  == /\ pc' = [pc EXCEPT ![p] = "idle"]
              /\ loc' = [loc EXCEPT ![p] = NoLocals]

\* updateStatus: the status and updatedAt, whatever the status was.
SetStatus(s) == session' = [status |-> s, recent |-> TRUE]

-----------------------------------------------------------------------------
(* initiateChunkUpload.  Nobody else knows the uploadId before it returns. *)

InitiateChunkUpload ==
  /\ session.status = "none"
  /\ SetStatus("pending")
  /\ UNCHANGED <<expired, uploaded, failed, progress, store, pc, loc, requests, faults, history>>

\* A request arrives: a chunk (valid: number, size and checksum are right), a
\* completion, a cancellation, a look at the progress.
Request(p) ==
  /\ session.status # "none"
  /\ requests < MaxRequests
  /\ requests' = requests + 1
  /\ At(p, "idle")
  /\ Goto(p, "get")
  /\ \/ \E k \in Chunk, ok \in BOOLEAN :
          loc' = [loc EXCEPT ![p] = [NoLocals EXCEPT !.op = "upload", !.chunk = k, !.valid = ok]]
     \/ \E op \in Op \ {"none", "upload"} :
          loc' = [loc EXCEPT ![p] = [NoLocals EXCEPT !.op = op]]
  /\ UNCHANGED <<redis, store, faults, history>>

(* getSession: the hash and the sets are read by separate commands.         *)

GetSession(p) ==
  /\ At(p, "get")
  /\ loc' = [loc EXCEPT ![p].session = session]
  /\ Goto(p, "members")
  /\ UNCHANGED <<redis, store, requests, faults, history>>

\* validateUploadSession on the session read.
Refused(s) ==
  \/ expired
  \/ s.status \in {"completed", "failed"}
  \/ s.status = "cancelled" /\ ~s.recent

\* What an operation does once the session is valid, given the chunks read.
\* Of its locals only the chunk is used after this.
Proceed(p, chunks) ==
  LET l == loc[p] IN
    \/ /\ \/ l.op = "upload" /\ l.valid /\ l.chunk \notin chunks /\ Goto(p, "write")
          \/ l.op = "complete" /\ chunks = Chunk /\ Goto(p, "assemble")
          \/ l.op = "cancel" /\ Goto(p, "cancel")
       /\ loc' = [loc EXCEPT ![p] = [NoLocals EXCEPT !.chunk = l.chunk]]
    \/ /\ \/ l.op = "upload" /\ (~l.valid \/ l.chunk \in chunks)
          \/ l.op = "complete" /\ chunks # Chunk
          \/ l.op = "progress"
       /\ Finish(p)

GetUploadedChunks(p) ==
  /\ At(p, "members")
  /\ \/ /\ Refused(loc[p].session)
        /\ Finish(p)
     \/ /\ ~Refused(loc[p].session)
        /\ loc[p].session.status = "cancelled" /\ loc[p].op # "cancel"
        /\ Goto(p, "resume")
        /\ loc' = [loc EXCEPT ![p].uploaded = uploaded]
     \/ /\ ~Refused(loc[p].session)
        /\ loc[p].session.status # "cancelled" \/ loc[p].op = "cancel"
        /\ Proceed(p, uploaded)
  /\ UNCHANGED <<redis, store, requests, faults, history>>

\* A cancelled session in its grace period is taken up again, by a look at
\* its progress too.
Resume(p) ==
  /\ At(p, "resume")
  /\ SetStatus("uploading")
  /\ Proceed(p, loc[p].uploaded)
  /\ UNCHANGED <<expired, uploaded, failed, progress, store, requests, faults, history>>

-----------------------------------------------------------------------------
(* uploadChunk.  writeFile truncates the file and then writes it: until it  *)
(* is done a reader finds a part.                                           *)

Writing(k) == {p \in Proc : pc[p] = "wrote" /\ loc[p].chunk = k}

\* Mutant: the chunk is marked before it is stored.
WriteBeginMarked(p) ==
  /\ At(p, "write")
  /\ disk' = [disk EXCEPT ![loc[p].chunk] = "partial"]
  /\ uploaded' = uploaded \cup {loc[p].chunk}
  /\ failed' = failed \ {loc[p].chunk}
  /\ Goto(p, "report")
  /\ UNCHANGED <<session, expired, progress, blobs, files, loc, requests, faults, history>>

WriteBegin(p) ==
  /\ At(p, "write")
  /\ disk' = [disk EXCEPT ![loc[p].chunk] = "partial"]
  /\ Goto(p, "wrote")
  /\ UNCHANGED <<redis, blobs, files, loc, requests, faults, history>>

\* A file unlinked meanwhile stays unlinked; one that another request has
\* truncated since is whole again, or not yet.
WriteEnd(p) ==
  /\ At(p, "wrote")
  /\ LET k == loc[p].chunk IN
       \/ /\ disk[k] = "absent"
          /\ UNCHANGED <<disk, received, torn>>
       \/ /\ disk[k] # "absent"
          /\ disk' = [disk EXCEPT ![k] = "whole"]
          /\ received' = received \cup {k}
          /\ torn' = torn \ {k}
       \/ /\ disk[k] # "absent"
          /\ Writing(k) # {p}
          /\ disk' = [disk EXCEPT ![k] = "partial"]
          /\ UNCHANGED <<received, torn>>
  /\ Goto(p, "mark")
  /\ UNCHANGED <<redis, blobs, files, loc, requests, faults, cleaned, unrecorded>>

\* The script of markChunkCompleted.
Completed(k) ==
  /\ uploaded' = uploaded \cup {k}
  /\ failed' = failed \ {k}
  /\ progress' = Cardinality(uploaded')
  /\ SetStatus("uploading")

\* Mutant: the number of completed chunks is incremented, not recounted.
MarkChunkIncremented(p) ==
  /\ At(p, "mark")
  /\ uploaded' = uploaded \cup {loc[p].chunk}
  /\ failed' = failed \ {loc[p].chunk}
  /\ progress' = progress + 1
  /\ SetStatus("uploading")
  /\ Goto(p, "report")
  /\ UNCHANGED <<expired, store, loc, requests, faults, history>>

MarkChunkCompleted(p) ==
  /\ At(p, "mark")
  /\ Completed(loc[p].chunk)
  /\ Goto(p, "report")
  /\ UNCHANGED <<expired, store, loc, requests, faults, history>>

Report(p) ==
  /\ At(p, "report")
  /\ Finish(p)
  /\ UNCHANGED <<redis, store, requests, faults, history>>

\* The script of markChunkFailed: the status stays.
MarkChunkFailed(p) ==
  /\ At(p, "fail")
  /\ failed' = failed \cup {loc[p].chunk}
  /\ uploaded' = uploaded \ {loc[p].chunk}
  /\ progress' = Cardinality(uploaded')
  /\ session' = [session EXCEPT !.recent = TRUE]
  /\ Finish(p)
  /\ UNCHANGED <<expired, store, requests, faults, history>>

-----------------------------------------------------------------------------
(* completeChunkUpload *)

Assemble(p) ==
  /\ At(p, "assemble")
  /\ SetStatus("assembling")
  /\ Goto(p, "read")
  /\ UNCHANGED <<expired, uploaded, failed, progress, store, loc, requests, faults, history>>

\* Mutant: a chunk that cannot be read is left out.
ReadChunkLenient(p) ==
  /\ At(p, "read")
  /\ loc' = [loc EXCEPT ![p].next = @ + 1]
  /\ Goto(p, IF loc[p].next + 1 < N THEN "read" ELSE "store")
  /\ UNCHANGED <<redis, store, requests, faults, history>>

\* The chunks are read in order; a missing one ends the assembly, and a
\* partial one shows in the total size, which is checked after the last.
ReadChunk(p) ==
  /\ At(p, "read")
  /\ LET k == loc[p].next
         whole == loc[p].whole /\ disk[k] = "whole" IN
       \/ /\ disk[k] = "absent" \/ (k + 1 = N /\ ~whole)
          /\ Goto(p, "abort")
          /\ UNCHANGED loc
       \/ /\ disk[k] # "absent"
          /\ k + 1 < N \/ whole
          /\ loc' = [loc EXCEPT ![p].next = k + 1, ![p].whole = whole]
          /\ Goto(p, IF k + 1 < N THEN "read" ELSE "store")
  /\ UNCHANGED <<redis, store, requests, faults, history>>

StoreFile(p) ==
  /\ At(p, "store")
  /\ blobs' = blobs + 1
  /\ Goto(p, "find")
  /\ UNCHANGED <<redis, disk, files, loc, requests, faults, history>>

\* createFileFromChunks looks for a document of the same content, but only for
\* one whose virus scan says clean, which nothing ever writes.
FindByChecksum(p) ==
  /\ At(p, "find")
  /\ Goto(p, "create")
  /\ UNCHANGED <<redis, store, loc, requests, faults, history>>

\* Mutant: the document is never written.
CreateFileForgotten(p) ==
  /\ At(p, "create")
  /\ Goto(p, "sign")
  /\ UNCHANGED <<redis, store, loc, requests, faults, history>>

CreateFile(p) ==
  /\ At(p, "create")
  /\ files' = files + 1
  /\ Goto(p, "sign")
  /\ UNCHANGED <<redis, disk, blobs, loc, requests, faults, history>>

\* getSignedUrl stores a download token in Redis.
SignUrl(p) ==
  /\ At(p, "sign")
  /\ Goto(p, "done")
  /\ UNCHANGED <<redis, store, loc, requests, faults, history>>

MarkCompleted(p) ==
  /\ At(p, "done")
  /\ SetStatus("completed")
  /\ Goto(p, "clean")
  /\ loc' = [loc EXCEPT ![p].todo = Chunk]
  /\ cleaned' = TRUE
  /\ UNCHANGED <<expired, uploaded, failed, progress, store, requests, faults, received, torn, unrecorded>>

\* Mutant: a failed completion leaves the status as it is.
AbortSilently(p) ==
  /\ At(p, "abort")
  /\ Finish(p)
  /\ UNCHANGED <<redis, store, requests, faults, history>>

\* The catch block: failed, whatever has been stored by then.
MarkFailed(p) ==
  /\ At(p, "abort")
  /\ SetStatus("failed")
  /\ Finish(p)
  /\ UNCHANGED <<expired, uploaded, failed, progress, store, requests, faults, history>>

(* cancelUpload *)

MarkCancelled(p) ==
  /\ At(p, "cancel")
  /\ SetStatus("cancelled")
  /\ Goto(p, "clean")
  /\ loc' = [loc EXCEPT ![p].todo = Chunk]
  /\ cleaned' = TRUE
  /\ UNCHANGED <<expired, uploaded, failed, progress, store, requests, faults, received, torn, unrecorded>>

\* cleanupChunkFiles unlinks all the chunk files at once, in no order.
CleanupChunkFiles(p) ==
  /\ At(p, "clean")
  /\ \/ /\ loc[p].todo = {}
        /\ Finish(p)
        /\ UNCHANGED disk
     \/ \E k \in loc[p].todo :
          /\ disk' = [disk EXCEPT ![k] = "absent"]
          /\ loc' = [loc EXCEPT ![p].todo = @ \ {k}]
          /\ UNCHANGED pc
  /\ UNCHANGED <<redis, blobs, files, requests, faults, history>>

-----------------------------------------------------------------------------
(* Failures and time *)

\* A command fails.  The catch of uploadChunk covers the write, the script and
\* the reading of the progress; that of completeChunkUpload everything from
\* "assembling" to "completed".  A failure inside a catch is reported and lost.
Fault(p) ==
  /\ faults < MaxFaults
  /\ faults' = faults + 1
  /\ \/ /\ pc[p] \in {"get", "members", "resume", "cancel"}
        /\ Finish(p)
        /\ UNCHANGED <<torn, unrecorded>>
     \/ /\ pc[p] \in {"write", "mark", "report"}
        /\ Goto(p, "fail")
        /\ UNCHANGED <<loc, torn, unrecorded>>
     \/ /\ pc[p] = "wrote"
        /\ Goto(p, "fail")
        /\ torn' = torn \cup {loc[p].chunk}
        /\ UNCHANGED <<loc, unrecorded>>
     \/ /\ pc[p] \in {"assemble", "read", "store", "find", "create", "sign", "done"}
        /\ Goto(p, "abort")
        /\ UNCHANGED <<loc, torn, unrecorded>>
     \/ /\ pc[p] \in {"fail", "abort"}
        /\ Finish(p)
        /\ UNCHANGED torn
        /\ unrecorded' = TRUE
     \/ /\ pc[p] = "clean"
        /\ \E k \in loc[p].todo : loc' = [loc EXCEPT ![p].todo = @ \ {k}]
        /\ UNCHANGED <<pc, torn, unrecorded>>
  /\ UNCHANGED <<redis, store, requests, received, cleaned>>

\* Five minutes pass without a write to the session.
GraceEnds ==
  /\ session.status = "cancelled" /\ session.recent
  /\ session' = [session EXCEPT !.recent = FALSE]
  /\ UNCHANGED <<expired, uploaded, failed, progress, store, pc, loc, requests, faults, history>>

\* A day has passed since the session was created.
SessionExpires ==
  /\ session.status # "none" /\ ~expired
  /\ expired' = TRUE
  /\ UNCHANGED <<session, uploaded, failed, progress, store, pc, loc, requests, faults, history>>

-----------------------------------------------------------------------------
Handler(p) ==
  \/ GetSession(p) \/ GetUploadedChunks(p) \/ Resume(p)
  \/ WriteBegin(p) \/ WriteEnd(p) \/ MarkChunkCompleted(p) \/ Report(p)
  \/ MarkChunkFailed(p) \/ Assemble(p) \/ ReadChunk(p) \/ StoreFile(p)
  \/ FindByChecksum(p) \/ CreateFile(p) \/ SignUrl(p) \/ MarkCompleted(p)
  \/ MarkFailed(p) \/ MarkCancelled(p) \/ CleanupChunkFiles(p)

Next ==
  \/ InitiateChunkUpload
  \/ \E p \in Proc : Request(p) \/ Handler(p) \/ Fault(p)
  \/ GraceEnds \/ SessionExpires

\* A suspended handler is resumed when its command returns.
Fairness == \A p \in Proc : WF_vars(Handler(p))

Spec     == Init /\ [][Next]_vars
FairSpec == Spec /\ Fairness

-----------------------------------------------------------------------------
(* Until the chunk files are cleaned up, a chunk the session counts as      *)
(* uploaded is on disk in full or a request is rewriting it, however        *)
(* requests for the same chunk overlap and the marking fails.  The one      *)
(* exception: a rewrite that fails half-way, which another request for the  *)
(* chunk may go on to mark as uploaded.                                     *)
UploadedIsStored ==
  ~cleaned =>
    \A k \in uploaded \ torn : disk[k] = "whole" \/ Writing(k) # {}

(* The scripts that mark a chunk completed or failed race for the same sets *)
(* and counters: no chunk is both, and the count the client is shown is the *)
(* number of chunks uploaded.                                               *)
CountIsExact ==
  /\ uploaded \cap failed = {}
  /\ progress = Cardinality(uploaded)

(* A session that says completed has a document in the files collection.    *)
CompletedHasFile == session.status = "completed" => files > 0 /\ blobs > 0

(* The upload implements what a chunked upload promises: with any requests  *)
(* interleaved and any command failing, a file is published only after each *)
(* of its chunks was stored in full.                                        *)
Promise == INSTANCE Publication WITH published <- files > 0

PublishesWholeFiles == Promise!Spec

(* No session is assembled for ever: the completion that runs records how   *)
(* it ended, unless Redis fails it at that point.                           *)
AssemblySettles ==
  session.status = "assembling" ~> session.status # "assembling" \/ unrecorded
=============================================================================
