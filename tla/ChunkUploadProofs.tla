-------------------------- MODULE ChunkUploadProofs --------------------------
(***************************************************************************)
(* Proofs about chunked uploads, for any number of chunks and requests in  *)
(* flight, any bounds on requests and failing commands.                    *)
(***************************************************************************)
EXTENDS ChunkUpload, FiniteSetTheorems, TLAPS

(* What a completion has seen: the chunks it has read before the next one   *)
(* were received, if each was whole; past the reading, all of them; past    *)
(* the storing of the file, the file; past its document, the document.      *)
AssemblyOK(k, l, got, b, f) ==
  /\ k = "assemble" => l.next = 0
  /\ k = "read" => l.next < N /\ (l.whole => 0 .. l.next - 1 \subseteq got)
  /\ k \in {"store", "find", "create"} => got = Chunk
  /\ k \in {"find", "create", "sign", "done"} => b > 0
  /\ k \in {"sign", "done"} => f > 0

(* What a chunk about to be marked, or being written, looks like on disk.   *)
StorageOK(k, l) ==
  /\ k = "wrote" => disk[l.chunk] # "absent"
  /\ k = "mark" => disk[l.chunk] = "whole" \/ Writing(l.chunk) # {} \/ l.chunk \in torn

Assembling == \A p \in Proc : AssemblyOK(pc[p], loc[p], received, blobs, files)

\* Only a chunk written to its end is whole, and only chunks that all were
\* make a document.
PublishedWhole == /\ \A k \in Chunk : disk[k] = "whole" => k \in received
                  /\ files > 0 => received = Chunk

Storing == /\ \A p \in Proc : pc[p] = "clean" => cleaned
           /\ ~cleaned => \A p \in Proc : StorageOK(pc[p], loc[p])

(* The inductive invariant: the properties need to know where each request  *)
(* in flight has got to.                                                    *)
IInv == /\ TypeOK
        /\ Assembling /\ PublishedWhole /\ CompletedHasFile
        /\ Storing /\ UploadedIsStored
        /\ CountIsExact

-----------------------------------------------------------------------------
(* Types *)

LEMMA ChunkFacts ==
  /\ Chunk \subseteq 0 .. N
  /\ \A k \in Chunk : k \in Int /\ 0 <= k /\ k < N
  /\ 0 \in Chunk
  BY ChunkUploadAssumption DEF Chunk

LEMMA ChunkCount ==
  ASSUME NEW S \in SUBSET Chunk
  PROVE  Cardinality(S) \in 0 .. N
  <1>1. IsFiniteSet(Chunk) /\ Cardinality(Chunk) = N
    BY FS_Interval, ChunkUploadAssumption DEF Chunk
  <1>2. IsFiniteSet(S) /\ Cardinality(S) <= N
    BY <1>1, FS_Subset
  <1> QED BY <1>2, FS_CardinalityType, ChunkUploadAssumption

LEMMA NoLocalsType ==
  /\ NoLocals \in Locals
  /\ \A k \in Chunk, ok \in BOOLEAN :
       [NoLocals EXCEPT !.op = "upload", !.chunk = k, !.valid = ok] \in Locals
  /\ \A op \in Op : [NoLocals EXCEPT !.op = op] \in Locals
  /\ \A k \in Chunk : /\ [NoLocals EXCEPT !.chunk = k] \in Locals
                       /\ [NoLocals EXCEPT !.chunk = k].next = 0
                       /\ [NoLocals EXCEPT !.chunk = k].chunk = k
  BY ChunkFacts, ChunkUploadAssumption DEF NoLocals, Locals, Session, Status, Op

LEMMA LocalsType ==
  ASSUME NEW l \in Locals
  PROVE  /\ \A s \in Session : [l EXCEPT !.session = s] \in Locals
         /\ \A T \in SUBSET Chunk : [l EXCEPT !.uploaded = T] \in Locals
         /\ \A T \in SUBSET Chunk : [l EXCEPT !.todo = T] \in Locals
         /\ \A n \in 0 .. N, w \in BOOLEAN : [l EXCEPT !.next = n, !.whole = w] \in Locals
         /\ l.chunk \in Chunk /\ l.op \in Op /\ l.next \in 0 .. N /\ l.whole \in BOOLEAN
         /\ l.session \in Session /\ l.uploaded \in SUBSET Chunk /\ l.todo \in SUBSET Chunk
  BY DEF Locals

LEMMA GotoFacts ==
  ASSUME TypeOK, NEW p \in Proc, NEW k \in Label, Goto(p, k)
  PROVE  /\ pc' \in [Proc -> Label] /\ pc'[p] = k
         /\ \A q \in Proc \ {p} : pc'[q] = pc[q]
  BY DEF Goto, TypeOK

LEMMA FinishFacts ==
  ASSUME TypeOK, NEW p \in Proc, Finish(p)
  PROVE  /\ pc' \in [Proc -> Label] /\ pc'[p] = "idle"
         /\ loc' \in [Proc -> Locals] /\ loc'[p] = NoLocals
         /\ \A q \in Proc \ {p} : pc'[q] = pc[q] /\ loc'[q] = loc[q]
  BY NoLocalsType DEF Finish, TypeOK, Label

LEMMA SetStatusFacts ==
  ASSUME NEW s \in Status, SetStatus(s)
  PROVE  session' \in Session /\ session'.status = s
  BY DEF SetStatus, Session

(* Where a request goes once its session is valid. *)
LEMMA ProceedFacts ==
  ASSUME TypeOK, NEW p \in Proc, NEW S, Proceed(p, S)
  PROVE  /\ pc' \in [Proc -> Label] /\ pc'[p] \in {"write", "assemble", "cancel", "idle"}
         /\ loc' \in [Proc -> Locals] /\ loc'[p].next = 0
         /\ \A q \in Proc \ {p} : pc'[q] = pc[q] /\ loc'[q] = loc[q]
  <1> DEFINE l == [NoLocals EXCEPT !.chunk = loc[p].chunk]
  <1>1. loc[p].chunk \in Chunk
    BY DEF TypeOK, Locals
  <1>2. l \in Locals /\ l.next = 0
    BY <1>1, NoLocalsType
  <1>3. CASE Finish(p)
    BY <1>3, FinishFacts DEF NoLocals
  <1>4. CASE /\ Goto(p, "write") \/ Goto(p, "assemble") \/ Goto(p, "cancel")
             /\ loc' = [loc EXCEPT ![p] = l]
    <2>1. /\ pc' \in [Proc -> Label] /\ pc'[p] \in {"write", "assemble", "cancel"}
          /\ \A q \in Proc \ {p} : pc'[q] = pc[q]
      BY <1>4, GotoFacts DEF Label
    <2>2. /\ loc' \in [Proc -> Locals] /\ loc'[p] = l
          /\ \A q \in Proc \ {p} : loc'[q] = loc[q]
      <3> HIDE DEF l
      <3> QED BY <1>2, <1>4 DEF TypeOK
    <2> HIDE DEF l
    <2> QED BY <1>2, <2>1, <2>2
  <1> QED BY <1>3, <1>4 DEF Proceed

LEMMA LocalsOf ==
  ASSUME TypeOK, NEW p \in Proc
  PROVE  loc[p] \in Locals /\ loc[p].chunk \in Chunk /\ pc[p] \in Label
  BY DEF TypeOK, Locals

LEMMA UpdateLocals ==
  ASSUME TypeOK, NEW p \in Proc, NEW l \in Locals, loc' = [loc EXCEPT ![p] = l]
  PROVE  /\ loc' \in [Proc -> Locals] /\ loc'[p] = l
         /\ \A q \in Proc \ {p} : loc'[q] = loc[q]
  BY DEF TypeOK

(* One step keeps the types; that the reading of chunks stops at the last    *)
(* one is not a matter of types alone.                                      *)
LEMMA TypeStep == TypeOK /\ Assembling /\ [Next]_vars => TypeOK'
  <1> SUFFICES ASSUME TypeOK, Assembling, [Next]_vars PROVE TypeOK'
    OBVIOUS
  <1> USE DEF redis, store, history
  <1>0. CASE UNCHANGED vars
    BY <1>0 DEF TypeOK, vars
  <1>1. CASE InitiateChunkUpload
    <2>1. session' \in Session
      BY <1>1, SetStatusFacts DEF InitiateChunkUpload, Status
    <2> QED BY <1>1, <2>1 DEF InitiateChunkUpload, TypeOK
  <1>2. CASE GraceEnds
    BY <1>2 DEF GraceEnds, TypeOK, Session
  <1>3. CASE SessionExpires
    BY <1>3 DEF SessionExpires, TypeOK
  <1>4. ASSUME NEW p \in Proc, Request(p) PROVE TypeOK'
    <2>0. pc' \in [Proc -> Label]
      <3>1. Goto(p, "get")
        BY <1>4 DEF Request
      <3> QED BY <3>1, GotoFacts DEF Label
    <2>1. requests' \in 0 .. MaxRequests
      <3>1. requests \in 0 .. MaxRequests /\ requests < MaxRequests /\ requests' = requests + 1
        BY <1>4 DEF Request, TypeOK
      <3> QED BY <3>1, ChunkUploadAssumption
    <2>2. PICK l \in Locals : loc' = [loc EXCEPT ![p] = l]
      BY <1>4, NoLocalsType DEF Request
    <2>3. loc' \in [Proc -> Locals]
      BY <2>2, UpdateLocals
    <2> QED BY <1>4, <2>0, <2>1, <2>3 DEF Request, TypeOK
  <1>5. ASSUME NEW p \in Proc, GetSession(p) PROVE TypeOK'
    <2>1. pc' \in [Proc -> Label]
      BY <1>5, GotoFacts DEF GetSession, Label
    <2>2. loc' \in [Proc -> Locals]
      <3> DEFINE l == [loc[p] EXCEPT !.session = session]
      <3>1. l \in Locals /\ loc' = [loc EXCEPT ![p] = l]
        BY <1>5, LocalsOf, LocalsType DEF GetSession, TypeOK
      <3> QED BY <3>1, UpdateLocals
    <2> QED BY <1>5, <2>1, <2>2 DEF GetSession, TypeOK
  <1>6. ASSUME NEW p \in Proc, GetUploadedChunks(p) PROVE TypeOK'
    <2>1. pc' \in [Proc -> Label] /\ loc' \in [Proc -> Locals]
      <3>1. CASE Finish(p)
        BY <3>1, FinishFacts
      <3>2. CASE Proceed(p, uploaded)
        BY <3>2, ProceedFacts
      <3>3. CASE Goto(p, "resume") /\ loc' = [loc EXCEPT ![p].uploaded = uploaded]
        <4> DEFINE l == [loc[p] EXCEPT !.uploaded = uploaded]
        <4>1. l \in Locals /\ loc' = [loc EXCEPT ![p] = l]
          BY <3>3, LocalsOf, LocalsType DEF TypeOK
        <4>2. pc' \in [Proc -> Label]
          BY <3>3, GotoFacts DEF Label
        <4> QED BY <4>1, <4>2, UpdateLocals
      <3> QED BY <1>6, <3>1, <3>2, <3>3 DEF GetUploadedChunks
    <2> QED BY <1>6, <2>1 DEF GetUploadedChunks, TypeOK
  <1>7. ASSUME NEW p \in Proc, Resume(p) PROVE TypeOK'
    <2>1. pc' \in [Proc -> Label] /\ loc' \in [Proc -> Locals]
      BY <1>7, ProceedFacts DEF Resume
    <2>2. session' \in Session
      BY <1>7, SetStatusFacts DEF Resume, Status
    <2> QED BY <1>7, <2>1, <2>2 DEF Resume, TypeOK
  <1>8. ASSUME NEW p \in Proc, WriteBegin(p) PROVE TypeOK'
    <2>1. pc' \in [Proc -> Label]
      BY <1>8, GotoFacts DEF WriteBegin, Label
    <2> QED BY <1>8, <2>1 DEF WriteBegin, TypeOK
  <1>9. ASSUME NEW p \in Proc, WriteEnd(p) PROVE TypeOK'
    <2>1. pc' \in [Proc -> Label]
      BY <1>9, GotoFacts DEF WriteEnd, Label
    <2>2. /\ disk' \in [Chunk -> {"absent", "partial", "whole"}]
          /\ received' \in SUBSET Chunk /\ torn' \in SUBSET Chunk
      BY <1>9, LocalsOf DEF WriteEnd, TypeOK
    <2> QED BY <1>9, <2>1, <2>2 DEF WriteEnd, TypeOK
  <1>10. ASSUME NEW p \in Proc, MarkChunkCompleted(p) PROVE TypeOK'
    <2>1. pc' \in [Proc -> Label]
      BY <1>10, GotoFacts DEF MarkChunkCompleted, Label
    <2>2. session' \in Session
      BY <1>10, SetStatusFacts DEF MarkChunkCompleted, Completed, Status
    <2>3. uploaded' \in SUBSET Chunk /\ failed' \in SUBSET Chunk
      BY <1>10, LocalsOf DEF MarkChunkCompleted, Completed, TypeOK
    <2>4. progress' \in 0 .. N
      BY <1>10, <2>3, ChunkCount DEF MarkChunkCompleted, Completed
    <2> QED BY <1>10, <2>1, <2>2, <2>3, <2>4 DEF MarkChunkCompleted, TypeOK
  <1>11. ASSUME NEW p \in Proc, Report(p) PROVE TypeOK'
    <2>1. pc' \in [Proc -> Label] /\ loc' \in [Proc -> Locals]
      BY <1>11, FinishFacts DEF Report
    <2> QED BY <1>11, <2>1 DEF Report, TypeOK
  <1>12. ASSUME NEW p \in Proc, MarkChunkFailed(p) PROVE TypeOK'
    <2>1. pc' \in [Proc -> Label] /\ loc' \in [Proc -> Locals]
      BY <1>12, FinishFacts DEF MarkChunkFailed
    <2>2. session' \in Session
      BY <1>12 DEF MarkChunkFailed, TypeOK, Session
    <2>3. uploaded' \in SUBSET Chunk /\ failed' \in SUBSET Chunk
      BY <1>12, LocalsOf DEF MarkChunkFailed, TypeOK
    <2>4. progress' \in 0 .. N
      BY <1>12, <2>3, ChunkCount DEF MarkChunkFailed
    <2> QED BY <1>12, <2>1, <2>2, <2>3, <2>4 DEF MarkChunkFailed, TypeOK
  <1>13. ASSUME NEW p \in Proc, Assemble(p) PROVE TypeOK'
    <2>1. pc' \in [Proc -> Label]
      BY <1>13, GotoFacts DEF Assemble, Label
    <2>2. session' \in Session
      BY <1>13, SetStatusFacts DEF Assemble, Status
    <2> QED BY <1>13, <2>1, <2>2 DEF Assemble, TypeOK
  <1>14. ASSUME NEW p \in Proc, ReadChunk(p) PROVE TypeOK'
    <2>1. pc' \in [Proc -> Label]
      <3>1. Goto(p, "abort") \/ Goto(p, "read") \/ Goto(p, "store")
        BY <1>14 DEF ReadChunk
      <3> QED BY <3>1, GotoFacts DEF Label
    <2>2. loc' \in [Proc -> Locals]
      <3>1. CASE UNCHANGED loc
        BY <3>1 DEF TypeOK
      <3>2. CASE ~ UNCHANGED loc
        <4> DEFINE w == loc[p].whole /\ disk[loc[p].next] = "whole"
                   l == [loc[p] EXCEPT !.next = loc[p].next + 1, !.whole = w]
        <4>1. loc' = [loc EXCEPT ![p] = l]
          BY <1>14, <3>2, LocalsOf DEF ReadChunk
        <4>2. loc[p].next < N /\ loc[p].next \in 0 .. N
          BY <1>14, LocalsOf, LocalsType DEF ReadChunk, At, Assembling, AssemblyOK
        <4>3. loc[p].next + 1 \in 0 .. N
          BY <4>2, ChunkUploadAssumption
        <4>4. l \in Locals
          BY <4>3, LocalsOf, LocalsType
        <4> HIDE DEF l
        <4> QED BY <4>1, <4>4, UpdateLocals
      <3> QED BY <3>1, <3>2
    <2> QED BY <1>14, <2>1, <2>2 DEF ReadChunk, TypeOK
  <1>15. ASSUME NEW p \in Proc, StoreFile(p) PROVE TypeOK'
    <2>1. pc' \in [Proc -> Label]
      BY <1>15, GotoFacts DEF StoreFile, Label
    <2> QED BY <1>15, <2>1 DEF StoreFile, TypeOK
  <1>16. ASSUME NEW p \in Proc, FindByChecksum(p) PROVE TypeOK'
    <2>1. pc' \in [Proc -> Label]
      BY <1>16, GotoFacts DEF FindByChecksum, Label
    <2> QED BY <1>16, <2>1 DEF FindByChecksum, TypeOK
  <1>17. ASSUME NEW p \in Proc, CreateFile(p) PROVE TypeOK'
    <2>1. pc' \in [Proc -> Label]
      BY <1>17, GotoFacts DEF CreateFile, Label
    <2> QED BY <1>17, <2>1 DEF CreateFile, TypeOK
  <1>18. ASSUME NEW p \in Proc, SignUrl(p) PROVE TypeOK'
    <2>1. pc' \in [Proc -> Label]
      BY <1>18, GotoFacts DEF SignUrl, Label
    <2> QED BY <1>18, <2>1 DEF SignUrl, TypeOK
  <1>19. ASSUME NEW p \in Proc, MarkCompleted(p) PROVE TypeOK'
    <2>1. pc' \in [Proc -> Label]
      BY <1>19, GotoFacts DEF MarkCompleted, Label
    <2>2. session' \in Session
      BY <1>19, SetStatusFacts DEF MarkCompleted, Status
    <2>3. loc' \in [Proc -> Locals]
      <3> DEFINE l == [loc[p] EXCEPT !.todo = Chunk]
      <3>1. l \in Locals /\ loc' = [loc EXCEPT ![p] = l]
        BY <1>19, LocalsOf, LocalsType DEF MarkCompleted
      <3> QED BY <3>1, UpdateLocals
    <2> QED BY <1>19, <2>1, <2>2, <2>3 DEF MarkCompleted, TypeOK
  <1>20. ASSUME NEW p \in Proc, MarkFailed(p) PROVE TypeOK'
    <2>1. pc' \in [Proc -> Label] /\ loc' \in [Proc -> Locals]
      BY <1>20, FinishFacts DEF MarkFailed
    <2>2. session' \in Session
      BY <1>20, SetStatusFacts DEF MarkFailed, Status
    <2> QED BY <1>20, <2>1, <2>2 DEF MarkFailed, TypeOK
  <1>21. ASSUME NEW p \in Proc, MarkCancelled(p) PROVE TypeOK'
    <2>1. pc' \in [Proc -> Label]
      BY <1>21, GotoFacts DEF MarkCancelled, Label
    <2>2. session' \in Session
      BY <1>21, SetStatusFacts DEF MarkCancelled, Status
    <2>3. loc' \in [Proc -> Locals]
      <3> DEFINE l == [loc[p] EXCEPT !.todo = Chunk]
      <3>1. l \in Locals /\ loc' = [loc EXCEPT ![p] = l]
        BY <1>21, LocalsOf, LocalsType DEF MarkCancelled
      <3> QED BY <3>1, UpdateLocals
    <2> QED BY <1>21, <2>1, <2>2, <2>3 DEF MarkCancelled, TypeOK
  <1>22. ASSUME NEW p \in Proc, CleanupChunkFiles(p) PROVE TypeOK'
    <2>1. CASE Finish(p) /\ UNCHANGED disk
      BY <1>22, <2>1, FinishFacts DEF CleanupChunkFiles, TypeOK
    <2>2. ASSUME NEW k \in loc[p].todo,
                 disk' = [disk EXCEPT ![k] = "absent"],
                 loc' = [loc EXCEPT ![p].todo = @ \ {k}],
                 UNCHANGED pc
          PROVE  TypeOK'
      <3> DEFINE l == [loc[p] EXCEPT !.todo = @ \ {k}]
      <3>1. l \in Locals /\ loc' = [loc EXCEPT ![p] = l]
        BY <2>2, LocalsOf, LocalsType
      <3>2. loc' \in [Proc -> Locals]
        BY <3>1, UpdateLocals
      <3> QED BY <1>22, <2>2, <3>2 DEF CleanupChunkFiles, TypeOK
    <2> QED BY <1>22, <2>1, <2>2 DEF CleanupChunkFiles
  <1>23. ASSUME NEW p \in Proc, Fault(p) PROVE TypeOK'
    <2>1. pc' \in [Proc -> Label] /\ loc' \in [Proc -> Locals]
      <3>1. CASE Finish(p)
        BY <3>1, FinishFacts
      <3>2. CASE (Goto(p, "fail") \/ Goto(p, "abort")) /\ UNCHANGED loc
        BY <3>2, GotoFacts DEF Label, TypeOK
      <3>3. ASSUME NEW k \in loc[p].todo, loc' = [loc EXCEPT ![p].todo = @ \ {k}], UNCHANGED pc
            PROVE  pc' \in [Proc -> Label] /\ loc' \in [Proc -> Locals]
        <4> DEFINE l == [loc[p] EXCEPT !.todo = @ \ {k}]
        <4>1. l \in Locals /\ loc' = [loc EXCEPT ![p] = l]
          BY <3>3, LocalsOf, LocalsType
        <4> QED BY <3>3, <4>1, UpdateLocals DEF TypeOK
      <3> QED BY <1>23, <3>1, <3>2, <3>3 DEF Fault
    <2>2. faults' \in 0 .. MaxFaults
      BY <1>23, ChunkUploadAssumption DEF Fault, TypeOK
    <2>3. torn' \in SUBSET Chunk /\ unrecorded' \in BOOLEAN
      BY <1>23, LocalsOf DEF Fault, TypeOK
    <2> QED BY <1>23, <2>1, <2>2, <2>3 DEF Fault, TypeOK
  <1> QED BY <1>0, <1>1, <1>2, <1>3, <1>4, <1>5, <1>6, <1>7, <1>8, <1>9, <1>10, <1>11, <1>12, <1>13, <1>14, <1>15, <1>16, <1>17, <1>18, <1>19, <1>20, <1>21, <1>22, <1>23
          DEF Next, Handler

-----------------------------------------------------------------------------
(* The assembly *)

QuietLabel == {"idle", "get", "members", "resume", "write", "wrote", "mark",
               "report", "fail", "abort", "cancel", "clean"}

LEMMA QuietOK ==
  ASSUME NEW k \in QuietLabel, NEW l, NEW got, NEW b, NEW f
  PROVE  AssemblyOK(k, l, got, b, f)
  BY DEF QuietLabel, AssemblyOK

(* Chunks arrive and files are stored; neither is taken back. *)
LEMMA Grows ==
  ASSUME TypeOK, [Next]_vars
  PROVE  received \subseteq received' /\ blobs <= blobs' /\ files <= files'
  <1> USE DEF redis, store, history
  <1>1. blobs <= blobs /\ files <= files /\ blobs <= blobs + 1 /\ files <= files + 1
    BY DEF TypeOK
  <1>2. CASE UNCHANGED vars
    BY <1>1, <1>2 DEF vars
  <1>3. CASE InitiateChunkUpload \/ GraceEnds \/ SessionExpires
    BY <1>1, <1>3 DEF InitiateChunkUpload, GraceEnds, SessionExpires
  <1>4. ASSUME NEW p \in Proc, Request(p) \/ Fault(p)
        PROVE  received \subseteq received' /\ blobs <= blobs' /\ files <= files'
    BY <1>1, <1>4 DEF Request, Fault
  <1>5. ASSUME NEW p \in Proc,
               \/ GetSession(p) \/ GetUploadedChunks(p) \/ Resume(p)
               \/ WriteBegin(p) \/ WriteEnd(p) \/ MarkChunkCompleted(p) \/ Report(p)
               \/ MarkChunkFailed(p)
        PROVE  received \subseteq received' /\ blobs <= blobs' /\ files <= files'
    BY <1>1, <1>5 DEF GetSession, GetUploadedChunks, Resume, WriteBegin, WriteEnd,
                      MarkChunkCompleted, Report, MarkChunkFailed
  <1>6. ASSUME NEW p \in Proc,
               \/ Assemble(p) \/ ReadChunk(p) \/ StoreFile(p) \/ FindByChecksum(p)
               \/ CreateFile(p) \/ SignUrl(p) \/ MarkCompleted(p) \/ MarkFailed(p)
               \/ MarkCancelled(p) \/ CleanupChunkFiles(p)
        PROVE  received \subseteq received' /\ blobs <= blobs' /\ files <= files'
    BY <1>1, <1>6 DEF Assemble, ReadChunk, StoreFile, FindByChecksum, CreateFile, SignUrl,
                      MarkCompleted, MarkFailed, MarkCancelled, CleanupChunkFiles
  <1> QED BY <1>2, <1>3, <1>4, <1>5, <1>6 DEF Next, Handler

(* A step of one request leaves the others where they are. *)
LEMMA OthersStay ==
  ASSUME TypeOK, NEW p \in Proc, Request(p) \/ Handler(p) \/ Fault(p),
         NEW q \in Proc, q # p
  PROVE  pc'[q] = pc[q] /\ loc'[q] = loc[q]
  <1> DEFINE Same == pc'[q] = pc[q] /\ loc'[q] = loc[q]
  <1> USE DEF TypeOK, Goto, Finish
  <1>1. CASE Request(p)
    BY <1>1 DEF Request
  <1>2. CASE GetSession(p) \/ Resume(p) \/ GetUploadedChunks(p)
    BY <1>2 DEF GetSession, Resume, GetUploadedChunks, Proceed
  <1>3. CASE WriteBegin(p) \/ WriteEnd(p) \/ MarkChunkCompleted(p) \/ Report(p) \/ MarkChunkFailed(p)
    BY <1>3 DEF WriteBegin, WriteEnd, MarkChunkCompleted, Report, MarkChunkFailed
  <1>4. CASE Assemble(p) \/ ReadChunk(p) \/ StoreFile(p) \/ FindByChecksum(p) \/ CreateFile(p)
    BY <1>4 DEF Assemble, ReadChunk, StoreFile, FindByChecksum, CreateFile
  <1>5. CASE SignUrl(p) \/ MarkCompleted(p) \/ MarkFailed(p) \/ MarkCancelled(p)
    BY <1>5 DEF SignUrl, MarkCompleted, MarkFailed, MarkCancelled
  <1>6. CASE CleanupChunkFiles(p)
    BY <1>6 DEF CleanupChunkFiles
  <1>7. CASE Fault(p)
    BY <1>7 DEF Fault
  <1> QED BY <1>1, <1>2, <1>3, <1>4, <1>5, <1>6, <1>7 DEF Handler

(* What a completion has seen stays true when others take steps. *)
LEMMA AssemblyKept ==
  ASSUME TypeOK, TypeOK', Assembling, [Next]_vars, NEW q \in Proc,
         pc'[q] = pc[q], loc'[q] = loc[q]
  PROVE  AssemblyOK(pc'[q], loc'[q], received', blobs', files')
  <1>1. AssemblyOK(pc[q], loc[q], received, blobs, files)
    BY DEF Assembling
  <1>2. received \subseteq received' /\ received' \subseteq Chunk
    BY Grows DEF TypeOK
  <1>3. (blobs > 0 => blobs' > 0) /\ (files > 0 => files' > 0)
    BY Grows DEF TypeOK
  <1> QED BY <1>1, <1>2, <1>3 DEF AssemblyOK

(* Where the request that takes the step ends up. *)
LEMMA AssemblyMoves ==
  ASSUME TypeOK, TypeOK', Assembling, PublishedWhole, [Next]_vars,
         NEW p \in Proc, Request(p) \/ Handler(p) \/ Fault(p)
  PROVE  AssemblyOK(pc'[p], loc'[p], received', blobs', files')
  <1> DEFINE OK == AssemblyOK(pc'[p], loc'[p], received', blobs', files')
  <1> USE DEF redis, store, history
  <1>0. /\ pc[p] \in Label /\ loc[p] \in Locals /\ loc[p].next \in 0 .. N
        /\ AssemblyOK(pc[p], loc[p], received, blobs, files)
    BY LocalsOf, LocalsType DEF Assembling
  <1>1. CASE pc'[p] \in QuietLabel
    BY <1>1, QuietOK
  <1>2. ASSUME NEW k \in QuietLabel, Goto(p, k)
        PROVE  OK
    BY <1>1, <1>2 DEF Goto, TypeOK
  <1>3. CASE Finish(p)
    BY <1>1, <1>3, FinishFacts DEF QuietLabel
  <1>4. ASSUME NEW S, Proceed(p, S)
        PROVE  OK
    BY <1>4, QuietOK, ProceedFacts DEF AssemblyOK, QuietLabel
  <1>5. CASE Request(p) \/ GetSession(p) \/ Report(p) \/ MarkChunkFailed(p) \/ MarkFailed(p)
    BY <1>2, <1>3, <1>5 DEF Request, GetSession, Report, MarkChunkFailed, MarkFailed, QuietLabel
  <1>6. CASE GetUploadedChunks(p) \/ Resume(p)
    BY <1>2, <1>3, <1>4, <1>6 DEF GetUploadedChunks, Resume, QuietLabel
  <1>7. CASE WriteBegin(p) \/ WriteEnd(p) \/ MarkChunkCompleted(p)
    BY <1>2, <1>7 DEF WriteBegin, WriteEnd, MarkChunkCompleted, QuietLabel
  <1>8. CASE MarkCompleted(p) \/ MarkCancelled(p)
    BY <1>2, <1>8 DEF MarkCompleted, MarkCancelled, QuietLabel
  <1>9. CASE Assemble(p)
    <2>1. pc[p] = "assemble" /\ pc'[p] = "read" /\ loc'[p] = loc[p]
      BY <1>9 DEF Assemble, At, Goto, TypeOK
    <2>2. loc'[p].next = 0
      BY <1>0, <2>1 DEF AssemblyOK
    <2>3. 0 < N /\ 0 .. 0 - 1 = {}
      BY ChunkUploadAssumption
    <2> QED BY <2>1, <2>2, <2>3 DEF AssemblyOK
  <1>10. CASE ReadChunk(p)
    <2> DEFINE k == loc[p].next
               w == loc[p].whole /\ disk[k] = "whole"
    <2>1. /\ pc[p] = "read" /\ received' = received
          /\ k < N /\ k \in Nat /\ (loc[p].whole => 0 .. k - 1 \subseteq received)
      BY <1>0, <1>10, ChunkUploadAssumption DEF ReadChunk, At, AssemblyOK
    <2>2. w => 0 .. k \subseteq received
      <3>1. k \in Chunk /\ 0 .. k = (0 .. k - 1) \cup {k}
        BY <2>1, ChunkUploadAssumption DEF Chunk
      <3> QED BY <2>1, <3>1 DEF PublishedWhole
    <2>3. CASE Goto(p, "abort")
      BY <1>2, <2>3 DEF QuietLabel
    <2>4. CASE /\ k + 1 < N \/ w
               /\ loc' = [loc EXCEPT ![p].next = k + 1, ![p].whole = w]
               /\ Goto(p, IF k + 1 < N THEN "read" ELSE "store")
      <3>1. /\ loc'[p].next = k + 1 /\ loc'[p].whole = w
            /\ pc'[p] = IF k + 1 < N THEN "read" ELSE "store"
        BY <1>0, <2>4 DEF Goto, TypeOK, Locals
      <3>2. (k + 1) - 1 = k
        BY <2>1
      <3>3. CASE k + 1 < N
        BY <2>1, <2>2, <3>1, <3>2, <3>3 DEF AssemblyOK
      <3>4. CASE ~(k + 1 < N)
        <4>1. w /\ 0 .. k = Chunk
          BY <2>1, <2>4, <3>4, ChunkUploadAssumption DEF Chunk
        <4>2. received' = Chunk
          BY <2>1, <2>2, <4>1 DEF TypeOK
        <4> QED BY <3>1, <3>4, <4>2 DEF AssemblyOK
      <3> QED BY <3>3, <3>4
    <2> QED BY <1>10, <2>3, <2>4 DEF ReadChunk
  <1>11. CASE StoreFile(p)
    <2>1. pc[p] = "store" /\ pc'[p] = "find" /\ received' = received /\ blobs' = blobs + 1
      BY <1>11 DEF StoreFile, At, Goto, TypeOK
    <2>2. blobs' > 0
      BY <2>1 DEF TypeOK
    <2> QED BY <1>0, <2>1, <2>2 DEF AssemblyOK
  <1>12. CASE FindByChecksum(p)
    BY <1>0, <1>12 DEF FindByChecksum, At, Goto, TypeOK, AssemblyOK
  <1>13. CASE CreateFile(p)
    <2>1. /\ pc[p] = "create" /\ pc'[p] = "sign" /\ received' = received
          /\ blobs' = blobs /\ files' = files + 1
      BY <1>13 DEF CreateFile, At, Goto, TypeOK
    <2>2. files' > 0
      BY <2>1 DEF TypeOK
    <2> QED BY <1>0, <2>1, <2>2 DEF AssemblyOK
  <1>14. CASE SignUrl(p)
    BY <1>0, <1>14 DEF SignUrl, At, Goto, TypeOK, AssemblyOK
  <1>15. CASE CleanupChunkFiles(p)
    BY <1>1, <1>3, <1>15 DEF CleanupChunkFiles, At, QuietLabel
  <1>16. CASE Fault(p)
    BY <1>1, <1>2, <1>3, <1>16 DEF Fault, QuietLabel
  <1> QED BY <1>5, <1>6, <1>7, <1>8, <1>9, <1>10, <1>11, <1>12, <1>13, <1>14, <1>15, <1>16
          DEF Handler

LEMMA AssemblyStep ==
  ASSUME TypeOK, TypeOK', Assembling, PublishedWhole, [Next]_vars
  PROVE  Assembling'
  <1>1. CASE UNCHANGED <<pc, loc>>
    BY <1>1, AssemblyKept DEF Assembling
  <1>2. ASSUME NEW p \in Proc, Request(p) \/ Handler(p) \/ Fault(p)
        PROVE  Assembling'
    BY <1>2, AssemblyKept, AssemblyMoves, OthersStay DEF Assembling
  <1>3. InitiateChunkUpload \/ GraceEnds \/ SessionExpires \/ UNCHANGED vars => UNCHANGED <<pc, loc>>
    BY DEF InitiateChunkUpload, GraceEnds, SessionExpires, vars
  <1> QED BY <1>1, <1>2, <1>3 DEF Next

-----------------------------------------------------------------------------
(* What is published *)

LEMMA PublishedStep ==
  ASSUME TypeOK, Assembling, PublishedWhole, [Next]_vars
  PROVE  PublishedWhole'
  <1> USE DEF redis, store, history, PublishedWhole
  <1>1. CASE UNCHANGED <<disk, files, received>>
    BY <1>1
  <1>2. ASSUME NEW p \in Proc, WriteBegin(p)
        PROVE  PublishedWhole'
    BY <1>2, LocalsOf DEF WriteBegin, TypeOK
  <1>3. ASSUME NEW p \in Proc, WriteEnd(p)
        PROVE  PublishedWhole'
    <2>1. received \subseteq received' /\ received' \subseteq Chunk
      BY <1>3, LocalsOf DEF WriteEnd, TypeOK
    <2>2. \A k \in Chunk : disk'[k] = "whole" => k \in received'
      BY <1>3, LocalsOf DEF WriteEnd, TypeOK
    <2>3. files' > 0 => received = Chunk
      BY <1>3 DEF WriteEnd
    <2> QED BY <2>1, <2>2, <2>3
  <1>4. ASSUME NEW p \in Proc, CreateFile(p)
        PROVE  PublishedWhole'
    <2>1. received = Chunk
      BY <1>4 DEF CreateFile, At, Assembling, AssemblyOK
    <2> QED BY <1>4, <2>1 DEF CreateFile
  <1>5. ASSUME NEW p \in Proc, CleanupChunkFiles(p)
        PROVE  PublishedWhole'
    <2>1. \A k \in Chunk : disk'[k] = "whole" => disk[k] = "whole"
      BY <1>5 DEF CleanupChunkFiles, TypeOK
    <2> QED BY <1>5, <2>1 DEF CleanupChunkFiles
  <1>6. ASSUME NEW p \in Proc,
               \/ Request(p) \/ Fault(p) \/ GetSession(p) \/ GetUploadedChunks(p) \/ Resume(p)
               \/ MarkChunkCompleted(p) \/ Report(p) \/ MarkChunkFailed(p)
        PROVE  UNCHANGED <<disk, files, received>>
    BY <1>6 DEF Request, Fault, GetSession, GetUploadedChunks, Resume, MarkChunkCompleted,
                Report, MarkChunkFailed
  <1>7. ASSUME NEW p \in Proc,
               \/ Assemble(p) \/ ReadChunk(p) \/ StoreFile(p) \/ FindByChecksum(p) \/ SignUrl(p)
               \/ MarkCompleted(p) \/ MarkFailed(p) \/ MarkCancelled(p)
        PROVE  UNCHANGED <<disk, files, received>>
    BY <1>7 DEF Assemble, ReadChunk, StoreFile, FindByChecksum, SignUrl, MarkCompleted,
                MarkFailed, MarkCancelled
  <1>8. InitiateChunkUpload \/ GraceEnds \/ SessionExpires \/ UNCHANGED vars =>
          UNCHANGED <<disk, files, received>>
    BY DEF InitiateChunkUpload, GraceEnds, SessionExpires, vars
  <1> QED BY <1>1, <1>2, <1>3, <1>4, <1>5, <1>6, <1>7, <1>8 DEF Next, Handler

LEMMA CompletedStep ==
  ASSUME TypeOK, TypeOK', Assembling, CompletedHasFile, [Next]_vars
  PROVE  CompletedHasFile'
  <1> USE DEF redis, store, history
  <1>0. files > 0 /\ blobs > 0 => files' > 0 /\ blobs' > 0
    BY Grows DEF TypeOK
  <1>1. CASE session'.status = session.status \/ session'.status # "completed"
    BY <1>0, <1>1 DEF CompletedHasFile
  <1>2. ASSUME NEW p \in Proc, MarkCompleted(p)
        PROVE  CompletedHasFile'
    <2>1. files > 0 /\ blobs > 0
      BY <1>2 DEF MarkCompleted, At, Assembling, AssemblyOK
    <2> QED BY <1>0, <2>1 DEF CompletedHasFile
  <1>3. ASSUME NEW p \in Proc,
               \/ Request(p) \/ Fault(p) \/ GetSession(p) \/ GetUploadedChunks(p)
               \/ WriteBegin(p) \/ WriteEnd(p) \/ Report(p) \/ ReadChunk(p) \/ StoreFile(p)
               \/ FindByChecksum(p) \/ CreateFile(p) \/ SignUrl(p) \/ CleanupChunkFiles(p)
        PROVE  session' = session
    BY <1>3 DEF Request, Fault, GetSession, GetUploadedChunks, WriteBegin, WriteEnd, Report,
                ReadChunk, StoreFile, FindByChecksum, CreateFile, SignUrl, CleanupChunkFiles
  <1>4. ASSUME NEW p \in Proc,
               \/ Resume(p) \/ MarkChunkCompleted(p) \/ Assemble(p) \/ MarkFailed(p)
               \/ MarkCancelled(p)
        PROVE  session'.status # "completed"
    BY <1>4 DEF Resume, MarkChunkCompleted, Completed, Assemble, MarkFailed, MarkCancelled,
                SetStatus
  <1>5. ASSUME NEW p \in Proc, MarkChunkFailed(p)
        PROVE  session'.status = session.status
    BY <1>5 DEF MarkChunkFailed, TypeOK, Session
  <1>6. InitiateChunkUpload => session'.status # "completed"
    BY DEF InitiateChunkUpload, SetStatus
  <1>7. GraceEnds \/ SessionExpires \/ UNCHANGED vars => session'.status = session.status
    BY DEF GraceEnds, SessionExpires, vars, TypeOK, Session
  <1> QED BY <1>1, <1>2, <1>3, <1>4, <1>5, <1>6, <1>7 DEF Next, Handler

LEMMA CountStep ==
  ASSUME TypeOK, CountIsExact, [Next]_vars
  PROVE  CountIsExact'
  <1> USE DEF redis, store, history, CountIsExact
  <1>1. CASE UNCHANGED <<uploaded, failed, progress>>
    BY <1>1
  <1>2. ASSUME NEW p \in Proc, MarkChunkCompleted(p) \/ MarkChunkFailed(p)
        PROVE  CountIsExact'
    BY <1>2 DEF MarkChunkCompleted, Completed, MarkChunkFailed
  <1>3. ASSUME NEW p \in Proc,
               \/ Request(p) \/ Fault(p) \/ GetSession(p) \/ GetUploadedChunks(p) \/ Resume(p)
               \/ WriteBegin(p) \/ WriteEnd(p) \/ Report(p) \/ Assemble(p) \/ ReadChunk(p)
        PROVE  UNCHANGED <<uploaded, failed, progress>>
    BY <1>3 DEF Request, Fault, GetSession, GetUploadedChunks, Resume, WriteBegin, WriteEnd,
                Report, Assemble, ReadChunk
  <1>4. ASSUME NEW p \in Proc,
               \/ StoreFile(p) \/ FindByChecksum(p) \/ CreateFile(p) \/ SignUrl(p)
               \/ MarkCompleted(p) \/ MarkFailed(p) \/ MarkCancelled(p) \/ CleanupChunkFiles(p)
        PROVE  UNCHANGED <<uploaded, failed, progress>>
    BY <1>4 DEF StoreFile, FindByChecksum, CreateFile, SignUrl, MarkCompleted, MarkFailed,
                MarkCancelled, CleanupChunkFiles
  <1>5. InitiateChunkUpload \/ GraceEnds \/ SessionExpires \/ UNCHANGED vars =>
          UNCHANGED <<uploaded, failed, progress>>
    BY DEF InitiateChunkUpload, GraceEnds, SessionExpires, vars
  <1> QED BY <1>1, <1>2, <1>3, <1>4, <1>5 DEF Next, Handler

-----------------------------------------------------------------------------
(* The chunk files *)

(* A chunk is whole, being written, or lost to a write that failed. *)
Kept(k) == disk[k] = "whole" \/ Writing(k) # {} \/ k \in torn

\* Who else is writing chunk k when p takes a step that does not begin or end
\* a write.
LEMMA WritingSame ==
  ASSUME TypeOK, NEW k \in Chunk, NEW p \in Proc,
         \A q \in Proc \ {p} : pc'[q] = pc[q] /\ loc'[q] = loc[q],
         pc[p] # "wrote"
  PROVE  Writing(k) # {} => Writing(k)' # {}
  BY DEF Writing

(* A chunk that is kept stays so, one on disk is not unlinked, and the       *)
(* request that takes the step is where StorageOK says, until the files are *)
(* cleaned up.                                                              *)
LEMMA StorageMoves ==
  ASSUME TypeOK, TypeOK', Storing, ~cleaned',
         NEW p \in Proc, Request(p) \/ Handler(p) \/ Fault(p)
  PROVE  /\ ~cleaned
         /\ \A k \in Chunk : Kept(k) => Kept(k)'
         /\ \A k \in Chunk : disk[k] # "absent" => disk'[k] # "absent"
         /\ StorageOK(pc[p], loc[p])'
  <1> DEFINE c == loc[p].chunk
             Concl == /\ ~cleaned
                      /\ \A k \in Chunk : Kept(k) => Kept(k)'
                      /\ \A k \in Chunk : disk[k] # "absent" => disk'[k] # "absent"
                      /\ StorageOK(pc[p], loc[p])'
  <1> USE DEF redis, store, history
  <1>0. \A q \in Proc \ {p} : pc'[q] = pc[q] /\ loc'[q] = loc[q]
    BY OthersStay
  <1>1. ASSUME ~cleaned, UNCHANGED <<disk, torn>>, pc[p] # "wrote", pc'[p] \notin {"wrote", "mark"}
        PROVE  Concl
    <2>1. \A k \in Chunk : Writing(k) # {} => Writing(k)' # {}
      BY <1>0, <1>1, WritingSame
    <2> QED BY <1>1, <2>1 DEF Kept, StorageOK
  <1>2. CASE WriteBegin(p)
    <2>1. /\ ~cleaned /\ torn' = torn /\ c \in Chunk /\ loc' = loc
          /\ disk' = [disk EXCEPT ![c] = "partial"]
          /\ pc[p] = "write" /\ pc'[p] = "wrote"
      BY <1>2, LocalsOf DEF WriteBegin, At, Goto, TypeOK
    <2>2. p \in Writing(c)'
      BY <2>1 DEF Writing
    <2>3. \A k \in Chunk : Writing(k) # {} => Writing(k)' # {}
      BY <1>0, <2>1, WritingSame
    <2>4. \A k \in Chunk \ {c} : disk'[k] = disk[k]
      BY <2>1 DEF TypeOK
    <2>5. disk'[c] = "partial"
      BY <2>1 DEF TypeOK
    <2>6. \A k \in Chunk : Kept(k) => Kept(k)'
      BY <2>1, <2>2, <2>3, <2>4 DEF Kept
    <2> QED BY <2>1, <2>4, <2>5, <2>6 DEF StorageOK
  <1>3. CASE WriteEnd(p)
    <2>1. /\ ~cleaned /\ c \in Chunk /\ loc' = loc /\ pc[p] = "wrote" /\ pc'[p] = "mark"
      BY <1>3, LocalsOf DEF WriteEnd, At, Goto, TypeOK
    <2>2. disk[c] # "absent"
      BY <2>1 DEF Storing, StorageOK
    <2>3. \A k \in Chunk \ {c} : disk'[k] = disk[k] /\ (k \in torn => k \in torn')
      BY <1>3, <2>1 DEF WriteEnd, TypeOK
    <2>4. \A k \in Chunk \ {c} : Writing(k) # {} => Writing(k)' # {}
      BY <1>0, <2>1 DEF Writing
    <2>5. disk'[c] # "absent" /\ (disk'[c] = "whole" \/ Writing(c)' # {})
      <3>1. CASE disk' = [disk EXCEPT ![c] = "whole"]
        BY <2>1, <3>1 DEF TypeOK
      <3>2. CASE disk' = [disk EXCEPT ![c] = "partial"] /\ Writing(c) # {p}
        <4>1. p \in Writing(c)
          BY <2>1 DEF Writing
        <4>2. PICK q \in Writing(c) : q # p
          BY <3>2, <4>1
        <4>3. q \in Writing(c)'
          BY <1>0, <2>1, <4>2 DEF Writing
        <4> QED BY <2>1, <3>2, <4>3 DEF TypeOK
      <3> QED BY <1>3, <2>2, <3>1, <3>2 DEF WriteEnd
    <2>6. \A k \in Chunk : Kept(k) => Kept(k)'
      BY <2>1, <2>3, <2>4, <2>5 DEF Kept, Writing
    <2>7. StorageOK(pc[p], loc[p])'
      BY <2>1, <2>5 DEF StorageOK
    <2> QED BY <2>1, <2>3, <2>5, <2>6, <2>7
  <1>4. CASE Fault(p)
    <2>1. ~cleaned /\ disk' = disk /\ pc[p] # "clean"
      BY <1>4 DEF Fault, Storing
    <2>2. CASE pc[p] = "wrote"
      <3>1. c \in Chunk /\ torn' = torn \cup {c} /\ pc'[p] = "fail"
        BY <1>4, <2>2, LocalsOf DEF Fault, Goto, TypeOK
      <3>2. \A k \in Chunk \ {c} : Writing(k) # {} => Writing(k)' # {}
        BY <1>0, <2>2 DEF Writing
      <3> QED BY <2>1, <3>1, <3>2 DEF Kept, StorageOK
    <2>3. CASE pc[p] # "wrote"
      <3>1. torn' = torn /\ pc'[p] \in {"idle", "fail", "abort"}
        BY <1>4, <2>1, <2>3 DEF Fault, Goto, Finish, TypeOK
      <3> QED BY <1>1, <2>1, <2>3, <3>1
    <2> QED BY <2>2, <2>3
  <1>5. CASE MarkCompleted(p) \/ MarkCancelled(p) \/ CleanupChunkFiles(p)
    BY <1>5 DEF MarkCompleted, MarkCancelled, CleanupChunkFiles, Storing, At
  <1>6. CASE GetUploadedChunks(p) \/ Resume(p)
    <2>1. pc'[p] \in {"write", "assemble", "cancel", "idle", "resume"}
      BY <1>6, ProceedFacts, FinishFacts DEF GetUploadedChunks, Resume, Goto, TypeOK
    <2> QED BY <1>1, <1>6, <2>1 DEF GetUploadedChunks, Resume, At
  <1>7. CASE Request(p) \/ GetSession(p) \/ MarkChunkCompleted(p) \/ Report(p) \/ MarkChunkFailed(p)
    <2>1. pc'[p] \in {"get", "members", "report", "idle"}
      BY <1>7 DEF Request, GetSession, MarkChunkCompleted, Report, MarkChunkFailed, Goto, Finish,
                  TypeOK
    <2> QED BY <1>1, <1>7, <2>1
            DEF Request, GetSession, MarkChunkCompleted, Report, MarkChunkFailed, At
  <1>8. CASE \/ Assemble(p) \/ ReadChunk(p) \/ StoreFile(p) \/ FindByChecksum(p)
             \/ CreateFile(p) \/ SignUrl(p) \/ MarkFailed(p)
    <2>1. pc'[p] \in {"read", "store", "abort", "find", "create", "sign", "done", "idle"}
      BY <1>8 DEF Assemble, ReadChunk, StoreFile, FindByChecksum, CreateFile, SignUrl, MarkFailed,
                  Goto, Finish, TypeOK
    <2> QED BY <1>1, <1>8, <2>1 DEF Assemble, ReadChunk, StoreFile, FindByChecksum, CreateFile,
                                    SignUrl, MarkFailed, At
  <1> QED BY <1>2, <1>3, <1>4, <1>5, <1>6, <1>7, <1>8 DEF Handler

(* A cleanup that has begun is not forgotten, and runs only once begun.     *)
LEMMA CleanStep ==
  ASSUME TypeOK, Storing, [Next]_vars
  PROVE  /\ cleaned => cleaned'
         /\ \A p \in Proc : pc'[p] = "clean" => cleaned'
  <1> USE DEF history
  <1>0. \A p \in Proc : pc[p] = "clean" => cleaned
    BY DEF Storing
  <1>1. CASE UNCHANGED <<pc, cleaned>>
    BY <1>0, <1>1
  <1>2. ASSUME NEW p \in Proc, Request(p) \/ Handler(p) \/ Fault(p)
        PROVE  /\ cleaned => cleaned'
               /\ pc'[p] = "clean" => cleaned'
    <2>1. CASE MarkCompleted(p) \/ MarkCancelled(p)
      BY <2>1 DEF MarkCompleted, MarkCancelled
    <2>2. CASE CleanupChunkFiles(p)
      BY <1>0, <2>2 DEF CleanupChunkFiles, At
    <2>3. CASE Fault(p)
      BY <1>0, <2>3 DEF Fault, Goto, Finish, TypeOK
    <2>4. CASE Request(p) \/ GetSession(p) \/ GetUploadedChunks(p) \/ Resume(p)
      <3>1. pc'[p] # "clean"
        BY <2>4, ProceedFacts, FinishFacts
           DEF Request, GetSession, GetUploadedChunks, Resume, Goto, TypeOK
      <3>2. Request(p) \/ GetSession(p) => cleaned' = cleaned
        BY DEF Request, GetSession
      <3>3. GetUploadedChunks(p) \/ Resume(p) => cleaned' = cleaned
        BY DEF GetUploadedChunks, Resume
      <3> QED BY <2>4, <3>1, <3>2, <3>3
    <2>5. CASE WriteBegin(p) \/ WriteEnd(p) \/ MarkChunkCompleted(p) \/ Report(p) \/ MarkChunkFailed(p)
      BY <2>5 DEF WriteBegin, WriteEnd, MarkChunkCompleted, Report, MarkChunkFailed, Goto, Finish,
                  TypeOK
    <2>6. CASE \/ Assemble(p) \/ ReadChunk(p) \/ StoreFile(p) \/ FindByChecksum(p)
               \/ CreateFile(p) \/ SignUrl(p) \/ MarkFailed(p)
      BY <2>6 DEF Assemble, ReadChunk, StoreFile, FindByChecksum, CreateFile, SignUrl, MarkFailed,
                  Goto, Finish, TypeOK
    <2> QED BY <1>2, <2>1, <2>2, <2>3, <2>4, <2>5, <2>6 DEF Handler
  <1>3. InitiateChunkUpload \/ GraceEnds \/ SessionExpires \/ UNCHANGED vars =>
          UNCHANGED <<pc, cleaned>>
    BY DEF InitiateChunkUpload, GraceEnds, SessionExpires, vars
  <1> QED BY <1>0, <1>1, <1>2, <1>3, OthersStay DEF Next

(* Only the chunk a request marks becomes uploaded. *)
LEMMA UploadedStep ==
  ASSUME TypeOK, NEW p \in Proc, Request(p) \/ Handler(p) \/ Fault(p), NEW k \in uploaded'
  PROVE  k \in uploaded \/ (pc[p] = "mark" /\ k = loc[p].chunk)
  <1> USE DEF redis
  <1>1. CASE MarkChunkCompleted(p)
    BY <1>1 DEF MarkChunkCompleted, Completed, At
  <1>2. CASE MarkChunkFailed(p)
    BY <1>2 DEF MarkChunkFailed
  <1>3. CASE \/ Request(p) \/ Fault(p) \/ GetSession(p) \/ GetUploadedChunks(p) \/ Resume(p)
             \/ WriteBegin(p) \/ WriteEnd(p) \/ Report(p) \/ Assemble(p) \/ ReadChunk(p)
    BY <1>3 DEF Request, Fault, GetSession, GetUploadedChunks, Resume, WriteBegin, WriteEnd,
                Report, Assemble, ReadChunk
  <1>4. CASE \/ StoreFile(p) \/ FindByChecksum(p) \/ CreateFile(p) \/ SignUrl(p)
             \/ MarkCompleted(p) \/ MarkFailed(p) \/ MarkCancelled(p) \/ CleanupChunkFiles(p)
    BY <1>4 DEF StoreFile, FindByChecksum, CreateFile, SignUrl, MarkCompleted, MarkFailed,
                MarkCancelled, CleanupChunkFiles
  <1> QED BY <1>1, <1>2, <1>3, <1>4 DEF Handler

LEMMA StorageStep ==
  ASSUME TypeOK, TypeOK', Storing, UploadedIsStored, [Next]_vars
  PROVE  Storing' /\ UploadedIsStored'
  <1>1. \A p \in Proc : pc'[p] = "clean" => cleaned'
    BY CleanStep
  <1>2. SUFFICES ASSUME ~cleaned'
                 PROVE  /\ \A p \in Proc : StorageOK(pc[p], loc[p])'
                        /\ \A k \in uploaded' : Kept(k)'
    BY <1>1 DEF Storing, UploadedIsStored, Kept
  <1>3. /\ ~cleaned
        /\ \A q \in Proc : StorageOK(pc[q], loc[q])
        /\ \A k \in uploaded : Kept(k)
    BY <1>2, CleanStep DEF Storing, UploadedIsStored, Kept
  <1>4. CASE UNCHANGED <<disk, uploaded, torn, pc, loc>>
    BY <1>3, <1>4 DEF StorageOK, Kept, Writing
  <1>5. ASSUME NEW p \in Proc, Request(p) \/ Handler(p) \/ Fault(p)
        PROVE  /\ \A q \in Proc : StorageOK(pc[q], loc[q])'
               /\ \A k \in uploaded' : Kept(k)'
    <2>1. /\ \A k \in Chunk : Kept(k) => Kept(k)'
          /\ \A k \in Chunk : disk[k] # "absent" => disk'[k] # "absent"
          /\ StorageOK(pc[p], loc[p])'
      BY <1>2, <1>5, StorageMoves
    <2>2. ASSUME NEW q \in Proc \ {p}
          PROVE  StorageOK(pc[q], loc[q])'
      <3>1. pc'[q] = pc[q] /\ loc'[q] = loc[q] /\ loc[q].chunk \in Chunk
        BY <1>5, <2>2, OthersStay, LocalsOf
      <3>2. StorageOK(pc[q], loc[q])
        BY <1>3
      <3> QED BY <2>1, <3>1, <3>2 DEF StorageOK, Kept, Writing
    <2>3. ASSUME NEW k \in uploaded'
          PROVE  Kept(k)'
      <3>1. k \in Chunk
        BY <2>3 DEF TypeOK
      <3>2. CASE k \in uploaded
        BY <1>3, <2>1, <3>1, <3>2
      <3>3. CASE pc[p] = "mark" /\ k = loc[p].chunk
        BY <1>3, <2>1, <3>1, <3>3 DEF StorageOK, Kept
      <3> QED BY <1>5, <3>2, <3>3, UploadedStep
    <2> QED BY <2>1, <2>2, <2>3
  <1>6. InitiateChunkUpload \/ GraceEnds \/ SessionExpires \/ UNCHANGED vars =>
          UNCHANGED <<disk, uploaded, torn, pc, loc>>
    BY DEF InitiateChunkUpload, GraceEnds, SessionExpires, vars, store, redis, history
  <1> QED BY <1>4, <1>5, <1>6 DEF Next

-----------------------------------------------------------------------------
(* The theorems *)

LEMMA InitIInv == Init => IInv
  <1> SUFFICES ASSUME Init PROVE IInv
    OBVIOUS
  <1>1. TypeOK
    <2>1. session \in Session
      BY DEF Init, Session, Status
    <2>2. pc \in [Proc -> Label] /\ loc \in [Proc -> Locals]
      BY NoLocalsType DEF Init, Label
    <2>3. progress \in 0 .. N /\ requests \in 0 .. MaxRequests /\ faults \in 0 .. MaxFaults
      BY ChunkUploadAssumption DEF Init
    <2> QED BY <2>1, <2>2, <2>3 DEF Init, TypeOK
  <1>2. Assembling
    BY QuietOK DEF Init, Assembling, QuietLabel
  <1>3. PublishedWhole /\ CompletedHasFile /\ Storing /\ UploadedIsStored
    BY DEF Init, PublishedWhole, CompletedHasFile, Storing, StorageOK, UploadedIsStored
  <1>4. CountIsExact
    BY FS_EmptySet DEF Init, CountIsExact
  <1> QED BY <1>1, <1>2, <1>3, <1>4 DEF IInv

LEMMA NextIInv == IInv /\ [Next]_vars => IInv'
  <1> SUFFICES ASSUME IInv, [Next]_vars PROVE IInv'
    OBVIOUS
  <1>1. TypeOK'
    BY TypeStep DEF IInv
  <1>2. Assembling' /\ PublishedWhole' /\ CompletedHasFile'
    BY <1>1, AssemblyStep, PublishedStep, CompletedStep DEF IInv
  <1>3. Storing' /\ UploadedIsStored'
    BY <1>1, StorageStep DEF IInv
  <1>4. CountIsExact'
    BY CountStep DEF IInv
  <1> QED BY <1>1, <1>2, <1>3, <1>4 DEF IInv

LEMMA Inductive == Spec => []IInv
  BY InitIInv, NextIInv, PTL DEF Spec

(* The session, the storage and the requests in flight are well typed in     *)
(* every reachable state.                                                   *)
THEOREM TypeCorrect == Spec => []TypeOK
  <1>1. IInv => TypeOK
    BY DEF IInv
  <1> QED BY <1>1, Inductive, PTL

(* Until the cleanup, a chunk counted as uploaded is stored in full or being *)
(* rewritten, for any number of chunks and of requests for the same one.    *)
THEOREM UploadedAreStored == Spec => []UploadedIsStored
  <1>1. IInv => UploadedIsStored
    BY DEF IInv
  <1> QED BY <1>1, Inductive, PTL

(* markChunkCompleted and markChunkFailed agree on the count whatever their  *)
(* order.                                                                   *)
THEOREM CountsAreExact == Spec => []CountIsExact
  <1>1. IInv => CountIsExact
    BY DEF IInv
  <1> QED BY <1>1, Inductive, PTL

(* completeChunkUpload says completed only once there is a document.         *)
THEOREM CompletedHaveFiles == Spec => []CompletedHasFile
  <1>1. IInv => CompletedHasFile
    BY DEF IInv
  <1> QED BY <1>1, Inductive, PTL

(* The upload implements Publication: whatever requests overlap and whichever *)
(* commands fail, a file is published only when each of its chunks has been  *)
(* stored in full.                                                          *)
THEOREM ImplementsPublication == Spec => PublishesWholeFiles
  <1>1. Init => Promise!Init
    BY DEF Init, Promise!Init
  <1>2. IInv /\ IInv' /\ [Next]_vars => [Promise!Next]_<<received, files > 0>>
    <2> SUFFICES ASSUME IInv, IInv', [Next]_vars
                 PROVE  [Promise!Next]_<<received, files > 0>>
      OBVIOUS
    <2> USE DEF redis, store, history
    <2>1. CASE UNCHANGED <<received, files>>
      BY <2>1
    <2>2. ASSUME NEW p \in Proc, WriteEnd(p)
          PROVE  [Promise!Next]_<<received, files > 0>>
      <3>1. loc[p].chunk \in Chunk
        BY <2>2, LocalsOf DEF IInv
      <3>2. UNCHANGED files /\ (UNCHANGED received \/ received' = received \cup {loc[p].chunk})
        BY <2>2 DEF WriteEnd
      <3> QED BY <3>1, <3>2 DEF Promise!Next, Promise!Receive
    <2>3. ASSUME NEW p \in Proc, CreateFile(p)
          PROVE  [Promise!Next]_<<received, files > 0>>
      <3>1. received = Chunk /\ received' = received
        BY <2>3 DEF CreateFile, At, IInv, Assembling, AssemblyOK
      <3>2. files' > 0
        BY <2>3 DEF CreateFile, IInv, TypeOK
      <3> QED BY <3>1, <3>2 DEF Promise!Next, Promise!Publish
    <2>4. ASSUME NEW p \in Proc,
                 \/ Request(p) \/ Fault(p) \/ GetSession(p) \/ GetUploadedChunks(p) \/ Resume(p)
                 \/ WriteBegin(p) \/ MarkChunkCompleted(p) \/ Report(p) \/ MarkChunkFailed(p)
          PROVE  UNCHANGED <<received, files>>
      BY <2>4 DEF Request, Fault, GetSession, GetUploadedChunks, Resume, WriteBegin,
                  MarkChunkCompleted, Report, MarkChunkFailed
    <2>5. ASSUME NEW p \in Proc,
                 \/ Assemble(p) \/ ReadChunk(p) \/ StoreFile(p) \/ FindByChecksum(p) \/ SignUrl(p)
                 \/ MarkCompleted(p) \/ MarkFailed(p) \/ MarkCancelled(p) \/ CleanupChunkFiles(p)
          PROVE  UNCHANGED <<received, files>>
      BY <2>5 DEF Assemble, ReadChunk, StoreFile, FindByChecksum, SignUrl, MarkCompleted,
                  MarkFailed, MarkCancelled, CleanupChunkFiles
    <2>6. InitiateChunkUpload \/ GraceEnds \/ SessionExpires \/ UNCHANGED vars =>
            UNCHANGED <<received, files>>
      BY DEF InitiateChunkUpload, GraceEnds, SessionExpires, vars
    <2> QED BY <2>1, <2>2, <2>3, <2>4, <2>5, <2>6 DEF Next, Handler
  <1> QED BY <1>1, <1>2, Inductive, PTL DEF Spec, PublishesWholeFiles, Promise!Spec

=============================================================================
