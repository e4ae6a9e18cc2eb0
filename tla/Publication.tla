----------------------------- MODULE Publication -----------------------------
(***************************************************************************)
(* What a chunked upload promises: the chunks of a file arrive in any      *)
(* order, and the file is published only when every one of them has        *)
(* arrived in full.  A published file stays published.                     *)
(***************************************************************************)
CONSTANT Chunk

VARIABLES received, published

Init == received = {} /\ published = FALSE

Receive(k) == /\ received' = received \cup {k}
              /\ UNCHANGED published

Publish == /\ received = Chunk
           /\ published' = TRUE
           /\ UNCHANGED received

Next == Publish \/ \E k \in Chunk : Receive(k)

Spec == Init /\ [][Next]_<<received, published>>
=============================================================================
