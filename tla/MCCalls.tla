------------------------------- MODULE MCCalls -------------------------------
(***************************************************************************)
(* Both call paths together on a small instance under the fairness of      *)
(* Calls.  The instance is cut where Calls is symmetric and where it is     *)
(* unbounded, never inside a handler: any one request, event, failure or    *)
(* timer still interleaves with any other at every await.                   *)
(***************************************************************************)
EXTENDS Calls

CONSTANT MaxInputs  \* bound: requests, events and failing commands in a run

\* Slots are alike: a handler takes the first free one.
FirstFree(p) ==
  pc[p] = "idle" => p = CHOOSE q \in {r \in Proc : pc[r] = "idle"} : TRUE

\* Users are alike: the first request or event is the first user's.
FirstUser(p) ==
  requests + events = 0 => loc'[p].user = CHOOSE u \in User : TRUE

(* Bound: at most MaxInputs in all, and a second event only where no HTTP   *)
(* request was sent.  Two HTTP requests, which take a call to connecting,   *)
(* still meet an event or a failing command.                                *)
FewInputs ==
  /\ requests + events + disconnects + faults + errors <= MaxInputs
  /\ events > 1 => requests = 0

\* Bound: when every member of Call is taken, a request for a further call is
\* dropped, where the code would generate the next callId.
OutOfCalls(p) ==
  /\ pc[p] \in {"i_peer", "si_peer"}
  /\ \A c \in Call : \/ record[c] # NoRecord
                     \/ c \in closing \cup abandoned
                     \/ \E q \in Proc : loc[q].call = c
  /\ Finish(p)
  /\ UNCHANGED <<record, keys, lifecycleVars, signalingVars>>

MCNext ==
  \E p \in Proc :
    /\ FirstFree(p)
    /\ RestStep(p) \/ SocketStep(p) \/ SharedStep(p) \/ OutOfCalls(p)
    /\ FirstUser(p)
    /\ FewInputs'

MCSpec == /\ Init /\ [][MCNext]_vars
          /\ Fairness /\ WF_vars(\E p \in Proc : OutOfCalls(p))
=============================================================================
