-------------------------------- MODULE Calls --------------------------------
(***************************************************************************)
(* Both call paths over one store.  A client may start a call with a       *)
(* socket event and end it with an HTTP request, or the other way round:   *)
(* each path has its own timers and does not know the other's.  A slot     *)
(* serves one path at a time, and the failures of its commands are handled *)
(* the way that path handles them.                                         *)
(***************************************************************************)
EXTENDS CallLifecycle, CallSignaling

vars == <<store, lifecycleVars, signalingVars>>

(* Type correctness of the store and of both paths. *)
TypeOK == StoreTypeOK /\ LifecycleTypeOK /\ SignalingTypeOK

Init == StoreInit /\ LifecycleInit /\ SignalingInit

\* A callId is generated once: no path takes one the other has given up.
RestStep(p) ==
  /\ \/ Client(p) \/ Clock(p) \/ Handler(p)
     \/ loc[p].op \in RestOp /\ (Fault(p) \/ SilentFault(p))
  /\ pc'[p] = "i_save" => loc'[p].call \notin abandoned
  /\ UNCHANGED signalingVars

SocketStep(p) ==
  /\ \/ SocketClient(p) \/ SocketHandler(p)
     \/ \E c \in Call : RingTimeout(p, c)
     \/ loc[p].op \in SocketOp /\ StorageError(p)
  /\ pc'[p] = "si_save" => loc'[p].call \notin closing
  /\ UNCHANGED lifecycleVars

SharedStep(p) == StoreStep(p) /\ UNCHANGED <<lifecycleVars, signalingVars>>

Next == \E p \in Proc : RestStep(p) \/ SocketStep(p) \/ SharedStep(p)

Spec == Init /\ [][Next]_vars

\* A suspended handler is resumed when its command returns, whatever it serves.
Resume(p) ==
  \/ Handler(p) /\ RestStep(p)
  \/ SocketHandler(p) /\ SocketStep(p)
  \/ SharedStep(p)

(* The event loop resumes every handler whose command has returned and runs *)
(* every timer that has come due.                                           *)
Fairness ==
  /\ \A p \in Proc : WF_vars(Resume(p))
  /\ \A c \in Call :
       /\ WF_vars(\E p \in Proc : RingingTimeout(p, c) /\ UNCHANGED signalingVars)
       /\ WF_vars(\E p \in Proc : ConnectingTimeout(p, c) /\ UNCHANGED signalingVars)
       /\ WF_vars(\E p \in Proc : RingTimeout(p, c) /\ UNCHANGED lifecycleVars)

FairSpec == Spec /\ Fairness

-----------------------------------------------------------------------------
(* No call rings unattended, whichever path created it and whichever path  *)
(* touches it: one of the two kinds of timer is scheduled, or a handler    *)
(* that arms one or ends the call is in flight, unless somebody began to   *)
(* end it, or a disconnect or a failing command took its timer.            *)
EveryRingIsWatched ==
  \A c \in Call :
    /\ record[c].status \in {"initiating", "ringing"}
    /\ c \notin closing \cup abandoned
    => \/ Timed(c)
       \/ c \in callTimer
       \/ \E p \in Proc : loc[p].call = c /\ (Driving(p) \/ Ringing(p))

(* "Set call timeout to auto-cancel if not answered": no call rings or      *)
(* connects for ever, whichever paths act on it and whichever command fails *)
(* between the clearing of one timer and the arming of the next; sooner or  *)
(* later it is established, somebody has begun to end it, or its handler on *)
(* the socket path failed or a disconnect took its timer.  What happens to  *)
(* a call after somebody began to end it, the revival of an ended call by   *)
(* an accept under way among it, is not promised.                           *)
EveryCallSettles ==
  \A c \in Call :
    record[c].status \in {"initiating", "ringing", "connecting"} ~>
      \/ record[c].status \notin {"initiating", "ringing", "connecting"}
      \/ c \in closing \cup abandoned
=============================================================================
