--------------------------- MODULE MCCallLifecycle ---------------------------
(* The REST call path on small instances. *)
EXTENDS CallLifecycle, TLC

\* No action tells two handler slots, two users or two calls apart.
Symmetric == Permutations(Proc) \cup Permutations(User) \cup Permutations(Call)
=============================================================================
