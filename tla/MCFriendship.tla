---------------------------- MODULE MCFriendship ----------------------------
(* Two users and two requests at a time: users and handlers are             *)
(* interchangeable.                                                         *)
EXTENDS Friendship, TLC

Symmetry == Permutations(Handler)
=============================================================================
