--------------------------- MODULE MCConversations ---------------------------
(* Conversations on a small instance: empty collections, or a direct         *)
(* conversation beside a group of both its participants: the group at its    *)
(* limit, with one place left, or with two admins whose owner has left.      *)
EXTENDS Conversations, TLC

CONSTANTS u1, u2, u3, u4

Doc(type)  == [type |-> type, isActive |-> type # "none", editor |-> NoUser]
In(role)   == [role |-> role, active |-> TRUE]
Left(role) == [role |-> role, active |-> FALSE]

NoConversations == [conv |-> [c \in Conv |-> Doc("none")],
                    part |-> [c \in Conv |-> [u \in User |-> NoDoc]]]

GroupAndPair(d1, d2, d3, d4) ==
  LET group == (u1 :> d1) @@ (u2 :> d2) @@ (u3 :> d3) @@ (u4 :> d4)
      pair  == (u1 :> In("admin")) @@ (u2 :> NoDoc) @@ (u3 :> In("member")) @@ (u4 :> NoDoc)
      docs  == <<group, pair>>
      types == <<"group", "direct">>
  IN [conv |-> [c \in Conv |-> IF c <= 2 THEN Doc(types[c]) ELSE Doc("none")],
      part |-> [c \in Conv |-> IF c <= 2 THEN docs[c] ELSE [u \in User |-> NoDoc]]]

MCStarts == {
  NoConversations,
  GroupAndPair(In("owner"), In("admin"), In("member"), Left("member")),
  GroupAndPair(In("owner"), Left("admin"), In("member"), NoDoc),
  GroupAndPair(In("admin"), In("member"), In("admin"), Left("owner"))}

Symmetry == Permutations(Handler)
=============================================================================
