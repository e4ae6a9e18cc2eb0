----------------------------- MODULE Acquaintance -----------------------------
(***************************************************************************)
(* What FriendsService promises two users: their relation is one thing, it *)
(* changes at once for both, and only in the ways listed here.  Lose and   *)
(* Clash are the cases in which it promises nothing.                       *)
(*                                                                         *)
(* view[u] is what getFriendStatus answers to u while no request is between *)
(* two writes.  Friendship, which keeps two documents and writes them one  *)
(* after the other, implements it.                                         *)
(***************************************************************************)
CONSTANT User  \* the two users

VARIABLES
  view,     \* the relation, as each of them sees it
  friends   \* the block that lasts came between friends

All(status) == [u \in User |-> status]

None    == All("NONE")
Friends == All("FRIENDS")
Blocked == All("BLOCKED")
Unknown == All("UNKNOWN")  \* requests whose writes mix, or that fail half-way, promise nothing
Clashed == All("CLASHED")  \* an import has met a document it could not make its own

\* u has asked, and the other may answer.
Asked(u) == [v \in User |-> IF v = u THEN "PENDING_OUTGOING" ELSE "PENDING_INCOMING"]

Init == view = None /\ friends = FALSE

Becomes(relation) == view' = relation /\ UNCHANGED friends

Ask(u) == view = None /\ Becomes(Asked(u))

\* The other accepts or declines; a request that crosses u's is an acceptance.
Accept(u)  == view = Asked(u) /\ Becomes(Friends)
Decline(u) == view = Asked(u) /\ Becomes(None)

Remove == view = Friends /\ Becomes(None)

\* A contact of an address book becomes a friend unasked, but not past a block.
Import == view \notin {Friends, Blocked, Unknown, Clashed} /\ Becomes(Friends)

\* An import of someone who has asked already, was declined or blocked, or has himself declined
\* or blocked, may leave half a friendship, or none; nothing more is said of the two.  Friends
\* never come to that.
Clash == view \notin {Friends, Unknown} /\ view' = Clashed /\ friends' = FALSE

Block ==
  /\ view \notin {Blocked, Unknown, Clashed}
  /\ view' = Blocked /\ friends' = (view = Friends)

\* Unblocking gives back what there was: a friendship, or nothing.
Unblock ==
  /\ view = Blocked
  /\ view' = IF friends THEN Friends ELSE None
  /\ friends' = FALSE

Lose == view' = Unknown /\ friends' = FALSE

Next ==
  \/ \E u \in User : Ask(u) \/ Accept(u) \/ Decline(u)
  \/ Remove \/ Import \/ Clash \/ Block \/ Unblock \/ Lose

Spec == Init /\ [][Next]_<<view, friends>>
=============================================================================
