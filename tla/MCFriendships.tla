--------------------------- MODULE MCFriendships ----------------------------
(* Requests are interchangeable; users are not, their ids are ordered. *)
EXTENDS Friendships, TLC

Symmetry == Permutations(Request)
=============================================================================
