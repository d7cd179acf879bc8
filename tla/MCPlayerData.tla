---------------------------- MODULE MCPlayerData ----------------------------
(* Values for the constants of PlayerData. *)
EXTENDS PlayerData, TLC

CONSTANTS b0, b1, b2

\* Three bodies: a new account that has played nothing, a play of every song,
\* and a later play of one of them.
OneSong == CHOOSE s \in Song : TRUE
MCScores == [b \in Body |-> [s \in Song |->
  CASE b = b0 -> 0
    [] b = b1 -> 1
    [] b = b2 -> IF s = OneSong THEN 2 ELSE 0]]
MCSlots == [b \in Body |-> CASE b = b0 -> {} [] b = b1 -> Song [] b = b2 -> {OneSong}]
MCRating == [b \in Body |-> CASE b = b0 -> 0 [] b = b1 -> 1 [] b = b2 -> 2]
MCLastPlayed == [b \in Body |-> IF b = b2 THEN MaxVersion ELSE 1]

Symmetry == Permutations(Request) \cup Permutations(User)
=============================================================================
