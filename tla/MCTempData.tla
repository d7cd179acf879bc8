----------------------------- MODULE MCTempData ------------------------------
(* Tokens, addresses and requests are interchangeable. *)
EXTENDS TempData, TLC

Symmetry == Permutations(Token) \cup Permutations(IP) \cup Permutations(Request)
=============================================================================
