---------------------------- MODULE MCUserStore ----------------------------
(* TLC instances of UserStore: requests are interchangeable.               *)
EXTENDS UserStore, TLC

RequestSymmetry == Permutations(Request)
=============================================================================
