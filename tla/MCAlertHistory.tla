-------------------------- MODULE MCAlertHistory --------------------------
(* TLC instances of AlertHistory: emissions are interchangeable.           *)
EXTENDS AlertHistory, TLC

EmitterSymmetry == Permutations(Emitter)
=============================================================================
