-------------------------- MODULE MCAlertScheduler --------------------------
(* TLC instances of AlertScheduler: goroutines are interchangeable.        *)
EXTENDS AlertScheduler, TLC

SlotSymmetry == Permutations(Slot)
=============================================================================
