--------------------------- MODULE MCAlertStorage ---------------------------
(* TLC instances of AlertStorage.                                          *)
EXTENDS AlertStorage, TLC

CONSTANTS sqlite, postgres, d1, d2

OneEach == (d1 :> sqlite) @@ (d2 :> postgres)
RequestSymmetry == Permutations(Request)
=============================================================================
