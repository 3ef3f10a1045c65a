--------------------------- MODULE MCAlertService ---------------------------
(* TLC instances of AlertService: the evaluations of rule 1 may hang for   *)
(* ever, in whichever database it is.                                      *)
EXTENDS AlertService

CONSTANTS sqlite, d1, d2

OneDriver == [d \in Dsn |-> sqlite]

(* Rule 2 exists in both databases, rule 1 in one of them; one request     *)
(* alone never puts a temporary database into service.                     *)
TwoAndOne == [d \in Database |-> IF d = d1 THEN {1, 2} ELSE IF d = d2 THEN {2} ELSE {}]

Hung == {1}

HungSpec == ServiceSpec /\ Fairness(Hung)

(* ServedAcrossSwaps for the rules that do not hang (service.go:136-147).  *)
OthersServed == ServedAcrossSwaps(Hung)
=============================================================================
