--------------------------- MODULE AlertLifecycle ---------------------------
(***************************************************************************)
(* What the alerts promise whoever reads the rules and receives their      *)
(* events, without passes, goroutines, clocks or databases: a rule is      *)
(* quiet, waiting or firing, an incident is announced before the rule says *)
(* firing and its end before the rule says inactive, and each is announced *)
(* once.  AlertScheduler implements it.                                    *)
(*                                                                         *)
(* The promise is suspended for a rule that is torn, until an edit mends   *)
(* it, and for the last event of a rule deleted meanwhile.                 *)
(***************************************************************************)
EXTENDS Integers

CONSTANT Rule

VARIABLES
    state,      \* per rule: what its row says, "new" before, "deleted" after
    announced,  \* per rule: firing events minus resolved events
    torn        \* the rules about which nothing is promised

vars == <<state, announced, torn>>

Init ==
    /\ state = [r \in Rule |-> "new"]
    /\ announced = [r \in Rule |-> 0]
    /\ torn = {}

Calm == {"inactive", "pending"}

(* One rule's row, and its events, from one step to the next.              *)
Moves(r, from, to) == state[r] \in from /\ state'[r] = to
Announces(r, before, after) == announced[r] = before /\ announced'[r] = after

Create(r) == Moves(r, {"new"}, "inactive") /\ Announces(r, 0, 0)

(* The text changed: the history starts again.                             *)
Edit(r) == Moves(r, Calm \cup {"firing"}, "inactive") /\ announced'[r] = 0

Delete(r) ==
    /\ Moves(r, Calm \cup {"firing"}, "deleted")
    /\ announced'[r] = announced[r]

Wait(r) == Moves(r, {"inactive"}, "pending") /\ Announces(r, 0, 0)
GiveUp(r) == Moves(r, {"pending"}, "inactive") /\ Announces(r, 0, 0)

(* The event first, the row after it.                                      *)
AnnounceFiring(r) ==
    \E s \in Calm : Moves(r, {s}, s) /\ Announces(r, 0, 1)
Fire(r) == Moves(r, Calm, "firing") /\ Announces(r, 1, 1)

AnnounceResolved(r) == Moves(r, {"firing"}, "firing") /\ Announces(r, 1, 0)
Resolve(r) == Moves(r, {"firing"}, "inactive") /\ Announces(r, 0, 0)

(* An evaluation under way when the rule was deleted may still announce.   *)
AnnounceLate(r) == Moves(r, {"deleted"}, "deleted")

Still(r) == state'[r] = state[r] /\ announced'[r] = announced[r]

Kept(r) ==
    \/ Still(r)
    \/ Create(r) \/ Edit(r) \/ Delete(r)
    \/ Wait(r) \/ GiveUp(r)
    \/ AnnounceFiring(r) \/ Fire(r)
    \/ AnnounceResolved(r) \/ Resolve(r)
    \/ AnnounceLate(r)

(* An intact rule keeps the promise, in the step that tears it too unless  *)
(* it is deleted or edited there; a torn one is mended by an edit only.    *)
Step(r) == r \in torn \/ Kept(r)
Mended(r) == (r \in torn /\ r \notin torn') => state'[r] = "inactive" /\ announced'[r] = 0

Next == \A r \in Rule : Step(r) /\ Mended(r)

Spec == Init /\ [][Next]_vars
=============================================================================
