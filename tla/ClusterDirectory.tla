-------------------------- MODULE ClusterDirectory --------------------------
(***************************************************************************)
(* What the users of the console are promised of its clusters, without     *)
(* locks, files, copies or half-done requests: one directory, changed and  *)
(* looked up at once.  The fixed clusters are always in it; the others are *)
(* added, edited and deleted, one at a time, and none is deleted while a   *)
(* session is on it.  A restart keeps the directory and ends the sessions. *)
(* ClusterRegistry implements it.                                          *)
(***************************************************************************)
EXTENDS Integers

CONSTANTS NULL, Alias, Fixed, Session

VARIABLES
    version,    \* per cluster: the settings it is reached by, NULL if none
    at          \* per session: its cluster, NULL if there is no session

vars == <<version, at>>

Nobody == [s \in Session |-> NULL]

Init ==
    /\ version = [a \in Alias |-> IF a \in Fixed THEN 0 ELSE NULL]
    /\ at = Nobody

Exists(a) == version[a] # NULL
Deserted(a) == \A s \in Session : at[s] # a

Becomes(a, v) == version' = [version EXCEPT ![a] = v] /\ UNCHANGED at

Create(a) == a \notin Fixed /\ ~Exists(a) /\ Becomes(a, 1)
Edit(a) == a \notin Fixed /\ Exists(a) /\ Becomes(a, version[a] + 1)
Delete(a) == a \notin Fixed /\ Exists(a) /\ Deserted(a) /\ Becomes(a, NULL)

Goes(s, a) == at' = [at EXCEPT ![s] = a] /\ UNCHANGED version

LogIn(s, a) == at[s] = NULL /\ a \in Fixed /\ Goes(s, a)
Switch(s, a) == at[s] # NULL /\ Exists(a) /\ Goes(s, a)
LogOut(s) == at[s] # NULL /\ Goes(s, NULL)

Restart == at' = Nobody /\ UNCHANGED version

Next ==
    \/ \E a \in Alias : Create(a) \/ Edit(a) \/ Delete(a)
    \/ \E s \in Session : \/ LogOut(s)
                          \/ \E a \in Alias : LogIn(s, a) \/ Switch(s, a)
    \/ Restart

Spec == Init /\ [][Next]_vars
=============================================================================
