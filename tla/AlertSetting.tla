---------------------------- MODULE AlertSetting ----------------------------
(***************************************************************************)
(* What an administrator is promised of the alerting configuration,        *)
(* without connections, handles, locks or half-done requests: a setting is *)
(* saved, waits, and is put into service; the service changes in no other  *)
(* way.  A restart serves what was saved last, or nothing when its         *)
(* database is not to be reached.  AlertStorage implements it.             *)
(*                                                                         *)
(* While no save overlaps another change, one setting waits at most and it *)
(* is the one saved last.  Overlapping ones are put into service in any    *)
(* order, and a setting may then be saved with the database of another;    *)
(* everything else in it stays as asked for.                               *)
(***************************************************************************)

CONSTANTS
    NULL,
    Config,     \* settings: enabled, driver, dsn, limit
    Blank,      \* the setting before any
    Dsn

VARIABLES
    running,
    saved,      \* the setting saved last
    served,     \* the database and limit in service, NULL if none
    waiting,    \* what saved settings are still to put into service
    overlapped  \* the last save overlapped another change

vars == <<running, saved, served, waiting, overlapped>>

Init ==
    /\ ~running
    /\ saved = Blank
    /\ served = NULL
    /\ waiting = {}
    /\ ~overlapped

Service(c, d) == IF c.enabled THEN [dsn |-> d, limit |-> c.limit] ELSE NULL

Start ==
    /\ ~running
    /\ running'
    /\ served' \in {NULL, Service(saved, saved.dsn)}
    /\ UNCHANGED <<saved, waiting, overlapped>>

Save(d) ==
    /\ running
    /\ saved' \in Config
    /\ waiting' = waiting \cup {Service(saved', d)}
    /\ ~overlapped' => waiting = {} /\ d = saved'.dsn
    /\ UNCHANGED <<running, served>>

(* Of two alike one may be left.                                           *)
Exchange(s) ==
    /\ running
    /\ served' = s
    /\ waiting' \in {waiting, waiting \ {s}}
    /\ ~overlapped => waiting' = {}
    /\ UNCHANGED <<running, saved, overlapped>>

Stop ==
    /\ running
    /\ ~running'
    /\ served' = NULL
    /\ waiting' = {}
    /\ ~overlapped'
    /\ UNCHANGED saved

Next ==
    \/ Start
    \/ \E d \in Dsn \cup {NULL} : Save(d)
    \/ \E s \in waiting : Exchange(s)
    \/ Stop

Spec == Init /\ [][Next]_vars
=============================================================================
