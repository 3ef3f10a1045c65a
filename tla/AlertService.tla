---------------------------- MODULE AlertService ----------------------------
(***************************************************************************)
(* The scheduler on a storage that is exchanged under it: AlertStorage     *)
(* with the passes and evaluations of Service that use its repositories.   *)
(*                                                                         *)
(* A pass takes the repository in service once (Service.repository) and    *)
(* hands it to its evaluations, which keep it to their end; Configure and  *)
(* Disable put another one into service and close the old one whenever     *)
(* they like.  A statement on a closed repository is an error that the     *)
(* evaluation logs.  Service.running is one map of rule ids for all        *)
(* databases, and every database numbers its rules from 1.                 *)
(*                                                                         *)
(* Of a rule only its id and whether its row is due matter here: its life  *)
(* is in AlertScheduler, its events' pruning in AlertHistory.              *)
(***************************************************************************)
EXTENDS AlertStorage

CONSTANTS
    MaxEval,    \* bound: evaluation goroutines at once
    MaxRule,    \* the highest id in a database
    Rows        \* the ids in use in each of them

ASSUME RuleAssumption == MaxRule \in Nat /\ MaxEval \in Nat

Id == 1..MaxRule

(* NULL stands for the temporary databases that a driver opens without a   *)
(* connection string.                                                      *)
Database == Dsn \cup {NULL}

ASSUME RowsAssumption == Rows \in [Database -> SUBSET Id]

Goroutine == 1..MaxEval

(* `via' is the repository an evaluation was given, `home' the database    *)
(* its rule was read from.                                                 *)
Evaluation == [at : {"query", "emit", "update", "finish"}, id : Id,
               via : Handle, home : Database]

ASSUME AbsentAssumption == NULL \notin Evaluation

VARIABLES
    due,        \* per database and id: the row is enabled and due
    running,    \* Service.running
    loop,       \* where Service.loop is
    pass,       \* the repository of the pass, and its database
    snap,       \* the due rows the pass still has to look at
    eval        \* the evaluation goroutines, NULL when gone

evalVars == <<due, running, loop, pass, snap, eval>>
allVars == <<vars, evalVars>>
loopVars == <<loop, pass, snap>>

NoPass == [via |-> NULL, home |-> NULL]

ServiceTypeOK ==
    /\ due \in [Database -> [Id -> BOOLEAN]]
    /\ running \subseteq Id
    /\ loop \in {"idle", "read", "dispatch"}
    /\ pass \in [via : Handle \cup {NULL}, home : Database]
    /\ snap \subseteq Id
    /\ eval \in [Goroutine -> Evaluation \cup {NULL}]

NotDue == [d \in Database |-> [r \in Id |-> FALSE]]
NoEvaluation == [g \in Goroutine |-> NULL]

ServiceInit ==
    /\ Init
    /\ due = NotDue
    /\ running = {}
    /\ loop = "idle" /\ pass = NoPass /\ snap = {}
    /\ eval = NoEvaluation

(* Time passes, or an administrator enables the rule.                      *)
FallDue(d, r) ==
    /\ r \in Rows[d] /\ ~due[d][r]
    /\ due' = [due EXCEPT ![d][r] = TRUE]
    /\ UNCHANGED <<vars, running, loopVars, eval>>

-----------------------------------------------------------------------------
(* Service.schedule *)

TakeRepository ==
    /\ up /\ loop = "idle" /\ repo # NULL
    /\ loop' = "read"
    /\ pass' = [via |-> repo, home |-> NULL]
    /\ UNCHANGED <<vars, due, running, snap, eval>>

(* The pass ends with its last row.                                        *)
WalkOn(p) ==
    /\ loop' = IF snap' = {} THEN "idle" ELSE "dispatch"
    /\ pass' = IF snap' = {} THEN NoPass ELSE p

ReadRules ==
    /\ loop = "read" /\ pass.via \in open
    /\ snap' = {r \in Id : due[db[pass.via]][r]}
    /\ WalkOn([pass EXCEPT !.home = db[pass.via]])
    /\ UNCHANGED <<vars, due, running, eval>>

(* Closed since the pass took it: the SELECT fails, the pass is over.      *)
ReadFails ==
    /\ loop = "read" /\ pass.via \notin open
    /\ loop' = "idle" /\ pass' = NoPass
    /\ UNCHANGED <<vars, due, running, snap, eval>>

TakeNext(r) ==
    /\ loop = "dispatch"
    /\ r \in snap /\ \A q \in snap : r <= q
    /\ snap' = snap \ {r}
    /\ WalkOn(pass)

\* mutant: return where the code has continue
SkipRunningReturns(r) ==
    /\ loop = "dispatch"
    /\ r \in snap /\ \A q \in snap : r <= q
    /\ r \in running
    /\ loop' = "idle" /\ pass' = NoPass /\ snap' = {}
    /\ UNCHANGED <<vars, due, running, eval>>

(* Running: perhaps the rule of the same id in the database before.        *)
SkipRunning(r) ==
    /\ TakeNext(r)
    /\ r \in running
    /\ UNCHANGED <<vars, due, running, eval>>

\* mutant: the evaluation is not given the repository of its pass
GivenBlank(r) == [at |-> "query", id |-> r, via |-> NULL, home |-> pass.home]

Given(r) == [at |-> "query", id |-> r, via |-> pass.via, home |-> pass.home]

(* Goroutines are alike: a new one takes the first free identity.          *)
Dispatch(r, g) ==
    /\ TakeNext(r)
    /\ r \notin running
    /\ eval[g] = NULL /\ \A h \in Goroutine : eval[h] = NULL => g <= h
    /\ running' = running \cup {r}
    /\ eval' = [eval EXCEPT ![g] = Given(r)]
    /\ UNCHANGED <<vars, due>>

-----------------------------------------------------------------------------
(* Service.evaluate, on the repository it was given *)

In(g, at) == eval[g] # NULL /\ eval[g].at = at
Proceed(g, at) == eval' = [eval EXCEPT ![g].at = at]

(* The answer, or an error: the cluster may have been deleted since the    *)
(* rule was written, the query refused, late or of another shape.          *)
Query(g) ==
    /\ In(g, "query")
    /\ Proceed(g, "emit") \/ Proceed(g, "update")
    /\ UNCHANGED <<vars, due, running, loopVars>>

\* mutant: whatever repository is in service by then
TargetCurrent(g) == repo

Target(g) == eval[g].via

(* A statement of the evaluation takes effect unless its repository is     *)
(* closed.                                                                 *)
Works(g) == Target(g) \in open

(* emit: the event, the webhook call and the delivery.                     *)
Emit(g) ==
    /\ In(g, "emit")
    /\ Proceed(g, "update")
    /\ UNCHANGED <<vars, due, running, loopVars>>

UpdateRuleState(g) ==
    /\ In(g, "update")
    /\ due' = IF Works(g) THEN [due EXCEPT ![db[Target(g)]][eval[g].id] = FALSE]
                          ELSE due
    /\ Proceed(g, "finish")
    /\ UNCHANGED <<vars, running, loopVars>>

Finish(g) ==
    /\ In(g, "finish")
    /\ running' = running \ {eval[g].id}
    /\ eval' = [eval EXCEPT ![g] = NULL]
    /\ UNCHANGED <<vars, due, loopVars>>

-----------------------------------------------------------------------------
(* Storage *)

\* mutant: a new repository starts with no rule running
ExchangeForgets(q) ==
    /\ Apply(q)
    /\ running' = {}
    /\ UNCHANGED <<due, loopVars, eval>>

(* Configure and Disable leave the loop and the evaluations alone.         *)
Exchange(q) == Apply(q) /\ UNCHANGED evalVars

Administer(q) ==
    /\ \/ \E want \in Config, update \in BOOLEAN : ReadConfig(q, want, update)
       \/ OpenRepository(q)
       \/ OpenFails(q)
       \/ Save(q)
       \/ SaveFails(q)
       \/ CloseOld(q)
    /\ UNCHANGED evalVars

StartUp == (StartDisabled \/ Start \/ StartFails) /\ UNCHANGED evalVars

Die ==
    /\ Crash
    /\ running' = {}
    /\ loop' = "idle" /\ pass' = NoPass /\ snap' = {}
    /\ eval' = NoEvaluation
    /\ UNCHANGED due

-----------------------------------------------------------------------------
LoopStep ==
    \/ TakeRepository
    \/ ReadRules
    \/ ReadFails
    \/ \E r \in Id : SkipRunning(r)
    \/ \E r \in Id, g \in Goroutine : Dispatch(r, g)

Progress(g) == Query(g) \/ Emit(g) \/ UpdateRuleState(g) \/ Finish(g)

ServiceNext ==
    \/ \E d \in Database, r \in Id : FallDue(d, r)
    \/ LoopStep
    \/ \E g \in Goroutine : Progress(g)
    \/ \E q \in Request : Exchange(q) \/ Administer(q)
    \/ StartUp
    \/ Die

ServiceSpec == ServiceInit /\ [][ServiceNext]_allVars

Evaluates(g, r) == eval[g] # NULL /\ eval[g].id = r /\ Progress(g)

(* The loop runs, and the queries, webhook calls and statements of every   *)
(* rule end but for those in `hung'.                                       *)
Fairness(hung) ==
    /\ WF_loopVars(LoopStep)
    /\ \A r \in Id \ hung : WF_eval(\E g \in Goroutine : Evaluates(g, r))

-----------------------------------------------------------------------------
(* Properties *)

Live == {g \in Goroutine : eval[g] # NULL}

(* No row is written by two evaluations at once, whichever repositories    *)
(* they hold: a change of the limit opens a second repository on the same  *)
(* database, with evaluations under way on the first.  Service.running     *)
(* goes on naming exactly the ids under evaluation across every exchange.  *)
RowHasOneWriter ==
    /\ running = {eval[g].id : g \in Live}
    /\ \A g, h \in Live :
          (eval[g].id = eval[h].id /\ eval[g].home = eval[h].home) => g = h

(* What an evaluation finds goes to the database its rule came from, or is *)
(* lost with the repository: never to the rule of the same id in the       *)
(* database that is in service by the time it is written.                  *)
ResultsStayHome ==
    \A g \in Goroutine : ((In(g, "emit") \/ In(g, "update")) /\ Works(g))
                             => db[Target(g)] = eval[g].home

Waits(r) == repo # NULL /\ due[db[repo]][r]

(* A due rule of the database in service is evaluated and its row says so, *)
(* or the database goes out of service: marks that evaluations on replaced *)
(* repositories hold, writes that fail there, a pass caught by an exchange *)
(* and evaluations of other rules that never end only delay it, as long as *)
(* the exchanges come to an end.  A waiting rule always stops waiting,     *)
(* Waits(r) ~> ~Waits(r), says as much as: it is not waiting over and over. *)
ServedAcrossSwaps(hung) == \A r \in Id \ hung : []<>(~Waits(r))
=============================================================================
