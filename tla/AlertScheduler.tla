--------------------------- MODULE AlertScheduler ---------------------------
(***************************************************************************)
(* The alert scheduler of internal/alerting: the loop goroutine that reads *)
(* the rule table once per pass, the evaluation goroutines it starts, the  *)
(* rows of alert_rules they write back, and the administrator's edits.     *)
(*                                                                         *)
(* A pass (Service.schedule) reads every rule in ONE query and then walks  *)
(* that snapshot; Service.running is looked at only when a rule's turn     *)
(* comes.  An evaluation (Service.evaluate) works on the row its pass read *)
(* and never reads it again: it queries ClickHouse, inserts the event,     *)
(* calls the webhook and then overwrites the row with an unconditional     *)
(* UPDATE.  Each of these is a step here, so edits, crashes, failed writes *)
(* and the next pass fall between any two of them.                         *)
(*                                                                         *)
(* A unit of time stands for one or more seconds.  The ticker (1s) and the *)
(* wake channel both start a pass; as the ticker alone may start one at    *)
(* any moment, the wake token would add no behaviour and is left out, and  *)
(* so is a pass whose SELECT fails, which changes nothing.                 *)
(***************************************************************************)
EXTENDS Integers

CONSTANTS
    NULL,       \* SQL NULL, a nil pointer, no row
    Slot,       \* identities of evaluation goroutines
    MaxRule,    \* bound: rules ever created (ids are AUTOINCREMENT)
    Interval,   \* IntervalSeconds of every rule
    For,        \* ForSeconds of every rule
    MaxTime,    \* bound: the clock stops here
    MaxDef,     \* bound: edits per rule
    MaxFault    \* bound: failed writes and crashes together

ASSUME NullAssumption == NULL \notin Int
ASSUME BoundAssumption ==
    /\ MaxRule \in Nat /\ MaxTime \in Nat /\ MaxDef \in Nat /\ MaxFault \in Nat
ASSUME RuleAssumption == Interval \in Nat \ {0} /\ For \in Nat

Rule == 1..MaxRule
Time == Nat \cup {NULL}
State == {"inactive", "pending", "firing"}

(* alert_rules: `def' counts the edits and stands for the rule's text.     *)
Row == [enabled : BOOLEAN, def : Nat, state : State, since : Time, last : Time]

Status == {"none", "firing", "resolved"}
Outcome == [state : State, since : Time, last : Nat, emit : Status]

Pc == {"idle", "start", "query", "emit", "deliver", "update", "finish"}
Evaluation == [pc : Pc, rule : Rule \cup {NULL}, seen : Row \cup {NULL},
               out : Outcome \cup {NULL}]
Idle == [pc |-> "idle", rule |-> NULL, seen |-> NULL, out |-> NULL]

VARIABLES
    now,        \* time.Now()
    row,        \* the rows of alert_rules
    nextRule,   \* the next AUTOINCREMENT id
    executor,   \* Service.executor # nil: the HTTP server is up
    running,    \* Service.running
    loop,       \* where Service.loop is: waiting, or inside schedule
    snap,       \* the rows this pass still has to look at
    eval,       \* the evaluation goroutines
    faults,     \* faults so far
    \* History, read by no guard:
    open,       \* per rule: firing events minus resolved events inserted
    streak,     \* per rule: the unbroken run of true results, or NULL
    torn        \* rules whose row and history were torn apart (see Torn)

dbVars == <<row, nextRule>>
procVars == <<executor, running, loop, snap, eval>>
history == <<open, streak, torn>>
vars == <<now, row, nextRule, executor, running, loop, snap, eval, faults,
          open, streak, torn>>

Streak == [from : Nat, upto : Nat]
NoSnap == [r \in Rule |-> NULL]

ASSUME AbsentAssumption == NULL \notin Row /\ NULL \notin Streak

TypeOK ==
    /\ now \in 0..MaxTime
    /\ row \in [Rule -> Row \cup {NULL}]
    /\ nextRule \in 1..(MaxRule + 1)
    /\ executor \in BOOLEAN
    /\ running \subseteq Rule
    /\ loop \in {"idle", "clock", "dispatch"}
    /\ snap \in [Rule -> Row \cup {NULL}]
    /\ eval \in [Slot -> Evaluation]
    /\ faults \in 0..MaxFault
    /\ open \in [Rule -> Int]
    /\ streak \in [Rule -> Streak \cup {NULL}]
    /\ torn \subseteq Rule

Init ==
    /\ now = 0
    /\ row = NoSnap
    /\ nextRule = 1
    /\ executor = FALSE
    /\ running = {}
    /\ loop = "idle"
    /\ snap = NoSnap
    /\ eval = [s \in Slot |-> Idle]
    /\ faults = 0
    /\ open = [r \in Rule |-> 0]
    /\ streak = NoSnap
    /\ torn = {}

-----------------------------------------------------------------------------
(* The administrator: handlers of internal/server, live once it listens.   *)
(* Here and below, an operator marked "mutant" is a plausible mistake in   *)
(* the definition that follows it; nothing uses it.                        *)

\* mutant: the INSERT leaves the state empty
NewRowBlank(e) == [enabled |-> e, def |-> 0, state |-> "", since |-> NULL,
                   last |-> NULL]

NewRow(e) == [enabled |-> e, def |-> 0, state |-> "inactive", since |-> NULL,
              last |-> NULL]

CreateRule(e) ==
    /\ executor /\ nextRule \in Rule
    /\ row' = [row EXCEPT ![nextRule] = NewRow(e)]
    /\ nextRule' = nextRule + 1
    /\ UNCHANGED <<now, procVars, faults, history>>

(* The UPDATE keeps last_evaluated_at.  It makes the rule's history whole   *)
(* again unless an evaluation of the old text is in flight.                *)
UpdateRule(r, e) ==
    /\ executor /\ row[r] # NULL /\ row[r].def < MaxDef
    /\ row' = [row EXCEPT ![r] = [enabled |-> e, def |-> @.def + 1,
                   state |-> "inactive", since |-> NULL, last |-> @.last]]
    /\ open' = [open EXCEPT ![r] = 0]
    /\ streak' = [streak EXCEPT ![r] = NULL]
    /\ torn' = IF r \in running THEN torn \cup {r} ELSE torn \ {r}
    /\ UNCHANGED <<now, nextRule, procVars, faults>>

DeleteRule(r) ==
    /\ executor /\ row[r] # NULL
    /\ row' = [row EXCEPT ![r] = NULL]
    /\ UNCHANGED <<now, nextRule, procVars, faults, history>>

-----------------------------------------------------------------------------
(* Service.schedule *)

\* mutant: a rule never evaluated is not due
DueSkipsNew(q) == q.enabled /\ q.last # NULL /\ now >= q.last + Interval

Due(q) ==
    /\ q.enabled
    /\ q.last = NULL \/ now >= q.last + Interval

ReadRules ==
    /\ loop = "idle"
    /\ snap' = row
    /\ loop' = "clock"
    /\ UNCHANGED <<now, dbVars, executor, running, eval, faults, history>>

(* One clock reading serves the whole pass; rules not due are skipped.     *)
ReadClock ==
    /\ loop = "clock"
    /\ snap' = [r \in Rule |->
                  IF snap[r] # NULL /\ Due(snap[r]) THEN snap[r] ELSE NULL]
    /\ loop' = IF snap' = NoSnap THEN "idle" ELSE "dispatch"
    /\ UNCHANGED <<now, dbVars, executor, running, eval, faults, history>>

(* The rows come ORDER BY id.                                              *)
TakeNext(r) ==
    /\ loop = "dispatch"
    /\ snap[r] # NULL
    /\ \A q \in Rule : snap[q] # NULL => r <= q
    /\ snap' = [snap EXCEPT ![r] = NULL]
    /\ loop' = IF snap' = NoSnap THEN "idle" ELSE "dispatch"

SkipRunning(r) ==
    /\ TakeNext(r)
    /\ r \in running
    /\ UNCHANGED <<now, dbVars, executor, running, eval, faults, history>>

(* Torn: the evaluation starts from a row that has changed since it was    *)
(* read, because an earlier evaluation or an edit wrote it in between.     *)
Spawn(r, s) ==
    /\ TakeNext(r)
    /\ eval[s].pc = "idle"
    /\ running' = running \cup {r}
    /\ eval' = [eval EXCEPT ![s] = [pc |-> "start", rule |-> r,
                                    seen |-> snap[r], out |-> NULL]]
    /\ torn' = IF snap[r] # row[r] THEN torn \cup {r} ELSE torn
    /\ UNCHANGED <<now, dbVars, executor, faults, open, streak>>

\* mutant: no look at Service.running
DispatchUnguarded(r, s) == Spawn(r, s)

Dispatch(r, s) == r \notin running /\ Spawn(r, s)

-----------------------------------------------------------------------------
(* Service.evaluate *)

At(s, pc) == eval[s].pc = pc
Goto(s, pc) == eval' = [eval EXCEPT ![s].pc = pc]

Start(s) ==
    /\ At(s, "start")
    /\ Goto(s, IF executor THEN "query" ELSE "finish")
    /\ UNCHANGED <<now, dbVars, executor, running, loop, snap, faults, history>>

Keep(q) == [state |-> q.state, since |-> q.since]
Reset == [state |-> "inactive", since |-> NULL]

(* A pending rule whose last result is older than two intervals, measured  *)
(* when the answer is in, starts its For window again.                     *)
Broken(q) ==
    q.state = "pending" /\ (q.last = NULL \/ now - q.last > 2 * Interval)

Carried(q) == IF Broken(q) THEN Reset ELSE Keep(q)

Onset(c) ==
    [state |-> IF c.state = "inactive" THEN "pending" ELSE c.state,
     since |-> IF c.state = "inactive" \/ c.since = NULL THEN now ELSE c.since]

Reached(c) == c.state = "pending" /\ now - c.since >= For

AsOutcome(c, emit) ==
    [state |-> c.state, since |-> c.since, last |-> now, emit |-> emit]

\* mutant: an error ends a firing too
OnErrorResets(c) == AsOutcome(Reset, "none")

\* mutant: an error leaves a pending window alone
OnErrorKeeps(c) == AsOutcome(c, "none")

OnError(c) == AsOutcome(IF c.state = "pending" THEN Reset ELSE c, "none")

OnTrue(c) ==
    LET o == Onset(c)
    IN IF Reached(o) THEN AsOutcome([o EXCEPT !.state = "firing"], "firing")
                     ELSE AsOutcome(o, "none")

\* mutant: an incident that never fired is resolved too
OnFalseAlways(c) ==
    AsOutcome(Reset, IF c.state = "inactive" THEN "none" ELSE "resolved")

OnFalse(c) ==
    AsOutcome(Reset, IF c.state = "firing" THEN "resolved" ELSE "none")

Verdict(q, answer) ==
    CASE answer = "error" -> OnError(Carried(q))
      [] answer = "true"  -> OnTrue(Carried(q))
      [] answer = "false" -> OnFalse(Carried(q))

(* History: the run of true results as the documentation counts it.        *)
Extended(k, answer) ==
    CASE answer # "true" -> NULL
      [] answer = "true" /\ k # NULL /\ now - k.upto <= 2 * Interval ->
            [from |-> k.from, upto |-> now]
      [] OTHER -> [from |-> now, upto |-> now]

(* The query ended, in time or not; the clock is read after it.            *)
Answer(s, answer) ==
    LET r == eval[s].rule
        o == Verdict(eval[s].seen, answer)
    IN /\ At(s, "query")
       /\ eval' = [eval EXCEPT ![s].out = o,
                       ![s].pc = IF o.emit = "none" THEN "update" ELSE "emit"]
       /\ streak' = [streak EXCEPT ![r] = Extended(@, answer)]
       /\ UNCHANGED <<now, dbVars, executor, running, loop, snap, faults,
                      open, torn>>

(* CreateEvent *)
RecordEvent(s) ==
    /\ At(s, "emit")
    /\ open' = [open EXCEPT ![eval[s].rule] =
                  IF eval[s].out.emit = "firing" THEN @ + 1 ELSE @ - 1]
    /\ Goto(s, "deliver")
    /\ UNCHANGED <<now, dbVars, executor, running, loop, snap, faults,
                   streak, torn>>

Fault == faults < MaxFault /\ faults' = faults + 1

(* emit returns, evaluate goes on: the row will say firing or inactive     *)
(* although no event says so.                                              *)
RecordEventFails(s) ==
    /\ At(s, "emit")
    /\ Fault
    /\ Goto(s, "update")
    /\ torn' = torn \cup {eval[s].rule}
    /\ UNCHANGED <<now, dbVars, executor, running, loop, snap, open, streak>>

(* The webhook call, its delivery row and the pruning of old rows: none of *)
(* it is state of this module, whatever its result, but it takes time.     *)
Deliver(s) ==
    /\ At(s, "deliver")
    /\ Goto(s, "update")
    /\ UNCHANGED <<now, dbVars, executor, running, loop, snap, faults, history>>

(* UpdateRuleState: no version, no check of the row; a row gone is no error *)
StoreState(s) ==
    LET r == eval[s].rule
        o == eval[s].out
    IN /\ At(s, "update")
       /\ row' = IF row[r] = NULL THEN row
                 ELSE [row EXCEPT ![r] = [enabled |-> @.enabled, def |-> @.def,
                          state |-> o.state, since |-> o.since, last |-> o.last]]
       /\ Goto(s, "finish")
       /\ UNCHANGED <<now, nextRule, executor, running, loop, snap, faults,
                      history>>

StoreStateFails(s) ==
    /\ At(s, "update")
    /\ Fault
    /\ Goto(s, "finish")
    /\ torn' = torn \cup {eval[s].rule}
    /\ UNCHANGED <<now, dbVars, executor, running, loop, snap, open, streak>>

(* The deferred delete from running, and the goroutine is gone.            *)
\* mutant: the goroutine ends without the delete
FinishLeaky(s) ==
    /\ At(s, "finish")
    /\ eval' = [eval EXCEPT ![s] = Idle]
    /\ UNCHANGED <<now, dbVars, executor, running, loop, snap, faults, history>>

Finish(s) ==
    /\ At(s, "finish")
    /\ running' = running \ {eval[s].rule}
    /\ eval' = [eval EXCEPT ![s] = Idle]
    /\ UNCHANGED <<now, dbVars, executor, loop, snap, faults, history>>

-----------------------------------------------------------------------------
(* The process *)

(* server.New hands the service its executor.                              *)
SetExecutor ==
    /\ ~executor
    /\ executor' = TRUE
    /\ UNCHANGED <<now, dbVars, running, loop, snap, eval, faults, history>>

Unsaved == {s \in Slot : eval[s].pc \in {"emit", "deliver", "update"}}

(* A crash, or a shutdown: Close waits for the loop, not for evaluations.  *)
Restart ==
    /\ Fault
    /\ executor' = FALSE
    /\ running' = {}
    /\ loop' = "idle"
    /\ snap' = NoSnap
    /\ eval' = [s \in Slot |-> Idle]
    /\ torn' = torn \cup {eval[s].rule : s \in Unsaved}
    /\ UNCHANGED <<now, dbVars, open, streak>>

Tick ==
    /\ now < MaxTime
    /\ now' = now + 1
    /\ UNCHANGED <<dbVars, procVars, faults, history>>

Admin ==
    \/ \E e \in BOOLEAN : CreateRule(e)
    \/ \E r \in Rule, e \in BOOLEAN : UpdateRule(r, e)
    \/ \E r \in Rule : DeleteRule(r)

LoopStep ==
    \/ ReadRules
    \/ ReadClock
    \/ \E r \in Rule : SkipRunning(r)
    \/ \E r \in Rule, s \in Slot : Dispatch(r, s)

(* The steps of a goroutine when the database works.                       *)
Progress(s) ==
    \/ Start(s)
    \/ \E answer \in {"true", "false", "error"} : Answer(s, answer)
    \/ RecordEvent(s)
    \/ Deliver(s)
    \/ StoreState(s)
    \/ Finish(s)

Failure(s) == RecordEventFails(s) \/ StoreStateFails(s)

Next ==
    \/ Admin
    \/ LoopStep
    \/ \E s \in Slot : Progress(s) \/ Failure(s)
    \/ SetExecutor
    \/ Restart
    \/ Tick

Spec == Init /\ [][Next]_vars

(* The Go runtime schedules every goroutine that can run; queries, webhook *)
(* calls and statements end, by their context or the driver's.             *)
Fairness ==
    /\ WF_vars(SetExecutor)
    /\ WF_vars(LoopStep)
    /\ \A s \in Slot : WF_vars(Progress(s))

FairSpec == Spec /\ Fairness

-----------------------------------------------------------------------------
(* Properties *)

Live == {s \in Slot : eval[s].pc # "idle"}

(* Service.running holds exactly the rules being evaluated, and no rule is *)
(* evaluated by two goroutines at once (service.go:136-146): across passes *)
(* that overlap slow evaluations, edits, deletions and restarts.           *)
OneEvaluationPerRule ==
    /\ running = {eval[s].rule : s \in Live}
    /\ \A s, t \in Live : eval[s].rule = eval[t].rule => s = t

(* A row's last_evaluated_at never moves back, although UpdateRuleState    *)
(* checks nothing: an evaluation never overwrites a later one's result.    *)
LastEvaluatedMonotone ==
    [][\A r \in Rule :
         (row[r] # NULL /\ row'[r] # NULL /\ row[r].last # NULL)
           => (row'[r].last # NULL /\ row[r].last <= row'[r].last)]_vars

(* The events of a rule alternate firing, resolved, firing... and agree    *)
(* with its row whenever it is at rest: a firing is inserted only when none *)
(* is open, a resolved only when one is, through errors, gaps and restarts *)
(* between evaluations.  Excepted are the rules torn by a stale pass, an   *)
(* edit in mid-evaluation, a failed write or a crash before the write.     *)
EventsMatchState ==
    \A r \in Rule : (row[r] # NULL /\ r \notin torn) =>
        /\ \A s \in Slot : (At(s, "emit") /\ eval[s].rule = r) =>
              open[r] = IF eval[s].out.emit = "firing" THEN 0 ELSE 1
        /\ r \notin running =>
              open[r] = IF row[r].state = "firing" THEN 1 ELSE 0

(* A firing event is earned: the answers given for the rule's present text *)
(* were all true for at least For, with no error and no gap of more than   *)
(* two intervals, restarts included (docs/alerting.md:26,37); with the     *)
(* same exceptions.                                                        *)
FiringEarned ==
    \A s \in Slot : LET r == eval[s].rule IN
        (At(s, "emit") /\ eval[s].out.emit = "firing" /\ row[r] # NULL
           /\ r \notin torn)
          => streak[r] # NULL /\ streak[r].upto - streak[r].from >= For

(* Every evaluation ends and clears its mark in Service.running.           *)
EvaluationEnds == \A r \in Rule : r \in running ~> r \notin running

Overdue(r) ==
    /\ row[r] # NULL
    /\ row[r].enabled
    /\ row[r].last = NULL \/ row[r].last + Interval <= now

(* A rule that is due is evaluated and its row says so, unless it is       *)
(* disabled or deleted first: no mark, stale pass, failed write or restart *)
(* leaves an enabled rule unevaluated for ever.                            *)
DueIsServed == \A r \in Rule : Overdue(r) ~> ~Overdue(r)

(* What a reader of alert_rules sees of a rule, and the abstract promise   *)
(* of AlertLifecycle that the steps above keep for it.                     *)
Seen(r) ==
    IF row[r] # NULL THEN row[r].state
    ELSE IF r < nextRule THEN "deleted" ELSE "new"

Abstract == INSTANCE AlertLifecycle WITH
    state <- [r \in Rule |-> Seen(r)], announced <- open

(* Scheduling implements the lifecycle: with passes that overlap slow      *)
(* evaluations, failed writes and restarts, an intact rule says firing     *)
(* only after its firing event and inactive only after its resolved event, *)
(* each incident has one of both, and a deleted id never comes back.       *)
Lifecycle == Abstract!Spec

(* docs/alerting.md:41: one firing event per transition, so no second      *)
(* firing without a resolved between.                                      *)
OneFiringPerTransition == \A r \in Rule : open[r] <= 1
=============================================================================
