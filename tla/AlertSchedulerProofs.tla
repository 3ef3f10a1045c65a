------------------------ MODULE AlertSchedulerProofs ------------------------
(***************************************************************************)
(* Proofs about AlertScheduler for every number of rules and goroutines,   *)
(* every Interval and For, and every bound.                                *)
(***************************************************************************)
EXTENDS AlertScheduler, TLAPS

Answers == {"true", "false", "error"}

(* A goroutine at work knows its rule and the row it read, and its verdict *)
(* once the query is answered.                                             *)
JobOK ==
    \A s \in Slot :
        /\ eval[s].pc # "idle" => eval[s].rule \in Rule /\ eval[s].seen \in Row
        /\ s \in Unsaved => eval[s].out \in Outcome

Typed == TypeOK /\ JobOK

-----------------------------------------------------------------------------
(* What evaluate computes is an outcome stamped with the present time.     *)

LEMMA CarriedType ==
    ASSUME NEW q \in Row
    PROVE  Carried(q) \in [state : State, since : Time]
BY DEF Carried, Reset, Keep, Row, State, Time

LEMMA VerdictType ==
    ASSUME now \in Nat, NEW q \in Row, NEW a \in Answers
    PROVE  /\ Verdict(q, a) \in Outcome
           /\ Verdict(q, a).last = now
<1> DEFINE c == Carried(q)
<1>1. c \in [state : State, since : Time]
  BY CarriedType
<1> HIDE DEF c
<1>2. OnError(c) \in Outcome /\ OnError(c).last = now
  BY <1>1 DEF OnError, AsOutcome, Reset, Outcome, State, Time, Status
<1>3. OnFalse(c) \in Outcome /\ OnFalse(c).last = now
  BY <1>1 DEF OnFalse, AsOutcome, Reset, Outcome, State, Time, Status
<1>4. OnTrue(c) \in Outcome /\ OnTrue(c).last = now
  <2> DEFINE o == Onset(c)
  <2>1. o \in [state : State, since : Time]
    BY <1>1 DEF Onset, State, Time
  <2>2. [o EXCEPT !.state = "firing"] \in [state : State, since : Time]
    BY <2>1 DEF State
  <2> HIDE DEF o
  <2>3. AsOutcome(o, "none") \in Outcome /\ AsOutcome(o, "none").last = now
    BY <2>1 DEF AsOutcome, Outcome, Status
  <2>4. /\ AsOutcome([o EXCEPT !.state = "firing"], "firing") \in Outcome
        /\ AsOutcome([o EXCEPT !.state = "firing"], "firing").last = now
    BY <2>2 DEF AsOutcome, Outcome, Status
  <2> QED
    BY <2>3, <2>4 DEF OnTrue, o
<1> QED
  BY <1>2, <1>3, <1>4 DEF Verdict, Answers, c

LEMMA ExtendedType ==
    ASSUME now \in Nat, NEW k \in Streak \cup {NULL}, NEW a \in Answers
    PROVE  Extended(k, a) \in Streak \cup {NULL}
BY DEF Extended, Streak, Answers

-----------------------------------------------------------------------------
(* Type correctness, one step per action.                                  *)

LEMMA InitTyped == Init => Typed
<1> SUFFICES ASSUME Init PROVE Typed
  OBVIOUS
<1>1. Idle \in Evaluation /\ Idle.pc = "idle"
  BY DEF Idle, Evaluation, Pc
<1>2. \A s \in Slot : eval[s] = Idle
  BY DEF Init
<1>3. JobOK
  BY <1>1, <1>2 DEF JobOK, Unsaved
<1>4. eval \in [Slot -> Evaluation]
  BY <1>1 DEF Init
<1>5. nextRule \in 1..(MaxRule + 1) /\ now \in 0..MaxTime /\ faults \in 0..MaxFault
  BY BoundAssumption DEF Init
<1>6. NoSnap \in [Rule -> Row \cup {NULL}] /\ NoSnap \in [Rule -> Streak \cup {NULL}]
  BY DEF NoSnap
<1>7. /\ row \in [Rule -> Row \cup {NULL}] /\ snap \in [Rule -> Row \cup {NULL}]
      /\ streak \in [Rule -> Streak \cup {NULL}]
  BY <1>6 DEF Init
<1>8. /\ running \subseteq Rule /\ torn \subseteq Rule
      /\ loop \in {"idle", "clock", "dispatch"} /\ open \in [Rule -> Int]
  BY DEF Init
<1>9. executor \in BOOLEAN
  BY Zenon DEF Init
<1> QED
  BY <1>3, <1>4, <1>5, <1>7, <1>8, <1>9 DEF Typed, TypeOK

LEMMA AdminTyped ==
    ASSUME Typed, Admin
    PROVE  Typed'
<1> USE DEF Typed, history, procVars
<1>1. ASSUME NEW e \in BOOLEAN, CreateRule(e)
      PROVE  Typed'
  <2>1. NewRow(e) \in Row
    BY DEF NewRow, Row, State, Time
  <2> QED
    BY <1>1, <2>1, BoundAssumption DEF CreateRule, TypeOK, JobOK, Unsaved, Rule
<1>2. ASSUME NEW r \in Rule, NEW e \in BOOLEAN, UpdateRule(r, e)
      PROVE  Typed'
  <2>1. row[r] \in Row
    BY <1>2 DEF UpdateRule, TypeOK
  <2>2. [enabled |-> e, def |-> row[r].def + 1, state |-> "inactive",
         since |-> NULL, last |-> row[r].last] \in Row
    BY <2>1 DEF Row, State, Time
  <2>3. row' \in [Rule -> Row \cup {NULL}]
    BY <1>2, <2>2 DEF UpdateRule, TypeOK
  <2>4. open' \in [Rule -> Int] /\ streak' \in [Rule -> Streak \cup {NULL}]
    BY <1>2 DEF UpdateRule, TypeOK
  <2>5. torn' \subseteq Rule
    BY <1>2 DEF UpdateRule, TypeOK
  <2> QED
    BY <1>2, <2>3, <2>4, <2>5 DEF UpdateRule, TypeOK, JobOK, Unsaved
<1>3. ASSUME NEW r \in Rule, DeleteRule(r)
      PROVE  Typed'
  BY <1>3 DEF DeleteRule, TypeOK, JobOK, Unsaved
<1> QED
  BY <1>1, <1>2, <1>3 DEF Admin

LEMMA LoopTyped ==
    ASSUME Typed, LoopStep
    PROVE  Typed'
<1> USE DEF Typed, history, dbVars
<1>1. CASE ReadRules
  BY <1>1 DEF ReadRules, TypeOK, JobOK, Unsaved
<1>2. CASE ReadClock
  <2>1. snap' \in [Rule -> Row \cup {NULL}]
    BY <1>2 DEF ReadClock, TypeOK
  <2>2. loop' \in {"idle", "dispatch"}
    BY <1>2 DEF ReadClock
  <2> QED
    BY <1>2, <2>1, <2>2 DEF ReadClock, TypeOK, JobOK, Unsaved
<1>3. ASSUME NEW r \in Rule, TakeNext(r)
      PROVE  snap' \in [Rule -> Row \cup {NULL}] /\ loop' \in {"idle", "dispatch"}
  BY <1>3 DEF TakeNext, TypeOK
<1>4. ASSUME NEW r \in Rule, SkipRunning(r)
      PROVE  Typed'
  BY <1>3, <1>4 DEF SkipRunning, TypeOK, JobOK, Unsaved
<1>5. ASSUME NEW r \in Rule, NEW s \in Slot, Dispatch(r, s)
      PROVE  Typed'
  <2>1. snap[r] \in Row
    BY <1>5 DEF Dispatch, Spawn, TakeNext, TypeOK
  <2>2. snap' \in [Rule -> Row \cup {NULL}] /\ loop' \in {"idle", "dispatch"}
    BY <1>3, <1>5 DEF Dispatch, Spawn
  <2> DEFINE e == [pc |-> "start", rule |-> r, seen |-> snap[r], out |-> NULL]
  <2>3. e \in Evaluation
    BY <2>1 DEF Evaluation, Pc
  <2>4. eval' = [eval EXCEPT ![s] = e]
    BY <1>5 DEF Dispatch, Spawn
  <2>5. eval' \in [Slot -> Evaluation]
    BY <2>3, <2>4 DEF TypeOK
  <2>6. JobOK'
    <3> SUFFICES ASSUME NEW t \in Slot
                 PROVE  /\ eval'[t].pc # "idle" =>
                              eval'[t].rule \in Rule /\ eval'[t].seen \in Row
                        /\ t \in Unsaved' => eval'[t].out \in Outcome
      BY DEF JobOK
    <3>1. CASE t = s
      BY <3>1, <2>4, <2>1 DEF TypeOK, Unsaved
    <3>2. CASE t # s
      BY <3>2, <2>4 DEF TypeOK, JobOK, Unsaved
    <3> QED
      BY <3>1, <3>2
  <2>7. running' \subseteq Rule /\ torn' \subseteq Rule
    BY <1>5 DEF Dispatch, Spawn, TypeOK
  <2> QED
    BY <1>5, <2>2, <2>5, <2>6, <2>7 DEF Dispatch, Spawn, TypeOK
<1> QED
  BY <1>1, <1>2, <1>4, <1>5 DEF LoopStep

LEMMA ProgressTyped ==
    ASSUME Typed, NEW s \in Slot, Progress(s)
    PROVE  Typed'
<1> USE DEF Typed, history, dbVars
<1>0. /\ now \in Nat
      /\ eval \in [Slot -> Evaluation]
      /\ eval[s] \in Evaluation
  BY BoundAssumption DEF TypeOK
<1>1. ASSUME NEW pc \in Pc \ {"emit", "deliver", "update"}, eval[s].pc # "idle",
             Goto(s, pc)
      PROVE  eval' \in [Slot -> Evaluation] /\ JobOK'
  BY <1>0, <1>1 DEF Goto, Evaluation, JobOK, Unsaved
<1>2. ASSUME NEW pc \in Pc, s \in Unsaved, Goto(s, pc)
      PROVE  eval' \in [Slot -> Evaluation] /\ JobOK'
  BY <1>0, <1>2 DEF Goto, Evaluation, JobOK, Unsaved
<1>3. CASE Start(s)
  <2>1. eval' \in [Slot -> Evaluation] /\ JobOK'
    BY <1>1, <1>3 DEF Start, At, Pc
  <2> QED
    BY <1>3, <2>1 DEF Start, TypeOK
<1>4. ASSUME NEW a \in Answers, Answer(s, a)
      PROVE  Typed'
  <2> DEFINE r == eval[s].rule
             o == Verdict(eval[s].seen, a)
             e == [eval[s] EXCEPT !.out = o,
                       !.pc = IF o.emit = "none" THEN "update" ELSE "emit"]
  <2>1. r \in Rule /\ eval[s].seen \in Row
    BY <1>4 DEF Answer, At, JobOK
  <2>2. o \in Outcome
    BY <1>0, <2>1, VerdictType
  <2>3. eval' = [eval EXCEPT ![s] = e]
    BY <1>0, <1>4 DEF Answer, Evaluation
  <2> HIDE DEF o
  <2>4. e \in Evaluation /\ e.rule = r /\ e.seen = eval[s].seen /\ e.out = o
    BY <1>0, <2>2 DEF Evaluation, Pc
  <2> HIDE DEF e
  <2>5. eval' \in [Slot -> Evaluation] /\ JobOK'
    BY <1>0, <2>1, <2>2, <2>3, <2>4 DEF JobOK, Unsaved
  <2>6. Extended(streak[r], a) \in Streak \cup {NULL}
    BY <1>0, <2>1, ExtendedType DEF TypeOK
  <2>7. streak' = [streak EXCEPT ![r] = Extended(streak[r], a)]
    BY <1>4 DEF Answer
  <2>8. streak' \in [Rule -> Streak \cup {NULL}]
    BY <2>6, <2>7 DEF TypeOK
  <2> QED
    BY <1>4, <2>5, <2>8 DEF Answer, TypeOK
<1>5. CASE RecordEvent(s)
  <2>1. s \in Unsaved /\ eval[s].rule \in Rule
    BY <1>5 DEF RecordEvent, At, Unsaved, JobOK
  <2>2. eval' \in [Slot -> Evaluation] /\ JobOK'
    BY <1>2, <1>5, <2>1 DEF RecordEvent, Pc
  <2>3. open' \in [Rule -> Int]
    BY <1>5, <2>1 DEF RecordEvent, TypeOK
  <2> QED
    BY <1>5, <2>2, <2>3 DEF RecordEvent, TypeOK
<1>6. CASE Deliver(s)
  <2>1. eval' \in [Slot -> Evaluation] /\ JobOK'
    BY <1>2, <1>6 DEF Deliver, At, Unsaved, Pc
  <2> QED
    BY <1>6, <2>1 DEF Deliver, TypeOK
<1>7. CASE StoreState(s)
  <2> DEFINE r == eval[s].rule
             o == eval[s].out
  <2>1. s \in Unsaved /\ r \in Rule /\ o \in Outcome
    BY <1>7 DEF StoreState, At, Unsaved, JobOK
  <2>2. eval' \in [Slot -> Evaluation] /\ JobOK'
    BY <1>2, <1>7, <2>1 DEF StoreState, Pc
  <2>3. row' \in [Rule -> Row \cup {NULL}]
    <3>1. CASE row[r] = NULL
      BY <1>7, <3>1 DEF StoreState, TypeOK
    <3>2. CASE row[r] # NULL
      <4>1. row[r] \in Row
        BY <2>1, <3>2 DEF TypeOK
      <4>2. [enabled |-> row[r].enabled, def |-> row[r].def, state |-> o.state,
             since |-> o.since, last |-> o.last] \in Row
        BY <2>1, <4>1 DEF Row, Outcome, Time
      <4> QED
        BY <1>7, <2>1, <3>2, <4>2 DEF StoreState, TypeOK
    <3> QED
      BY <3>1, <3>2
  <2> QED
    BY <1>7, <2>2, <2>3 DEF StoreState, TypeOK
<1>8. CASE Finish(s)
  <2>1. Idle \in Evaluation /\ Idle.pc = "idle"
    BY DEF Idle, Evaluation, Pc
  <2>2. eval' \in [Slot -> Evaluation] /\ JobOK'
    BY <1>0, <1>8, <2>1 DEF Finish, JobOK, Unsaved
  <2> QED
    BY <1>8, <2>2 DEF Finish, TypeOK
<1> QED
  BY <1>3, <1>4, <1>5, <1>6, <1>7, <1>8 DEF Progress, Answers

LEMMA FailureTyped ==
    ASSUME Typed, NEW s \in Slot, Failure(s)
    PROVE  Typed'
<1> USE DEF Typed, dbVars
<1>1. s \in Unsaved /\ eval[s].rule \in Rule /\ eval[s] \in Evaluation
  BY DEF Failure, RecordEventFails, StoreStateFails, At, Unsaved, JobOK, TypeOK
<1>2. \E pc \in Pc : Goto(s, pc)
  BY DEF Failure, RecordEventFails, StoreStateFails, Pc
<1>3. eval' \in [Slot -> Evaluation] /\ JobOK'
  BY <1>1, <1>2 DEF Goto, Evaluation, JobOK, Unsaved, TypeOK
<1>4. faults' \in 0..MaxFault
  BY BoundAssumption
     DEF Failure, RecordEventFails, StoreStateFails, Fault, TypeOK
<1>5. torn' \subseteq Rule
  BY <1>1 DEF Failure, RecordEventFails, StoreStateFails, TypeOK
<1> QED
  BY <1>3, <1>4, <1>5 DEF Failure, RecordEventFails, StoreStateFails, TypeOK

LEMMA RestartTyped ==
    ASSUME Typed, Restart
    PROVE  Typed'
<1> USE DEF Typed, dbVars
<1>1. Idle \in Evaluation /\ Idle.pc = "idle"
  BY DEF Idle, Evaluation, Pc
<1>2. eval' \in [Slot -> Evaluation] /\ JobOK'
  BY <1>1 DEF Restart, JobOK, Unsaved
<1>3. torn' \subseteq Rule
  BY DEF Restart, JobOK, Unsaved, TypeOK
<1>4. faults' \in 0..MaxFault
  BY BoundAssumption DEF Restart, Fault, TypeOK
<1>5. executor' \in BOOLEAN
  BY Zenon DEF Restart
<1>6. snap' \in [Rule -> Row \cup {NULL}] /\ loop' = "idle" /\ running' = {}
  BY DEF Restart, NoSnap
<1> QED
  BY <1>2, <1>3, <1>4, <1>5, <1>6 DEF Restart, TypeOK

LEMMA NextTyped == Typed /\ [Next]_vars => Typed'
<1> SUFFICES ASSUME Typed, [Next]_vars
             PROVE  Typed'
  OBVIOUS
<1>1. CASE Admin
  BY <1>1, AdminTyped
<1>2. CASE LoopStep
  BY <1>2, LoopTyped
<1>3. ASSUME NEW s \in Slot, Progress(s) \/ Failure(s)
      PROVE  Typed'
  BY <1>3, ProgressTyped, FailureTyped
<1>4. CASE SetExecutor
  <2>1. executor' \in BOOLEAN
    BY <1>4, Zenon DEF SetExecutor
  <2> QED
    BY <1>4, <2>1 DEF SetExecutor, Typed, TypeOK, JobOK, Unsaved, history, dbVars
<1>5. CASE Restart
  BY <1>5, RestartTyped
<1>6. CASE Tick
  BY <1>6, BoundAssumption
     DEF Tick, Typed, TypeOK, JobOK, Unsaved, history, dbVars, procVars
<1>7. CASE UNCHANGED vars
  BY <1>7 DEF vars, Typed, TypeOK, JobOK, Unsaved
<1> QED
  BY <1>1, <1>2, <1>3, <1>4, <1>5, <1>6, <1>7 DEF Next

(* Every variable keeps its type; a goroutine that has answered holds a    *)
(* verdict.                                                                *)
THEOREM AlwaysTyped == Spec => []Typed
BY InitTyped, NextTyped, PTL DEF Spec

(* Every variable of the scheduler keeps its type: rows, passes and        *)
(* goroutines hold values that service.go can put there.                   *)
THEOREM TypeCorrect == Spec => []TypeOK
BY AlwaysTyped, PTL DEF Typed

-----------------------------------------------------------------------------
(* One evaluation per rule.                                                *)

Exclusive == Typed /\ OneEvaluationPerRule

(* A step that neither starts nor ends a goroutine.                        *)
LEMMA SameJobs ==
    ASSUME OneEvaluationPerRule, running' = running,
           \A s \in Slot : /\ eval'[s].pc = "idle" <=> eval[s].pc = "idle"
                           /\ eval'[s].rule = eval[s].rule
    PROVE  OneEvaluationPerRule'
<1>1. Live' = Live
  BY DEF Live
<1>2. \A s \in Live : eval'[s].rule = eval[s].rule
  BY DEF Live
<1> QED
  BY <1>1, <1>2 DEF OneEvaluationPerRule

LEMMA DispatchExclusive ==
    ASSUME Exclusive, NEW r \in Rule, NEW s \in Slot, Dispatch(r, s)
    PROVE  OneEvaluationPerRule'
<1>1. /\ eval[s].pc = "idle" /\ r \notin running /\ running' = running \cup {r}
      /\ eval'[s].pc = "start" /\ eval'[s].rule = r
      /\ \A t \in Slot \ {s} : eval'[t] = eval[t]
  BY DEF Dispatch, Spawn, Exclusive, Typed, TypeOK
<1>2. Live' = Live \cup {s} /\ s \notin Live
  BY <1>1 DEF Live
<1>3. \A t \in Live : eval'[t].rule = eval[t].rule /\ eval[t].rule # r
  BY <1>1, <1>2 DEF Live, Exclusive, OneEvaluationPerRule
<1> QED
  BY <1>1, <1>2, <1>3 DEF Exclusive, OneEvaluationPerRule

LEMMA FinishExclusive ==
    ASSUME Exclusive, NEW s \in Slot, Finish(s)
    PROVE  OneEvaluationPerRule'
<1>1. /\ eval[s].pc = "finish" /\ running' = running \ {eval[s].rule}
      /\ eval'[s].pc = "idle" /\ \A t \in Slot \ {s} : eval'[t] = eval[t]
  BY DEF Finish, At, Idle, Exclusive, Typed, TypeOK
<1>2. Live' = Live \ {s} /\ s \in Live
  BY <1>1 DEF Live
<1>3. \A t \in Live' : eval'[t].rule = eval[t].rule /\ eval[t].rule # eval[s].rule
  BY <1>1, <1>2 DEF Live, Exclusive, OneEvaluationPerRule
<1> QED
  BY <1>1, <1>2, <1>3 DEF Exclusive, OneEvaluationPerRule

LEMMA GotoSameJobs ==
    ASSUME Exclusive, NEW s \in Slot, NEW pc \in Pc \ {"idle"}, eval[s].pc # "idle",
           Goto(s, pc), running' = running
    PROVE  OneEvaluationPerRule'
<1>1. \A t \in Slot : /\ eval'[t].pc = "idle" <=> eval[t].pc = "idle"
                      /\ eval'[t].rule = eval[t].rule
  BY DEF Goto, Exclusive, Typed, TypeOK, Evaluation
<1> QED
  BY <1>1, SameJobs DEF Exclusive

LEMMA NextExclusive == Exclusive /\ [Next]_vars => OneEvaluationPerRule'
<1> SUFFICES ASSUME Exclusive, [Next]_vars
             PROVE  OneEvaluationPerRule'
  OBVIOUS
<1>1. ASSUME running' = running, eval' = eval
      PROVE  OneEvaluationPerRule'
  BY <1>1, SameJobs DEF Exclusive
<1>2. CASE Admin
  BY <1>1, <1>2 DEF Admin, CreateRule, UpdateRule, DeleteRule, procVars
<1>3. CASE LoopStep
  BY <1>1, <1>3, DispatchExclusive DEF LoopStep, ReadRules, ReadClock, SkipRunning
<1>4. ASSUME NEW s \in Slot, Progress(s)
      PROVE  OneEvaluationPerRule'
  <2>1. CASE Start(s)
    BY <2>1, GotoSameJobs DEF Start, At, Pc
  <2>2. ASSUME NEW a \in Answers, Answer(s, a)
        PROVE  OneEvaluationPerRule'
    <3>1. \A t \in Slot : /\ eval'[t].pc = "idle" <=> eval[t].pc = "idle"
                          /\ eval'[t].rule = eval[t].rule
      BY <2>2 DEF Answer, At, Exclusive, Typed, TypeOK, Evaluation
    <3> QED
      BY <2>2, <3>1, SameJobs DEF Answer, Exclusive
  <2>3. CASE RecordEvent(s) \/ Deliver(s) \/ StoreState(s)
    BY <2>3, GotoSameJobs DEF RecordEvent, Deliver, StoreState, At, Pc
  <2> QED
    BY <1>4, <2>1, <2>2, <2>3, FinishExclusive DEF Progress, Answers
<1>5. ASSUME NEW s \in Slot, Failure(s)
      PROVE  OneEvaluationPerRule'
  BY <1>5, GotoSameJobs DEF Failure, RecordEventFails, StoreStateFails, At, Pc
<1>6. CASE SetExecutor \/ Tick \/ UNCHANGED vars
  BY <1>1, <1>6 DEF SetExecutor, Tick, vars, procVars
<1>7. CASE Restart
  <2>1. running' = {} /\ Live' = {}
    BY <1>7 DEF Restart, Live, Idle
  <2> QED
    BY <2>1 DEF OneEvaluationPerRule
<1> QED
  BY <1>2, <1>3, <1>4, <1>5, <1>6, <1>7 DEF Next

(* No rule is ever evaluated twice at once, and Service.running names the  *)
(* rules under evaluation and no other.                                    *)
THEOREM OneEvaluation == Spec => []OneEvaluationPerRule
<1>1. Init => OneEvaluationPerRule
  BY DEF Init, OneEvaluationPerRule, Live, Idle
<1>2. Typed /\ OneEvaluationPerRule /\ [Next]_vars => OneEvaluationPerRule'
  BY NextExclusive DEF Exclusive
<1> QED
  BY <1>1, <1>2, AlwaysTyped, PTL DEF Spec

-----------------------------------------------------------------------------
(* last_evaluated_at never moves back.                                     *)

NotAfter(q, t) == q # NULL /\ q.last # NULL => q.last <= t

(* Rows are not from the future, a verdict about to be written is not      *)
(* older than the row it overwrites, and ids are not used twice.           *)
TimeOK ==
    /\ \A r \in Rule : NotAfter(row[r], now)
    /\ \A s \in Unsaved : /\ eval[s].out.last <= now
                          /\ NotAfter(row[eval[s].rule], eval[s].out.last)
    /\ \A r \in Rule : r >= nextRule => row[r] = NULL

Ordered == Exclusive /\ TimeOK

NeverBack ==
    \A r \in Rule :
      (row[r] # NULL /\ row'[r] # NULL /\ row[r].last # NULL)
        => (row'[r].last # NULL /\ row[r].last <= row'[r].last)

LEMMA InitTimeOK == Init => TimeOK
BY DEF Init, TimeOK, NotAfter, NoSnap, Unsaved, Idle

(* A step that writes no row and computes no verdict.                      *)
LEMMA SameTimes ==
    ASSUME Ordered, row' = row, nextRule' = nextRule, now' \in Nat, now <= now',
           \A s \in Unsaved' : /\ s \in Unsaved /\ eval'[s].rule = eval[s].rule
                               /\ eval'[s].out = eval[s].out
    PROVE  TimeOK' /\ NeverBack
<1>1. now \in Nat /\ row \in [Rule -> Row \cup {NULL}]
  BY BoundAssumption DEF Ordered, Exclusive, Typed, TypeOK
<1>2. \A r \in Rule : row[r] # NULL /\ row[r].last # NULL => row[r].last \in Nat
  BY <1>1 DEF Row, Time
<1>3. \A s \in Unsaved : eval[s].out.last \in Nat
  BY DEF Ordered, Exclusive, Typed, JobOK, Outcome, Unsaved
<1>4. \A r \in Rule : NotAfter(row'[r], now')
  BY <1>1, <1>2 DEF Ordered, TimeOK, NotAfter
<1>5. \A s \in Unsaved' : /\ eval'[s].out.last <= now'
                          /\ NotAfter(row'[eval'[s].rule], eval'[s].out.last)
  BY <1>1, <1>3 DEF Ordered, TimeOK, NotAfter
<1>6. NeverBack
  BY <1>2 DEF NeverBack
<1> QED
  BY <1>4, <1>5, <1>6 DEF TimeOK, Ordered

LEMMA AdminTimes ==
    ASSUME Ordered, Admin
    PROVE  TimeOK' /\ NeverBack
<1>1. /\ now' = now /\ eval' = eval /\ Unsaved' = Unsaved
      /\ row \in [Rule -> Row \cup {NULL}] /\ nextRule \in Nat
  BY BoundAssumption DEF Admin, CreateRule, UpdateRule, DeleteRule, procVars, Unsaved,
     Ordered, Exclusive, Typed, TypeOK
<1>2. \A s \in Unsaved : eval[s].rule \in Rule
  BY DEF Ordered, Exclusive, Typed, JobOK, Unsaved
<1>3. \A r \in Rule : row[r] # NULL /\ row[r].last # NULL => row[r].last \in Nat
  BY <1>1 DEF Row, Time
<1>4. ASSUME \A r \in Rule : \/ row'[r] = NULL \/ row'[r].last = NULL
                             \/ row[r] # NULL /\ row'[r].last = row[r].last,
             \A r \in Rule : r >= nextRule' => row'[r] = NULL
      PROVE  TimeOK'
  BY <1>1, <1>2, <1>4 DEF Ordered, TimeOK, NotAfter
<1>5. ASSUME NEW e \in BOOLEAN, CreateRule(e)
      PROVE  TimeOK' /\ NeverBack
  <2>1. row' = [row EXCEPT ![nextRule] = NewRow(e)] /\ nextRule' = nextRule + 1
    BY <1>5 DEF CreateRule
  <2>2. row[nextRule] = NULL
    BY <1>1, <1>5 DEF CreateRule, Ordered, TimeOK, Rule
  <2>3. NewRow(e).last = NULL
    BY DEF NewRow
  <2>4. \A r \in Rule : r >= nextRule' => row'[r] = NULL
    BY <1>1, <2>1 DEF Ordered, TimeOK, Rule
  <2>5. \A r \in Rule : r # nextRule => row'[r] = row[r]
    BY <1>1, <2>1
  <2>6. row'[nextRule].last = NULL \/ nextRule \notin Rule
    BY <1>1, <2>1, <2>3
  <2>7. NeverBack
    BY <1>3, <2>2, <2>5 DEF NeverBack
  <2> QED
    BY <1>4, <2>4, <2>5, <2>6, <2>7
<1>6. ASSUME NEW r \in Rule, NEW e \in BOOLEAN, UpdateRule(r, e)
      PROVE  TimeOK' /\ NeverBack
  <2>1. /\ row[r] # NULL /\ row'[r].last = row[r].last
        /\ \A q \in Rule \ {r} : row'[q] = row[q]
        /\ nextRule' = nextRule
    BY <1>1, <1>6 DEF UpdateRule
  <2>2. \A q \in Rule : q >= nextRule' => row'[q] = NULL
    BY <2>1 DEF Ordered, TimeOK
  <2>3. NeverBack
    BY <1>3, <2>1 DEF NeverBack
  <2> QED
    BY <1>4, <2>1, <2>2, <2>3
<1>7. ASSUME NEW r \in Rule, DeleteRule(r)
      PROVE  TimeOK' /\ NeverBack
  <2>1. /\ row'[r] = NULL /\ nextRule' = nextRule
        /\ \A q \in Rule \ {r} : row'[q] = row[q]
    BY <1>1, <1>7 DEF DeleteRule
  <2>2. \A q \in Rule : q >= nextRule' => row'[q] = NULL
    BY <2>1 DEF Ordered, TimeOK
  <2>3. NeverBack
    BY <1>3, <2>1 DEF NeverBack
  <2> QED
    BY <1>4, <2>1, <2>2, <2>3
<1> QED
  BY <1>5, <1>6, <1>7 DEF Admin

LEMMA AnswerTimes ==
    ASSUME Ordered, NEW s \in Slot, NEW a \in Answers, Answer(s, a)
    PROVE  TimeOK' /\ NeverBack
<1>1. /\ now \in Nat /\ now' = now /\ row' = row /\ nextRule' = nextRule
      /\ eval \in [Slot -> Evaluation] /\ row \in [Rule -> Row \cup {NULL}]
  BY BoundAssumption DEF Answer, dbVars, Ordered, Exclusive, Typed, TypeOK
<1>2. eval[s].rule \in Rule /\ eval[s].seen \in Row
  BY DEF Answer, At, Ordered, Exclusive, Typed, JobOK
<1>3. Verdict(eval[s].seen, a).last = now
  BY <1>1, <1>2, VerdictType
<1>4. eval'[s].rule = eval[s].rule /\ eval'[s].out.last = now
  BY <1>1, <1>3 DEF Answer, Evaluation
<1>5. \A t \in Slot \ {s} : eval'[t] = eval[t]
  BY <1>1 DEF Answer
<1>6. NeverBack
  BY <1>1 DEF NeverBack, Row, Time
<1>7. \A t \in Unsaved' : t # s => t \in Unsaved /\ eval'[t] = eval[t]
  BY <1>5 DEF Unsaved
<1> QED
  BY <1>1, <1>2, <1>4, <1>6, <1>7 DEF Ordered, TimeOK, NotAfter

(* The one place that needs the goroutine to be alone with its rule.       *)
LEMMA StoreTimes ==
    ASSUME Ordered, NEW s \in Slot, StoreState(s)
    PROVE  TimeOK' /\ NeverBack
<1> DEFINE r == eval[s].rule
           o == eval[s].out
<1>1. /\ now \in Nat /\ now' = now /\ nextRule' = nextRule
      /\ row \in [Rule -> Row \cup {NULL}] /\ eval \in [Slot -> Evaluation]
  BY BoundAssumption DEF StoreState, Ordered, Exclusive, Typed, TypeOK
<1>2. s \in Unsaved /\ s \in Live /\ r \in Rule /\ o.last \in Nat /\ o.last <= now
  BY DEF StoreState, At, Unsaved, Live, Ordered, Exclusive, Typed, JobOK, TimeOK,
     Outcome
<1>3. \A q \in Rule \ {r} : row'[q] = row[q]
  BY <1>1 DEF StoreState
<1>4. \/ row[r] = NULL /\ row'[r] = NULL
      \/ row[r] # NULL /\ row'[r].last = o.last
  BY <1>1, <1>2 DEF StoreState
<1>5. \A t \in Unsaved' : t \in Unsaved /\ t # s /\ eval'[t] = eval[t]
  BY <1>1 DEF StoreState, Goto, Unsaved, Evaluation
<1>6. \A t \in Unsaved : t # s => eval[t].rule # r /\ eval[t].rule \in Rule
  <2>1. Unsaved \subseteq Live
    BY DEF Unsaved, Live
  <2> QED
    BY <1>2, <2>1 DEF Ordered, Exclusive, OneEvaluationPerRule, Typed, JobOK, Live
<1>7. NotAfter(row[r], o.last)
  BY <1>2 DEF Ordered, TimeOK
<1>8. \A q \in Rule : NotAfter(row'[q], now)
  BY <1>1, <1>2, <1>3, <1>4 DEF Ordered, TimeOK, NotAfter
<1>9. \A q \in Rule : q >= nextRule => row'[q] = NULL
  BY <1>3, <1>4 DEF Ordered, TimeOK
<1>10. NeverBack
  <2> SUFFICES ASSUME NEW q \in Rule, row[q] # NULL, row'[q] # NULL, row[q].last # NULL
               PROVE  row'[q].last # NULL /\ row[q].last <= row'[q].last
    BY DEF NeverBack
  <2>1. row[q].last \in Nat
    BY <1>1 DEF Row, Time
  <2>2. CASE q = r
    BY <1>2, <1>4, <1>7, <2>2, NullAssumption DEF NotAfter
  <2>3. CASE q # r
    BY <1>3, <2>1, <2>3
  <2> QED
    BY <2>2, <2>3
<1>11. \A t \in Unsaved' : /\ eval'[t].out.last <= now'
                           /\ NotAfter(row'[eval'[t].rule], eval'[t].out.last)
  BY <1>1, <1>3, <1>5, <1>6 DEF Ordered, TimeOK
<1> QED
  BY <1>1, <1>8, <1>9, <1>10, <1>11 DEF TimeOK

LEMMA NextTimes == Ordered /\ [Next]_vars => TimeOK' /\ NeverBack
<1> SUFFICES ASSUME Ordered, [Next]_vars
             PROVE  TimeOK' /\ NeverBack
  OBVIOUS
<1>0. now \in Nat /\ eval \in [Slot -> Evaluation]
  BY BoundAssumption DEF Ordered, Exclusive, Typed, TypeOK
<1>1. CASE Admin
  BY <1>1, AdminTimes
<1>2. CASE LoopStep
  <2>1. /\ row' = row /\ nextRule' = nextRule /\ now' = now
    BY <1>2 DEF LoopStep, ReadRules, ReadClock, SkipRunning, Dispatch, Spawn, dbVars
  <2>2. \A s \in Unsaved' : s \in Unsaved /\ eval'[s] = eval[s]
    BY <1>0, <1>2 DEF LoopStep, ReadRules, ReadClock, SkipRunning, Dispatch, Spawn,
       Unsaved
  <2> QED
    BY <1>0, <2>1, <2>2, SameTimes
<1>3. ASSUME NEW s \in Slot, Start(s) \/ RecordEvent(s) \/ Deliver(s) \/ Finish(s)
                              \/ Failure(s)
      PROVE  TimeOK' /\ NeverBack
  <2>1. row' = row /\ nextRule' = nextRule /\ now' = now
    BY <1>3 DEF Start, RecordEvent, Deliver, Finish, Failure, RecordEventFails,
       StoreStateFails, dbVars
  <2>2. \A t \in Unsaved' : /\ t \in Unsaved /\ eval'[t].rule = eval[t].rule
                            /\ eval'[t].out = eval[t].out
    BY <1>0, <1>3 DEF Start, RecordEvent, Deliver, Finish, Failure, RecordEventFails,
       StoreStateFails, Goto, At, Idle, Unsaved, Evaluation
  <2> QED
    BY <1>0, <2>1, <2>2, SameTimes
<1>4. ASSUME NEW s \in Slot, Progress(s)
      PROVE  TimeOK' /\ NeverBack
  BY <1>3, <1>4, AnswerTimes, StoreTimes DEF Progress, Answers
<1>5. CASE SetExecutor \/ Tick \/ UNCHANGED vars
  BY <1>0, <1>5, SameTimes DEF SetExecutor, Tick, vars, dbVars, procVars, Unsaved
<1>6. CASE Restart
  <2>1. Unsaved' = {} /\ row' = row /\ nextRule' = nextRule /\ now' = now
    BY <1>6 DEF Restart, Unsaved, Idle, dbVars
  <2> QED
    BY <1>0, <2>1, SameTimes
<1> QED
  BY <1>1, <1>2, <1>3, <1>4, <1>5, <1>6 DEF Next

(* Times are never in the future, and a live evaluation is the only writer *)
(* of its row (Service.running, service.go:137).                           *)
THEOREM AlwaysOrdered == Spec => []Ordered
<1>1. Typed /\ OneEvaluationPerRule /\ TimeOK /\ [Next]_vars => TimeOK'
  BY NextTimes DEF Ordered, Exclusive
<1> QED
  BY <1>1, InitTimeOK, AlwaysTyped, OneEvaluation, PTL DEF Spec, Ordered, Exclusive

(* Whatever the interleaving of passes, evaluations, edits, failures and   *)
(* restarts, a row's evaluation time never moves back.                     *)
THEOREM NeverOverwritesLater == Spec => LastEvaluatedMonotone
<1>1. Ordered /\ [Next]_vars => [NeverBack]_vars
  BY NextTimes
<1> QED
  BY <1>1, AlwaysOrdered, PTL DEF Spec, LastEvaluatedMonotone, NeverBack

-----------------------------------------------------------------------------
(* The story of a rule: its row, its events and its run of true results.   *)

Intact(r) == row[r] # NULL /\ r \notin torn

(* The incidents that a row, or an outcome, says are open.                 *)
Says(q) == IF q.state = "firing" THEN 1 ELSE 0

(* A pending window is covered by the run of true results.                 *)
Counted(k, q) ==
    q.state = "pending" => /\ k # NULL /\ k.upto = q.last
                           /\ q.since # NULL => k.from <= q.since

(* What a verdict announces is the difference it makes.                    *)
Judged(q, o) ==
    /\ o.emit = "none" => (o.state = "firing" <=> q.state = "firing")
    /\ o.emit = "firing" => o.state = "firing" /\ q.state # "firing"
    /\ o.emit = "resolved" => o.state = "inactive" /\ q.state = "firing"

VerdictsOK ==
    \A s \in Unsaved : /\ Judged(eval[s].seen, eval[s].out)
                       /\ eval[s].pc # "update" => eval[s].out.emit # "none"

Earned(k) == k # NULL /\ k.upto - k.from >= For

(* Of an intact rule: the event leads, the row follows.                    *)
Follows(s) ==
    LET r == eval[s].rule IN
    /\ eval[s].pc # "finish" => eval[s].seen = row[r]
    /\ open[r] = Says(IF eval[s].pc \in {"deliver", "update"} THEN eval[s].out ELSE row[r])
    /\ Counted(streak[r], IF s \in Unsaved THEN eval[s].out ELSE row[r])
    /\ eval[s].pc = "emit" /\ eval[s].out.emit = "firing" => Earned(streak[r])

WorkFollows == \A s \in Live : Intact(eval[s].rule) => Follows(s)

RestAgrees ==
    \A r \in Rule : Intact(r) /\ r \notin running =>
        open[r] = Says(row[r]) /\ Counted(streak[r], row[r])

RunsOK ==
    \A r \in Rule : streak[r] # NULL => streak[r].from <= streak[r].upto /\ streak[r].upto <= now

(* An id that was not given out has no story yet.                          *)
Unborn ==
    \A r \in Rule : r >= nextRule =>
        row[r] = NULL /\ snap[r] = NULL /\ r \notin running /\ open[r] = 0 /\ streak[r] = NULL

StoryOK == VerdictsOK /\ WorkFollows /\ RestAgrees /\ RunsOK /\ Unborn

Story == Ordered /\ StoryOK

LEMMA VerdictJudged ==
    ASSUME NEW q \in Row, NEW a \in Answers
    PROVE  Judged(q, Verdict(q, a))
<1> DEFINE c == Carried(q)
<1>1. /\ c \in [state : State, since : Time]
      /\ c.state = "firing" <=> q.state = "firing"
  BY CarriedType DEF Carried, Broken, Reset, Keep
<1> HIDE DEF c
<1>2. /\ OnError(c).emit = "none"
      /\ OnError(c).state = "firing" <=> c.state = "firing"
  BY <1>1 DEF OnError, AsOutcome, Reset
<1>3. /\ OnFalse(c).state = "inactive"
      /\ OnFalse(c).emit = IF c.state = "firing" THEN "resolved" ELSE "none"
  BY DEF OnFalse, AsOutcome, Reset
<1>4. \/ OnTrue(c).emit = "none" /\ (OnTrue(c).state = "firing" <=> c.state = "firing")
      \/ OnTrue(c).emit = "firing" /\ OnTrue(c).state = "firing" /\ c.state # "firing"
  <2> DEFINE o == Onset(c)
  <2>1. /\ o.state = "firing" <=> c.state = "firing"
        /\ Reached(o) => o.state = "pending"
        /\ [o EXCEPT !.state = "firing"].state = "firing"
    BY DEF Onset, Reached
  <2> HIDE DEF o
  <2> QED
    BY <2>1 DEF OnTrue, AsOutcome, o
<1> QED
  BY <1>1, <1>2, <1>3, <1>4 DEF Judged, Verdict, Answers, c

(* The verdict and the documentation's count keep in step: a window the    *)
(* code lets run is covered by true results, and a firing has earned For.  *)
LEMMA VerdictCounted ==
    ASSUME now \in Nat, NEW q \in Row, NEW a \in Answers, NEW k \in Streak \cup {NULL},
           k # NULL => k.from <= k.upto /\ k.upto <= now,
           Counted(k, q)
    PROVE  /\ Counted(Extended(k, a), Verdict(q, a))
           /\ Verdict(q, a).emit = "firing" => Earned(Extended(k, a))
           /\ Extended(k, a) # NULL => /\ Extended(k, a).from <= Extended(k, a).upto
                                       /\ Extended(k, a).upto <= now
<1> DEFINE c == Carried(q)
           x == Extended(k, a)
<1>0. /\ q.last \in Time /\ q.since \in Time /\ NULL \notin Nat /\ NULL \notin Streak
      /\ Interval \in Nat
  BY NullAssumption, AbsentAssumption, RuleAssumption DEF Row, Time
<1>1. /\ c \in [state : State, since : Time]
      /\ c.state = "pending" => /\ q.state = "pending" /\ c.since = q.since
                                /\ q.last # NULL /\ ~(now - q.last > 2 * Interval)
  BY CarriedType DEF Carried, Broken, Reset, Keep
<1> HIDE DEF c
<1>2. CASE a # "true"
  <2>1. OnError(c).state # "pending" /\ OnError(c).emit = "none"
    BY DEF OnError, AsOutcome, Reset
  <2>2. OnFalse(c).state # "pending" /\ OnFalse(c).emit # "firing"
    BY DEF OnFalse, AsOutcome, Reset
  <2>3. x = NULL
    BY <1>2 DEF Extended
  <2> QED
    BY <1>2, <2>1, <2>2, <2>3 DEF Verdict, Answers, Counted, c
<1>3. CASE a = "true"
  <2> DEFINE o == Onset(c)
  <2>1. x \in Streak /\ x.upto = now /\ x.from <= now /\ x # NULL
    BY <1>0, <1>3 DEF Extended, Streak
  <2>2. o \in [state : State, since : Time] /\ o.since # NULL
    BY <1>0, <1>1 DEF Onset, State, Time
  <2>3. o.state = "pending" => x.from <= o.since
    <3>1. CASE c.state = "pending" /\ c.since # NULL
      <4>1. k # NULL /\ k.upto = q.last /\ k.from <= q.since
        BY <1>1, <3>1 DEF Counted
      <4>2. x.from = k.from
        BY <1>0, <1>1, <1>3, <3>1, <4>1 DEF Extended, Streak
      <4> QED
        BY <1>1, <3>1, <4>1, <4>2 DEF Onset
    <3>2. CASE ~(c.state = "pending" /\ c.since # NULL)
      BY <2>1, <3>2 DEF Onset
    <3> QED
      BY <3>1, <3>2
  <2> HIDE DEF o
  <2>4. Verdict(q, a) = IF Reached(o) THEN AsOutcome([o EXCEPT !.state = "firing"], "firing")
                                      ELSE AsOutcome(o, "none")
    BY <1>3 DEF Verdict, OnTrue, o, c
  <2>5. CASE Reached(o)
    <3>1. Verdict(q, a).emit = "firing" /\ Verdict(q, a).state = "firing"
      BY <2>2, <2>4, <2>5 DEF AsOutcome
    <3>2. o.since \in Nat /\ x.from <= o.since /\ now - o.since >= For
      BY <2>2, <2>3, <2>5 DEF Reached, Time
    <3>3. Earned(x)
      BY <2>1, <3>2, RuleAssumption DEF Earned, Streak
    <3> QED
      BY <2>1, <3>1, <3>3 DEF Counted
  <2>6. CASE ~Reached(o)
    <3>1. /\ Verdict(q, a).emit = "none" /\ Verdict(q, a).state = o.state
          /\ Verdict(q, a).since = o.since /\ Verdict(q, a).last = now
      BY <2>4, <2>6 DEF AsOutcome
    <3> QED
      BY <2>1, <2>3, <3>1 DEF Counted
  <2> QED
    BY <2>5, <2>6
<1> QED
  BY <1>2, <1>3

-----------------------------------------------------------------------------
(* The steps of the story.                                                 *)

LEMMA InitStory == Init => StoryOK
BY DEF Init, StoryOK, VerdictsOK, WorkFollows, RestAgrees, RunsOK, Unborn, Intact, Live,
       Unsaved, Idle, NoSnap

(* What the steps below need to know of every state.                       *)
LEMMA StoryTypes ==
    ASSUME Story
    PROVE  /\ now \in Nat /\ nextRule \in Nat
           /\ row \in [Rule -> Row \cup {NULL}] /\ snap \in [Rule -> Row \cup {NULL}]
           /\ eval \in [Slot -> Evaluation] /\ open \in [Rule -> Int]
           /\ streak \in [Rule -> Streak \cup {NULL}] /\ torn \subseteq Rule
           /\ \A s \in Live : eval[s].rule \in Rule /\ eval[s].rule \in running
           /\ \A s, t \in Live : eval[s].rule = eval[t].rule => s = t
           /\ running = {eval[s].rule : s \in Live}
           /\ Unsaved \subseteq Live /\ Live \subseteq Slot
           /\ StoryOK /\ TimeOK
BY BoundAssumption
DEF Story, Ordered, Exclusive, Typed, TypeOK, JobOK, OneEvaluationPerRule, Live, Unsaved

(* A step that leaves the rows, the goroutines and the history alone.      *)
LEMMA QuietStory ==
    ASSUME Story, UNCHANGED <<row, nextRule, running, eval, open, streak, torn>>,
           now' \in Nat, now <= now',
           \A r \in Rule : r >= nextRule => snap'[r] = NULL
    PROVE  StoryOK'
<1>0. now \in Nat /\ streak \in [Rule -> Streak \cup {NULL}] /\ StoryOK
  BY StoryTypes
<1>1. Live' = Live /\ Unsaved' = Unsaved
  BY DEF Live, Unsaved
<1>2. VerdictsOK' /\ WorkFollows' /\ RestAgrees'
  BY <1>0, <1>1 DEF StoryOK, VerdictsOK, WorkFollows, RestAgrees, Intact, Follows
<1>3. RunsOK'
  BY <1>0 DEF StoryOK, RunsOK, Streak
<1>4. Unborn'
  BY <1>0 DEF StoryOK, Unborn
<1> QED
  BY <1>2, <1>3, <1>4 DEF StoryOK

(* The administrator writes the row and the history of one rule; a rule    *)
(* that is being evaluated is torn by it, or gone.                         *)
LEMMA AdminStory == ASSUME Story, Admin PROVE StoryOK'
<1>0. /\ now \in Nat /\ nextRule \in Nat
      /\ row \in [Rule -> Row \cup {NULL}] /\ open \in [Rule -> Int]
      /\ streak \in [Rule -> Streak \cup {NULL}] /\ torn \subseteq Rule
      /\ \A s \in Live : eval[s].rule \in Rule /\ eval[s].rule \in running
      /\ StoryOK
  BY StoryTypes
<1>1. now' = now /\ eval' = eval /\ running' = running /\ snap' = snap
  BY DEF Admin, CreateRule, UpdateRule, DeleteRule, procVars
<1>2. Live' = Live /\ Unsaved' = Unsaved /\ VerdictsOK'
  BY <1>0, <1>1 DEF Live, Unsaved, StoryOK, VerdictsOK
<1>3. ASSUME NEW r \in Rule,
             \A q \in Rule \ {r} : /\ row'[q] = row[q] /\ open'[q] = open[q]
                                   /\ streak'[q] = streak[q] /\ (q \in torn <=> q \in torn'),
             r \in running => ~Intact(r)',
             (Intact(r)' /\ r \notin running) => open'[r] = Says(row'[r]) /\ Counted(streak'[r], row'[r]),
             streak'[r] = NULL \/ streak'[r] = streak[r],
             nextRule' \in Nat, nextRule <= nextRule', r < nextRule'
      PROVE  StoryOK'
  <2>1. WorkFollows'
    BY <1>0, <1>1, <1>2, <1>3 DEF StoryOK, WorkFollows, Intact, Follows
  <2>2. RestAgrees'
    BY <1>0, <1>1, <1>3 DEF StoryOK, RestAgrees, Intact
  <2>3. RunsOK'
    BY <1>0, <1>1, <1>3 DEF StoryOK, RunsOK
  <2>4. Unborn'
    BY <1>0, <1>1, <1>3 DEF StoryOK, Unborn, Rule
  <2> QED
    BY <1>2, <2>1, <2>2, <2>3, <2>4 DEF StoryOK
<1>4. ASSUME NEW e \in BOOLEAN, CreateRule(e) PROVE StoryOK'
  <2>1. /\ nextRule \in Rule /\ row'[nextRule] = NewRow(e) /\ nextRule' = nextRule + 1
        /\ \A q \in Rule \ {nextRule} : row'[q] = row[q]
        /\ open' = open /\ streak' = streak /\ torn' = torn
    BY <1>0, <1>4 DEF CreateRule, history
  <2>2. nextRule \notin running /\ open[nextRule] = 0
    BY <1>0, <2>1 DEF StoryOK, Unborn
  <2>3. open'[nextRule] = Says(NewRow(e)) /\ Counted(streak'[nextRule], NewRow(e))
    BY <2>1, <2>2 DEF Says, Counted, NewRow
  <2>4. nextRule' \in Nat /\ nextRule <= nextRule' /\ nextRule < nextRule'
    BY <1>0, <2>1
  <2>5. PICK r \in Rule : r = nextRule
    BY <2>1
  <2> QED
    BY <1>3, <2>1, <2>2, <2>3, <2>4, <2>5
<1>5. ASSUME NEW r \in Rule, NEW e \in BOOLEAN, UpdateRule(r, e) PROVE StoryOK'
  <2>1. /\ row[r] # NULL /\ row'[r].state = "inactive" /\ nextRule' = nextRule
        /\ open'[r] = 0 /\ streak'[r] = NULL
        /\ \A q \in Rule \ {r} : /\ row'[q] = row[q] /\ open'[q] = open[q]
                                 /\ streak'[q] = streak[q] /\ (q \in torn <=> q \in torn')
        /\ r \in running => r \in torn'
    BY <1>0, <1>5 DEF UpdateRule
  <2>2. r < nextRule
    BY <1>0, <2>1 DEF StoryOK, Unborn, Rule
  <2>3. open'[r] = Says(row'[r]) /\ Counted(streak'[r], row'[r])
    BY <2>1 DEF Says, Counted
  <2> QED
    BY <1>0, <1>3, <2>1, <2>2, <2>3 DEF Intact
<1>6. ASSUME NEW r \in Rule, DeleteRule(r) PROVE StoryOK'
  <2>1. /\ row[r] # NULL /\ row'[r] = NULL /\ nextRule' = nextRule
        /\ open' = open /\ streak' = streak /\ torn' = torn
        /\ \A q \in Rule \ {r} : row'[q] = row[q]
    BY <1>0, <1>6 DEF DeleteRule, history
  <2>2. r < nextRule
    BY <1>0, <2>1 DEF StoryOK, Unborn, Rule
  <2> QED
    BY <1>0, <1>3, <2>1, <2>2 DEF Intact
<1> QED
  BY <1>4, <1>5, <1>6 DEF Admin

(* An evaluation starts; it agrees with its rule unless the row it is      *)
(* given is stale, and then the rule is torn.                              *)
LEMMA DispatchStory ==
    ASSUME Story, NEW r \in Rule, NEW s \in Slot, Dispatch(r, s) PROVE StoryOK'
<1>0. /\ eval \in [Slot -> Evaluation] /\ snap \in [Rule -> Row \cup {NULL}]
      /\ \A t \in Live : eval[t].rule \in Rule /\ eval[t].rule \in running
      /\ Live \subseteq Slot /\ Unsaved \subseteq Live /\ StoryOK
  BY StoryTypes
<1>1. /\ r \notin running /\ snap[r] # NULL /\ snap' = [snap EXCEPT ![r] = NULL]
      /\ eval[s].pc = "idle" /\ running' = running \cup {r}
      /\ eval' = [eval EXCEPT ![s] = [pc |-> "start", rule |-> r, seen |-> snap[r], out |-> NULL]]
      /\ torn' = (IF snap[r] # row[r] THEN torn \cup {r} ELSE torn)
      /\ UNCHANGED <<now, row, nextRule, open, streak>>
  BY DEF Dispatch, Spawn, TakeNext, dbVars
<1>2. /\ eval'[s].pc = "start" /\ eval'[s].rule = r /\ eval'[s].seen = snap[r]
      /\ \A t \in Slot \ {s} : eval'[t] = eval[t]
  BY <1>0, <1>1
<1>3. Live' = Live \cup {s} /\ Unsaved' = Unsaved /\ s \notin Live
  BY <1>1, <1>2 DEF Live, Unsaved
<1>4. VerdictsOK'
  BY <1>0, <1>2, <1>3 DEF StoryOK, VerdictsOK
<1>5. Intact(r)' => Follows(s)'
  <2> SUFFICES ASSUME Intact(r)' PROVE Follows(s)'
    OBVIOUS
  <2>1. snap[r] = row[r] /\ Intact(r)
    BY <1>1 DEF Intact
  <2>2. open[r] = Says(row[r]) /\ Counted(streak[r], row[r])
    BY <1>0, <1>1, <2>1 DEF StoryOK, RestAgrees
  <2>3. s \notin Unsaved'
    BY <1>0, <1>3
  <2> QED
    BY <1>1, <1>2, <2>1, <2>2, <2>3 DEF Follows
<1>6. WorkFollows'
  <2> SUFFICES ASSUME NEW t \in Live', Intact(eval[t].rule)' PROVE Follows(t)'
    BY DEF WorkFollows
  <2>1. CASE t = s
    BY <1>2, <1>5, <2>1 DEF Intact
  <2>2. CASE t # s
    <3>1. t \in Live /\ eval'[t] = eval[t] /\ (t \in Unsaved' <=> t \in Unsaved)
      BY <1>0, <1>2, <1>3, <2>2
    <3>2. Intact(eval[t].rule)
      BY <1>1, <3>1 DEF Intact
    <3> QED
      BY <1>0, <1>1, <3>1, <3>2 DEF StoryOK, WorkFollows, Follows
  <2> QED
    BY <2>1, <2>2
<1>7. RestAgrees'
  BY <1>0, <1>1 DEF StoryOK, RestAgrees, Intact
<1>8. RunsOK'
  BY <1>0, <1>1 DEF StoryOK, RunsOK
<1>9. Unborn'
  BY <1>0, <1>1 DEF StoryOK, Unborn
<1> QED
  BY <1>4, <1>6, <1>7, <1>8, <1>9 DEF StoryOK

(* One goroutine moves: the other rules and evaluations are as they were,  *)
(* and its own rule's story goes on.                                       *)
LEMMA JobStory ==
    ASSUME Story, NEW s \in Live, NEW r, r = eval[s].rule,
           UNCHANGED <<now, nextRule, running, snap>>,
           \A t \in Slot \ {s} : eval'[t] = eval[t],
           eval'[s].pc # "idle", eval'[s].rule = r,
           \A q \in Rule \ {r} : /\ row'[q] = row[q] /\ open'[q] = open[q]
                                 /\ streak'[q] = streak[q],
           torn \subseteq torn', row'[r] = NULL <=> row[r] = NULL,
           streak'[r] # NULL => /\ streak'[r].from <= streak'[r].upto
                                /\ streak'[r].upto <= now,
           s \in Unsaved' => /\ Judged(eval'[s].seen, eval'[s].out)
                             /\ eval'[s].pc # "update" => eval'[s].out.emit # "none",
           Intact(r)' => Follows(s)'
    PROVE  StoryOK'
<1>0. /\ \A t \in Live : eval[t].rule \in Rule /\ eval[t].rule \in running
      /\ \A t \in Live : eval[t].rule = r => t = s
      /\ Live \subseteq Slot /\ Unsaved \subseteq Live /\ StoryOK
  BY StoryTypes
<1>1. /\ Live' = Live /\ r \in Rule /\ r \in running
      /\ \A t \in Slot \ {s} : t \in Unsaved' <=> t \in Unsaved
  BY <1>0 DEF Live, Unsaved
<1>2. VerdictsOK'
  <2> SUFFICES ASSUME NEW t \in Unsaved'
               PROVE  /\ Judged(eval'[t].seen, eval'[t].out)
                      /\ eval'[t].pc # "update" => eval'[t].out.emit # "none"
    BY DEF VerdictsOK
  <2>1. CASE t = s
    BY <2>1
  <2>2. CASE t # s
    <3>1. t \in Unsaved /\ eval'[t] = eval[t]
      BY <1>1, <2>2 DEF Unsaved
    <3> QED
      BY <1>0, <3>1 DEF StoryOK, VerdictsOK
  <2> QED
    BY <2>1, <2>2
<1>3. WorkFollows'
  <2> SUFFICES ASSUME NEW t \in Live', Intact(eval[t].rule)' PROVE Follows(t)'
    BY DEF WorkFollows
  <2>1. CASE t = s
    BY <2>1 DEF Intact
  <2>2. CASE t # s
    <3>1. /\ t \in Live /\ eval'[t] = eval[t] /\ (t \in Unsaved' <=> t \in Unsaved)
          /\ eval[t].rule \in Rule \ {r}
      BY <1>0, <1>1, <2>2
    <3>2. Intact(eval[t].rule)
      BY <3>1 DEF Intact
    <3> QED
      BY <1>0, <3>1, <3>2 DEF StoryOK, WorkFollows, Follows
  <2> QED
    BY <2>1, <2>2
<1>4. RestAgrees'
  BY <1>0, <1>1 DEF StoryOK, RestAgrees, Intact
<1>5. RunsOK'
  BY <1>0, <1>1 DEF StoryOK, RunsOK
<1>6. Unborn'
  BY <1>0, <1>1 DEF StoryOK, Unborn
<1> QED
  BY <1>2, <1>3, <1>4, <1>5, <1>6 DEF StoryOK

(* What a goroutine at work knows when it moves on.                        *)
LEMMA JobTypes ==
    ASSUME Story, NEW s \in Slot, eval[s].pc # "idle"
    PROVE  /\ s \in Live /\ eval[s].rule \in Rule /\ eval[s].seen \in Row
           /\ s \in Unsaved => /\ eval[s].out \in Outcome /\ Judged(eval[s].seen, eval[s].out)
                               /\ eval[s].pc # "update" => eval[s].out.emit # "none"
           /\ Intact(eval[s].rule) => Follows(s)
           /\ RunsOK
BY DEF Story, StoryOK, VerdictsOK, WorkFollows, Ordered, Exclusive, Typed, JobOK, Live

LEMMA GotoStory ==
    ASSUME Story, NEW s \in Slot, eval[s].pc # "idle", NEW r, r = eval[s].rule,
           NEW pc \in Pc \ {"idle"}, Goto(s, pc),
           UNCHANGED <<now, row, nextRule, running, snap, streak>>,
           \A q \in Rule \ {r} : open'[q] = open[q],
           torn \subseteq torn',
           pc \in {"emit", "deliver", "update"} => s \in Unsaved,
           pc \in {"emit", "deliver"} => eval[s].pc # "update",
           Intact(r)' => Follows(s)'
    PROVE  StoryOK'
<1>1. /\ eval'[s].pc = pc /\ eval'[s].rule = r
      /\ eval'[s].seen = eval[s].seen /\ eval'[s].out = eval[s].out
      /\ \A t \in Slot \ {s} : eval'[t] = eval[t]
  BY StoryTypes DEF Goto, Evaluation
<1>2. /\ s \in Live /\ r \in Rule /\ RunsOK
      /\ s \in Unsaved => /\ Judged(eval[s].seen, eval[s].out)
                          /\ eval[s].pc # "update" => eval[s].out.emit # "none"
  BY JobTypes
<1>3. s \in Unsaved' => /\ Judged(eval'[s].seen, eval'[s].out)
                        /\ eval'[s].pc # "update" => eval'[s].out.emit # "none"
  BY <1>1, <1>2 DEF Unsaved
<1>4. streak'[r] # NULL =>
         /\ streak'[r].from <= streak'[r].upto
         /\ streak'[r].upto <= now
  BY <1>2 DEF RunsOK
<1> QED
  BY <1>1, <1>2, <1>3, <1>4, JobStory

LEMMA AnswerStory ==
    ASSUME Story, NEW s \in Slot, NEW a \in Answers, Answer(s, a) PROVE StoryOK'
<1>r. PICK r \in Rule : r = eval[s].rule
  BY JobTypes DEF Answer, At
<1> DEFINE q == eval[s].seen
           o == Verdict(q, a)
           k == Extended(streak[r], a)
<1>0. /\ now \in Nat /\ eval \in [Slot -> Evaluation] /\ streak \in [Rule -> Streak \cup {NULL}]
  BY StoryTypes
<1>1. /\ eval[s].pc = "query" /\ s \in Live /\ r \in Rule /\ q \in Row /\ RunsOK
      /\ Intact(r) => Follows(s)
  BY <1>r, JobTypes DEF Answer, At
<1>2. /\ eval' = [eval EXCEPT ![s].out = o,
                              ![s].pc = IF o.emit = "none" THEN "update" ELSE "emit"]
      /\ streak' = [streak EXCEPT ![r] = k]
      /\ UNCHANGED <<now, row, nextRule, running, snap, open, torn>>
  BY <1>r DEF Answer, dbVars
<1>3. o \in Outcome /\ Judged(q, o)
  BY <1>r, <1>0, <1>1, VerdictType, VerdictJudged
<1>4. /\ Intact(r) => Counted(k, o) /\ (o.emit = "firing" => Earned(k))
      /\ k # NULL => k.from <= k.upto /\ k.upto <= now
  <2>1. streak[r] \in Streak \cup {NULL}
        /\ (streak[r] # NULL => streak[r].from <= streak[r].upto /\ streak[r].upto <= now)
    BY <1>r, <1>0, <1>1 DEF RunsOK
  <2>2. Intact(r) => Counted(streak[r], q)
    BY <1>r, <1>1 DEF Follows, Unsaved
  <2>3. k # NULL => k.from <= k.upto /\ k.upto <= now
    BY <1>r, <1>0, <2>1, NullAssumption DEF Extended, Streak
  <2> QED
    BY <1>r, <1>0, <1>1, <2>1, <2>2, <2>3, VerdictCounted
<1> HIDE DEF o, k
<1>5. /\ eval'[s].pc = (IF o.emit = "none" THEN "update" ELSE "emit")
      /\ eval'[s].out = o /\ eval'[s].rule = r /\ eval'[s].seen = q
      /\ \A t \in Slot \ {s} : eval'[t] = eval[t]
      /\ streak'[r] = k /\ \A p \in Rule \ {r} : streak'[p] = streak[p]
  BY <1>r, <1>0, <1>1, <1>2 DEF Evaluation
<1>6. s \in Unsaved'
  BY <1>r, <1>5 DEF Unsaved
<1>7. Intact(r)' => Follows(s)'
  <2> SUFFICES ASSUME Intact(r) PROVE Follows(s)'
    BY <1>r, <1>2 DEF Intact
  <2>1. q = row[r] /\ open[r] = Says(row[r])
    BY <1>r, <1>1 DEF Follows
  <2>2. o.emit = "none" => Says(o) = Says(q)
    BY <1>r, <1>3 DEF Judged, Says
  <2> QED
    BY <1>r, <1>2, <1>4, <1>5, <1>6, <2>1, <2>2 DEF Follows
<1>8. Judged(eval'[s].seen, eval'[s].out) /\ (eval'[s].pc # "update" => eval'[s].out.emit # "none")
  BY <1>r, <1>3, <1>5
<1>9. /\ eval'[s].pc # "idle"
      /\ \A p \in Rule \ {r} : row'[p] = row[p] /\ open'[p] = open[p] /\ streak'[p] = streak[p]
      /\ torn \subseteq torn' /\ (row'[r] = NULL <=> row[r] = NULL)
      /\ (streak'[r] # NULL => streak'[r].from <= streak'[r].upto /\ streak'[r].upto <= now)
  BY <1>2, <1>4, <1>5
<1> QED
  BY <1>r, <1>1, <1>2, <1>5, <1>7, <1>8, <1>9, JobStory

(* The event comes first: with it the count agrees with the outcome.       *)
LEMMA RecordStory ==
    ASSUME Story, NEW s \in Slot, RecordEvent(s) PROVE StoryOK'
<1>r. PICK r \in Rule : r = eval[s].rule
  BY JobTypes DEF RecordEvent, At
<1> DEFINE o == eval[s].out
<1>0. eval \in [Slot -> Evaluation] /\ open \in [Rule -> Int]
  BY StoryTypes
<1>1. /\ eval[s].pc = "emit" /\ s \in Live /\ s \in Unsaved /\ r \in Rule /\ o \in Outcome
      /\ Judged(eval[s].seen, o) /\ o.emit # "none"
      /\ Intact(r) => Follows(s)
  BY <1>r, JobTypes DEF RecordEvent, At, Unsaved
<1>2. /\ open' = [open EXCEPT ![r] = IF o.emit = "firing" THEN @ + 1 ELSE @ - 1]
      /\ Goto(s, "deliver")
      /\ UNCHANGED <<now, row, nextRule, running, snap, streak, torn>>
  BY <1>r DEF RecordEvent, dbVars
<1>3. /\ eval'[s].pc = "deliver" /\ eval'[s].rule = r /\ eval'[s].seen = eval[s].seen
      /\ eval'[s].out = o /\ s \in Unsaved'
  BY <1>r, <1>0, <1>2 DEF Goto, Evaluation, Unsaved
<1>4. Intact(r)' => Follows(s)'
  <2> SUFFICES ASSUME Intact(r) PROVE Follows(s)'
    BY <1>r, <1>2 DEF Intact
  <2>1. /\ eval[s].seen = row[r] /\ open[r] = Says(row[r])
        /\ Counted(streak[r], o)
    BY <1>r, <1>1 DEF Follows
  <2>2. open'[r] = Says(o)
    <3>1. CASE o.emit = "firing"
      BY <1>r, <1>0, <1>1, <1>2, <2>1, <3>1 DEF Judged, Says
    <3>2. CASE o.emit = "resolved"
      BY <1>r, <1>0, <1>1, <1>2, <2>1, <3>2 DEF Judged, Says
    <3> QED
      BY <1>r, <1>1, <3>1, <3>2 DEF Outcome, Status
  <2> QED
    BY <1>r, <1>2, <1>3, <2>1, <2>2 DEF Follows
<1>5. \A q \in Rule \ {r} : open'[q] = open[q]
  BY <1>r, <1>0, <1>2
<1> QED
  BY <1>r, <1>1, <1>2, <1>4, <1>5, GotoStory DEF Pc

(* The row comes after it: it says what the outcome said.                  *)
LEMMA StoreStory ==
    ASSUME Story, NEW s \in Slot, StoreState(s) PROVE StoryOK'
<1>r. PICK r \in Rule : r = eval[s].rule
  BY JobTypes DEF StoreState, At
<1> DEFINE o == eval[s].out
<1>0. /\ eval \in [Slot -> Evaluation] /\ row \in [Rule -> Row \cup {NULL}]
  BY StoryTypes
<1>1. /\ eval[s].pc = "update" /\ s \in Live /\ s \in Unsaved /\ r \in Rule /\ o \in Outcome
      /\ RunsOK /\ (Intact(r) => Follows(s))
  BY <1>r, JobTypes DEF StoreState, At, Unsaved
<1>2. /\ row' = IF row[r] = NULL THEN row
                ELSE [row EXCEPT ![r] = [enabled |-> @.enabled, def |-> @.def,
                         state |-> o.state, since |-> o.since, last |-> o.last]]
      /\ Goto(s, "finish")
      /\ UNCHANGED <<now, nextRule, running, snap, open, streak, torn>>
  BY <1>r DEF StoreState, history
<1>3. /\ eval'[s].pc = "finish" /\ eval'[s].rule = r /\ s \notin Unsaved'
      /\ \A t \in Slot \ {s} : eval'[t] = eval[t]
  BY <1>r, <1>0, <1>2 DEF Goto, Evaluation, Unsaved
<1>4. /\ \A q \in Rule \ {r} : row'[q] = row[q]
      /\ row[r] = NULL => row'[r] = NULL
      /\ row[r] # NULL => /\ row'[r] # NULL /\ row'[r].state = o.state
                          /\ row'[r].since = o.since /\ row'[r].last = o.last
  <2>1. row[r] # NULL =>
          [enabled |-> row[r].enabled, def |-> row[r].def, state |-> o.state,
           since |-> o.since, last |-> o.last] \in Row
    BY <1>r, <1>0, <1>1 DEF Row, Outcome, Time
  <2> QED
    BY <1>r, <1>0, <1>1, <1>2, <2>1, AbsentAssumption
<1>5. Intact(r)' => Follows(s)'
  <2> SUFFICES ASSUME Intact(r) PROVE Follows(s)'
    BY <1>r, <1>2, <1>4 DEF Intact
  <2>1. open[r] = Says(o) /\ Counted(streak[r], o)
    BY <1>r, <1>1 DEF Follows
  <2>2. Says(row'[r]) = Says(o) /\ Counted(streak'[r], row'[r])
    BY <1>r, <1>2, <1>4, <2>1 DEF Says, Counted, Intact
  <2> QED
    BY <1>r, <1>2, <1>3, <2>1, <2>2 DEF Follows
<1>6. streak'[r] # NULL => streak'[r].from <= streak'[r].upto /\ streak'[r].upto <= now
  BY <1>r, <1>1, <1>2 DEF RunsOK
<1> QED
  BY <1>r, <1>1, <1>2, <1>3, <1>4, <1>5, <1>6, JobStory

LEMMA FinishStory ==
    ASSUME Story, NEW s \in Slot, Finish(s) PROVE StoryOK'
<1> DEFINE r == eval[s].rule
<1>0. /\ eval \in [Slot -> Evaluation] /\ StoryOK /\ Unsaved \subseteq Live
      /\ \A t \in Live : eval[t].rule \in Rule
  BY StoryTypes
<1>1. eval[s].pc = "finish" /\ s \in Live /\ s \notin Unsaved /\ (Intact(r) => Follows(s))
  BY JobTypes DEF Finish, At, Unsaved
<1>2. /\ running' = running \ {r} /\ eval' = [eval EXCEPT ![s] = Idle]
      /\ UNCHANGED <<now, row, nextRule, snap, open, streak, torn>>
  BY DEF Finish, dbVars, history
<1>3. eval'[s].pc = "idle" /\ \A t \in Slot \ {s} : eval'[t] = eval[t]
  BY <1>0, <1>2 DEF Idle
<1>4. /\ Live' = Live \ {s} /\ Unsaved' = Unsaved
      /\ \A t \in Live' : t \in Live /\ eval'[t] = eval[t]
  BY <1>1, <1>3 DEF Live, Unsaved
<1>5. VerdictsOK' /\ WorkFollows'
  <2>0. \A t \in Unsaved : eval'[t] = eval[t]
    BY <1>0, <1>1, <1>4
  <2>1. VerdictsOK'
    BY <1>0, <1>4, <2>0 DEF StoryOK, VerdictsOK
  <2>2. ASSUME NEW t \in Live', Intact(eval[t].rule)' PROVE Follows(t)'
    <3>1. t \in Live /\ eval'[t] = eval[t] /\ (t \in Unsaved' <=> t \in Unsaved)
      BY <1>4
    <3>2. Intact(eval[t].rule)
      BY <1>2, <2>2, <3>1 DEF Intact
    <3> QED
      BY <1>0, <1>2, <3>1, <3>2 DEF StoryOK, WorkFollows, Follows
  <2> QED
    BY <2>1, <2>2 DEF WorkFollows
<1>6. Intact(r) => open[r] = Says(row[r]) /\ Counted(streak[r], row[r])
  BY <1>1 DEF Follows
<1>7. RestAgrees'
  BY <1>0, <1>2, <1>6 DEF StoryOK, RestAgrees, Intact
<1>8. RunsOK' /\ Unborn'
  BY <1>0, <1>2 DEF StoryOK, RunsOK, Unborn
<1> QED
  BY <1>5, <1>7, <1>8 DEF StoryOK

(* Evaluations that had a verdict tear their rules; of the others nothing  *)
(* is lost.                                                                *)
LEMMA RestartStory == ASSUME Story, Restart PROVE StoryOK'
<1>0. /\ StoryOK /\ Unsaved \subseteq Live /\ running = {eval[s].rule : s \in Live}
  BY StoryTypes
<1>1. /\ running' = {} /\ Live' = {} /\ Unsaved' = {} /\ snap' = NoSnap
      /\ torn' = torn \cup {eval[s].rule : s \in Unsaved}
      /\ UNCHANGED <<now, row, nextRule, open, streak>>
  BY DEF Restart, Live, Unsaved, Idle, dbVars
<1>2. RestAgrees'
  <2> SUFFICES ASSUME NEW r \in Rule, Intact(r)'
               PROVE  open[r] = Says(row[r]) /\ Counted(streak[r], row[r])
    BY <1>1 DEF RestAgrees
  <2>1. Intact(r)
    BY <1>1 DEF Intact
  <2>2. CASE r \notin running
    BY <1>0, <2>1, <2>2 DEF StoryOK, RestAgrees
  <2>3. CASE r \in running
    <3>1. PICK s \in Live : eval[s].rule = r
      BY <1>0, <2>3
    <3>2. s \notin Unsaved
      BY <1>1, <3>1 DEF Intact
    <3>3. Follows(s)
      BY <1>0, <2>1, <3>1 DEF StoryOK, WorkFollows
    <3> QED
      BY <3>1, <3>2, <3>3 DEF Follows, Unsaved, Live
  <2> QED
    BY <2>2, <2>3
<1>3. VerdictsOK'
  BY <1>1, Zenon DEF VerdictsOK
<1>5. WorkFollows'
  BY <1>1, Zenon DEF WorkFollows
<1>4. RunsOK' /\ Unborn'
  BY <1>0, <1>1 DEF StoryOK, RunsOK, Unborn, NoSnap
<1> QED
  BY <1>2, <1>3, <1>4, <1>5 DEF StoryOK

LEMMA ProgressStory ==
    ASSUME Story, NEW s \in Slot, Progress(s) \/ Failure(s) PROVE StoryOK'
<1>0. /\ eval \in [Slot -> Evaluation]
  BY StoryTypes
<1>1. CASE Start(s)
  <2>r. PICK r \in Rule : r = eval[s].rule
    BY <1>1, JobTypes DEF Start, At
  <2>1. PICK pc \in {"query", "finish"} : Goto(s, pc)
    BY <1>1 DEF Start
  <2>2. /\ eval[s].pc = "start" /\ s \notin Unsaved /\ (Intact(r) => Follows(s))
        /\ UNCHANGED <<now, row, nextRule, running, snap, open, streak, torn>>
    BY <1>1, <2>r, JobTypes DEF Start, At, Unsaved, dbVars, history
  <2>3. /\ eval'[s].pc = pc /\ eval'[s].rule = r /\ eval'[s].seen = eval[s].seen
        /\ s \notin Unsaved'
    BY <1>0, <2>r, <2>1 DEF Goto, Evaluation, Unsaved
  <2>4. Intact(r)' => Follows(s)'
    BY <2>r, <2>2, <2>3 DEF Follows, Intact
  <2> QED
    BY <2>r, <2>1, <2>2, <2>4, GotoStory DEF Pc
<1>2. CASE Deliver(s)
  <2>r. PICK r \in Rule : r = eval[s].rule
    BY <1>2, JobTypes DEF Deliver, At
  <2>2. /\ eval[s].pc = "deliver" /\ s \in Unsaved /\ (Intact(r) => Follows(s))
        /\ Goto(s, "update")
        /\ UNCHANGED <<now, row, nextRule, running, snap, open, streak, torn>>
    BY <1>2, <2>r, JobTypes DEF Deliver, At, Unsaved, dbVars, history
  <2>3. /\ eval'[s].pc = "update" /\ eval'[s].rule = r /\ eval'[s].seen = eval[s].seen
        /\ eval'[s].out = eval[s].out /\ s \in Unsaved'
    BY <1>0, <2>r, <2>2 DEF Goto, Evaluation, Unsaved
  <2>4. Intact(r)' => Follows(s)'
    BY <2>r, <2>2, <2>3 DEF Follows, Intact
  <2> QED
    BY <2>r, <2>2, <2>4, GotoStory DEF Pc
<1>3. ASSUME NEW pc \in {"update", "finish"}, eval[s].pc \in {"emit", "update"},
             pc = "update" => eval[s].pc = "emit", Goto(s, pc),
             torn' = torn \cup {eval[s].rule},
             UNCHANGED <<now, row, nextRule, running, snap, open, streak>>
      PROVE  StoryOK'
  <2>r. PICK r \in Rule : r = eval[s].rule
    BY <1>3, JobTypes
  <2>1. s \in Unsaved /\ ~Intact(r)' /\ torn \subseteq torn'
    BY <1>3, <2>r DEF Unsaved, Intact
  <2> QED
    BY <1>3, <2>r, <2>1, GotoStory DEF Pc
<1>4. CASE Failure(s)
  BY <1>3, <1>4 DEF Failure, RecordEventFails, StoreStateFails, At, dbVars
<1> QED
  BY <1>1, <1>2, <1>4, AnswerStory, RecordStory, StoreStory, FinishStory DEF Progress, Answers

LEMMA NextStory == Story /\ [Next]_vars => StoryOK'
<1> SUFFICES ASSUME Story, [Next]_vars PROVE StoryOK'
  OBVIOUS
<1>0. now \in Nat /\ StoryOK
  BY StoryTypes
<1>1. CASE Admin
  BY <1>1, AdminStory
<1>2. CASE LoopStep
  <2>1. CASE ReadRules
    <3>1. \A r \in Rule : r >= nextRule => snap'[r] = NULL
      BY <1>0, <2>1 DEF ReadRules, StoryOK, Unborn
    <3> QED
      BY <1>0, <2>1, <3>1, QuietStory DEF ReadRules, dbVars, history
  <2>2. CASE ReadClock
    <3>1. \A r \in Rule : r >= nextRule => snap'[r] = NULL
      BY <1>0, <2>2 DEF ReadClock, StoryOK, Unborn
    <3> QED
      BY <1>0, <2>2, <3>1, QuietStory DEF ReadClock, dbVars, history
  <2>3. ASSUME NEW r \in Rule, SkipRunning(r) PROVE StoryOK'
    <3>1. \A q \in Rule : q >= nextRule => snap'[q] = NULL
      BY <1>0, <2>3, StoryTypes DEF SkipRunning, TakeNext, StoryOK, Unborn
    <3> QED
      BY <1>0, <2>3, <3>1, QuietStory DEF SkipRunning, dbVars, history
  <2> QED
    BY <1>2, <2>1, <2>2, <2>3, DispatchStory DEF LoopStep
<1>3. ASSUME NEW s \in Slot, Progress(s) \/ Failure(s) PROVE StoryOK'
  BY <1>3, ProgressStory
<1>4. CASE SetExecutor \/ Tick \/ UNCHANGED vars
  <2>1. /\ UNCHANGED <<row, nextRule, running, eval, open, streak, torn, snap>>
        /\ now' \in Nat /\ now <= now'
    BY <1>0, <1>4 DEF SetExecutor, Tick, vars, dbVars, procVars, history
  <2>2. \A r \in Rule : r >= nextRule => snap'[r] = NULL
    BY <1>0, <2>1 DEF StoryOK, Unborn
  <2> QED
    BY <2>1, <2>2, QuietStory
<1>5. CASE Restart
  BY <1>5, RestartStory
<1> QED
  BY <1>1, <1>2, <1>3, <1>4, <1>5 DEF Next

(* Rows, events and runs of true results keep telling the same story.      *)
THEOREM StoryAlways == Spec => []Story
<1>1. Ordered /\ StoryOK /\ [Next]_vars => StoryOK'
  BY NextStory DEF Story
<1> QED
  BY <1>1, InitStory, AlwaysOrdered, PTL DEF Spec, Story

(* A rule at rest has one open incident when its row says firing and none  *)
(* otherwise, and every event is inserted with the count it presupposes.   *)
THEOREM EventsAgree == Spec => []EventsMatchState
<1>1. Story => EventsMatchState
  <2> SUFFICES ASSUME Story, NEW r \in Rule, Intact(r)
               PROVE  /\ \A s \in Slot : (At(s, "emit") /\ eval[s].rule = r) =>
                            open[r] = IF eval[s].out.emit = "firing" THEN 0 ELSE 1
                      /\ r \notin running =>
                            open[r] = IF row[r].state = "firing" THEN 1 ELSE 0
    BY DEF EventsMatchState, Intact
  <2>1. ASSUME NEW s \in Slot, At(s, "emit"), eval[s].rule = r
        PROVE  open[r] = IF eval[s].out.emit = "firing" THEN 0 ELSE 1
    <3>1. /\ Follows(s) /\ s \in Unsaved /\ eval[s].out \in Outcome
          /\ Judged(eval[s].seen, eval[s].out) /\ eval[s].out.emit # "none"
      BY <2>1, JobTypes DEF At, Unsaved
    <3>2. open[r] = Says(eval[s].seen)
      BY <2>1, <3>1 DEF Follows, At
    <3> QED
      BY <3>1, <3>2 DEF Judged, Says, Outcome, Status
  <2>2. r \notin running => open[r] = IF row[r].state = "firing" THEN 1 ELSE 0
    BY DEF Story, StoryOK, RestAgrees, Says
  <2> QED
    BY <2>1, <2>2
<1> QED
  BY <1>1, StoryAlways, PTL

(* A firing event about to be inserted has been earned by an unbroken run  *)
(* of true results at least For long.                                      *)
THEOREM FiringsEarned == Spec => []FiringEarned
<1>1. Story => FiringEarned
  <2> SUFFICES ASSUME Story, NEW s \in Slot, At(s, "emit"), eval[s].out.emit = "firing",
                      Intact(eval[s].rule)
               PROVE  Earned(streak[eval[s].rule])
    BY DEF FiringEarned, Intact, Earned
  <2> QED
    BY JobTypes DEF At, Follows
<1> QED
  BY <1>1, StoryAlways, PTL

-----------------------------------------------------------------------------
(* Scheduling implements the lifecycle: each step is a step of the rules,  *)
(* the abstract specification's, or leaves them as they are.               *)

(* Seen by a reader, an id is new, in use, or deleted for ever.            *)
LEMMA SeenAs ==
    ASSUME Story, NEW r \in Rule
    PROVE  /\ row[r] # NULL => Seen(r) = row[r].state /\ row[r].state \in State /\ r < nextRule
           /\ row[r] = NULL /\ r < nextRule => Seen(r) = "deleted"
           /\ r >= nextRule => row[r] = NULL /\ Seen(r) = "new"
           /\ r < nextRule \/ r >= nextRule
BY StoryTypes DEF Seen, Row, StoryOK, Unborn, Rule

LEMMA SameRules ==
    ASSUME UNCHANGED <<row, nextRule, open>>, torn \subseteq torn'
    PROVE  Abstract!Next
<1>1. \A r \in Rule : Seen(r)' = Seen(r)
  BY DEF Seen
<1> QED
  BY <1>1 DEF Abstract!Next, Abstract!Step, Abstract!Mended, Abstract!Kept, Abstract!Still

(* One rule moves, the others stay.                                        *)
LEMMA OneRule ==
    ASSUME NEW r \in Rule, \A q \in Rule \ {r} : Seen(q)' = Seen(q) /\ open'[q] = open[q],
           \A q \in Rule : q \in torn /\ q \notin torn' =>
              q = r /\ Seen(r)' = "inactive" /\ open'[r] = 0,
           r \in torn \/ Abstract!Kept(r)
    PROVE  Abstract!Next
<1> SUFFICES ASSUME NEW q \in Rule
             PROVE  Abstract!Step(q) /\ Abstract!Mended(q)
  BY DEF Abstract!Next
<1>1. Abstract!Mended(q)
  BY DEF Abstract!Mended
<1>2. Abstract!Step(q)
  BY DEF Abstract!Step, Abstract!Kept, Abstract!Still
<1> QED
  BY <1>1, <1>2

LEMMA AdminRefines == ASSUME Story, Admin PROVE Abstract!Next
<1>0. /\ nextRule \in Nat /\ row \in [Rule -> Row \cup {NULL}] /\ open \in [Rule -> Int]
      /\ StoryOK
  BY StoryTypes
<1>1. ASSUME NEW e \in BOOLEAN, CreateRule(e) PROVE Abstract!Next
  <2>1. /\ nextRule \in Rule /\ row'[nextRule] = NewRow(e) /\ nextRule' = nextRule + 1
        /\ \A q \in Rule \ {nextRule} : row'[q] = row[q]
        /\ open' = open /\ torn' = torn
    BY <1>0, <1>1 DEF CreateRule, history
  <2>2. PICK r \in Rule : r = nextRule
    BY <2>1
  <2>3. NewRow(e) # NULL /\ NewRow(e).state = "inactive"
    <3>1. NewRow(e) \in Row
      BY DEF NewRow, Row, State, Time
    <3> QED
      BY <3>1, AbsentAssumption DEF NewRow
  <2>4. Seen(r)' = "inactive" /\ Seen(r) = "new" /\ open[r] = 0
    BY <1>0, <2>1, <2>2, <2>3, SeenAs DEF Seen, StoryOK, Unborn
  <2>5. \A q \in Rule \ {r} : Seen(q)' = Seen(q)
    BY <1>0, <2>1, <2>2 DEF Seen, Rule
  <2>6. Abstract!Create(r)
    BY <2>1, <2>4 DEF Abstract!Create, Abstract!Moves, Abstract!Announces
  <2> QED
    BY <2>1, <2>5, <2>6, OneRule DEF Abstract!Kept
<1>2. ASSUME NEW r \in Rule, NEW e \in BOOLEAN, UpdateRule(r, e) PROVE Abstract!Next
  <2>1. /\ row[r] # NULL /\ nextRule' = nextRule
        /\ row'[r] = [enabled |-> e, def |-> row[r].def + 1, state |-> "inactive",
                      since |-> NULL, last |-> row[r].last]
        /\ open'[r] = 0
        /\ \A q \in Rule \ {r} : /\ row'[q] = row[q] /\ open'[q] = open[q]
                                 /\ (q \in torn <=> q \in torn')
    BY <1>0, <1>2, StoryTypes DEF UpdateRule
  <2>2. row'[r] # NULL /\ row'[r].state = "inactive"
    <3>1. row'[r] \in Row
      BY <1>0, <2>1 DEF Row, State, Time
    <3> QED
      BY <2>1, <3>1, AbsentAssumption
  <2>3. Seen(r)' = "inactive" /\ \A q \in Rule \ {r} : Seen(q)' = Seen(q)
    BY <2>1, <2>2 DEF Seen
  <2>4. Abstract!Edit(r)
    BY <2>1, <2>3, SeenAs DEF Abstract!Edit, Abstract!Moves, Abstract!Calm, State
  <2> QED
    BY <2>1, <2>3, <2>4, OneRule DEF Abstract!Kept
<1>3. ASSUME NEW r \in Rule, DeleteRule(r) PROVE Abstract!Next
  <2>1. /\ row[r] # NULL /\ row'[r] = NULL /\ nextRule' = nextRule
        /\ open' = open /\ torn' = torn
        /\ \A q \in Rule \ {r} : row'[q] = row[q]
    BY <1>0, <1>3 DEF DeleteRule, history
  <2>2. Seen(r)' = "deleted" /\ \A q \in Rule \ {r} : Seen(q)' = Seen(q)
    BY <2>1, SeenAs DEF Seen
  <2>3. Abstract!Delete(r)
    BY <2>1, <2>2, SeenAs DEF Abstract!Delete, Abstract!Moves, Abstract!Calm, State
  <2> QED
    BY <2>1, <2>2, <2>3, OneRule DEF Abstract!Kept
<1> QED
  BY <1>1, <1>2, <1>3 DEF Admin

LEMMA RecordRefines == ASSUME Story, NEW s \in Slot, RecordEvent(s) PROVE Abstract!Next
<1>r. PICK r \in Rule : r = eval[s].rule
  BY JobTypes DEF RecordEvent, At
<1> DEFINE o == eval[s].out
<1>1. /\ s \in Live /\ o \in Outcome /\ Judged(eval[s].seen, o) /\ o.emit # "none"
      /\ eval[s].pc = "emit" /\ (Intact(r) => Follows(s))
  BY <1>r, JobTypes DEF RecordEvent, At, Unsaved
<1>2. /\ UNCHANGED <<row, nextRule, torn>> /\ open \in [Rule -> Int]
      /\ open' = [open EXCEPT ![r] = IF o.emit = "firing" THEN @ + 1 ELSE @ - 1]
  BY <1>r, StoryTypes DEF RecordEvent, dbVars
<1>3. \A q \in Rule : Seen(q)' = Seen(q)
  BY <1>2 DEF Seen
<1>4. r < nextRule
  BY <1>r, <1>1, StoryTypes DEF StoryOK, Unborn, Rule
<1>5. CASE row[r] = NULL
  <2>1. Abstract!AnnounceLate(r)
    BY <1>3, <1>4, <1>5, SeenAs DEF Abstract!AnnounceLate, Abstract!Moves
  <2> QED
    BY <1>2, <1>3, <2>1, OneRule DEF Abstract!Kept
<1>6. CASE Intact(r)
  <2>1. open[r] = Says(row[r]) /\ eval[s].seen = row[r] /\ Seen(r) = row[r].state
        /\ row[r].state \in State
    BY <1>r, <1>1, <1>6, SeenAs DEF Follows, Intact
  <2>2. o.emit = "firing" => Abstract!AnnounceFiring(r)
    BY <1>1, <1>2, <1>3, <2>1
    DEF Judged, Says, State, Abstract!AnnounceFiring, Abstract!Moves, Abstract!Announces,
        Abstract!Calm
  <2>3. o.emit = "resolved" => Abstract!AnnounceResolved(r)
    BY <1>1, <1>2, <1>3, <2>1
    DEF Judged, Says, Abstract!AnnounceResolved, Abstract!Moves, Abstract!Announces
  <2>4. Abstract!Kept(r)
    BY <1>1, <2>2, <2>3 DEF Outcome, Status, Abstract!Kept
  <2> QED
    BY <1>2, <1>3, <2>4, OneRule
<1>7. CASE r \in torn
  BY <1>2, <1>3, <1>7, OneRule
<1> QED
  BY <1>5, <1>6, <1>7 DEF Intact

LEMMA StoreRefines == ASSUME Story, NEW s \in Slot, StoreState(s) PROVE Abstract!Next
<1>r. PICK r \in Rule : r = eval[s].rule
  BY JobTypes DEF StoreState, At
<1> DEFINE o == eval[s].out
<1>1. /\ s \in Live /\ o \in Outcome /\ Judged(eval[s].seen, o)
      /\ eval[s].pc = "update" /\ (Intact(r) => Follows(s))
  BY <1>r, JobTypes DEF StoreState, At, Unsaved
<1>2. /\ UNCHANGED <<nextRule, open, torn>> /\ row \in [Rule -> Row \cup {NULL}]
      /\ row' = IF row[r] = NULL THEN row
                ELSE [row EXCEPT ![r] = [enabled |-> @.enabled, def |-> @.def,
                         state |-> o.state, since |-> o.since, last |-> o.last]]
  BY <1>r, StoryTypes DEF StoreState, history
<1>3. CASE row[r] = NULL
  BY <1>2, <1>3, SameRules
<1>4. CASE row[r] # NULL
  <2>1. /\ \A q \in Rule \ {r} : row'[q] = row[q]
        /\ row'[r] # NULL /\ row'[r].state = o.state
    <3>1. [enabled |-> row[r].enabled, def |-> row[r].def, state |-> o.state,
           since |-> o.since, last |-> o.last] \in Row
      BY <1>1, <1>2, <1>4 DEF Row, Outcome, Time
    <3> QED
      BY <1>2, <1>4, <3>1, AbsentAssumption
  <2>2. Seen(r)' = o.state /\ \A q \in Rule \ {r} : Seen(q)' = Seen(q)
    BY <1>2, <2>1 DEF Seen
  <2>3. CASE r \in torn
    BY <1>2, <2>2, <2>3, OneRule
  <2>4. CASE r \notin torn
    <3> SUFFICES Abstract!Kept(r)
      BY <1>2, <2>2, OneRule
    <3>1. /\ open[r] = Says(o) /\ eval[s].seen = row[r] /\ Seen(r) = row[r].state
          /\ row[r].state \in State /\ o.state \in State /\ o.emit \in Status
      BY <1>r, <1>1, <1>4, <2>4, SeenAs DEF Follows, Intact, Outcome
    <3>2. CASE o.state = row[r].state
      BY <1>2, <2>2, <3>1, <3>2 DEF Abstract!Kept, Abstract!Still
    <3>3. CASE o.state = "firing" /\ row[r].state # "firing"
      BY <1>1, <1>2, <2>2, <3>1, <3>3
      DEF Says, State, Abstract!Kept, Abstract!Fire, Abstract!Moves, Abstract!Announces,
          Abstract!Calm
    <3>4. CASE o.state # "firing" /\ row[r].state = "firing"
      BY <1>1, <1>2, <2>2, <3>1, <3>4
      DEF Judged, Says, Status, Abstract!Kept, Abstract!Resolve, Abstract!Moves,
          Abstract!Announces
    <3>5. CASE {o.state, row[r].state} = {"inactive", "pending"}
      BY <1>1, <1>2, <2>2, <3>1, <3>5
      DEF Says, Abstract!Kept, Abstract!Wait, Abstract!GiveUp, Abstract!Moves,
          Abstract!Announces
    <3> QED
      BY <3>1, <3>2, <3>3, <3>4, <3>5 DEF State
  <2> QED
    BY <2>3, <2>4
<1> QED
  BY <1>3, <1>4

LEMMA NextRefines == Story /\ [Next]_vars => Abstract!Next
<1> SUFFICES ASSUME Story, [Next]_vars PROVE Abstract!Next
  OBVIOUS
<1>1. CASE Admin
  BY <1>1, AdminRefines
<1>2. CASE LoopStep
  BY <1>2, SameRules
  DEF LoopStep, ReadRules, ReadClock, SkipRunning, Dispatch, Spawn, dbVars, history
<1>3. ASSUME NEW s \in Slot, Start(s) \/ Deliver(s) \/ Finish(s) \/ Failure(s)
                             \/ \E a \in Answers : Answer(s, a)
      PROVE  Abstract!Next
  BY <1>3, SameRules
  DEF Start, Deliver, Finish, Failure, RecordEventFails, StoreStateFails, Answer, dbVars, history
<1>4. ASSUME NEW s \in Slot, Progress(s) PROVE Abstract!Next
  BY <1>3, <1>4, RecordRefines, StoreRefines DEF Progress, Answers
<1>5. CASE SetExecutor \/ Tick \/ Restart \/ UNCHANGED vars
  BY <1>5, SameRules DEF SetExecutor, Tick, Restart, vars, dbVars, history
<1> QED
  BY <1>1, <1>2, <1>3, <1>4, <1>5 DEF Next

(* The scheduler, with its passes, goroutines, clock, failed writes and    *)
(* restarts, implements the lifecycle that AlertLifecycle promises.        *)
THEOREM SchedulerImplementsLifecycle == Spec => Lifecycle
<1>1. Init => Abstract!Init
  BY DEF Init, Abstract!Init, Seen, NoSnap, Rule
<1>2. Story /\ [Next]_vars => [Abstract!Next]_Abstract!vars
  BY NextRefines
<1> QED
  BY <1>1, <1>2, StoryAlways, PTL DEF Spec, Lifecycle, Abstract!Spec
=============================================================================
