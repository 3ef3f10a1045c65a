------------------------- MODULE AlertServiceProofs -------------------------
(***************************************************************************)
(* Proofs about AlertService for every set of databases and requests,      *)
(* every number of rules and evaluations, and every bound.                 *)
(***************************************************************************)
EXTENDS AlertService, AlertStorageProofs

(* To the storage every step of the service is one of its own, or none.    *)
LEMMA StepsAreStorage == [ServiceNext]_allVars => [Next]_vars
<1> SUFFICES ASSUME [ServiceNext]_allVars PROVE [Next]_vars
  OBVIOUS
<1>1. CASE \E d \in Database, r \in Id : FallDue(d, r)
  BY <1>1 DEF FallDue
<1>2. CASE LoopStep
  BY <1>2 DEF LoopStep, TakeRepository, ReadRules, ReadFails, SkipRunning, Dispatch
<1>3. CASE \E g \in Goroutine : Progress(g)
  BY <1>3 DEF Progress, Query, Emit, UpdateRuleState, Finish
<1>4. CASE \E q \in Request : Exchange(q) \/ Administer(q)
  BY <1>4 DEF Exchange, Administer, Handler, Next
<1>5. CASE StartUp \/ Die
  BY <1>5 DEF StartUp, Die, Next
<1>6. CASE UNCHANGED allVars
  BY <1>6 DEF allVars
<1> QED
  BY <1>1, <1>2, <1>3, <1>4, <1>5, <1>6 DEF ServiceNext

(* The composition implements AlertStorage: passes and evaluations never   *)
(* change what is configured, stored or in service.                        *)
THEOREM ServiceImplementsStorage == ServiceSpec => Spec
<1>1. ServiceInit => Init
  BY DEF ServiceInit
<1> QED
  BY <1>1, StepsAreStorage, PTL DEF ServiceSpec, Spec

-----------------------------------------------------------------------------
(* A repository is given out once, so its handle names one database for as *)
(* long as it is open, whatever is put into service in the meantime.       *)
LEMMA HandleKeepsDatabase ==
    ASSUME OwnedInv, [Next]_vars, ~Crash
    PROVE  /\ nextHandle <= nextHandle'
           /\ \A h \in Handle : (h < nextHandle /\ h \in open')
                                   => h \in open /\ db'[h] = db[h]
<1>0. /\ nextHandle \in Nat /\ open \subseteq Handle
      /\ db \in [Handle -> Dsn \cup {NULL}]
  BY BoundAssumption DEF OwnedInv, TypeOK
<1>1. CASE UNCHANGED connections
  BY <1>0, <1>1 DEF connections
<1>2. ASSUME NEW c, Connect(c)
      PROVE  /\ nextHandle <= nextHandle'
             /\ \A h \in Handle : (h < nextHandle /\ h \in open')
                                     => h \in open /\ db'[h] = db[h]
  BY <1>0, <1>2 DEF Connect, Handle
<1>3. ASSUME NEW h, Close(h)
      PROVE  /\ nextHandle <= nextHandle'
             /\ \A g \in Handle : (g < nextHandle /\ g \in open')
                                     => g \in open /\ db'[g] = db[g]
  BY <1>0, <1>3 DEF Close
<1>4. CASE StartDisabled \/ Start \/ StartFails
  BY <1>1, <1>2, <1>4 DEF StartDisabled, Start, StartFails
<1>5. ASSUME NEW q \in Request, Handler(q)
      PROVE  UNCHANGED connections \/ (\E c : Connect(c)) \/ (\E h : Close(h))
  BY <1>5 DEF Handler, ReadConfig, OpenRepository, OpenFails, Save, SaveFails,
              Apply, CloseOld
<1>6. CASE UNCHANGED vars
  BY <1>1, <1>6 DEF vars, connections
<1> QED
  BY <1>1, <1>2, <1>3, <1>4, <1>5, <1>6 DEF Next

(* Whoever works with a repository had it before the next one is opened,   *)
(* and if it is still open it is on the database he thinks it is.          *)
Knows(h, d) == h \in Handle /\ h < nextHandle /\ (h \in open => db[h] = d)

HandlesKnown ==
    /\ loop # "idle" => pass.via \in Handle /\ pass.via < nextHandle
    /\ loop = "dispatch" => Knows(pass.via, pass.home)
    /\ \A g \in Live : Knows(eval[g].via, eval[g].home)

(* One evaluation per id, though every database counts its rules from 1.   *)
IdsMarked ==
    /\ running = {eval[g].id : g \in Live}
    /\ \A g, h \in Live : eval[g].id = eval[h].id => g = h

ServiceInv == OwnedInv /\ ServiceTypeOK /\ HandlesKnown /\ IdsMarked

LEMMA InitService == ServiceInit => ServiceInv
<1> SUFFICES ASSUME ServiceInit PROVE ServiceInv
  OBVIOUS
<1>1. OwnedInv
  BY InitOwned DEF ServiceInit
<1>2. Live = {}
  BY DEF ServiceInit, NoEvaluation, Live
<1>3. ServiceTypeOK
  BY DEF ServiceInit, ServiceTypeOK, NotDue, NoPass, NoEvaluation, Database
<1> QED
  BY <1>1, <1>2, <1>3 DEF ServiceInit, ServiceInv, HandlesKnown, IdsMarked

LEMMA LiveEvaluation ==
    ASSUME ServiceTypeOK, NEW g \in Live
    PROVE  eval[g] \in Evaluation /\ g \in Goroutine
BY DEF ServiceTypeOK, Live

(* The storage moves on, the loop and the evaluations stay.                *)
LEMMA StorageStep ==
    ASSUME ServiceInv, [Next]_vars, ~Crash, UNCHANGED evalVars
    PROVE  ServiceInv'
<1>1. OwnedInv'
  BY NextTyped, NextOwned DEF ServiceInv, OwnedInv
<1>2. ServiceTypeOK'
  BY DEF ServiceInv, ServiceTypeOK, evalVars
<1>3. IdsMarked'
  BY DEF ServiceInv, IdsMarked, Live, evalVars
<1>4. nextHandle \in Nat /\ nextHandle' \in Nat /\ Handle \subseteq Nat
  BY <1>1, BoundAssumption DEF ServiceInv, OwnedInv, TypeOK, Handle
<1>5. ASSUME NEW h \in Handle, h < nextHandle
      PROVE  h < nextHandle' /\ (h \in open' => h \in open /\ db'[h] = db[h])
  BY <1>4, <1>5, HandleKeepsDatabase DEF ServiceInv
<1>6. ASSUME NEW h, NEW d, Knows(h, d)
      PROVE  Knows(h, d)'
  BY <1>5, <1>6 DEF Knows
<1>7. HandlesKnown'
  BY <1>5, <1>6 DEF ServiceInv, HandlesKnown, Live, evalVars
<1> QED
  BY <1>1, <1>2, <1>3, <1>7 DEF ServiceInv

(* A step of the service that leaves the storage alone.                    *)
LEMMA KnownStays ==
    ASSUME UNCHANGED vars
    PROVE  /\ \A h, d : Knows(h, d)' <=> Knows(h, d)
           /\ OwnedInv => OwnedInv'
BY DEF vars, Knows, OwnedInv, TypeOK, Owned, HandlesOK, Empty, RepositoriesOwned,
       InService, Held

LEMMA WalkOnKeeps ==
    ASSUME NEW p \in [via : Handle \cup {NULL}, home : Database], WalkOn(p),
           Knows(p.via, p.home)
    PROVE  /\ loop' \in {"idle", "dispatch"}
           /\ pass' \in [via : Handle \cup {NULL}, home : Database]
           /\ loop' # "idle" => pass' = p
BY DEF WalkOn, NoPass, Database

LEMMA LoopService == ServiceInv /\ LoopStep => ServiceInv'
<1> SUFFICES ASSUME ServiceInv, LoopStep PROVE ServiceInv'
  OBVIOUS
<1> USE DEF ServiceInv
<1>1. UNCHANGED vars
  BY DEF LoopStep, TakeRepository, ReadRules, ReadFails, SkipRunning, Dispatch
<1>2. OwnedInv'
  BY <1>1, KnownStays
<1>3. /\ repo # NULL => repo \in Handle /\ repo < nextHandle
      /\ nextHandle \in Nat /\ Handle \subseteq Nat
      /\ db \in [Handle -> Database]
  BY BoundAssumption
  DEF OwnedInv, Owned, HandlesOK, RepositoriesOwned, InService, TypeOK, Handle, Database
<1>4. UNCHANGED <<open, db, nextHandle, repo>>
  BY <1>1 DEF vars
<1>5. ASSUME UNCHANGED <<running, eval, due>>, snap' \subseteq Id,
             loop' \in {"idle", "read", "dispatch"},
             pass' \in [via : Handle \cup {NULL}, home : Database],
             loop' # "idle" => pass'.via \in Handle /\ pass'.via < nextHandle,
             loop' = "dispatch" => Knows(pass'.via, pass'.home)
      PROVE  ServiceInv'
  <2>1. ServiceTypeOK' /\ IdsMarked' /\ Live' = Live
    BY <1>5 DEF ServiceTypeOK, IdsMarked, Live
  <2>2. HandlesKnown'
    BY <1>4, <1>5, <2>1 DEF HandlesKnown, Knows
  <2> QED
    BY <1>2, <2>1, <2>2
<1>6. CASE TakeRepository
  <2> DEFINE p == [via |-> repo, home |-> NULL]
  <2>1. p \in [via : Handle \cup {NULL}, home : Database] /\ p.via = repo
    BY <1>3, <1>6 DEF TakeRepository, Database
  <2>2. /\ loop' = "read" /\ pass' = p /\ repo # NULL
        /\ UNCHANGED <<due, running, snap, eval>>
    BY <1>6 DEF TakeRepository
  <2> QED
    BY <1>3, <1>5, <2>1, <2>2 DEF ServiceTypeOK
<1>7. CASE ReadRules
  <2> DEFINE p == [pass EXCEPT !.home = db[pass.via]]
  <2>1. pass.via \in Handle /\ pass.via < nextHandle
    BY <1>7 DEF ReadRules, HandlesKnown
  <2>2. /\ p \in [via : Handle \cup {NULL}, home : Database]
        /\ p.via = pass.via /\ p.home = db[pass.via]
    BY <1>3, <2>1 DEF ServiceTypeOK
  <2>3. Knows(p.via, p.home)
    BY <2>1, <2>2 DEF Knows
  <2>4. /\ WalkOn(p) /\ snap' \subseteq Id
        /\ UNCHANGED <<due, running, eval>>
    BY <1>7 DEF ReadRules
  <2> HIDE DEF p
  <2> QED
    BY <1>5, <2>1, <2>2, <2>3, <2>4, WalkOnKeeps
<1>8. CASE ReadFails
  BY <1>5, <1>8 DEF ReadFails, NoPass, ServiceTypeOK, Database
<1>9. ASSUME NEW r \in Id, TakeNext(r)
      PROVE  /\ snap' \subseteq Id
             /\ loop' \in {"idle", "dispatch"}
             /\ pass' \in [via : Handle \cup {NULL}, home : Database]
             /\ loop' # "idle" => pass' = pass
             /\ Knows(pass.via, pass.home)
  BY <1>9, WalkOnKeeps DEF TakeNext, ServiceTypeOK, HandlesKnown
<1>10. ASSUME NEW r \in Id, SkipRunning(r)
       PROVE  ServiceInv'
  BY <1>5, <1>9, <1>10 DEF SkipRunning, Knows
<1>11. ASSUME NEW r \in Id, NEW g \in Goroutine, Dispatch(r, g)
       PROVE  ServiceInv'
  <2>1. /\ eval[g] = NULL /\ r \notin running /\ running' = running \cup {r}
        /\ eval' = [eval EXCEPT ![g] = Given(r)] /\ UNCHANGED due
        /\ TakeNext(r) /\ Knows(pass.via, pass.home)
        /\ pass \in [via : Handle \cup {NULL}, home : Database]
    BY <1>9, <1>11 DEF Dispatch, ServiceTypeOK
  <2>2. /\ Given(r) \in Evaluation /\ Given(r).id = r
        /\ Given(r).via = pass.via /\ Given(r).home = pass.home
    BY <2>1 DEF Given, Evaluation, Knows
  <2>3. Given(r) # NULL
    BY <2>2, AbsentAssumption
  <2>4. /\ eval' \in [Goroutine -> Evaluation \cup {NULL}]
        /\ eval'[g] = Given(r) /\ \A h \in Goroutine \ {g} : eval'[h] = eval[h]
    BY <2>1, <2>2 DEF ServiceTypeOK
  <2>5. Live' = Live \cup {g} /\ g \notin Live
    BY <2>1, <2>3, <2>4 DEF Live
  <2>6. ServiceTypeOK'
    BY <1>9, <2>1, <2>4 DEF ServiceTypeOK
  <2>7. \A h \in Live : eval'[h] = eval[h] /\ eval[h].id # r
    BY <2>1, <2>4, <2>5 DEF IdsMarked, Live
  <2>8. IdsMarked'
    BY <2>1, <2>2, <2>4, <2>5, <2>7 DEF IdsMarked
  <2>9. HandlesKnown'
    BY <1>4, <1>9, <2>1, <2>2, <2>4, <2>5, <2>7 DEF HandlesKnown, Knows
  <2> QED
    BY <1>2, <2>6, <2>8, <2>9
<1> QED
  BY <1>6, <1>7, <1>8, <1>10, <1>11 DEF LoopStep

(* An evaluation goes on from one statement to the next.                   *)
LEMMA ProceedKeeps ==
    ASSUME ServiceInv, NEW g \in Live,
           NEW at \in {"query", "emit", "update", "finish"}, Proceed(g, at),
           UNCHANGED <<vars, running, loopVars>>,
           due' \in [Database -> [Id -> BOOLEAN]]
    PROVE  ServiceInv'
<1> USE DEF ServiceInv
<1>1. eval[g] \in Evaluation /\ g \in Goroutine /\ eval \in [Goroutine -> Evaluation \cup {NULL}]
  BY LiveEvaluation DEF ServiceTypeOK
<1> DEFINE e == [eval[g] EXCEPT !.at = at]
<1>2. /\ e \in Evaluation /\ e.id = eval[g].id
      /\ e.via = eval[g].via /\ e.home = eval[g].home
  BY <1>1 DEF Evaluation
<1>3. eval' = [eval EXCEPT ![g] = e]
  BY DEF Proceed
<1> HIDE DEF e
<1>4. e # NULL
  BY <1>2, AbsentAssumption
<1>5. /\ eval' \in [Goroutine -> Evaluation \cup {NULL}]
      /\ Live' = Live
      /\ \A h \in Live : /\ eval'[h].id = eval[h].id
                         /\ eval'[h].via = eval[h].via
                         /\ eval'[h].home = eval[h].home
  BY <1>1, <1>2, <1>3, <1>4 DEF Live
<1>6. ServiceTypeOK'
  BY <1>5 DEF ServiceTypeOK, loopVars
<1>7. IdsMarked'
  BY <1>5 DEF IdsMarked
<1>8. HandlesKnown'
  BY <1>5, KnownStays DEF HandlesKnown, loopVars, Knows, vars
<1>9. OwnedInv'
  BY KnownStays
<1> QED
  BY <1>6, <1>7, <1>8, <1>9

LEMMA ProgressService ==
    ASSUME ServiceInv, NEW g \in Goroutine, Progress(g)
    PROVE  ServiceInv'
<1> USE DEF ServiceInv
<1>0. g \in Live
  BY DEF Progress, Query, Emit, UpdateRuleState, Finish, In, Live
<1>1. CASE Query(g) \/ Emit(g)
  BY <1>0, <1>1, ProceedKeeps DEF Query, Emit, ServiceTypeOK
<1>2. CASE UpdateRuleState(g)
  <2>1. eval[g].id \in Id
    BY <1>0, LiveEvaluation DEF Evaluation
  <2>2. due' \in [Database -> [Id -> BOOLEAN]]
    <3>1. CASE due' = due
      BY <3>1 DEF ServiceTypeOK
    <3>2. CASE due' = [due EXCEPT ![db[Target(g)]][eval[g].id] = FALSE]
      BY <2>1, <3>2 DEF ServiceTypeOK
    <3> QED
      BY <1>2, <3>1, <3>2 DEF UpdateRuleState
  <2> QED
    BY <1>0, <1>2, <2>2, ProceedKeeps DEF UpdateRuleState
<1>3. CASE Finish(g)
  <2>1. /\ running' = running \ {eval[g].id} /\ eval' = [eval EXCEPT ![g] = NULL]
        /\ UNCHANGED <<vars, due, loopVars>>
        /\ eval \in [Goroutine -> Evaluation \cup {NULL}]
    BY <1>3 DEF Finish, ServiceTypeOK
  <2>2. /\ Live' = Live \ {g}
        /\ \A h \in Live' : eval'[h] = eval[h]
    BY <2>1 DEF Live
  <2>3. ServiceTypeOK'
    BY <2>1 DEF ServiceTypeOK, loopVars
  <2>4. IdsMarked'
    BY <1>0, <2>1, <2>2 DEF IdsMarked
  <2>5. HandlesKnown'
    BY <2>1, <2>2, KnownStays DEF HandlesKnown, loopVars, Knows, vars
  <2>6. OwnedInv'
    BY <2>1, KnownStays
  <2> QED
    BY <2>3, <2>4, <2>5, <2>6
<1> QED
  BY <1>1, <1>2, <1>3 DEF Progress

LEMMA NextService == ServiceInv /\ [ServiceNext]_allVars => ServiceInv'
<1> SUFFICES ASSUME ServiceInv, [ServiceNext]_allVars PROVE ServiceInv'
  OBVIOUS
<1>0. [Next]_vars
  BY StepsAreStorage
<1>1. ASSUME NEW d \in Database, NEW r \in Id, FallDue(d, r)
      PROVE  ServiceInv'
  <2>1. due' \in [Database -> [Id -> BOOLEAN]]
    BY <1>1 DEF FallDue, ServiceInv, ServiceTypeOK
  <2>2. UNCHANGED <<vars, running, loop, pass, snap, eval>>
    BY <1>1 DEF FallDue, loopVars
  <2>3. ServiceTypeOK' /\ IdsMarked' /\ HandlesKnown'
    BY <2>1, <2>2
    DEF ServiceInv, ServiceTypeOK, IdsMarked, HandlesKnown, Knows, Live, vars
  <2> QED
    BY <2>2, <2>3, KnownStays DEF ServiceInv
<1>2. CASE LoopStep
  BY <1>2, LoopService
<1>3. CASE \E g \in Goroutine : Progress(g)
  BY <1>3, ProgressService
<1>4. ASSUME UNCHANGED evalVars, up' \/ ~up
      PROVE  ServiceInv'
  BY <1>0, <1>4, StorageStep DEF Crash
<1>5. CASE StartUp
  BY <1>4, <1>5 DEF StartUp, StartDisabled, Start, StartFails, Load
<1>6. ASSUME NEW q \in Request, Exchange(q) \/ Administer(q)
      PROVE  ServiceInv'
  <2>1. up' = up /\ UNCHANGED evalVars
    BY <1>6 DEF Exchange, Administer, ReadConfig, OpenRepository, OpenFails, Save,
                SaveFails, Apply, CloseOld
  <2> QED
    BY <1>4, <2>1
<1>7. CASE Die
  <2>1. OwnedInv'
    BY <1>0, NextTyped, NextOwned DEF ServiceInv, OwnedInv
  <2>2. Live' = {} /\ running' = {}
    BY <1>7 DEF Die, NoEvaluation, Live
  <2>3. ServiceTypeOK'
    BY <1>7 DEF Die, ServiceInv, ServiceTypeOK, NoPass, NoEvaluation, Database
  <2> QED
    BY <1>7, <2>1, <2>2, <2>3 DEF Die, ServiceInv, IdsMarked, HandlesKnown
<1>8. CASE UNCHANGED allVars
  <2>1. UNCHANGED vars /\ UNCHANGED evalVars
    BY <1>8 DEF allVars
  <2>2. ServiceTypeOK' /\ IdsMarked' /\ HandlesKnown'
    BY <2>1
    DEF evalVars, ServiceInv, ServiceTypeOK, IdsMarked, HandlesKnown, Knows, Live, vars
  <2> QED
    BY <2>1, <2>2, KnownStays DEF ServiceInv
<1> QED
  BY <1>1, <1>2, <1>3, <1>5, <1>6, <1>7, <1>8 DEF ServiceNext

(* The loop, the evaluations and the exchanges keep the invariant.         *)
THEOREM ServiceAlways == ServiceSpec => []ServiceInv
BY InitService, NextService, PTL DEF ServiceSpec

(* Every variable of the loop and of the evaluations keeps its type; an    *)
(* evaluation always holds a repository that was opened.                   *)
THEOREM ServiceTyped == ServiceSpec => []ServiceTypeOK
<1>1. ServiceInv => ServiceTypeOK
  BY DEF ServiceInv
<1> QED
  BY <1>1, ServiceAlways, PTL

(* Through any exchange of the storage no row has two writers, and         *)
(* Service.running names the ids under evaluation and no other.            *)
THEOREM OneWriterPerRow == ServiceSpec => []RowHasOneWriter
<1>1. ServiceInv => RowHasOneWriter
  BY DEF ServiceInv, IdsMarked, RowHasOneWriter
<1> QED
  BY <1>1, ServiceAlways, PTL

(* What an evaluation writes takes effect in the database its rule was     *)
(* read from, or nowhere.                                                  *)
THEOREM NothingStrays == ServiceSpec => []ResultsStayHome
<1>1. ServiceInv => ResultsStayHome
  BY DEF ServiceInv, HandlesKnown, Knows, ResultsStayHome, Works, Target, Live, In
<1> QED
  BY <1>1, ServiceAlways, PTL

(* With the loop and the evaluations at work, too, the repository in       *)
(* service is open and no open one is lost.                                *)
THEOREM NoneLostInService == ServiceSpec => []RepositoriesOwned
BY ServiceImplementsStorage, NoneClosedNoneLeaked, PTL

(* Nor do they pull what is in service and what is in the file apart:      *)
(* with no change of the configuration under way the two agree.            *)
THEOREM FileFollowedInService == ServiceSpec => []RunningMatchesFile
BY ServiceImplementsStorage, ServiceFollowsFile, PTL

(* And seen from outside nothing changes what is in service but an         *)
(* administrator's saved change and a start-up.                            *)
THEOREM SettingKeptInService == ServiceSpec => FollowsChanges
BY ServiceImplementsStorage, StorageImplementsSetting, PTL
=============================================================================
