---------------------------- MODULE AlertStorage ----------------------------
(***************************************************************************)
(* Where the alerts are kept: the platform's alerting configuration and    *)
(* its file (internal/alertconfig), the handler that changes it            *)
(* (updateAlertingConfig) and the repository that is in service            *)
(* (Service.Configure, Service.Disable).                                   *)
(*                                                                         *)
(* A change reads the configuration, connects to the database, saves, and  *)
(* puts the new repository into service, in four steps under three         *)
(* different locks or none, so that changes by several administrators      *)
(* interleave; start-up does the same from the file.                       *)
(*                                                                         *)
(* A connection string names its database; it connects with one driver     *)
(* only.  An alerting configuration from the environment is read-only and  *)
(* has none of these steps.                                                *)
(***************************************************************************)
EXTENDS Integers

CONSTANTS
    NULL,
    Driver,
    Dsn,        \* connection strings
    Opens,      \* the driver each of them connects with
    Limits,     \* the history limits to choose from
    DefaultLimit,
    Request,
    MaxHandle,  \* bound: repositories opened by one process
    MaxCrash    \* bound

ASSUME OpensAssumption == Opens \in [Dsn -> Driver]
ASSUME LimitAssumption == DefaultLimit \in Limits
ASSUME BoundAssumption == MaxHandle \in Nat /\ MaxCrash \in Nat

Handle == 1..MaxHandle

(* alertconfig's diskData: without a connection string nothing was saved.  *)
Config == [enabled : BOOLEAN, driver : Driver \cup {NULL}, dsn : Dsn \cup {NULL},
           limit : Limits]
Blank == [enabled |-> FALSE, driver |-> NULL, dsn |-> NULL, limit |-> DefaultLimit]

ASSUME NullAssumption ==
    NULL \notin Driver /\ NULL \notin Dsn /\ NULL \notin Int

(* A change under way: what was asked for, whether it brought a connection *)
(* string, and the repository it opened or took out of service.            *)
Pc == {"idle", "read", "opened", "saved", "swapped"}
Change == [want : Config, update : BOOLEAN, holds : Handle \cup {NULL}]
NoChange == [want |-> Blank, update |-> FALSE, holds |-> NULL]

VARIABLES
    up,
    config,     \* Store.data
    disk,       \* platform-alerting.json
    repo,       \* Service.repo
    limit,      \* Service.historyLimit
    open,       \* repositories opened and not closed
    db,         \* the database of each open repository
    nextHandle,
    startupError,   \* Server.alertStartupError # ""
    pc, change, \* per request
    crashes,
    raced       \* history: the last save overlapped another change

vars == <<up, config, disk, repo, limit, open, db, nextHandle, startupError,
          pc, change, crashes, raced>>
store == <<config, disk>>
service == <<repo, limit>>
connections == <<open, db, nextHandle>>

TypeOK ==
    /\ up \in BOOLEAN
    /\ config \in Config /\ disk \in Config
    /\ repo \in Handle \cup {NULL}
    /\ limit \in Limits
    /\ open \subseteq Handle
    /\ db \in [Handle -> Dsn \cup {NULL}]
    /\ nextHandle \in 1..(MaxHandle + 1)
    /\ startupError \in BOOLEAN
    /\ pc \in [Request -> Pc]
    /\ change \in [Request -> Change]
    /\ crashes \in 0..MaxCrash
    /\ raced \in BOOLEAN

Unused == [h \in Handle |-> NULL]

Init ==
    /\ up = FALSE
    /\ config = Blank /\ disk = Blank
    /\ repo = NULL /\ limit = DefaultLimit
    /\ open = {} /\ db = Unused /\ nextHandle = 1
    /\ startupError = FALSE
    /\ pc = [q \in Request |-> "idle"]
    /\ change = [q \in Request |-> NoChange]
    /\ crashes = 0
    /\ raced = FALSE

(* OpenRepository.  Without a connection string SQLite opens a temporary   *)
(* database.                                                               *)
Connects(c) == IF c.dsn = NULL THEN c.driver # NULL ELSE Opens[c.dsn] = c.driver

Connect(c) ==
    /\ Connects(c)
    /\ nextHandle \in Handle
    /\ open' = open \cup {nextHandle}
    /\ db' = [db EXCEPT ![nextHandle] = c.dsn]
    /\ nextHandle' = nextHandle + 1

Close(h) ==
    /\ open' = open \ {h}
    /\ db' = [g \in Handle |-> IF g = h THEN NULL ELSE db[g]]
    /\ UNCHANGED nextHandle

-----------------------------------------------------------------------------
(* Start-up and crash *)

Load ==
    /\ ~up
    /\ up' = TRUE
    /\ config' = disk
    /\ UNCHANGED <<disk, pc, change, crashes, raced>>

StartDisabled ==
    /\ Load
    /\ ~disk.enabled
    /\ UNCHANGED <<service, connections, startupError>>

Start ==
    /\ Load
    /\ disk.enabled
    /\ Connect(disk)
    /\ repo' = nextHandle /\ limit' = disk.limit
    /\ UNCHANGED startupError

(* The database is not to be reached: the console runs without alerting    *)
(* and says so.                                                            *)
StartFails ==
    /\ Load
    /\ disk.enabled
    /\ startupError' = TRUE
    /\ UNCHANGED <<service, connections>>

Crash ==
    /\ up /\ crashes < MaxCrash
    /\ up' = FALSE
    /\ crashes' = crashes + 1
    /\ config' = Blank
    /\ repo' = NULL /\ limit' = DefaultLimit
    /\ open' = {} /\ db' = Unused /\ nextHandle' = 1
    /\ startupError' = FALSE
    /\ pc' = [q \in Request |-> "idle"]
    /\ change' = [q \in Request |-> NoChange]
    /\ raced' = FALSE
    /\ UNCHANGED disk

-----------------------------------------------------------------------------
(* updateAlertingConfig *)

At(q, p) == up /\ pc[q] = p
Goto(q, p, c) == pc' = [pc EXCEPT ![q] = p] /\ change' = [change EXCEPT ![q] = c]
Return(q) == Goto(q, "idle", NoChange)

(* The current configuration is read; without a new connection string the  *)
(* driver must be the current one.                                         *)
ReadConfig(q, want, update) ==
    /\ At(q, "idle")
    /\ want.driver # NULL
    /\ IF update THEN want.dsn # NULL
       ELSE want.dsn = config.dsn /\ (config.dsn # NULL => want.driver = config.driver)
    /\ Goto(q, "read", [want |-> want, update |-> update, holds |-> NULL])
    /\ UNCHANGED <<up, store, service, connections, startupError, crashes, raced>>

\* mutant: the new limit is in force before it is saved
OpenSetsLimit(q) ==
    LET c == change[q]
    IN /\ At(q, "read")
       /\ IF c.want.enabled
          THEN /\ Connect(c.want) /\ Goto(q, "opened", [c EXCEPT !.holds = nextHandle])
               /\ limit' = c.want.limit
          ELSE Goto(q, "opened", c) /\ UNCHANGED <<connections, limit>>
       /\ UNCHANGED <<up, store, repo, startupError, crashes, raced>>

OpenRepository(q) ==
    LET c == change[q]
    IN /\ At(q, "read")
       /\ IF c.want.enabled
          THEN Connect(c.want) /\ Goto(q, "opened", [c EXCEPT !.holds = nextHandle])
          ELSE Goto(q, "opened", c) /\ UNCHANGED connections
       /\ UNCHANGED <<up, store, service, startupError, crashes, raced>>

OpenFails(q) ==
    /\ At(q, "read")
    /\ change[q].want.enabled
    /\ Return(q)
    /\ UNCHANGED <<up, store, service, connections, startupError, crashes, raced>>

Overlaps(q) ==
    \/ \E p \in Request \ {q} : pc[p] = "saved"
    \/ change[q].want.dsn # config.dsn /\ ~change[q].update

\* mutant: the history limit is left out
SavedNoLimit(c) == [c.want EXCEPT !.limit = 0]

Saved(c) == [c.want EXCEPT !.dsn = IF c.update THEN @ ELSE config.dsn]

(* Store.Save keeps the connection string it has unless it is given one.   *)
(* Memory and then the file change under Store.mu; a crash before the file *)
(* is replaced is a crash before the save.                                 *)
Save(q) ==
    /\ At(q, "opened")
    /\ change[q].update \/ config.dsn # NULL
    /\ config' = Saved(change[q])
    /\ disk' = config'
    /\ raced' = Overlaps(q)
    /\ Goto(q, "saved", [change[q] EXCEPT !.want = config', !.update = FALSE])
    /\ UNCHANGED <<up, service, connections, startupError, crashes>>

\* mutant: the repository that was opened for nothing is forgotten
SaveFailsLeaks(q) ==
    /\ At(q, "opened")
    /\ Return(q)
    /\ UNCHANGED <<up, store, service, connections, startupError, crashes, raced>>

(* No connection string, a limit out of range, a file that cannot be       *)
(* written: memory is restored and the new repository closed.              *)
SaveFails(q) ==
    /\ At(q, "opened")
    /\ Close(change[q].holds)
    /\ Return(q)
    /\ UNCHANGED <<up, store, service, startupError, crashes, raced>>

\* mutant: only the repository is exchanged
ApplyOldLimit(q) ==
    /\ At(q, "saved")
    /\ repo' = change[q].holds
    /\ Goto(q, "swapped", [NoChange EXCEPT !.holds = repo])
    /\ UNCHANGED <<up, store, limit, connections, startupError, crashes, raced>>

(* Configure, or Disable, exchange the repository under Service.mu.        *)
Apply(q) ==
    LET c == change[q]
    IN /\ At(q, "saved")
       /\ repo' = c.holds
       /\ limit' = IF c.want.enabled THEN c.want.limit ELSE limit
       /\ Goto(q, "swapped", [NoChange EXCEPT !.holds = repo])
       /\ UNCHANGED <<up, store, connections, startupError, crashes, raced>>

(* The old repository is closed outside the lock, and the handler answers. *)
CloseOld(q) ==
    /\ At(q, "swapped")
    /\ Close(change[q].holds)
    /\ startupError' = FALSE
    /\ Return(q)
    /\ UNCHANGED <<up, store, service, crashes, raced>>

Handler(q) ==
    \/ \E want \in Config, update \in BOOLEAN : ReadConfig(q, want, update)
    \/ OpenRepository(q)
    \/ OpenFails(q)
    \/ Save(q)
    \/ SaveFails(q)
    \/ Apply(q)
    \/ CloseOld(q)

Next ==
    \/ StartDisabled
    \/ Start
    \/ StartFails
    \/ Crash
    \/ \E q \in Request : Handler(q)

Spec == Init /\ [][Next]_vars

-----------------------------------------------------------------------------
(* Properties *)

Held == {change[q].holds : q \in Request} \ {NULL}
InService == {repo} \ {NULL}

(* Every open repository is in service or in the hands of exactly one      *)
(* request that will put it into service or close it, and nothing else     *)
(* is: the service never works on a closed repository, and none leaks,     *)
(* however changes, failed saves and restarts interleave.                  *)
RepositoriesOwned ==
    /\ open = InService \cup Held
    /\ InService \cap Held = {}
    /\ \A p, q \in Request : change[p].holds = change[q].holds
                               => p = q \/ change[p].holds = NULL

Quiet == up /\ \A q \in Request : pc[q] = "idle"

(* With no change under way, the service does what the file says, with the *)
(* database and the limit in the file, or says why it does not.  The last  *)
(* save may have overlapped another change (server/alerting.go:108-157):   *)
(* then one of them is in the file and the other in service, or the driver *)
(* of one is saved with the connection string of the other.                *)
RunningMatchesFile ==
    (Quiet /\ ~raced) =>
        /\ repo # NULL => /\ disk.enabled
                          /\ db[repo] = disk.dsn /\ limit = disk.limit
        /\ repo = NULL => ~disk.enabled \/ startupError

(* What a repository, with a limit, serves.                                *)
Serving(h, n) == IF h = NULL THEN NULL ELSE [dsn |-> db[h], limit |-> n]
InHand(q) == Serving(change[q].holds, change[q].want.limit)
Waiting == {InHand(q) : q \in {p \in Request : pc[p] = "saved"}}

Promised == INSTANCE AlertSetting WITH
    running <- up, saved <- disk, served <- Serving(repo, limit),
    waiting <- Waiting, overlapped <- raced

(* At every step, not only when all is quiet: what is in service changes   *)
(* at start-up and when a saved change is applied, to exactly what that    *)
(* change asked for, its limit with its database; without overlap this is  *)
(* what the file says at that moment, whatever other changes have opened   *)
(* and given up meanwhile; with it, the databases alone can be confused.   *)
FollowsChanges == Promised!Spec
=============================================================================
