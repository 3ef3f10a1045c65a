------------------------- MODULE AlertStorageProofs -------------------------
(***************************************************************************)
(* Proofs about AlertStorage for every set of drivers, databases, limits   *)
(* and requests.                                                           *)
(***************************************************************************)
EXTENDS AlertStorage, TLAPS

(* Who holds what: handles are given out once, and a request holds one     *)
(* only between opening it and putting it into service, or between taking  *)
(* the old one out and closing it.                                         *)
HandlesOK ==
    /\ \A h \in open : h < nextHandle
    /\ ~up => repo = NULL /\ open = {}
    /\ ~up => \A q \in Request : change[q].holds = NULL

(* A request that has not opened a repository, or closed it, holds none.   *)
Empty ==
    \A q \in Request : pc[q] \in {"idle", "read"} => change[q].holds = NULL

Owned == HandlesOK /\ Empty /\ RepositoriesOwned
OwnedInv == TypeOK /\ Owned

LEMMA BlankType == Blank \in Config /\ NoChange \in Change /\ NoChange.holds = NULL
<1>1. Blank \in Config
  BY LimitAssumption DEF Blank, Config
<1> QED
  BY <1>1 DEF NoChange, Change

LEMMA InitialTypes ==
    /\ Unused \in [Handle -> Dsn \cup {NULL}]
    /\ 1 \in 1..(MaxHandle + 1) /\ 0 \in 0..MaxCrash
    /\ DefaultLimit \in Limits /\ "idle" \in Pc
BY BoundAssumption, LimitAssumption DEF Unused, Pc

LEMMA InitOwned == Init => OwnedInv
<1> SUFFICES ASSUME Init PROVE OwnedInv
  OBVIOUS
<1>1. TypeOK
  BY BlankType, InitialTypes DEF Init, TypeOK
<1>2. \A q \in Request : change[q].holds = NULL
  BY BlankType DEF Init
<1> QED
  BY <1>1, <1>2 DEF Init, OwnedInv, Owned, HandlesOK, Empty, RepositoriesOwned,
                    InService, Held

(* One request's record changes; what it held goes to `new'.               *)
LEMMA HoldsAfter ==
    ASSUME TypeOK, NEW q \in Request, NEW p \in Pc, NEW c \in Change, Goto(q, p, c)
    PROVE  /\ change' \in [Request -> Change]
           /\ change'[q] = c
           /\ \A r \in Request : r # q => change'[r] = change[r] /\ pc'[r] = pc[r]
           /\ pc' \in [Request -> Pc] /\ pc'[q] = p
           /\ Held' = ({change[r].holds : r \in Request \ {q}} \cup {c.holds}) \ {NULL}
<1>1. change \in [Request -> Change] /\ pc \in [Request -> Pc]
  BY DEF TypeOK
<1>2. /\ change' \in [Request -> Change]
      /\ change'[q] = c
      /\ \A r \in Request : r # q => change'[r] = change[r] /\ pc'[r] = pc[r]
      /\ pc' \in [Request -> Pc] /\ pc'[q] = p
  BY <1>1 DEF Goto
<1>3. Held' = {change'[r].holds : r \in Request} \ {NULL}
  BY DEF Held
<1> QED
  BY <1>2, <1>3

LEMMA NextTyped == TypeOK /\ [Next]_vars => TypeOK'
<1> SUFFICES ASSUME TypeOK, [Next]_vars PROVE TypeOK'
  OBVIOUS
<1> USE DEF service, store, connections
<1>1. ASSUME NEW c, Connect(c), c.dsn \in Dsn \cup {NULL}
      PROVE  /\ nextHandle \in Handle /\ open' \subseteq Handle
             /\ db' \in [Handle -> Dsn \cup {NULL}]
             /\ nextHandle' \in 1..(MaxHandle + 1)
  BY <1>1, BoundAssumption DEF TypeOK, Connect, Handle
<1>2. ASSUME NEW h, Close(h)
      PROVE  /\ open' \subseteq Handle /\ nextHandle' = nextHandle
             /\ db' \in [Handle -> Dsn \cup {NULL}]
  BY <1>2 DEF TypeOK, Close
<1>3. CASE StartDisabled \/ StartFails
  BY <1>3 DEF TypeOK, StartDisabled, StartFails, Load
<1>4. CASE Start
  <2>1. disk.dsn \in Dsn \cup {NULL} /\ disk.limit \in Limits
    BY DEF TypeOK, Config
  <2>2. Connect(disk)
    BY <1>4 DEF Start
  <2>3. Load /\ repo' = nextHandle /\ limit' = disk.limit /\ UNCHANGED startupError
    BY <1>4 DEF Start
  <2> QED
    BY <1>1, <2>1, <2>2, <2>3 DEF TypeOK, Load
<1>5. CASE Crash
  <2>1. crashes' \in 0..MaxCrash
    BY <1>5, BoundAssumption DEF TypeOK, Crash
  <2> QED
    BY <1>5, <2>1, BlankType, InitialTypes DEF TypeOK, Crash
<1>6. ASSUME NEW q \in Request, Handler(q)
      PROVE  TypeOK'
  <2>1. change[q] \in Change /\ change[q].want \in Config
        /\ change[q].want.dsn \in Dsn \cup {NULL} /\ change[q].want.limit \in Limits
        /\ change[q].holds \in Handle \cup {NULL}
    BY DEF TypeOK, Change, Config
  <2>2. ASSUME NEW p \in Pc, NEW c \in Change, Goto(q, p, c)
        PROVE  pc' \in [Request -> Pc] /\ change' \in [Request -> Change]
    BY <2>2, HoldsAfter
  <2>3. /\ "idle" \in Pc /\ "read" \in Pc /\ "opened" \in Pc /\ "saved" \in Pc
        /\ "swapped" \in Pc
    BY DEF Pc
  <2>4. ASSUME NEW h \in Handle \cup {NULL}
        PROVE  /\ [change[q] EXCEPT !.holds = h] \in Change
               /\ [NoChange EXCEPT !.holds = h] \in Change
    BY <2>1, <2>4, BlankType DEF Change
  <2>5. ASSUME NEW want \in Config, NEW update \in BOOLEAN, ReadConfig(q, want, update)
        PROVE  TypeOK'
    <3>1. [want |-> want, update |-> update, holds |-> NULL] \in Change
      BY DEF Change
    <3> QED
      BY <2>2, <2>3, <2>5, <3>1 DEF TypeOK, ReadConfig
  <2>6. CASE OpenRepository(q)
    <3>1. CASE change[q].want.enabled
      <4>1. Connect(change[q].want)
            /\ Goto(q, "opened", [change[q] EXCEPT !.holds = nextHandle])
            /\ UNCHANGED <<up, store, service, startupError, crashes, raced>>
        BY <2>6, <3>1 DEF OpenRepository
      <4>2. pc' \in [Request -> Pc] /\ change' \in [Request -> Change]
        BY <1>1, <2>1, <2>2, <2>3, <2>4, <4>1
      <4> QED
        BY <1>1, <2>1, <4>1, <4>2 DEF TypeOK
    <3>2. CASE ~change[q].want.enabled
      BY <2>1, <2>2, <2>3, <2>6, <3>2 DEF TypeOK, OpenRepository
    <3> QED
      BY <3>1, <3>2
  <2>7. CASE OpenFails(q)
    BY <2>2, <2>3, <2>7, BlankType DEF TypeOK, OpenFails, Return
  <2>8. CASE Save(q)
    <3>1. Saved(change[q]) \in Config
      BY <2>1 DEF TypeOK, Saved, Config
    <3>2. raced' \in BOOLEAN
      BY <2>8 DEF Save, Overlaps
    <3>3. config' \in Config
      BY <2>8, <3>1 DEF Save
    <3>4. [change[q] EXCEPT !.want = config', !.update = FALSE] \in Change
      BY <2>1, <3>3 DEF Change
    <3> QED
      BY <2>2, <2>3, <2>8, <3>2, <3>3, <3>4 DEF TypeOK, Save
  <2>9. CASE SaveFails(q)
    BY <1>2, <2>2, <2>3, <2>9, BlankType DEF TypeOK, SaveFails, Return
  <2>10. CASE Apply(q)
    <3>1. repo \in Handle \cup {NULL} /\ limit \in Limits
      BY DEF TypeOK
    <3>2. pc' \in [Request -> Pc] /\ change' \in [Request -> Change]
      BY <2>2, <2>3, <2>4, <2>10, <3>1 DEF Apply
    <3> QED
      BY <2>1, <2>10, <3>1, <3>2 DEF TypeOK, Apply
  <2>11. CASE CloseOld(q)
    BY <1>2, <2>2, <2>3, <2>11, BlankType DEF TypeOK, CloseOld, Return
  <2> QED
    BY <1>6, <2>5, <2>6, <2>7, <2>8, <2>9, <2>10, <2>11 DEF Handler
<1>7. CASE UNCHANGED vars
  BY <1>7 DEF vars, TypeOK
<1> QED
  BY <1>3, <1>4, <1>5, <1>6, <1>7 DEF Next

(* What each request holds is its own, and not in service.                 *)
Own == \A q \in Request : change[q].holds # NULL =>
          /\ change[q].holds \in open /\ change[q].holds # repo
          /\ \A p \in Request \ {q} : change[p].holds # change[q].holds

(* The repository in service is open, and each open one has its holder.    *)
Placed ==
    /\ repo # NULL => repo \in open
    /\ \A h \in open :
          h # NULL /\ (h = repo \/ \E q \in Request : change[q].holds = h)

LEMMA OwnedAs == RepositoriesOwned <=> Own /\ Placed
BY DEF RepositoriesOwned, Own, Placed, InService, Held

LEMMA NextOwned == OwnedInv /\ [Next]_vars => Owned'
<1> SUFFICES ASSUME OwnedInv, [Next]_vars PROVE Owned'
  OBVIOUS
<1>0. /\ TypeOK /\ HandlesOK /\ Empty /\ RepositoriesOwned
      /\ change \in [Request -> Change] /\ pc \in [Request -> Pc]
      /\ open \subseteq Handle
      /\ repo \in Handle \cup {NULL} /\ nextHandle \in 1..(MaxHandle + 1)
      /\ Own /\ Placed
      /\ Handle \subseteq Int /\ NULL \notin Handle
  BY OwnedAs, NullAssumption, BoundAssumption DEF OwnedInv, Owned, TypeOK, Handle
<1>a. Own' /\ Placed' => RepositoriesOwned'
  BY DEF RepositoriesOwned, Own, Placed, InService, Held
<1>1. CASE StartDisabled \/ StartFails
  BY <1>0, <1>1
  DEF StartDisabled, StartFails, Load, service, connections, Owned, HandlesOK,
      Empty, RepositoriesOwned, InService, Held
<1>2. CASE Start
  <2>1. /\ ~up /\ up' /\ UNCHANGED <<pc, change>>
        /\ nextHandle \in Handle /\ open' = open \cup {nextHandle}
        /\ nextHandle' = nextHandle + 1 /\ repo' = nextHandle
    BY <1>2 DEF Start, Load, Connect
  <2>2. open = {} /\ \A q \in Request : change[q].holds = NULL
    BY <1>0, <2>1 DEF HandlesOK
  <2>3. HandlesOK' /\ Empty'
    BY <1>0, <2>1, <2>2 DEF HandlesOK, Empty
  <2>4. RepositoriesOwned'
    BY <1>0, <1>a, <2>1, <2>2 DEF Own, Placed
  <2> QED
    BY <2>3, <2>4 DEF Owned
<1>3. CASE Crash
  <2>1. \A q \in Request : change'[q].holds = NULL
    BY <1>3, BlankType DEF Crash
  <2> QED
    BY <1>3, <2>1 DEF Crash, Owned, HandlesOK, Empty, RepositoriesOwned, InService, Held
<1>4. ASSUME NEW q \in Request, Handler(q)
      PROVE  Owned'
  <2>0. /\ "idle" \in Pc /\ "read" \in Pc /\ "opened" \in Pc /\ "saved" \in Pc
        /\ "swapped" \in Pc /\ change[q] \in Change
    BY <1>0 DEF Pc
  <2>1. ASSUME NEW p \in Pc, NEW c \in Change, Goto(q, p, c),
               c.holds = change[q].holds,
               p \in {"idle", "read"} => c.holds = NULL, up, up',
               UNCHANGED <<open, nextHandle, repo>>
        PROVE  Owned'
    <3>0. \A r \in Request : change'[r].holds = change[r].holds
      <4>1. /\ change'[q] = c
            /\ \A r \in Request : r # q => change'[r] = change[r]
        BY <1>0, <2>1, HoldsAfter
      <4> QED
        BY <2>1, <4>1
    <3>1. HandlesOK' /\ Empty'
      BY <1>0, <2>1, HoldsAfter DEF HandlesOK, Empty
    <3>2. Own' /\ Placed'
      BY <1>0, <2>1, <3>0 DEF Own, Placed
    <3>3. RepositoriesOwned'
      BY <1>a, <3>2
    <3> QED
      BY <3>1, <3>3 DEF Owned
  <2>2. ASSUME UNCHANGED <<repo, nextHandle>>, up, up', Return(q),
               open' = open \ {change[q].holds}
        PROVE  Owned'
    <3>1. /\ change'[q].holds = NULL
          /\ \A r \in Request : r # q => change'[r] = change[r] /\ pc'[r] = pc[r]
      BY <1>0, <2>0, <2>2, HoldsAfter, BlankType DEF Return
    <3>2. HandlesOK' /\ Empty'
      BY <1>0, <2>2, <3>1 DEF HandlesOK, Empty
    <3>3. RepositoriesOwned'
      BY <1>0, <1>a, <2>2, <3>1 DEF Own, Placed
    <3> QED
      BY <3>2, <3>3 DEF Owned
  <2>3. ASSUME NEW want \in Config, NEW update \in BOOLEAN, ReadConfig(q, want, update)
        PROVE  Owned'
    <3> DEFINE c == [want |-> want, update |-> update, holds |-> NULL]
    <3>1. c \in Change /\ c.holds = NULL
      BY DEF Change
    <3>2. Goto(q, "read", c) /\ change[q].holds = NULL
      BY <1>0, <2>3 DEF ReadConfig, At, Empty
    <3>3. up /\ up' /\ UNCHANGED <<open, nextHandle, repo>>
      BY <2>3 DEF ReadConfig, At, service, connections
    <3> HIDE DEF c
    <3> QED
      BY <2>0, <2>1, <3>1, <3>2, <3>3
  <2>4. CASE OpenRepository(q)
    <3>0. change[q].holds = NULL /\ up /\ up' /\ repo' = repo
      BY <1>0, <2>4 DEF OpenRepository, At, Empty, service
    <3>1. CASE ~change[q].want.enabled
      BY <2>0, <2>1, <2>4, <3>0, <3>1 DEF OpenRepository, connections
    <3>2. CASE change[q].want.enabled
      <4> DEFINE c == [change[q] EXCEPT !.holds = nextHandle]
      <4>1. /\ Goto(q, "opened", c) /\ nextHandle \in Handle
            /\ open' = open \cup {nextHandle} /\ nextHandle' = nextHandle + 1
        BY <2>4, <3>2 DEF OpenRepository, Connect
      <4>2. c \in Change /\ c.holds = nextHandle
        BY <2>0, <4>1 DEF Change
      <4> HIDE DEF c
      <4>3. /\ change'[q].holds = nextHandle /\ pc'[q] = "opened"
            /\ \A r \in Request : r # q => change'[r] = change[r] /\ pc'[r] = pc[r]
        BY <1>0, <2>0, <4>1, <4>2, HoldsAfter
      <4>4. nextHandle \notin open
        BY <1>0 DEF HandlesOK
      <4>5. HandlesOK' /\ Empty'
        BY <1>0, <3>0, <4>1, <4>3 DEF HandlesOK, Empty
      <4>6. Own'
        BY <1>0, <3>0, <4>1, <4>3, <4>4 DEF Own, Placed
      <4>7. Placed'
        BY <1>0, <3>0, <4>1, <4>3 DEF Placed
      <4>8. RepositoriesOwned'
        BY <1>a, <4>6, <4>7
      <4> QED
        BY <4>5, <4>8 DEF Owned
    <3> QED
      BY <3>1, <3>2
  <2>5. CASE OpenFails(q)
    BY <1>0, <2>0, <2>1, <2>5, BlankType
    DEF OpenFails, At, Empty, Return, service, connections
  <2>6. CASE Save(q)
    <3> DEFINE c == [change[q] EXCEPT !.want = config', !.update = FALSE]
    <3>1. config' \in Config
      BY <1>0, NextTyped DEF TypeOK
    <3>2. c \in Change /\ c.holds = change[q].holds
      BY <2>0, <3>1 DEF Change
    <3>3. /\ Goto(q, "saved", c) /\ up /\ up'
          /\ UNCHANGED <<open, nextHandle, repo>>
      BY <2>6 DEF Save, At, service, connections
    <3> HIDE DEF c
    <3> QED
      BY <2>0, <2>1, <3>2, <3>3
  <2>7. CASE SaveFails(q)
    BY <2>2, <2>7 DEF SaveFails, At, Close, service
  <2>8. CASE CloseOld(q)
    BY <2>2, <2>8 DEF CloseOld, At, Close, service
  <2>9. CASE Apply(q)
    <3> DEFINE c == [NoChange EXCEPT !.holds = repo]
    <3>1. /\ Goto(q, "swapped", c) /\ repo' = change[q].holds /\ up /\ up'
          /\ UNCHANGED <<open, nextHandle>>
      BY <2>9 DEF Apply, At, connections
    <3>2. c \in Change /\ c.holds = repo
      BY <1>0, BlankType DEF Change
    <3> HIDE DEF c
    <3>3. /\ change'[q].holds = repo /\ pc'[q] = "swapped"
          /\ \A r \in Request : r # q => change'[r] = change[r] /\ pc'[r] = pc[r]
      BY <1>0, <2>0, <3>1, <3>2, HoldsAfter
    <3>4. HandlesOK' /\ Empty'
      BY <1>0, <3>1, <3>3 DEF HandlesOK, Empty
    <3>5. Own'
      BY <1>0, <3>1, <3>3 DEF Own, Placed
    <3>6. Placed'
      BY <1>0, <3>1, <3>3 DEF Own, Placed
    <3>7. RepositoriesOwned'
      BY <1>a, <3>5, <3>6
    <3> QED
      BY <3>4, <3>7 DEF Owned
  <2> QED
    BY <1>4, <2>3, <2>4, <2>5, <2>6, <2>7, <2>8, <2>9 DEF Handler
<1>5. CASE UNCHANGED vars
  BY <1>0, <1>5 DEF vars, Owned, HandlesOK, Empty, RepositoriesOwned, InService, Held
<1> QED
  BY <1>1, <1>2, <1>3, <1>4, <1>5 DEF Next

(* Every open repository has one owner, Service.repo or a request between  *)
(* opening and closing it (updateAlertingConfig, Configure, Disable).      *)
THEOREM AlwaysOwned == Spec => []OwnedInv
<1>1. OwnedInv /\ [Next]_vars => OwnedInv'
  BY NextTyped, NextOwned DEF OwnedInv
<1> QED
  BY <1>1, InitOwned, PTL DEF Spec

(* Every variable of the storage keeps its type.                           *)
THEOREM StorageTyped == Spec => []TypeOK
<1>1. OwnedInv => TypeOK
  BY DEF OwnedInv
<1> QED
  BY <1>1, AlwaysOwned, PTL

(* The repository in service is open and no open one is lost, through any  *)
(* interleaving of Configure, Disable, failed saves and restarts.          *)
THEOREM NoneClosedNoneLeaked == Spec => []RepositoriesOwned
<1>1. OwnedInv => RepositoriesOwned
  BY DEF OwnedInv, Owned
<1> QED
  BY <1>1, AlwaysOwned, PTL

-----------------------------------------------------------------------------
(* What is in service and what is in the file.                             *)

SameFile ==
    /\ up => config = disk
    /\ ~up => \A q \in Request : pc[q] = "idle"

(* Between opening its repository and exchanging it a request holds one    *)
(* exactly when it is to enable the alerts, on the database it asked for.  *)
Prepared(q) ==
    /\ pc[q] \in {"opened", "saved"} =>
          (change[q].holds = NULL <=> ~change[q].want.enabled)
    /\ (pc[q] = "opened" /\ change[q].holds # NULL) =>
          db[change[q].holds] = change[q].want.dsn

(* No save after the last one that overlapped: it alone is to be applied,  *)
(* with what is in the file, or nothing is and the file is served.  Only a *)
(* start that failed is reported, until some change has been applied.      *)
Alone == \A p, q \in Request : pc[p] = "saved" /\ pc[q] = "saved" => p = q

Latest(q) ==
    pc[q] = "saved" =>
        /\ change[q].want = disk
        /\ change[q].holds # NULL => db[change[q].holds] = disk.dsn

Serves ==
    /\ repo # NULL => disk.enabled /\ db[repo] = disk.dsn /\ limit = disk.limit
    /\ repo = NULL => ~disk.enabled

Reported == repo = NULL /\ startupError /\ \A q \in Request : pc[q] # "swapped"

InStep ==
    (up /\ ~raced) =>
        /\ Alone
        /\ \A q \in Request : Latest(q)
        /\ (\A q \in Request : pc[q] # "saved") => Serves \/ Reported

Follows == SameFile /\ (\A q \in Request : Prepared(q)) /\ InStep

LEMMA InitFollows == Init => Follows
BY DEF Init, Follows, SameFile, Prepared, InStep

(* A step of one request that neither saves nor applies.                   *)
OtherStep(q) ==
    /\ UNCHANGED <<config, disk, repo, limit, raced>> /\ up /\ up' = up
    /\ \A p \in Request : p # q => pc'[p] = pc[p] /\ change'[p] = change[p]
    /\ pc[q] # "saved" /\ pc'[q] \notin {"saved", "swapped"}
    /\ startupError' = startupError \/ pc[q] = "swapped"
    /\ \A h \in open : h # change[q].holds => db'[h] = db[h]
    /\ Prepared(q)'

LEMMA OtherFollows ==
    ASSUME OwnedInv, Follows, NEW q \in Request, OtherStep(q)
    PROVE  Follows'
<1> USE DEF Follows
<1>1. /\ up /\ up' /\ UNCHANGED <<config, disk, repo, limit, raced>>
      /\ \A p \in Request : p # q => pc'[p] = pc[p] /\ change'[p] = change[p]
      /\ pc[q] # "saved" /\ pc'[q] \notin {"saved", "swapped"}
      /\ startupError' = startupError \/ pc[q] = "swapped"
      /\ \A h \in open : h # change[q].holds => db'[h] = db[h]
      /\ Prepared(q)'
  BY DEF OtherStep
<1>2. Own /\ Placed
  BY OwnedAs DEF OwnedInv, Owned
<1>3. \A p \in Request : p # q /\ change[p].holds # NULL =>
         db'[change[p].holds] = db[change[p].holds]
  BY <1>1, <1>2 DEF Own
<1>4. repo # NULL => db'[repo] = db[repo]
  BY <1>1, <1>2 DEF Own, Placed
<1>5. SameFile'
  BY <1>1 DEF SameFile
<1>6. ASSUME NEW p \in Request
      PROVE  Prepared(p)'
  <2>1. CASE p = q
    BY <1>1, <2>1
  <2>2. CASE p # q
    BY <1>1, <1>3, <2>2 DEF Prepared
  <2> QED
    BY <2>1, <2>2
<1>7. InStep'
  <2> SUFFICES ASSUME ~raced
               PROVE  /\ Alone' /\ \A p \in Request : Latest(p)'
                      /\ (\A p \in Request : pc'[p] # "saved") => (Serves \/ Reported)'
    BY <1>1 DEF InStep
  <2>1. /\ Alone /\ \A p \in Request : Latest(p)
        /\ (\A p \in Request : pc[p] # "saved") => Serves \/ Reported
    BY <1>1 DEF InStep
  <2>2. \A p \in Request : pc'[p] = "saved" <=> pc[p] = "saved"
    BY <1>1
  <2>3. Alone'
    BY <2>1, <2>2 DEF Alone
  <2>4. ASSUME NEW p \in Request
        PROVE  Latest(p)'
    BY <1>1, <1>3, <2>1, <2>2 DEF Latest
  <2>5. Serves => Serves'
    BY <1>1, <1>4 DEF Serves
  <2>6. Reported => Reported'
    BY <1>1 DEF Reported
  <2> QED
    BY <2>1, <2>2, <2>3, <2>4, <2>5, <2>6
<1> QED
  BY <1>5, <1>6, <1>7

(* What a save leaves, in the file and in the hands of its request.        *)
LEMMA Saving ==
    ASSUME OwnedInv, NEW q \in Request, Save(q)
    PROVE  /\ up /\ up' /\ pc[q] = "opened" /\ disk' = config' /\ config' \in Config
           /\ raced' = Overlaps(q) /\ UNCHANGED <<repo, limit, db, open, startupError>>
           /\ pc'[q] = "saved" /\ change'[q].want = config'
           /\ change'[q].holds = change[q].holds
           /\ \A p \in Request : p # q => pc'[p] = pc[p] /\ change'[p] = change[p]
           /\ config'.enabled = change[q].want.enabled
           /\ (change[q].update \/ change[q].want.dsn = config.dsn)
                 => config'.dsn = change[q].want.dsn
<1> DEFINE c == change[q]
           new == [c EXCEPT !.want = config', !.update = FALSE]
<1>1. /\ change \in [Request -> Change] /\ pc \in [Request -> Pc]
      /\ config \in Config /\ c \in Change /\ c.want \in Config
  BY DEF OwnedInv, TypeOK, Change
<1>2. /\ up /\ up' /\ pc[q] = "opened" /\ disk' = config' /\ config' = Saved(c)
      /\ raced' = Overlaps(q) /\ Goto(q, "saved", new)
      /\ UNCHANGED <<repo, limit, db, open, startupError>>
  BY DEF Save, At, service, connections
<1>3. config' \in Config
  <2>1. Saved(c) \in Config
    BY <1>1 DEF Saved, Config
  <2> QED
    BY <1>2, <2>1
<1>4. new.want = config' /\ new.holds = c.holds
  BY <1>1, <1>3 DEF Change
<1>5. /\ pc'[q] = "saved" /\ change'[q].want = config' /\ change'[q].holds = c.holds
      /\ \A p \in Request : p # q => pc'[p] = pc[p] /\ change'[p] = change[p]
  BY <1>1, <1>2, <1>4 DEF Goto
<1>6. config'.enabled = c.want.enabled
  BY <1>1, <1>2 DEF Saved, Config
<1>7. c.update \/ c.want.dsn = config.dsn => config'.dsn = c.want.dsn
  BY <1>1, <1>2 DEF Saved, Config
<1> QED
  BY <1>2, <1>3, <1>5, <1>6, <1>7

(* A save that overlaps no other change is the only one to be applied.     *)
LEMMA SaveFollows ==
    ASSUME OwnedInv, Follows, NEW q \in Request, Save(q)
    PROVE  Follows'
<1> USE Saving DEF Follows
<1>1. SameFile'
  BY DEF SameFile
<1>2. ASSUME NEW p \in Request
      PROVE  Prepared(p)'
  <2>1. CASE p = q
    BY <2>1 DEF Prepared
  <2>2. CASE p # q
    BY <2>2 DEF Prepared
  <2> QED
    BY <2>1, <2>2
<1>3. InStep'
  <2> SUFFICES ASSUME ~raced'
               PROVE  Alone' /\ \A p \in Request : Latest(p)'
    BY DEF InStep
  <2>1. /\ \A p \in Request : p # q => pc[p] # "saved"
        /\ change[q].update \/ change[q].want.dsn = config.dsn
    BY DEF Overlaps
  <2>2. \A p \in Request : pc'[p] = "saved" => p = q
    BY <2>1
  <2>3. Alone'
    BY <2>2 DEF Alone
  <2>4. change[q].holds # NULL => db'[change[q].holds] = disk'.dsn
    BY <2>1 DEF Prepared
  <2>5. ASSUME NEW p \in Request
        PROVE  Latest(p)'
    BY <2>2, <2>4 DEF Latest
  <2> QED
    BY <2>3, <2>5
<1> QED
  BY <1>1, <1>2, <1>3

LEMMA ApplyFollows ==
    ASSUME OwnedInv, Follows, NEW q \in Request, Apply(q)
    PROVE  Follows'
<1> USE DEF Follows
<1> DEFINE c == change[q]
           new == [NoChange EXCEPT !.holds = repo]
<1>1. change \in [Request -> Change] /\ pc \in [Request -> Pc]
  BY DEF OwnedInv, TypeOK
<1>2. /\ up /\ up' /\ pc[q] = "saved" /\ Goto(q, "swapped", new)
      /\ repo' = c.holds /\ limit' = IF c.want.enabled THEN c.want.limit ELSE limit
      /\ UNCHANGED <<config, disk, db, raced>>
  BY DEF Apply, At, store, connections
<1>3. /\ pc'[q] = "swapped"
      /\ \A p \in Request : p # q => pc'[p] = pc[p] /\ change'[p] = change[p]
  BY <1>1, <1>2 DEF Goto
<1> HIDE DEF c, new
<1>4. SameFile'
  BY <1>2 DEF SameFile
<1>5. ASSUME NEW p \in Request
      PROVE  Prepared(p)'
  BY <1>2, <1>3 DEF Prepared
<1>6. InStep'
  <2> SUFFICES ASSUME ~raced
               PROVE  Alone' /\ (\A p \in Request : Latest(p)') /\ Serves'
    BY <1>2 DEF InStep
  <2>1. Alone /\ Latest(q)
    BY <1>2 DEF InStep
  <2>2. \A p \in Request : pc'[p] # "saved"
    BY <1>2, <1>3, <2>1 DEF Alone
  <2>3. Alone' /\ \A p \in Request : Latest(p)'
    BY <2>2 DEF Alone, Latest
  <2>4. /\ c.want = disk /\ (c.holds # NULL => db[c.holds] = disk.dsn)
        /\ (c.holds = NULL <=> ~c.want.enabled)
    BY <1>2, <2>1 DEF Latest, Prepared, c
  <2>5. Serves'
    BY <1>2, <2>4 DEF Serves
  <2> QED
    BY <2>3, <2>5
<1> QED
  BY <1>4, <1>5, <1>6

(* All a request does but save and apply is such a step.                   *)
LEMMA OtherSteps ==
    ASSUME OwnedInv, NEW q \in Request, Handler(q)
    PROVE  Save(q) \/ Apply(q) \/ OtherStep(q)
<1>0. /\ HandlesOK /\ Empty
      /\ change \in [Request -> Change] /\ pc \in [Request -> Pc]
      /\ db \in [Handle -> Dsn \cup {NULL}] /\ open \subseteq Handle
      /\ NULL \notin Handle /\ nextHandle \in Int
  BY NullAssumption, BoundAssumption DEF OwnedInv, Owned, TypeOK, Handle
<1>1. ASSUME Goto(q, "idle", NoChange)
      PROVE  /\ pc'[q] = "idle" /\ Prepared(q)'
             /\ \A p \in Request : p # q => pc'[p] = pc[p] /\ change'[p] = change[p]
  BY <1>0, <1>1 DEF Goto, Prepared
<1>2. ASSUME Close(change[q].holds)
      PROVE  \A h \in open : h # change[q].holds => db'[h] = db[h]
  BY <1>0, <1>2 DEF Close
<1>3. ASSUME NEW want \in Config, NEW update \in BOOLEAN, ReadConfig(q, want, update)
      PROVE  OtherStep(q)
  <2> DEFINE c == [want |-> want, update |-> update, holds |-> NULL]
  <2>1. /\ Goto(q, "read", c) /\ up /\ up' = up /\ pc[q] = "idle"
        /\ UNCHANGED <<config, disk, repo, limit, raced, startupError, db>>
    BY <1>3 DEF ReadConfig, At, store, service, connections
  <2> HIDE DEF c
  <2>2. /\ pc'[q] = "read"
        /\ \A p \in Request : p # q => pc'[p] = pc[p] /\ change'[p] = change[p]
    BY <1>0, <2>1 DEF Goto
  <2> QED
    BY <2>1, <2>2 DEF OtherStep, Prepared
<1>4. CASE OpenRepository(q)
  <2>0. /\ up /\ up' = up /\ pc[q] = "read" /\ change[q].holds = NULL
        /\ UNCHANGED <<config, disk, repo, limit, raced, startupError>>
        /\ change[q] \in Change
    BY <1>0, <1>4 DEF OpenRepository, At, Empty, store, service
  <2>1. CASE ~change[q].want.enabled
    <3>1. Goto(q, "opened", change[q]) /\ UNCHANGED db
      BY <1>4, <2>1 DEF OpenRepository, connections
    <3>2. /\ pc'[q] = "opened" /\ change'[q] = change[q]
          /\ \A p \in Request : p # q => pc'[p] = pc[p] /\ change'[p] = change[p]
      BY <1>0, <3>1 DEF Goto
    <3> QED
      BY <2>0, <2>1, <3>1, <3>2 DEF OtherStep, Prepared
  <2>2. CASE change[q].want.enabled
    <3> DEFINE c == [change[q] EXCEPT !.holds = nextHandle]
    <3>1. /\ Goto(q, "opened", c) /\ nextHandle \in Handle
          /\ db' = [db EXCEPT ![nextHandle] = change[q].want.dsn]
      BY <1>4, <2>2 DEF OpenRepository, Connect
    <3>2. c.holds = nextHandle /\ c.want = change[q].want
      BY <2>0 DEF Change
    <3> HIDE DEF c
    <3>3. /\ pc'[q] = "opened" /\ change'[q] = c
          /\ \A p \in Request : p # q => pc'[p] = pc[p] /\ change'[p] = change[p]
      BY <1>0, <3>1 DEF Goto
    <3>4. /\ db'[nextHandle] = change[q].want.dsn
          /\ \A h \in open : db'[h] = db[h]
      BY <1>0, <3>1 DEF HandlesOK, Handle
    <3>5. Prepared(q)'
      BY <1>0, <2>2, <3>1, <3>2, <3>3, <3>4 DEF Prepared
    <3> QED
      BY <2>0, <3>3, <3>4, <3>5 DEF OtherStep
  <2> QED
    BY <2>1, <2>2
<1>5. CASE OpenFails(q)
  BY <1>1, <1>5
  DEF OpenFails, At, Return, store, service, connections, OtherStep
<1>6. CASE SaveFails(q)
  BY <1>1, <1>2, <1>6 DEF SaveFails, At, Return, store, service, OtherStep
<1>7. CASE CloseOld(q)
  BY <1>1, <1>2, <1>7 DEF CloseOld, At, Return, store, service, OtherStep
<1> QED
  BY <1>3, <1>4, <1>5, <1>6, <1>7 DEF Handler

LEMMA NextFollows == OwnedInv /\ Follows /\ [Next]_vars => Follows'
<1> SUFFICES ASSUME OwnedInv, Follows, [Next]_vars PROVE Follows'
  OBVIOUS
<1> USE DEF Follows
<1>0. /\ TypeOK /\ HandlesOK /\ Empty /\ Own /\ Placed
      /\ change \in [Request -> Change] /\ pc \in [Request -> Pc]
      /\ db \in [Handle -> Dsn \cup {NULL}] /\ open \subseteq Handle
      /\ NULL \notin Handle /\ nextHandle \in Int
  BY OwnedAs, NullAssumption, BoundAssumption DEF OwnedInv, Owned, TypeOK, Handle
<1>1. ASSUME Load
      PROVE  /\ up' /\ config' = disk' /\ disk' = disk /\ repo = NULL
             /\ \A q \in Request : pc'[q] = "idle"
             /\ SameFile' /\ \A q \in Request : Prepared(q)'
             /\ (Serves \/ Reported)' => Follows'
  <2>1. /\ up' /\ config' = disk' /\ disk' = disk /\ repo = NULL
        /\ \A q \in Request : pc'[q] = "idle"
    BY <1>0, <1>1 DEF Load, SameFile, HandlesOK
  <2>2. SameFile' /\ (\A q \in Request : Prepared(q)')
    BY <2>1 DEF SameFile, Prepared
  <2>3. Alone' /\ \A q \in Request : Latest(q)'
    BY <2>1 DEF Alone, Latest
  <2> QED
    BY <2>1, <2>2, <2>3 DEF InStep
<1>2. CASE StartDisabled
  <2>1. Serves'
    BY <1>1, <1>2 DEF StartDisabled, service, Serves
  <2> QED
    BY <1>1, <1>2, <2>1 DEF StartDisabled
<1>3. CASE StartFails
  <2>1. Reported'
    BY <1>1, <1>3 DEF StartFails, service, Reported
  <2> QED
    BY <1>1, <1>3, <2>1 DEF StartFails
<1>4. CASE Start
  <2>1. /\ repo' = nextHandle /\ nextHandle \in Handle /\ limit' = disk.limit
        /\ db' = [db EXCEPT ![nextHandle] = disk.dsn] /\ disk.enabled /\ Load
    BY <1>4 DEF Start, Connect
  <2>2. db'[repo'] = disk.dsn
    BY <1>0, <2>1
  <2>3. Serves'
    BY <1>0, <1>1, <2>1, <2>2 DEF Serves
  <2> QED
    BY <1>1, <2>1, <2>3
<1>5. CASE Crash
  BY <1>5 DEF Crash, SameFile, Prepared, InStep
<1>6. ASSUME NEW q \in Request, Handler(q)
      PROVE  Follows'
  BY <1>6, OtherSteps, OtherFollows, SaveFollows, ApplyFollows
<1>7. CASE UNCHANGED vars
  BY <1>7 DEF vars, SameFile, Prepared, InStep, Alone, Latest, Serves, Reported
<1> QED
  BY <1>2, <1>3, <1>4, <1>5, <1>6, <1>7 DEF Next

(* With no change under way the service does what the file says, or says   *)
(* why it does not, unless the last save overlapped another change: for    *)
(* every number of administrators at once, and through failed saves,       *)
(* databases not to be reached and crashes (updateAlertingConfig,          *)
(* Service.Configure, Service.Disable).                                    *)
THEOREM ServiceFollowsFile == Spec => []RunningMatchesFile
<1>1. Follows => RunningMatchesFile
  <2> SUFFICES ASSUME Follows, Quiet, ~raced
               PROVE  /\ repo # NULL => /\ disk.enabled
                                        /\ db[repo] = disk.dsn /\ limit = disk.limit
                      /\ repo = NULL => ~disk.enabled \/ startupError
    BY DEF RunningMatchesFile
  <2>1. Serves \/ Reported
    BY DEF Quiet, Follows, InStep
  <2> QED
    BY <2>1 DEF Serves, Reported
<1> QED
  BY <1>1, InitFollows, NextFollows, AlwaysOwned, PTL DEF Spec
-----------------------------------------------------------------------------
(* AlertSetting.  Whoever holds a repository keeps its database, whatever  *)
(* others open and close.                                                  *)

LEMMA OtherStutters ==
    ASSUME OwnedInv, NEW q \in Request, OtherStep(q)
    PROVE  UNCHANGED Promised!vars
<1>1. /\ up' = up /\ UNCHANGED <<disk, repo, limit, raced>>
      /\ \A p \in Request : p # q => pc'[p] = pc[p] /\ change'[p] = change[p]
      /\ pc[q] # "saved" /\ pc'[q] # "saved"
      /\ \A h \in open : h # change[q].holds => db'[h] = db[h]
  BY DEF OtherStep
<1>2. Own /\ Placed
  BY OwnedAs DEF OwnedInv, Owned
<1>3. Serving(repo, limit)' = Serving(repo, limit)
  BY <1>1, <1>2 DEF Serving, Own, Placed
<1>4. \A p \in Request : pc'[p] = "saved" <=> pc[p] = "saved"
  BY <1>1
<1>5. \A p \in Request : pc[p] = "saved" => InHand(p)' = InHand(p)
  BY <1>1, <1>2 DEF InHand, Serving, Own
<1>6. Waiting' = Waiting
  BY <1>4, <1>5 DEF Waiting
<1> QED
  BY <1>1, <1>3, <1>6 DEF Promised!vars

LEMMA SavePromised ==
    ASSUME OwnedInv, Follows, NEW q \in Request, Save(q)
    PROVE  Promised!Next
<1> DEFINE h == change[q].holds
           d == IF h = NULL THEN disk'.dsn ELSE db[h]
<1>1. /\ up /\ up' /\ pc[q] = "opened" /\ disk' \in Config
      /\ raced' = Overlaps(q) /\ UNCHANGED <<repo, limit, db>>
      /\ pc'[q] = "saved" /\ change'[q].want = disk' /\ change'[q].holds = h
      /\ \A p \in Request : p # q => pc'[p] = pc[p] /\ change'[p] = change[p]
  BY Saving
<1>2. h = NULL <=> ~disk'.enabled
  BY Saving DEF Follows, Prepared
<1>3. d \in Dsn \cup {NULL}
  <2>1. h \in Handle \cup {NULL} /\ db \in [Handle -> Dsn \cup {NULL}]
    BY DEF OwnedInv, TypeOK, Change
  <2> QED
    BY <1>1, <2>1 DEF Config
<1>4. ~raced' => Waiting = {} /\ d = disk'.dsn
  <2> SUFFICES ASSUME ~raced' PROVE Waiting = {} /\ d = disk'.dsn
    OBVIOUS
  <2>1. \A p \in Request : pc[p] # "saved"
    BY <1>1 DEF Overlaps
  <2>2. change[q].update \/ change[q].want.dsn = config.dsn
    BY <1>1 DEF Overlaps
  <2>3. disk'.dsn = change[q].want.dsn
    BY <2>2, Saving
  <2>4. h # NULL => db[h] = change[q].want.dsn
    BY <1>1 DEF Follows, Prepared
  <2> QED
    BY <2>1, <2>3, <2>4 DEF Waiting
<1>5. InHand(q)' = Promised!Service(disk', d)
  BY <1>1, <1>2 DEF InHand, Serving, Promised!Service
<1> HIDE DEF h, d
<1>6. Waiting' = Waiting \cup {InHand(q)'}
  <2>1. \A p \in Request : p # q => InHand(p)' = InHand(p)
    BY <1>1 DEF InHand, Serving
  <2>2. \A p \in Request : pc'[p] = "saved" <=> pc[p] = "saved" \/ p = q
    BY <1>1
  <2>3. pc[q] # "saved"
    BY <1>1
  <2> QED
    BY <2>1, <2>2, <2>3 DEF Waiting
<1>7. Serving(repo, limit)' = Serving(repo, limit)
  BY <1>1 DEF Serving
<1>8. Promised!Save(d)
  BY <1>1, <1>4, <1>5, <1>6, <1>7 DEF Promised!Save
<1> QED
  BY <1>3, <1>8 DEF Promised!Next

LEMMA ApplyPromised ==
    ASSUME OwnedInv, Follows, NEW q \in Request, Apply(q)
    PROVE  Promised!Next
<1> DEFINE s == InHand(q)
<1>1. /\ up /\ up' = up /\ pc[q] = "saved" /\ UNCHANGED <<disk, db, raced>>
      /\ repo' = change[q].holds
      /\ limit' = IF change[q].want.enabled THEN change[q].want.limit ELSE limit
      /\ pc'[q] = "swapped"
      /\ \A p \in Request : p # q => pc'[p] = pc[p] /\ change'[p] = change[p]
  BY DEF OwnedInv, TypeOK, Apply, At, store, connections, Goto
<1>2. Serving(repo, limit)' = s
  <2>1. change[q].holds = NULL <=> ~change[q].want.enabled
    BY <1>1 DEF Follows, Prepared
  <2> QED
    BY <1>1, <2>1 DEF Serving, InHand
<1> HIDE DEF s
<1>3. s \in Waiting
  BY <1>1 DEF Waiting, s
<1>4. Waiting' = {InHand(p) : p \in {r \in Request \ {q} : pc[r] = "saved"}}
  <2>1. \A p \in Request : p # q => InHand(p)' = InHand(p)
    BY <1>1 DEF InHand, Serving
  <2>2. \A p \in Request : pc'[p] = "saved" <=> p # q /\ pc[p] = "saved"
    BY <1>1
  <2> QED
    BY <2>1, <2>2 DEF Waiting
<1>5. Waiting' \in {Waiting, Waiting \ {s}}
  <2>1. CASE \E p \in Request \ {q} : pc[p] = "saved" /\ InHand(p) = s
    <3>1. Waiting' = Waiting
      BY <1>4, <2>1 DEF Waiting, s
    <3> QED
      BY <3>1
  <2>2. CASE ~\E p \in Request \ {q} : pc[p] = "saved" /\ InHand(p) = s
    <3>1. Waiting' = Waiting \ {s}
      BY <1>4, <2>2 DEF Waiting, s
    <3> QED
      BY <3>1
  <2> QED
    BY <2>1, <2>2
<1>6. ~raced => Waiting' = {}
  BY <1>1, <1>4 DEF Follows, InStep, Alone
<1>7. Promised!Exchange(s)
  BY <1>1, <1>2, <1>5, <1>6 DEF Promised!Exchange
<1> QED
  BY <1>3, <1>7 DEF Promised!Next

LEMMA NextPromised ==
    OwnedInv /\ Follows /\ [Next]_vars => [Promised!Next]_Promised!vars
<1> SUFFICES ASSUME OwnedInv, Follows, [Next]_vars
             PROVE  Promised!Next \/ UNCHANGED Promised!vars
  OBVIOUS
<1>1. ASSUME Load
      PROVE  /\ ~up /\ up' /\ UNCHANGED <<disk, raced>> /\ Serving(repo, limit) = NULL
             /\ Waiting' = Waiting
  <2>1. /\ ~up /\ up' /\ UNCHANGED <<disk, raced, pc>> /\ repo = NULL
        /\ \A q \in Request : pc[q] = "idle"
    BY <1>1 DEF Load, Follows, SameFile, OwnedInv, Owned, HandlesOK
  <2>2. Waiting = {} /\ Waiting' = {}
    BY <2>1 DEF Waiting
  <2> QED
    BY <2>1, <2>2 DEF Serving
<1>2. CASE StartDisabled \/ StartFails
  <2>1. Load /\ Serving(repo, limit)' = NULL
    <3>1. Load /\ UNCHANGED <<repo, limit>>
      BY <1>2 DEF StartDisabled, StartFails, service
    <3>2. repo' = NULL
      BY <3>1 DEF Load, OwnedInv, Owned, HandlesOK
    <3> QED
      BY <3>1, <3>2 DEF Serving
  <2>2. Promised!Start
    BY <1>1, <2>1 DEF Promised!Start
  <2> QED
    BY <2>2 DEF Promised!Next
<1>3. CASE Start
  <2>1. /\ repo' = nextHandle /\ nextHandle \in Handle /\ limit' = disk.limit
        /\ db' = [db EXCEPT ![nextHandle] = disk.dsn] /\ disk.enabled /\ Load
        /\ db \in [Handle -> Dsn \cup {NULL}] /\ NULL \notin Handle
    BY <1>3, NullAssumption DEF Start, Connect, OwnedInv, TypeOK, Handle
  <2>2. Serving(repo, limit)' = Promised!Service(disk, disk.dsn)
    BY <2>1 DEF Serving, Promised!Service
  <2>3. Promised!Start
    BY <1>1, <2>1, <2>2 DEF Promised!Start
  <2> QED
    BY <2>3 DEF Promised!Next
<1>4. CASE Crash
  <2>1. /\ up /\ ~up' /\ repo' = NULL /\ ~raced' /\ disk' = disk
        /\ \A q \in Request : pc'[q] = "idle"
    BY <1>4 DEF Crash
  <2>2. Serving(repo, limit)' = NULL /\ Waiting' = {}
    BY <2>1 DEF Serving, Waiting
  <2>3. Promised!Stop
    BY <2>1, <2>2 DEF Promised!Stop
  <2> QED
    BY <2>3 DEF Promised!Next
<1>5. ASSUME NEW q \in Request, Handler(q)
      PROVE  Promised!Next \/ UNCHANGED Promised!vars
  BY <1>5, OtherSteps, OtherStutters, SavePromised, ApplyPromised
<1>6. CASE UNCHANGED vars
  BY <1>6 DEF vars, Serving, InHand, Waiting, Promised!vars
<1> QED
  BY <1>2, <1>3, <1>4, <1>5, <1>6 DEF Next

(* The storage implements the setting: through every interleaving of       *)
(* changes, failed connections and saves, closings and crashes, the        *)
(* service changes only when a saved change is applied or at start-up, and *)
(* to what that change, or the file, says (updateAlertingConfig,           *)
(* Service.Configure, Service.Disable, main).                              *)
THEOREM StorageImplementsSetting == Spec => FollowsChanges
<1>1. Init => Promised!Init
  <2> SUFFICES ASSUME Init PROVE Promised!Init
    OBVIOUS
  <2>1. Serving(repo, limit) = NULL /\ Waiting = {}
    BY DEF Init, Serving, Waiting
  <2> QED
    BY <2>1 DEF Init, Promised!Init
<1> QED
  BY <1>1, InitFollows, NextFollows, NextPromised, AlwaysOwned, PTL
  DEF Spec, FollowsChanges, Promised!Spec
=============================================================================
