----------------------- MODULE ClusterRegistryProofs -----------------------
(***************************************************************************)
(* Proofs about ClusterRegistry for every environment, every set of        *)
(* aliases, sessions and requests, and every bound.                        *)
(***************************************************************************)
EXTENDS ClusterRegistry, TLAPS

LEMMA EmptySeq == \A S : <<>> \in Seq(S)
OBVIOUS

LEMMA RemoveAtType ==
    ASSUME NEW S, NEW s \in Seq(S), NEW k \in 1..Len(s)
    PROVE  /\ RemoveAt(s, k) \in Seq(S)
           /\ Len(RemoveAt(s, k)) = Len(s) - 1
           /\ \A i \in 1..(Len(s) - 1) :
                 RemoveAt(s, k)[i] = IF i < k THEN s[i] ELSE s[i + 1]
<1> DEFINE n == Len(s) - 1
<1>1. n \in Nat /\ Len(s) \in Nat
  OBVIOUS
<1>2. \A i \in 1..n : i \in 1..Len(s) /\ i + 1 \in 1..Len(s)
  BY <1>1
<1>3. \A i \in 1..n : (IF i < k THEN s[i] ELSE s[i + 1]) \in S
  BY <1>2
<1>4. RemoveAt(s, k) \in [1..n -> S]
  BY <1>3 DEF RemoveAt
<1>5. RemoveAt(s, k) \in Seq(S) /\ Len(RemoveAt(s, k)) = n
  BY <1>1, <1>4
<1> QED
  BY <1>5 DEF RemoveAt

(* The head survives the removal of something else.                        *)
LEMMA RemoveAtHead ==
    ASSUME NEW S, NEW s \in Seq(S), NEW k \in 1..Len(s), k # 1
    PROVE  RemoveAt(s, k) # <<>> /\ RemoveAt(s, k)[1] = s[1]
<1>1. Len(s) - 1 >= 1 /\ Len(s) \in Nat /\ k > 1
  OBVIOUS
<1>2. Len(RemoveAt(s, k)) >= 1
  BY <1>1, RemoveAtType
<1>3. RemoveAt(s, k)[1] = s[1]
  BY <1>1, RemoveAtType
<1> QED
  BY <1>2, <1>3

Listed(s, a) == \E i \in 1..Len(s) : s[i] = a

(* A record taken out and put back is where it was.                        *)
LEMMA PutBackUndoes ==
    ASSUME NEW S, NEW s \in Seq(S), NEW k \in 1..Len(s)
    PROVE  PutBack(RemoveAt(s, k), k, s[k]) = s
<1> DEFINE r == RemoveAt(s, k)
<1>1. Len(s) \in Nat /\ Len(r) = Len(s) - 1
      /\ \A i \in 1..(Len(s) - 1) : r[i] = IF i < k THEN s[i] ELSE s[i + 1]
  BY RemoveAtType
<1> HIDE DEF r
<1>2. ASSUME NEW i \in 1..Len(s)
      PROVE  (IF i < k THEN r[i] ELSE IF i = k THEN s[k] ELSE r[i - 1]) = s[i]
  <2>1. CASE i < k
    BY <1>1, <2>1
  <2>2. CASE i = k
    BY <2>2
  <2>3. CASE i > k
    <3>1. i - 1 \in 1..(Len(s) - 1) /\ ~(i - 1 < k) /\ (i - 1) + 1 = i
      BY <1>1, <2>3
    <3> QED
      BY <1>1, <2>3, <3>1
  <2> QED
    BY <1>1, <2>1, <2>2, <2>3
<1>3. PutBack(r, k, s[k]) = [i \in 1..Len(s) |-> s[i]]
  BY <1>1, <1>2 DEF PutBack
<1>4. s = [i \in 1..Len(s) |-> s[i]]
  OBVIOUS
<1> QED
  BY <1>3, <1>4 DEF r

(* What else was listed still is.                                          *)
LEMMA RemoveAtKeeps ==
    ASSUME NEW S, NEW s \in Seq(S), NEW k \in 1..Len(s),
           NEW b, b # s[k], Listed(s, b)
    PROVE  Listed(RemoveAt(s, k), b)
<1>1. PICK i \in 1..Len(s) : s[i] = b
  BY DEF Listed
<1>2. i # k /\ Len(s) \in Nat
  BY <1>1
<1>3. CASE i < k
  <2>1. i \in 1..(Len(s) - 1)
    BY <1>2, <1>3
  <2> QED
    BY <1>1, <1>3, <2>1, RemoveAtType DEF Listed
<1>4. CASE i > k
  <2>1. i - 1 \in 1..(Len(s) - 1) /\ ~(i - 1 < k) /\ (i - 1) + 1 = i
    BY <1>2, <1>4
  <2>2. RemoveAt(s, k)[i - 1] = b
    BY <1>1, <2>1, RemoveAtType
  <2> QED
    BY <2>1, <2>2, RemoveAtType DEF Listed
<1> QED
  BY <1>2, <1>3, <1>4

LEMMA IndexOf ==
    ASSUME NEW s, NEW a, Listed(s, a)
    PROVE  Index(s, a) \in 1..Len(s) /\ s[Index(s, a)] = a
BY DEF Index, Listed

LEMMA StoredAt ==
    ASSUME NEW a, IsStored(a), stored \in Seq(Entry)
    PROVE  /\ StoredIndex(a) \in 1..Len(stored)
           /\ stored[StoredIndex(a)] \in Entry
           /\ stored[StoredIndex(a)].alias = a
<1>1. Len(Names(stored)) = Len(stored) /\ Len(stored) \in Nat
      /\ \A i \in 1..Len(stored) : Names(stored)[i] = stored[i].alias
  BY DEF Names
<1>2. Listed(Names(stored), a)
  BY <1>1 DEF IsStored, Listed
<1>3. StoredIndex(a) \in 1..Len(stored) /\ stored[StoredIndex(a)].alias = a
  BY <1>1, <1>2, IndexOf DEF StoredIndex
<1> QED
  BY <1>3

(* Whatever a failed write had changed in memory is undone.                *)
LEMMA FailureUndone ==
    ASSUME stored \in Seq(Entry), NEW q, SaveFails(q)
    PROVE  stored' = stored
<1>1. PICK a \in Alias : CreateFails(a) \/ UpdateFails(a) \/ DeleteFails(a)
  BY DEF SaveFails
<1>2. CASE CreateFails(a)
  <2> DEFINE x == [alias |-> a, version |-> 1]
             s == Append(stored, x)
  <2>1. stored' = SubSeq(s, 1, Len(s) - 1)
    BY <1>2 DEF CreateFails
  <2>2. x \in Entry
    BY <1>2 DEF CreateFails, Entry
  <2> HIDE DEF x
  <2>3. SubSeq(Append(stored, x), 1, Len(Append(stored, x)) - 1) = stored
    BY <2>2
  <2> QED
    BY <2>1, <2>3
<1>3. CASE UpdateFails(a)
  <2> DEFINE k == StoredIndex(a)
             s == [stored EXCEPT ![k].version = @ + 1]
             t == [s EXCEPT ![k] = stored[k]]
  <2>1. stored' = t /\ IsStored(a)
    BY <1>3 DEF UpdateFails
  <2>2. k \in 1..Len(stored)
    BY <2>1, StoredAt
  <2> HIDE DEF k
  <2>3. DOMAIN s = DOMAIN stored /\ \A i \in DOMAIN stored : i # k => s[i] = stored[i]
    BY <2>2
  <2> HIDE DEF s
  <2>4. DOMAIN t = DOMAIN stored /\ \A i \in DOMAIN stored : t[i] = stored[i]
    BY <2>3
  <2>5. t = [i \in DOMAIN stored |-> stored[i]] /\ stored = [i \in DOMAIN stored |-> stored[i]]
    <3>1. t = [i \in DOMAIN t |-> t[i]]
      BY DEF t
    <3>2. stored = [i \in DOMAIN stored |-> stored[i]]
      OBVIOUS
    <3> HIDE DEF t
    <3> QED
      BY <2>4, <3>1, <3>2
  <2> QED
    BY <2>1, <2>5 DEF s
<1>4. CASE DeleteFails(a)
  <2>1. /\ stored' = PutBack(RemoveAt(stored, StoredIndex(a)), StoredIndex(a), stored[StoredIndex(a)])
        /\ IsStored(a)
    BY <1>4 DEF DeleteFails
  <2>2. StoredIndex(a) \in 1..Len(stored)
    BY <2>1, StoredAt
  <2> QED
    BY <2>1, <2>2, PutBackUndoes
<1> QED
  BY <1>1, <1>2, <1>3, <1>4

LEMMA LoadedType ==
    ASSUME NEW d \in Seq(Entry)
    PROVE  /\ Loaded(d) \in [Alias -> Nat \cup {NULL}]
           /\ \A a \in Env : Loaded(d)[a] # NULL
           /\ EnvSeq \o Names(d) \in Seq(Alias)
           /\ EnvSeq \o Names(d) # <<>>
           /\ (EnvSeq \o Names(d))[1] \in Env
           /\ \A a \in Alias : Loaded(d)[a] # NULL => Listed(EnvSeq \o Names(d), a)
<1> DEFINE all == EnvSeq \o Names(d)
<1>1. Len(d) \in Nat /\ \A i \in 1..Len(d) : d[i] \in Entry
  OBVIOUS
<1>2. Names(d) \in Seq(Alias) /\ Len(Names(d)) = Len(d)
  <2>1. \A i \in 1..Len(d) : d[i].alias \in Alias
    BY <1>1 DEF Entry, Platform
  <2>2. Names(d) \in [1..Len(d) -> Alias]
    BY <2>1 DEF Names
  <2> QED
    BY <1>1, <2>2
<1>3. EnvSeq \in Seq(Alias) /\ EnvSeq # <<>> /\ Env \subseteq Alias
  BY EnvAssumption DEF Env
<1>4. all \in Seq(Alias) /\ Len(all) = Len(EnvSeq) + Len(d)
  BY <1>2, <1>3
<1>5. \A i \in 1..Len(EnvSeq) : i \in 1..Len(all) /\ all[i] = EnvSeq[i]
  BY <1>1, <1>2, <1>3, <1>4
<1>6. \A i \in 1..Len(d) : /\ Len(EnvSeq) + i \in 1..Len(all)
                           /\ all[Len(EnvSeq) + i] = d[i].alias
  BY <1>1, <1>2, <1>3, <1>4 DEF Names
<1>7. all # <<>> /\ all[1] \in Env
  BY <1>3, <1>4, <1>5 DEF Env
<1>8. ASSUME NEW a \in Alias
      PROVE  /\ Loaded(d)[a] \in Nat \cup {NULL}
             /\ a \in Env => Loaded(d)[a] # NULL
             /\ Loaded(d)[a] # NULL => Listed(all, a)
  <2>1. CASE a \in Env
    <3>1. Loaded(d)[a] = 0
      BY <2>1 DEF Loaded
    <3>2. PICK i \in 1..Len(EnvSeq) : EnvSeq[i] = a
      BY <1>3, <2>1 DEF Env
    <3> QED
      BY <1>5, <3>1, <3>2, NullAssumption DEF Listed
  <2>2. CASE a \notin Env /\ \E i \in 1..Len(d) : d[i].alias = a
    <3>1. PICK i \in 1..Len(d) : d[i].alias = a
      BY <2>2
    <3>2. Listed(Names(d), a)
      BY <1>2, <3>1 DEF Listed, Names
    <3>3. Index(Names(d), a) \in 1..Len(d)
      BY <1>2, <3>2, IndexOf
    <3>4. Loaded(d)[a] = d[Index(Names(d), a)].version
      BY <2>2 DEF Loaded
    <3>5. Loaded(d)[a] \in Nat
      BY <1>1, <3>3, <3>4 DEF Entry
    <3> QED
      BY <1>6, <2>2, <3>1, <3>5 DEF Listed
  <2>3. CASE a \notin Env /\ ~\E i \in 1..Len(d) : d[i].alias = a
    BY <2>3 DEF Loaded
  <2> QED
    BY <2>1, <2>2, <2>3
<1>9. Loaded(d) \in [Alias -> Nat \cup {NULL}]
  <2>1. Loaded(d) = [a \in Alias |-> Loaded(d)[a]]
    BY DEF Loaded
  <2> QED
    BY <1>8, <2>1
<1> QED
  BY <1>3, <1>4, <1>7, <1>8, <1>9

-----------------------------------------------------------------------------
(* The inductive invariant *)

Known(a) == clusters[a] # NULL

(* A request under way has its session and a cluster; one that has read    *)
(* the default cluster has an environment cluster, which nothing removes.  *)
Bound ==
    \A q \in Request :
        /\ pc[q] # "idle" => sid[q] \in Session /\ alias[q] \in Alias
        /\ pc[q] = "login" => alias[q] \in Env

(* The lock belongs to a request about to change one platform cluster.     *)
Locked ==
    lock # NULL => up /\ pc[lock] = "apply" /\ alias[lock] \in Platform

Down == ~up => sessions = NoSessions

(* The first alias is the environment's, whose clusters are all known, and *)
(* a known cluster is listed: deleting it finds its own place in the list. *)
Maps ==
    up => /\ aliases # <<>> /\ aliases[1] \in Env
          /\ \A a \in Env : Known(a)
          /\ \A a \in Alias : Known(a) => Listed(aliases, a)

(* A deletion found no session on the cluster, and while it holds the lock *)
(* none can come.                                                          *)
Deleting ==
    (lock # NULL /\ ~IsStored(alias[lock]))
      => Known(alias[lock]) /\ ~InSession(alias[lock])

Inv ==
    /\ TypeOK
    /\ Bound
    /\ Locked
    /\ Down
    /\ Maps
    /\ Deleting
    /\ ActiveClusterExists

LEMMA InitInv == Init => Inv
<1> SUFFICES ASSUME Init PROVE Inv
  OBVIOUS
<1> USE DEF Init
<1>1. TypeOK
  <2>1. /\ up \in BOOLEAN /\ aliases \in Seq(Alias)
        /\ stored \in Seq(Entry) /\ disk \in Seq(Entry)
    BY EmptySeq
  <2>2. pc \in [Request -> Pc]
    BY DEF Pc
  <2>3. crashes \in 0..MaxCrash
    BY BoundAssumption
  <2> QED
    BY <2>1, <2>2, <2>3 DEF TypeOK, NoSessions
<1>2. Bound /\ Locked /\ Down /\ Maps /\ Deleting
  BY DEF Bound, Locked, Down, Maps, Deleting
<1>3. ActiveClusterExists
  BY DEF ActiveClusterExists, NoSessions
<1> QED
  BY <1>1, <1>2, <1>3 DEF Inv

LEMMA OpenInv == Inv /\ Open => Inv'
<1> SUFFICES ASSUME Inv, Open PROVE Inv'
  OBVIOUS
<1> USE DEF Inv
<1>1. disk \in Seq(Entry)
  BY DEF TypeOK
<1>2. up' /\ stored' = disk /\ clusters' = Loaded(disk)
      /\ aliases' = EnvSeq \o Names(disk)
      /\ UNCHANGED <<disk, sessions, used, lock, pc, sid, alias, crashes>>
  BY DEF Open, request
<1>3. lock' = NULL /\ sessions' = NoSessions
  BY <1>2 DEF Open, Locked, Down
<1>4. TypeOK'
  BY <1>1, <1>2, LoadedType DEF TypeOK
<1>5. Bound' /\ Locked' /\ Down' /\ Deleting'
  BY <1>2, <1>3 DEF Bound, Locked, Down, Deleting
<1>6. Maps'
  BY <1>1, <1>2, LoadedType DEF Maps, Known
<1>7. ActiveClusterExists'
  BY <1>3 DEF ActiveClusterExists, NoSessions
<1> QED
  BY <1>4, <1>5, <1>6, <1>7

LEMMA CrashInv == Inv /\ Crash => Inv'
<1> SUFFICES ASSUME Inv, Crash PROVE Inv'
  OBVIOUS
<1> USE DEF Inv, Crash
<1>1. TypeOK'
  <2>1. /\ up' \in BOOLEAN /\ aliases' \in Seq(Alias)
        /\ stored' \in Seq(Entry) /\ disk' \in Seq(Entry)
    BY EmptySeq DEF TypeOK
  <2>2. pc' \in [Request -> Pc]
    BY DEF Pc
  <2>3. crashes' \in 0..MaxCrash
    BY BoundAssumption DEF TypeOK
  <2> QED
    BY <2>1, <2>2, <2>3 DEF TypeOK, NoSessions
<1>2. Bound' /\ Locked' /\ Down' /\ Maps' /\ Deleting'
  BY DEF Bound, Locked, Down, Maps, Deleting
<1>3. ActiveClusterExists'
  BY DEF ActiveClusterExists, NoSessions
<1> QED
  BY <1>1, <1>2, <1>3

(* A step of a request that touches neither the maps nor the lock, and     *)
(* sets no session to a cluster unknown, or to any while the lock is held. *)
LEMMA SessionStepInv ==
    ASSUME Inv, UNCHANGED <<up, clusters, aliases, stored, disk, lock, crashes>>,
           sessions' \in [Session -> SessionData \cup {NULL}],
           used' \subseteq Session,
           pc' \in [Request -> Pc], sid' \in [Request -> Session \cup {NULL}],
           alias' \in [Request -> Alias \cup {NULL}],
           Bound', Down',
           lock # NULL => pc'[lock] = pc[lock] /\ alias'[lock] = alias[lock],
           \A s \in Session : sessions'[s] # NULL =>
               \/ /\ sessions[s] # NULL
                  /\ sessions'[s].active = sessions[s].active
               \/ lock = NULL /\ clusters[sessions'[s].active] # NULL
    PROVE  Inv'
<1> USE DEF Inv
<1>1. TypeOK'
  BY DEF TypeOK
<1>2. Locked' /\ Maps'
  BY DEF Locked, Maps, Known
<1>3. Deleting'
  BY DEF Deleting, Known, InSession, IsStored
<1>4. ActiveClusterExists'
  BY DEF ActiveClusterExists
<1> QED
  BY <1>1, <1>2, <1>3, <1>4

LEMMA SessionActionsInv ==
    ASSUME Inv, NEW q \in Request,
           \/ \E s \in Session : LoginRead(q, s) \/ Authorise(q, s)
           \/ LoginInsert(q) \/ DropSession(q) \/ SaveFails(q) \/ Denied(q)
           \/ AnswerRefused(q)
           \/ \E a \in Alias : Switch(q, a) \/ DeleteRefused(q, a)
    PROVE  Inv'
<1> USE DEF Inv, registry
<1>1. /\ sessions \in [Session -> SessionData \cup {NULL}]
      /\ pc \in [Request -> Pc] /\ sid \in [Request -> Session \cup {NULL}]
      /\ alias \in [Request -> Alias \cup {NULL}] /\ used \subseteq Session
      /\ aliases \in Seq(Alias)
  BY DEF TypeOK
<1>2. {"idle", "login", "authed", "refused"} \subseteq Pc
  BY DEF Pc
<1>3. Env \subseteq Alias
  BY EnvAssumption DEF Env
<1>4. ASSUME NEW s \in Session, LoginRead(q, s)
      PROVE  Inv'
  <2>1. aliases[1] \in Env /\ lock = NULL /\ up
    BY <1>4 DEF LoginRead, Free, Maps
  <2>2. /\ pc' = [pc EXCEPT ![q] = "login"] /\ sid' = [sid EXCEPT ![q] = s]
        /\ alias' = [alias EXCEPT ![q] = aliases[1]]
        /\ sessions' = sessions /\ used' = used \cup {s}
        /\ UNCHANGED <<up, clusters, aliases, stored, disk, lock, crashes>>
    BY <1>4 DEF LoginRead, Enter
  <2>3. /\ pc' \in [Request -> Pc] /\ sid' \in [Request -> Session \cup {NULL}]
        /\ alias' \in [Request -> Alias \cup {NULL}] /\ used' \subseteq Session
    BY <1>1, <1>2, <1>3, <2>1, <2>2
  <2>4. Bound' /\ Down'
    BY <1>1, <1>3, <2>1, <2>2 DEF Bound, Down
  <2> QED
    BY <1>1, <2>1, <2>2, <2>3, <2>4, SessionStepInv
<1>5. ASSUME NEW s \in Session, Authorise(q, s)
      PROVE  Inv'
  <2>1. sessions[s].active \in Alias /\ lock = NULL /\ up
    BY <1>1, <1>5 DEF Authorise, Free, SessionData
  <2>2. /\ pc' = [pc EXCEPT ![q] = "authed"] /\ sid' = [sid EXCEPT ![q] = s]
        /\ alias' = [alias EXCEPT ![q] = sessions[s].active]
        /\ UNCHANGED <<up, clusters, aliases, stored, disk, sessions, used,
                       lock, crashes>>
    BY <1>5 DEF Authorise, Enter
  <2>3. /\ pc' \in [Request -> Pc] /\ sid' \in [Request -> Session \cup {NULL}]
        /\ alias' \in [Request -> Alias \cup {NULL}]
    BY <1>1, <1>2, <2>1, <2>2
  <2>4. Bound' /\ Down'
    BY <1>1, <2>1, <2>2 DEF Bound, Down
  <2> QED
    BY <1>1, <2>1, <2>2, <2>3, <2>4, SessionStepInv
<1>6. ASSUME NEW a \in Alias, DeleteRefused(q, a)
      PROVE  Inv'
  <2>1. lock = NULL /\ up /\ sid[q] \in Session
    BY <1>6 DEF DeleteRefused, Free, Bound
  <2>2. /\ pc' = [pc EXCEPT ![q] = "refused"] /\ sid' = [sid EXCEPT ![q] = sid[q]]
        /\ alias' = [alias EXCEPT ![q] = a]
        /\ UNCHANGED <<up, clusters, aliases, stored, disk, sessions, used,
                       lock, crashes>>
    BY <1>6 DEF DeleteRefused, Enter
  <2>3. /\ pc' \in [Request -> Pc] /\ sid' \in [Request -> Session \cup {NULL}]
        /\ alias' \in [Request -> Alias \cup {NULL}]
    BY <1>1, <1>2, <2>1, <2>2
  <2>4. Bound' /\ Down'
    BY <1>1, <2>1, <2>2 DEF Bound, Down
  <2> QED
    BY <1>1, <2>1, <2>2, <2>3, <2>4, SessionStepInv
<1>7. ASSUME up, Return(q), q # lock,
             UNCHANGED <<up, clusters, aliases, stored, disk, used, lock, crashes>>,
             sessions' \in [Session -> SessionData \cup {NULL}],
             \A s \in Session : sessions'[s] # NULL =>
               \/ /\ sessions[s] # NULL
                  /\ sessions'[s].active = sessions[s].active
               \/ lock = NULL /\ clusters[sessions'[s].active] # NULL
      PROVE  Inv'
  <2>1. /\ pc' \in [Request -> Pc] /\ sid' \in [Request -> Session \cup {NULL}]
        /\ alias' \in [Request -> Alias \cup {NULL}] /\ used' \subseteq Session
    BY <1>1, <1>2, <1>7 DEF Return
  <2>2. Bound' /\ Down'
    BY <1>1, <1>7 DEF Bound, Down, Return
  <2>3. lock # NULL => pc'[lock] = pc[lock] /\ alias'[lock] = alias[lock]
    BY <1>1, <1>7 DEF Return, TypeOK
  <2> QED
    BY <1>7, <2>1, <2>2, <2>3, SessionStepInv
<1>8. CASE LoginInsert(q)
  <2>1. /\ lock = NULL /\ up /\ sid[q] \in Session /\ alias[q] \in Env
        /\ q # lock
    BY <1>8, NullAssumption DEF LoginInsert, Free, Bound
  <2> DEFINE new == [active |-> alias[q], expired |-> FALSE]
  <2>2. new \in SessionData /\ new.active = alias[q]
    BY <1>3, <2>1 DEF SessionData
  <2>3. sessions' = [sessions EXCEPT ![sid[q]] = new]
    BY <1>8 DEF LoginInsert
  <2> HIDE DEF new
  <2>4. clusters[alias[q]] # NULL
    BY <2>1 DEF Maps, Known
  <2>5. /\ sessions' \in [Session -> SessionData \cup {NULL}]
        /\ \A s \in Session : sessions'[s] = IF s = sid[q] THEN new ELSE sessions[s]
    BY <1>1, <2>1, <2>2, <2>3
  <2> QED
    BY <1>7, <1>8, <2>1, <2>2, <2>4, <2>5 DEF LoginInsert
<1>9. CASE DropSession(q)
  <2>1. lock = NULL /\ up /\ sid[q] \in Session /\ q # lock
    BY <1>9, NullAssumption DEF DropSession, Free, Bound
  <2>2. /\ sessions' \in [Session -> SessionData \cup {NULL}]
        /\ \A s \in Session : sessions'[s] = IF s = sid[q] THEN NULL ELSE sessions[s]
    BY <1>1, <1>9, <2>1 DEF DropSession
  <2> QED
    BY <1>7, <1>9, <2>1, <2>2 DEF DropSession
<1>10. CASE SaveFails(q) \/ Denied(q) \/ AnswerRefused(q)
  <2>1. up /\ q # lock
    BY <1>10, NullAssumption DEF SaveFails, Denied, AnswerRefused, Free, Locked
  <2>2. stored' = stored
    BY <1>10, FailureUndone DEF TypeOK, Denied, AnswerRefused
  <2> QED
    BY <1>1, <1>7, <1>10, <2>1, <2>2 DEF SaveFails, Denied, AnswerRefused
<1>11. ASSUME NEW a \in Alias, Switch(q, a)
       PROVE  Inv'
  <2>1. lock = NULL /\ up /\ sid[q] \in Session /\ q # lock /\ clusters[a] # NULL
    BY <1>11, NullAssumption DEF Switch, Free, Bound
  <2>2. CASE sessions[sid[q]] = NULL
    BY <1>1, <1>7, <1>11, <2>1, <2>2 DEF Switch
  <2>3. CASE sessions[sid[q]] # NULL
    <3> DEFINE new == [sessions[sid[q]] EXCEPT !.active = a]
    <3>1. new \in SessionData /\ new.active = a
      BY <1>1, <2>1, <2>3 DEF SessionData
    <3>2. sessions' = [sessions EXCEPT ![sid[q]] = new]
      BY <1>11, <2>3 DEF Switch
    <3> HIDE DEF new
    <3>3. /\ sessions' \in [Session -> SessionData \cup {NULL}]
          /\ \A s \in Session :
                sessions'[s] = IF s = sid[q] THEN new ELSE sessions[s]
      BY <1>1, <2>1, <3>1, <3>2
    <3> QED
      BY <1>7, <1>11, <2>1, <3>1, <3>3 DEF Switch
  <2> QED
    BY <2>2, <2>3
<1> QED
  BY <1>4, <1>5, <1>6, <1>8, <1>9, <1>10, <1>11

LEMMA ExpireInv == ASSUME Inv, NEW s \in Session, Expire(s) PROVE Inv'
<1> USE DEF Inv, registry, request
<1>1. sessions \in [Session -> SessionData \cup {NULL}] /\ sessions[s] # NULL
  BY DEF TypeOK, Expire
<1> DEFINE new == [sessions[s] EXCEPT !.expired = TRUE]
<1>2. new \in SessionData /\ new.active = sessions[s].active
  BY <1>1 DEF SessionData
<1>3. sessions' = [sessions EXCEPT ![s] = new]
  BY DEF Expire
<1> HIDE DEF new
<1>4. /\ sessions' \in [Session -> SessionData \cup {NULL}]
      /\ \A t \in Session : sessions'[t] = IF t = s THEN new ELSE sessions[t]
  BY <1>1, <1>2, <1>3
<1>5. up /\ UNCHANGED <<up, clusters, aliases, stored, disk, used, lock, pc, sid,
                        alias, crashes>>
  BY <1>1 DEF Expire, Down, NoSessions
<1>6. /\ pc' \in [Request -> Pc] /\ sid' \in [Request -> Session \cup {NULL}]
      /\ alias' \in [Request -> Alias \cup {NULL}] /\ used' \subseteq Session
  BY <1>5 DEF TypeOK
<1>7. Bound' /\ Down'
  BY <1>5 DEF Bound, Down
<1> QED
  BY <1>1, <1>2, <1>4, <1>5, <1>6, <1>7, SessionStepInv

(* A change of one platform cluster, in memory and in the file.            *)
LEMMA PersistInv ==
    ASSUME Inv, NEW q \in Request, NEW a \in Platform, NEW entries \in Seq(Entry),
           Free, pc[q] = "authed", Persist(q, a, entries),
           (\E i \in 1..Len(entries) : entries[i].alias = a)
             \/ (Known(a) /\ ~InSession(a))
    PROVE  Inv'
<1> USE DEF Inv, Persist, Free
<1>1. pc' = [pc EXCEPT ![q] = "apply"] /\ sid' = [sid EXCEPT ![q] = sid[q]]
      /\ alias' = [alias EXCEPT ![q] = a]
  BY DEF Enter
<1>2. a \in Alias /\ sid[q] \in Session
  BY DEF Platform, Bound
<1>3. TypeOK'
  BY <1>1, <1>2 DEF TypeOK, Pc
<1>4. pc'[q] = "apply" /\ alias'[q] = a
  BY <1>1 DEF TypeOK
<1>5. Locked' /\ Down' /\ Maps'
  BY <1>4 DEF Locked, Down, Maps, Known
<1>6. Bound'
  BY <1>1, <1>2 DEF Bound, TypeOK
<1>7. Deleting'
  BY <1>4 DEF Deleting, Known, InSession, IsStored
<1>8. ActiveClusterExists'
  BY DEF ActiveClusterExists
<1> QED
  BY <1>3, <1>5, <1>6, <1>7, <1>8

LEMMA CreateInv ==
    ASSUME Inv, NEW q \in Request, NEW a \in Alias, CreateCluster(q, a)
    PROVE  Inv'
<1> DEFINE e == [alias |-> a, version |-> 1]
<1>1. e \in Entry /\ e.alias = a /\ a \in Platform
  BY DEF CreateCluster, Entry
<1> HIDE DEF e
<1>2. stored \in Seq(Entry) /\ Len(stored) \in Nat
  BY DEF Inv, TypeOK
<1>3. /\ Append(stored, e) \in Seq(Entry)
      /\ Len(stored) + 1 \in 1..Len(Append(stored, e))
      /\ Append(stored, e)[Len(stored) + 1] = e
  BY <1>1, <1>2
<1>4. Free /\ pc[q] = "authed" /\ Persist(q, a, Append(stored, e))
  BY DEF CreateCluster, e
<1> QED
  BY <1>1, <1>3, <1>4, PersistInv

LEMMA UpdateInv ==
    ASSUME Inv, NEW q \in Request, NEW a \in Alias, UpdateCluster(q, a)
    PROVE  Inv'
<1> DEFINE k == StoredIndex(a)
           new == [stored[k] EXCEPT !.version = @ + 1]
           entries == [stored EXCEPT ![k] = new]
<1>1. stored \in Seq(Entry) /\ Len(stored) \in Nat /\ a \in Platform
  BY DEF Inv, TypeOK, UpdateCluster
<1>2. k \in 1..Len(stored) /\ stored[k] \in Entry /\ stored[k].alias = a
  BY <1>1, StoredAt DEF UpdateCluster
<1>3. Free /\ pc[q] = "authed" /\ Persist(q, a, entries)
  BY DEF UpdateCluster
<1> HIDE DEF k
<1>4. new \in Entry /\ new.alias = a
  BY <1>2 DEF Entry
<1> HIDE DEF new
<1>5. entries \in Seq(Entry) /\ Len(entries) = Len(stored) /\ entries[k] = new
  BY <1>1, <1>2, <1>4
<1> QED
  BY <1>1, <1>2, <1>3, <1>4, <1>5, PersistInv

LEMMA DeleteInv ==
    ASSUME Inv, NEW q \in Request, NEW a \in Alias, DeleteCluster(q, a)
    PROVE  Inv'
<1> DEFINE k == StoredIndex(a)
<1>1. stored \in Seq(Entry) /\ a \in Platform
  BY DEF Inv, TypeOK, DeleteCluster
<1>2. k \in 1..Len(stored)
  BY <1>1, StoredAt DEF DeleteCluster
<1>3. RemoveAt(stored, k) \in Seq(Entry)
  BY <1>1, <1>2, RemoveAtType
<1>4. /\ Free /\ pc[q] = "authed" /\ Persist(q, a, RemoveAt(stored, k))
      /\ Known(a) /\ ~InSession(a)
  BY DEF DeleteCluster, InUse, Known
<1> QED
  BY <1>1, <1>3, <1>4, PersistInv

LEMMA ApplyInv ==
    ASSUME Inv, NEW q \in Request, Apply(q)
    PROVE  Inv'
<1> DEFINE a == alias[q]
<1>1. /\ lock = q /\ lock' = NULL /\ up /\ up' = up
      /\ a \in Platform /\ a \in Alias /\ a \notin Env
      /\ UNCHANGED <<stored, disk, sessions, used, crashes>>
  BY NullAssumption DEF Apply, Inv, Locked, Platform
<1>2. /\ pc' = [pc EXCEPT ![q] = "idle"] /\ sid' = [sid EXCEPT ![q] = NULL]
      /\ alias' = [alias EXCEPT ![q] = NULL]
  BY DEF Apply, Return
<1>3. /\ aliases \in Seq(Alias) /\ aliases # <<>> /\ aliases[1] \in Env
      /\ \A b \in Env : Known(b)
      /\ \A b \in Alias : Known(b) => Listed(aliases, b)
      /\ clusters \in [Alias -> Nat \cup {NULL}]
      /\ Len(aliases) \in Nat
  BY <1>1 DEF Inv, TypeOK, Maps
<1>4. /\ pc' \in [Request -> Pc] /\ sid' \in [Request -> Session \cup {NULL}]
      /\ alias' \in [Request -> Alias \cup {NULL}] /\ Bound' /\ Locked' /\ Down'
      /\ Deleting'
  BY <1>1, <1>2, NullAssumption
  DEF Inv, TypeOK, Pc, Bound, Locked, Down, Deleting
<1>5. SUFFICES /\ clusters' \in [Alias -> Nat \cup {NULL}]
               /\ aliases' \in Seq(Alias)
               /\ Maps' /\ ActiveClusterExists'
  BY <1>1, <1>4 DEF Inv, TypeOK
<1>6. CASE IsStored(a)
  <2> DEFINE v == stored[StoredIndex(a)].version
  <2>1. v \in Nat /\ v # NULL
    <3>1. stored \in Seq(Entry)
      BY DEF Inv, TypeOK
    <3>2. stored[StoredIndex(a)] \in Entry
      BY <1>6, <3>1, StoredAt
    <3> QED
      BY <3>2, NullAssumption DEF Entry
  <2>2. clusters' = [clusters EXCEPT ![a] = v]
    BY <1>6 DEF Apply
  <2> HIDE DEF v
  <2>3. /\ clusters' \in [Alias -> Nat \cup {NULL}]
        /\ \A b \in Alias : clusters'[b] = IF b = a THEN v ELSE clusters[b]
    BY <1>1, <1>3, <2>1, <2>2
  <2>4. CASE clusters[a] = NULL
    <3>1. aliases' = Append(aliases, a)
      BY <1>6, <2>4 DEF Apply
    <3>2. /\ aliases' \in Seq(Alias) /\ Len(aliases') = Len(aliases) + 1
          /\ \A i \in 1..Len(aliases) : aliases'[i] = aliases[i]
          /\ aliases'[Len(aliases) + 1] = a
      BY <1>1, <1>3, <3>1
    <3>3. aliases' # <<>> /\ aliases'[1] = aliases[1]
      BY <1>3, <3>2
    <3>4. \A b : Listed(aliases, b) => Listed(aliases', b)
      BY <1>3, <3>2 DEF Listed
    <3>5. Listed(aliases', a)
      BY <1>3, <3>2 DEF Listed
    <3>6. Maps'
      BY <1>1, <1>3, <2>1, <2>3, <3>3, <3>4, <3>5, EnvAssumption
      DEF Maps, Known, Env
    <3> QED
      BY <1>1, <2>1, <2>3, <3>2, <3>6
      DEF ActiveClusterExists, Inv, TypeOK, SessionData
  <2>5. CASE clusters[a] # NULL
    <3>1. aliases' = aliases
      BY <1>6, <2>5 DEF Apply
    <3>2. Maps'
      BY <1>1, <1>3, <2>1, <2>3, <2>5, <3>1, EnvAssumption DEF Maps, Known, Env
    <3> QED
      BY <1>1, <1>3, <2>1, <2>3, <3>1, <3>2
      DEF ActiveClusterExists, Inv, TypeOK, SessionData
  <2> QED
    BY <2>4, <2>5
<1>7. CASE ~IsStored(a)
  <2> DEFINE k == Index(aliases, a)
  <2>1. Known(a) /\ ~InSession(a)
    BY <1>1, <1>7, NullAssumption DEF Inv, Deleting
  <2>2. k \in 1..Len(aliases) /\ aliases[k] = a
    BY <1>1, <1>3, <2>1, IndexOf
  <2>3. aliases' = RemoveAt(aliases, k) /\ clusters' = [clusters EXCEPT ![a] = NULL]
    BY <1>7 DEF Apply
  <2> HIDE DEF k
  <2>4. k # 1
    BY <1>1, <1>3, <2>2
  <2>5. /\ aliases' \in Seq(Alias) /\ aliases' # <<>> /\ aliases'[1] = aliases[1]
    BY <1>3, <2>2, <2>3, <2>4, RemoveAtType, RemoveAtHead
  <2>6. /\ clusters' \in [Alias -> Nat \cup {NULL}]
        /\ \A b \in Alias : clusters'[b] = IF b = a THEN NULL ELSE clusters[b]
    BY <1>1, <1>3, <2>3
  <2>7. ASSUME NEW b \in Alias, clusters'[b] # NULL
        PROVE  Listed(aliases', b)
    <3>1. b # a /\ Listed(aliases, b)
      BY <1>3, <2>6, <2>7 DEF Known
    <3> QED
      BY <1>3, <2>2, <2>3, <3>1, RemoveAtKeeps
  <2>8. Maps'
    BY <1>1, <1>3, <2>5, <2>6, <2>7, EnvAssumption DEF Maps, Known, Env
  <2>9. ActiveClusterExists'
    BY <1>1, <2>1, <2>6
    DEF ActiveClusterExists, InSession, Inv, TypeOK, SessionData
  <2> QED
    BY <2>5, <2>6, <2>8, <2>9
<1> QED
  BY <1>6, <1>7

LEMMA NextInv == Inv /\ [Next]_vars => Inv'
<1> SUFFICES ASSUME Inv, [Next]_vars PROVE Inv'
  OBVIOUS
<1>1. CASE Open
  BY <1>1, OpenInv
<1>2. CASE Crash
  BY <1>2, CrashInv
<1>3. CASE \E s \in Session : Expire(s)
  BY <1>3, ExpireInv
<1>4. ASSUME NEW q \in Request, Handler(q) PROVE Inv'
  BY <1>4, SessionActionsInv, CreateInv, UpdateInv, DeleteInv, ApplyInv DEF Handler
<1>5. CASE UNCHANGED vars
  BY <1>5 DEF vars, Inv, TypeOK, Bound, Locked, Down, Maps, Deleting, Known,
              InSession, IsStored, ActiveClusterExists
<1> QED
  BY <1>1, <1>2, <1>3, <1>4, <1>5 DEF Next

(* Sessions, maps and requests keep the invariant of the registry through  *)
(* every interleaving of handlers and restarts.                            *)
THEOREM AlwaysInv == Spec => []Inv
BY InitInv, NextInv, PTL DEF Spec

(* Every variable of the registry keeps its type.                          *)
THEOREM RegistryTyped == Spec => []TypeOK
<1>1. Inv => TypeOK
  BY DEF Inv
<1> QED
  BY <1>1, AlwaysInv, PTL

(* Whatever the interleaving of logins, switches, deletions and restarts,  *)
(* and whatever the environment's clusters, no session is left on a        *)
(* cluster the server does not know.                                       *)
THEOREM NoSessionStranded == Spec => []ActiveClusterExists
<1>1. Inv => ActiveClusterExists
  BY DEF Inv
<1> QED
  BY <1>1, AlwaysInv, PTL

-----------------------------------------------------------------------------
NoRevival ==
    \A s \in used \cap used' :
        (sessions[s] = NULL /\ sessions'[s] # NULL)
          => \E q \in Request : pc[q] = "login" /\ sid[q] = s

LEMMA NextRevivesNone == Inv /\ [Next]_vars => NoRevival
<1> SUFFICES ASSUME Inv, [Next]_vars,
                    NEW s \in used, sessions[s] = NULL, sessions'[s] # NULL
             PROVE  \E q \in Request : pc[q] = "login" /\ sid[q] = s
  BY DEF NoRevival
<1>1. s \in Session /\ sessions \in [Session -> SessionData \cup {NULL}]
  BY DEF Inv, TypeOK
<1>2. ASSUME NEW q \in Request, LoginInsert(q)
      PROVE  pc[q] = "login" /\ sid[q] = s
  BY <1>1, <1>2 DEF LoginInsert
<1>3. ASSUME NEW q \in Request, DropSession(q)
      PROVE  FALSE
  BY <1>1, <1>3 DEF DropSession
<1>4. ASSUME NEW q \in Request, NEW a \in Alias, Switch(q, a)
      PROVE  FALSE
  BY <1>1, <1>4 DEF Switch
<1>5. ASSUME NEW t \in Session, Expire(t)
      PROVE  FALSE
  BY <1>1, <1>5 DEF Expire
<1>6. CASE Crash
  BY <1>1, <1>6 DEF Crash, NoSessions
<1>7. CASE sessions' = sessions
  BY <1>7
<1>8. CASE Open \/ UNCHANGED vars
  BY <1>7, <1>8 DEF Open, vars
<1>9. ASSUME NEW q \in Request, Handler(q), ~LoginInsert(q), ~DropSession(q),
             ~\E a \in Alias : Switch(q, a)
      PROVE  sessions' = sessions
  <2>1. CASE \E t \in Session : LoginRead(q, t) \/ Authorise(q, t)
    BY <2>1 DEF LoginRead, Authorise
  <2>2. CASE SaveFails(q) \/ Denied(q) \/ AnswerRefused(q) \/ Apply(q)
    BY <2>2 DEF SaveFails, Denied, AnswerRefused, Apply
  <2>3. CASE \E a \in Alias : \/ CreateCluster(q, a) \/ UpdateCluster(q, a)
                              \/ DeleteCluster(q, a) \/ DeleteRefused(q, a)
    BY <2>3 DEF CreateCluster, UpdateCluster, DeleteCluster, DeleteRefused, Persist
  <2> QED
    BY <1>9, <2>1, <2>2, <2>3 DEF Handler
<1> QED
  BY <1>2, <1>3, <1>4, <1>5, <1>6, <1>7, <1>8, <1>9 DEF Next

(* No request, however late, brings a dropped session back.                *)
THEOREM NoSessionRevived == Spec => DroppedStaysDropped
<1>1. Inv /\ [Next]_vars => [NoRevival]_vars
  BY NextRevivesNone
<1> QED
  BY <1>1, AlwaysInv, PTL DEF Spec, DroppedStaysDropped, NoRevival

-----------------------------------------------------------------------------
(* The maps and the file.  While the lock is held the maps still show the  *)
(* file as it was before its one change, which Apply repeats in the maps.  *)

Has(d, a) == \E i \in 1..Len(d) : d[i].alias = a
Distinct(d) == \A i, j \in 1..Len(d) : d[i].alias = d[j].alias => i = j
List(d) == EnvSeq \o Names(d)
Shown(d) == aliases = List(d) /\ clusters = Loaded(d)

Created(d, e, a) ==
    ~Has(d, a) /\ \E v \in Nat : e = Append(d, [alias |-> a, version |-> v])
Updated(d, e, a) ==
    \E k \in 1..Len(d) : \E v \in Nat :
        d[k].alias = a /\ e = [d EXCEPT ![k] = [alias |-> a, version |-> v]]
Deleted(d, e, a) ==
    \E k \in 1..Len(d) : d[k].alias = a /\ e = RemoveAt(d, k)

OneChange(d, e, a) == Created(d, e, a) \/ Updated(d, e, a) \/ Deleted(d, e, a)

Agrees ==
    /\ Distinct(disk)
    /\ up => stored = disk
    /\ (up /\ lock = NULL) => Shown(disk)
    /\ (up /\ lock # NULL) =>
         \E d \in Seq(Entry) :
            Distinct(d) /\ Shown(d) /\ OneChange(d, stored, alias[lock])

LEMMA EntryAt ==
    ASSUME NEW d \in Seq(Entry)
    PROVE  /\ Len(d) \in Nat /\ Len(Names(d)) = Len(d)
           /\ \A i \in 1..Len(d) :
                 /\ d[i] \in Entry /\ d[i].alias \in Platform /\ d[i].version \in Nat
                 /\ d[i].alias \in Alias /\ d[i].alias \notin Env
                 /\ Names(d)[i] = d[i].alias
<1>1. Len(d) \in Nat /\ \A i \in 1..Len(d) : d[i] \in Entry
  OBVIOUS
<1>2. \A i \in 1..Len(d) : /\ d[i].alias \in Platform /\ d[i].version \in Nat
                           /\ d[i].alias \in Alias /\ d[i].alias \notin Env
  BY <1>1 DEF Entry, Platform
<1>3. Len(Names(d)) = Len(d) /\ \A i \in 1..Len(d) : Names(d)[i] = d[i].alias
  BY <1>1 DEF Names
<1> QED
  BY <1>1, <1>2, <1>3

(* What the server loads for each alias.                                   *)
LEMMA LoadedAt ==
    ASSUME NEW d \in Seq(Entry), Distinct(d), NEW a \in Alias
    PROVE  /\ a \in Env => Loaded(d)[a] = 0
           /\ (a \notin Env /\ ~Has(d, a)) => Loaded(d)[a] = NULL
           /\ (a \notin Env /\ Has(d, a)) =>
                 Loaded(d)[a] = d[Index(Names(d), a)].version
           /\ \A i \in 1..Len(d) :
                 d[i].alias = a => a \notin Env /\ Loaded(d)[a] = d[i].version
<1>1. /\ a \in Env => Loaded(d)[a] = 0
      /\ (a \notin Env /\ ~Has(d, a)) => Loaded(d)[a] = NULL
      /\ (a \notin Env /\ Has(d, a)) =>
            Loaded(d)[a] = d[Index(Names(d), a)].version
  BY DEF Loaded, Has
<1>2. ASSUME NEW i \in 1..Len(d), d[i].alias = a
      PROVE  a \notin Env /\ Loaded(d)[a] = d[i].version
  <2>1. a \notin Env /\ Has(d, a)
    BY <1>2, EntryAt DEF Has
  <2>2. Listed(Names(d), a)
    BY <1>2, EntryAt DEF Listed
  <2>3. Index(Names(d), a) \in 1..Len(d) /\ Names(d)[Index(Names(d), a)] = a
    BY <2>2, IndexOf, EntryAt
  <2>4. d[Index(Names(d), a)].alias = a
    BY <2>3, EntryAt
  <2>5. Index(Names(d), a) = i
    BY <1>2, <2>3, <2>4 DEF Distinct
  <2> QED
    BY <1>1, <2>1, <2>5
<1> QED
  BY <1>1, <1>2

(* The alias list: the environment's, then the file's.                     *)
LEMMA ListAt ==
    ASSUME NEW d \in Seq(Entry)
    PROVE  /\ List(d) \in Seq(Alias) /\ Len(EnvSeq) \in Nat
           /\ Len(List(d)) = Len(EnvSeq) + Len(d)
           /\ \A i \in 1..Len(EnvSeq) :
                 List(d)[i] = EnvSeq[i] /\ EnvSeq[i] \in Env /\ EnvSeq[i] \in Alias
           /\ \A i \in 1..Len(d) : List(d)[Len(EnvSeq) + i] = d[i].alias
<1>1. Len(d) \in Nat /\ Len(Names(d)) = Len(d)
      /\ \A i \in 1..Len(d) : Names(d)[i] = d[i].alias /\ d[i].alias \in Alias
  BY EntryAt
<1>2. Names(d) \in Seq(Alias)
  <2>1. Names(d) \in [1..Len(d) -> Alias]
    BY <1>1 DEF Names
  <2> QED
    BY <1>1, <2>1
<1>3. EnvSeq \in Seq(Alias) /\ \A i \in 1..Len(EnvSeq) : EnvSeq[i] \in Env
  BY EnvAssumption DEF Env
<1> DEFINE names == Names(d)
<1>4. names \in Seq(Alias) /\ Len(names) = Len(d) /\ Len(d) \in Nat
      /\ \A i \in 1..Len(d) : names[i] = d[i].alias
  BY <1>1, <1>2
<1>5. List(d) = EnvSeq \o names
  BY DEF List
<1> HIDE DEF names
<1>6. /\ List(d) \in Seq(Alias) /\ Len(EnvSeq) \in Nat
      /\ Len(List(d)) = Len(EnvSeq) + Len(names)
  <2>1. \A t \in Seq(Alias) : Len(t) \in Nat
    OBVIOUS
  <2>2. \A t, u \in Seq(Alias) : t \o u \in Seq(Alias)
    OBVIOUS
  <2>3. \A t, u \in Seq(Alias) : Len(t \o u) = Len(t) + Len(u)
    OBVIOUS
  <2> QED
    BY <1>3, <1>4, <1>5, <2>1, <2>2, <2>3
<1>7. ASSUME NEW i \in 1..Len(EnvSeq)
      PROVE  List(d)[i] = EnvSeq[i] /\ EnvSeq[i] \in Env /\ EnvSeq[i] \in Alias
  BY <1>3, <1>4, <1>5
<1>8. ASSUME NEW i \in 1..Len(d)
      PROVE  List(d)[Len(EnvSeq) + i] = d[i].alias
  BY <1>3, <1>4, <1>5
<1> QED
  BY <1>4, <1>6, <1>7, <1>8

LEMMA ListDistinct ==
    ASSUME NEW d \in Seq(Entry), Distinct(d)
    PROVE  \A i, j \in 1..Len(List(d)) : List(d)[i] = List(d)[j] => i = j
<1> DEFINE n == Len(EnvSeq)
<1> SUFFICES ASSUME NEW i \in 1..Len(List(d)), NEW j \in 1..Len(List(d)),
                    List(d)[i] = List(d)[j], i <= j
             PROVE  i = j
  BY ListAt
<1>1. n \in Nat /\ Len(d) \in Nat /\ Len(List(d)) = n + Len(d) /\ i \in Nat /\ j \in Nat
  BY ListAt
<1>a. /\ \A k \in 1..n : List(d)[k] = EnvSeq[k] /\ EnvSeq[k] \in Env
      /\ \A k \in 1..Len(d) :
            List(d)[n + k] = d[k].alias /\ d[k].alias \notin Env
  BY ListAt, EntryAt
<1>b. \A k, m \in 1..n : EnvSeq[k] = EnvSeq[m] => k = m
  BY EnvAssumption
<1> HIDE DEF n
<1>2. CASE j <= n
  <2>1. i \in 1..n /\ j \in 1..n
    BY <1>1, <1>2
  <2> QED
    BY <1>a, <1>b, <2>1
<1>3. CASE i <= n /\ j > n
  <2>1. i \in 1..n /\ j - n \in 1..Len(d) /\ n + (j - n) = j
    BY <1>1, <1>3
  <2>2. List(d)[i] \in Env /\ List(d)[j] \notin Env
    BY <1>a, <2>1
  <2> QED
    BY <2>2
<1>4. CASE i > n
  <2>1. /\ i - n \in 1..Len(d) /\ n + (i - n) = i
        /\ j - n \in 1..Len(d) /\ n + (j - n) = j
    BY <1>1, <1>4
  <2>2. List(d)[i] = d[i - n].alias /\ List(d)[j] = d[j - n].alias
    BY <1>a, <2>1
  <2>3. i - n = j - n
    BY <2>1, <2>2 DEF Distinct
  <2> QED
    BY <1>1, <2>3
<1> QED
  BY <1>1, <1>2, <1>3, <1>4

LEMMA SameSeq ==
    ASSUME NEW S, NEW s \in Seq(S), NEW t \in Seq(S), Len(s) = Len(t),
           \A i \in 1..Len(s) : s[i] = t[i]
    PROVE  s = t
OBVIOUS
LEMMA AppendAt ==
    ASSUME NEW S, NEW s \in Seq(S), NEW x \in S
    PROVE  /\ Append(s, x) \in Seq(S) /\ Len(Append(s, x)) = Len(s) + 1
           /\ Append(s, x)[Len(s) + 1] = x
           /\ \A i \in 1..Len(s) : Append(s, x)[i] = s[i]
OBVIOUS

(* A cluster is added at the end of the file and of the list.              *)
LEMMA CreatedShows ==
    ASSUME NEW d \in Seq(Entry), NEW e \in Seq(Entry), NEW a \in Platform,
           Distinct(d), Created(d, e, a)
    PROVE  /\ Distinct(e) /\ Has(e, a) /\ Loaded(d)[a] = NULL
           /\ List(e) = Append(List(d), a)
           /\ \A b \in Alias : b # a => Loaded(e)[b] = Loaded(d)[b]
<1>1. PICK v \in Nat : e = Append(d, [alias |-> a, version |-> v])
  BY DEF Created
<1> DEFINE x == [alias |-> a, version |-> v]
           n == Len(d)
<1>2. x \in Entry /\ x.alias = a /\ a \in Alias /\ a \notin Env
  BY DEF Entry, Platform
<1>3. e = Append(d, x) /\ n \in Nat
  BY <1>1
<1> HIDE DEF x
<1>4. /\ Len(e) = n + 1 /\ e[n + 1] = x
      /\ \A i \in 1..n : e[i] = d[i]
  BY <1>2, <1>3
<1>5. \A i \in 1..n : d[i].alias # a
  BY DEF Created, Has
<1>6. Distinct(e)
  <2> SUFFICES ASSUME NEW i \in 1..Len(e), NEW j \in 1..Len(e), e[i].alias = e[j].alias
               PROVE  i = j
    BY DEF Distinct
  <2>1. (i \in 1..n \/ i = n + 1) /\ (j \in 1..n \/ j = n + 1)
    BY <1>3, <1>4
  <2> QED
    BY <1>2, <1>4, <1>5, <2>1 DEF Distinct
<1>7. Has(e, a) /\ ~Has(d, a)
  BY <1>2, <1>3, <1>4 DEF Has, Created
<1>8. Loaded(d)[a] = NULL
  BY <1>2, <1>7, LoadedAt
<1>9. List(e) = Append(List(d), a)
  <2> DEFINE s == List(e)
             t == Append(List(d), a)
             m == Len(EnvSeq)
  <2>1. /\ s \in Seq(Alias) /\ List(d) \in Seq(Alias) /\ m \in Nat
        /\ Len(s) = m + (n + 1) /\ Len(List(d)) = m + n
        /\ \A i \in 1..m : s[i] = EnvSeq[i] /\ List(d)[i] = EnvSeq[i]
        /\ \A i \in 1..(n + 1) : s[m + i] = e[i].alias
        /\ \A i \in 1..n : List(d)[m + i] = d[i].alias
    BY <1>4, ListAt
  <2>2. /\ t \in Seq(Alias) /\ Len(t) = m + (n + 1) /\ t[m + (n + 1)] = a
        /\ \A i \in 1..(m + n) : t[i] = List(d)[i]
    <3>1. Len(t) = Len(List(d)) + 1 /\ t[Len(List(d)) + 1] = a /\ t \in Seq(Alias)
          /\ \A i \in 1..Len(List(d)) : t[i] = List(d)[i]
      <4> HIDE DEF m, n
      <4> QED
        BY <1>2, <2>1, AppendAt
    <3> HIDE DEF t, m, n
    <3> QED
      BY <1>3, <2>1, <3>1
  <2> HIDE DEF s, t, m, n
  <2>3. ASSUME NEW i \in 1..Len(s)
        PROVE  s[i] = t[i]
    <3>1. CASE i <= m
      BY <1>3, <2>1, <2>2, <3>1
    <3>2. CASE i > m /\ i <= m + n
      <4>1. i - m \in 1..n /\ m + (i - m) = i /\ i \in 1..(m + n)
        BY <1>3, <2>1, <3>2
      <4>2. i - m \in 1..(n + 1)
        BY <1>3, <4>1
      <4>3. s[i] = e[i - m].alias
        BY <2>1, <4>1, <4>2
      <4>4. t[i] = d[i - m].alias
        BY <2>1, <2>2, <4>1
      <4> QED
        BY <1>4, <4>1, <4>3, <4>4
    <3>3. CASE i = m + (n + 1)
      <4>1. n + 1 \in 1..(n + 1)
        BY <1>3
      <4> QED
        BY <1>2, <1>4, <2>1, <2>2, <3>3, <4>1
    <3> QED
      BY <1>3, <2>1, <3>1, <3>2, <3>3
  <2>4. s = t
    BY <2>1, <2>2, <2>3, SameSeq
  <2> QED
    BY <2>4 DEF s, t
<1>10. ASSUME NEW b \in Alias, b # a
       PROVE  Loaded(e)[b] = Loaded(d)[b]
  <2>1. Has(d, b) => \E i \in 1..n : d[i].alias = b /\ e[i].alias = b /\ i \in 1..Len(e)
                                     /\ e[i].version = d[i].version
    BY <1>3, <1>4 DEF Has
  <2>2. Has(e, b) => Has(d, b)
    <3> SUFFICES ASSUME NEW i \in 1..Len(e), e[i].alias = b
                 PROVE  Has(d, b)
      BY DEF Has
    <3>1. i \in 1..n
      BY <1>2, <1>3, <1>4, <1>10
    <3> QED
      BY <1>4, <3>1 DEF Has
  <2> HIDE DEF n
  <2>3. CASE Has(d, b)
    BY <1>6, <2>1, <2>3, LoadedAt DEF n
  <2>4. CASE ~Has(d, b)
    <3>1. ~Has(e, b)
      BY <2>2, <2>4
    <3> QED
      BY <1>6, <2>4, <3>1, LoadedAt
  <2> QED
    BY <2>3, <2>4
<1> QED
  BY <1>6, <1>7, <1>8, <1>9, <1>10
(* Another alias is loaded alike from two files that have it alike.        *)
LEMMA SameLoaded ==
    ASSUME NEW d \in Seq(Entry), NEW e \in Seq(Entry), Distinct(d), Distinct(e),
           NEW b \in Alias, Has(e, b) => Has(d, b),
           \A i \in 1..Len(d) : d[i].alias = b =>
              \E j \in 1..Len(e) : e[j].alias = b /\ e[j].version = d[i].version
    PROVE  Loaded(e)[b] = Loaded(d)[b]
<1>1. CASE Has(d, b)
  <2>1. PICK i \in 1..Len(d) : d[i].alias = b
    BY <1>1 DEF Has
  <2>2. PICK j \in 1..Len(e) : e[j].alias = b /\ e[j].version = d[i].version
    BY <2>1
  <2>3. Loaded(d)[b] = d[i].version /\ Loaded(e)[b] = e[j].version
    BY <2>1, <2>2, LoadedAt
  <2> QED
    BY <2>2, <2>3
<1>2. CASE ~Has(d, b)
  BY <1>2, LoadedAt
<1> QED
  BY <1>1, <1>2

(* A cluster is edited in place.                                           *)
LEMMA UpdatedShows ==
    ASSUME NEW d \in Seq(Entry), NEW e \in Seq(Entry), NEW a \in Platform,
           Distinct(d), Updated(d, e, a)
    PROVE  /\ Distinct(e) /\ Has(e, a) /\ Loaded(d)[a] # NULL
           /\ List(e) = List(d)
           /\ \A b \in Alias : b # a => Loaded(e)[b] = Loaded(d)[b]
<1>1. PICK k \in 1..Len(d), v \in Nat :
         d[k].alias = a /\ e = [d EXCEPT ![k] = [alias |-> a, version |-> v]]
  BY DEF Updated
<1> DEFINE x == [alias |-> a, version |-> v]
<1>2. x \in Entry /\ x.alias = a /\ a \in Alias
  BY DEF Entry, Platform
<1>3. e = [d EXCEPT ![k] = x] /\ d[k].alias = a
  BY <1>1
<1> HIDE DEF x
<1>4. Len(e) = Len(d) /\ \A i \in 1..Len(d) : e[i] = IF i = k THEN x ELSE d[i]
  BY <1>2, <1>3
<1>5. \A i \in 1..Len(d) : e[i].alias = d[i].alias
  BY <1>2, <1>3, <1>4
<1>6. Distinct(e)
  BY <1>4, <1>5 DEF Distinct
<1>7. Has(e, a)
  BY <1>3, <1>4, <1>5 DEF Has
<1>8. Loaded(d)[a] # NULL
  <2>1. Loaded(d)[a] = d[k].version /\ d[k].version \in Nat
    BY <1>2, <1>3, LoadedAt, EntryAt
  <2> QED
    BY <2>1, NullAssumption
<1>9. List(e) = List(d)
  <2>1. Names(e) = Names(d)
    BY <1>4, <1>5 DEF Names
  <2> QED
    BY <2>1 DEF List
<1>10. ASSUME NEW b \in Alias, b # a
       PROVE  Loaded(e)[b] = Loaded(d)[b]
  <2>1. Has(e, b) => Has(d, b)
    BY <1>4, <1>5 DEF Has
  <2>2. \A i \in 1..Len(d) : d[i].alias = b =>
           i \in 1..Len(e) /\ e[i].alias = b /\ e[i].version = d[i].version
    BY <1>3, <1>4, <1>5, <1>10
  <2> QED
    BY <1>6, <2>1, <2>2, SameLoaded
<1> QED
  BY <1>6, <1>7, <1>8, <1>9, <1>10

(* A cluster is taken out of the file, and of the list at its own place.   *)
LEMMA DeletedShows ==
    ASSUME NEW d \in Seq(Entry), NEW e \in Seq(Entry), NEW a \in Platform,
           Distinct(d), Deleted(d, e, a)
    PROVE  /\ Distinct(e) /\ ~Has(e, a)
           /\ List(e) = RemoveAt(List(d), Index(List(d), a))
           /\ \A b \in Alias : b # a => Loaded(e)[b] = Loaded(d)[b]
<1>1. PICK k \in 1..Len(d) : d[k].alias = a /\ e = RemoveAt(d, k)
  BY DEF Deleted
<1> DEFINE n == Len(d)
<1>2. n \in Nat /\ k \in Nat /\ 1 <= k /\ k <= n /\ a \in Alias
  BY DEF Platform
<1>3. /\ Len(e) = n - 1
      /\ \A i \in 1..(n - 1) : e[i] = IF i < k THEN d[i] ELSE d[i + 1]
  BY <1>1, RemoveAtType
<1> DEFINE f(i) == IF i < k THEN i ELSE i + 1
<1>4. \A i \in 1..Len(e) : f(i) \in 1..n /\ f(i) # k /\ e[i] = d[f(i)]
  <2> HIDE DEF n
  <2> QED
    BY <1>2, <1>3
<1>5. \A i \in 1..n : d[i].alias = a => i = k
  BY <1>1 DEF Distinct
<1>6. Distinct(e)
  <2> SUFFICES ASSUME NEW i \in 1..Len(e), NEW j \in 1..Len(e), e[i].alias = e[j].alias
               PROVE  i = j
    BY DEF Distinct
  <2>1. f(i) = f(j)
    <3> HIDE DEF f
    <3> QED
      BY <1>4 DEF Distinct
  <2> QED
    BY <1>2, <2>1
<1>7. ~Has(e, a)
  <2> HIDE DEF f
  <2> QED
    BY <1>4, <1>5 DEF Has
<1>8. List(e) = RemoveAt(List(d), Index(List(d), a))
  <2> DEFINE m == Len(EnvSeq)
             s == List(e)
             w == List(d)
             t == RemoveAt(w, m + k)
  <2>1. /\ s \in Seq(Alias) /\ w \in Seq(Alias) /\ m \in Nat
        /\ Len(s) = m + (n - 1) /\ Len(w) = m + n
        /\ \A i \in 1..m : s[i] = EnvSeq[i] /\ w[i] = EnvSeq[i]
        /\ \A i \in 1..(n - 1) : s[m + i] = e[i].alias
        /\ \A i \in 1..n : w[m + i] = d[i].alias
    BY <1>3, ListAt
  <2>2. m + k \in 1..Len(w) /\ w[m + k] = a
    <3> HIDE DEF m, n, w
    <3> QED
      BY <1>1, <1>2, <2>1
  <2>3. Index(w, a) = m + k
    <3>1. Index(w, a) \in 1..Len(w) /\ w[Index(w, a)] = a
      BY <2>2, IndexOf DEF Listed
    <3> QED
      BY <2>2, <3>1, ListDistinct
  <2>4. /\ t \in Seq(Alias) /\ Len(t) = Len(w) - 1
        /\ \A i \in 1..(Len(w) - 1) : t[i] = IF i < m + k THEN w[i] ELSE w[i + 1]
    BY <2>1, <2>2, RemoveAtType
  <2> HIDE DEF s, t, w, m, n, f
  <2>5. ASSUME NEW i \in 1..Len(s)
        PROVE  s[i] = t[i]
    <3>0. i \in 1..(Len(w) - 1) /\ i \in Nat
      BY <1>2, <2>1
    <3>1. CASE i <= m
      BY <1>2, <2>1, <2>4, <3>0, <3>1
    <3>2. CASE i > m
      <4>1. i - m \in 1..(n - 1) /\ m + (i - m) = i
        BY <1>2, <2>1, <3>0, <3>2
      <4>2. s[i] = e[i - m].alias
        BY <2>1, <4>1
      <4>3. CASE i - m < k
        <5>1. i < m + k /\ i - m \in 1..n
          BY <1>2, <2>1, <3>0, <4>1, <4>3
        <5>2. t[i] = w[i] /\ w[i] = d[i - m].alias
          BY <2>1, <2>4, <3>0, <4>1, <5>1
        <5> QED
          BY <1>3, <4>1, <4>2, <4>3, <5>2
      <4>4. CASE ~ i - m < k
        <5>1. ~ i < m + k /\ (i - m) + 1 \in 1..n /\ m + ((i - m) + 1) = i + 1
          BY <1>2, <2>1, <3>0, <4>1, <4>4
        <5>2. t[i] = w[i + 1] /\ w[i + 1] = d[(i - m) + 1].alias
          BY <2>1, <2>4, <3>0, <5>1
        <5> QED
          BY <1>3, <4>1, <4>2, <4>4, <5>2
      <4> QED
        BY <4>3, <4>4
    <3> QED
      BY <2>1, <3>0, <3>1, <3>2
  <2>6. Len(s) = Len(t)
    BY <1>2, <2>1, <2>4
  <2>7. s = t
    BY <2>1, <2>4, <2>5, <2>6, SameSeq
  <2> QED
    BY <2>3, <2>7 DEF s, t, w
<1>9. ASSUME NEW b \in Alias, b # a
      PROVE  Loaded(e)[b] = Loaded(d)[b]
  <2>1. Has(e, b) => Has(d, b)
    <3> HIDE DEF f
    <3> QED
      BY <1>4 DEF Has
  <2>2. ASSUME NEW i \in 1..Len(d), d[i].alias = b
        PROVE  \E j \in 1..Len(e) : e[j].alias = b /\ e[j].version = d[i].version
    <3>1. i # k
      BY <1>1, <1>9, <2>2
    <3>2. PICK j \in 1..Len(e) : f(j) = i
      <4>1. CASE i < k
        BY <1>2, <1>3, <4>1
      <4>2. CASE ~ i < k
        <5>1. i - 1 \in 1..Len(e) /\ f(i - 1) = i
          BY <1>2, <1>3, <3>1, <4>2
        <5> QED
          BY <5>1
      <4> QED
        BY <4>1, <4>2
    <3> HIDE DEF f
    <3> QED
      BY <1>4, <2>2, <3>2
  <2> QED
    BY <1>6, <2>1, <2>2, SameLoaded
<1> QED
  BY <1>6, <1>7, <1>8, <1>9
LEMMA AgreesUnchanged ==
    ASSUME Agrees, UNCHANGED <<up, clusters, aliases, stored, disk, lock>>,
           lock # NULL => alias'[lock] = alias[lock]
    PROVE  Agrees'
<1>1. Distinct(disk)' /\ (up' => stored' = disk')
  BY DEF Agrees, Distinct
<1>2. (up' /\ lock' = NULL) => Shown(disk)'
  BY DEF Agrees, Shown, List
<1>3. ASSUME up', lock' # NULL
      PROVE  \E d \in Seq(Entry) :
                Distinct(d) /\ Shown(d)' /\ OneChange(d, stored', alias'[lock'])
  <2>1. PICK d \in Seq(Entry) :
           Distinct(d) /\ Shown(d) /\ OneChange(d, stored, alias[lock])
    BY <1>3 DEF Agrees
  <2>2. Shown(d)'
    BY <2>1 DEF Shown
  <2>3. stored' = stored /\ alias'[lock'] = alias[lock]
    BY <1>3
  <2> QED
    BY <2>1, <2>2, <2>3
<1> QED
  BY <1>1, <1>2, <1>3 DEF Agrees

(* The change is in memory and in the file, not yet in the maps.           *)
LEMMA PersistAgrees ==
    ASSUME Inv, Agrees, NEW q \in Request, NEW a \in Platform, Free,
           NEW e \in Seq(Entry), Persist(q, a, e), OneChange(stored, e, a)
    PROVE  Agrees'
<1>1. /\ stored \in Seq(Entry) /\ stored = disk /\ Distinct(stored) /\ Shown(stored)
  BY DEF Inv, TypeOK, Agrees, Free
<1>2. /\ stored' = e /\ disk' = e /\ lock' = q /\ alias'[q] = a
      /\ UNCHANGED <<up, clusters, aliases>> /\ q # NULL
  BY NullAssumption DEF Persist, Enter, Inv, TypeOK
<1>3. Distinct(e)
  BY <1>1, CreatedShows, UpdatedShows, DeletedShows DEF OneChange
<1>4. Distinct(disk)'
  BY <1>2, <1>3 DEF Distinct
<1>5. PICK d \in Seq(Entry) : d = stored
  BY <1>1
<1>6. Distinct(d) /\ Shown(d) /\ OneChange(d, e, a)
  BY <1>1, <1>5
<1>7. Shown(d)'
  BY <1>2, <1>6 DEF Shown
<1>8. OneChange(d, stored', alias'[lock'])
  BY <1>2, <1>6
<1> QED
  BY <1>2, <1>4, <1>6, <1>7, <1>8 DEF Agrees

LEMMA CreateAgrees ==
    ASSUME Inv, Agrees, NEW q \in Request, NEW a \in Alias, CreateCluster(q, a)
    PROVE  Agrees'
<1> DEFINE x == [alias |-> a, version |-> 1]
           e == Append(stored, x)
<1>1. stored \in Seq(Entry) /\ a \in Platform /\ x \in Entry
  BY DEF Inv, TypeOK, CreateCluster, Entry
<1>2. e \in Seq(Entry)
  <2> HIDE DEF x
  <2> QED
    BY <1>1, AppendAt
<1>3. ~Has(stored, a) /\ Free /\ Persist(q, a, e)
  BY DEF CreateCluster, IsStored, Has
<1>4. Created(stored, e, a)
  BY <1>3 DEF Created
<1> HIDE DEF e
<1> QED
  BY <1>1, <1>2, <1>3, <1>4, PersistAgrees DEF OneChange

LEMMA UpdateAgrees ==
    ASSUME Inv, Agrees, NEW q \in Request, NEW a \in Alias, UpdateCluster(q, a)
    PROVE  Agrees'
<1> DEFINE k == StoredIndex(a)
           v == stored[k].version + 1
           x == [alias |-> a, version |-> v]
           e == [stored EXCEPT ![k] = x]
<1>1. stored \in Seq(Entry) /\ a \in Platform /\ Free
  BY DEF Inv, TypeOK, UpdateCluster
<1>2. k \in 1..Len(stored) /\ stored[k] \in Entry /\ stored[k].alias = a
  BY <1>1, StoredAt DEF UpdateCluster
<1>3. v \in Nat /\ [stored[k] EXCEPT !.version = @ + 1] = x
  BY <1>2 DEF Entry
<1>4. Persist(q, a, e)
  BY <1>3 DEF UpdateCluster
<1>5. x \in Entry
  BY <1>1, <1>3 DEF Entry
<1>6. e \in Seq(Entry)
  <2> HIDE DEF x, k
  <2> QED
    BY <1>1, <1>2, <1>5
<1>7. Updated(stored, e, a)
  <2> HIDE DEF k, v
  <2> QED
    BY <1>2, <1>3 DEF Updated
<1> HIDE DEF e
<1> QED
  BY <1>1, <1>4, <1>6, <1>7, PersistAgrees DEF OneChange

LEMMA DeleteAgrees ==
    ASSUME Inv, Agrees, NEW q \in Request, NEW a \in Alias, DeleteCluster(q, a)
    PROVE  Agrees'
<1> DEFINE k == StoredIndex(a)
           e == RemoveAt(stored, k)
<1>1. stored \in Seq(Entry) /\ a \in Platform /\ Free /\ Persist(q, a, e)
  BY DEF Inv, TypeOK, DeleteCluster
<1>2. k \in 1..Len(stored) /\ stored[k].alias = a
  BY <1>1, StoredAt DEF DeleteCluster
<1> HIDE DEF k
<1>3. e \in Seq(Entry)
  BY <1>1, <1>2, RemoveAtType
<1>4. Deleted(stored, e, a)
  BY <1>2 DEF Deleted
<1> HIDE DEF e
<1> QED
  BY <1>1, <1>3, <1>4, PersistAgrees DEF OneChange

(* Apply repeats in the maps what was changed in the file.                 *)
LEMMA ApplyAgrees ==
    ASSUME Inv, Agrees, NEW q \in Request, Apply(q)
    PROVE  Agrees'
<1> PICK a \in Platform : a = alias[q]
  BY NullAssumption DEF Apply, Inv, Locked
<1>1. /\ lock = q /\ lock # NULL /\ lock' = NULL /\ up
      /\ UNCHANGED <<up, stored, disk>> /\ stored \in Seq(Entry) /\ stored = disk
      /\ Distinct(stored)
  BY NullAssumption DEF Apply, Inv, Locked, TypeOK, Agrees
<1>2. PICK d \in Seq(Entry) : Distinct(d) /\ Shown(d) /\ OneChange(d, stored, a)
  BY <1>1 DEF Agrees
<1>3. a \in Alias /\ a \notin Env /\ (IsStored(a) <=> Has(stored, a))
  BY DEF Platform, IsStored, Has
<1>4. /\ clusters = Loaded(d) /\ aliases = List(d)
      /\ DOMAIN Loaded(d) = Alias /\ DOMAIN Loaded(stored) = Alias
      /\ Loaded(stored) = [b \in Alias |-> Loaded(stored)[b]]
  BY <1>2 DEF Shown, Loaded
<1>5. ASSUME clusters' = [clusters EXCEPT ![a] = Loaded(stored)[a]],
             \A b \in Alias : b # a => Loaded(stored)[b] = Loaded(d)[b]
      PROVE  clusters' = Loaded(stored)
  BY <1>4, <1>5
<1>8. ASSUME clusters' = Loaded(stored), aliases' = List(stored)
      PROVE  Agrees'
  <2>1. Shown(disk)' /\ Distinct(disk)'
    BY <1>1, <1>8 DEF Shown, Distinct, List
  <2> QED
    BY <1>1, <2>1 DEF Agrees
<1>9. clusters[a] = Loaded(d)[a]
  BY <1>4
<1>6. CASE Has(stored, a)
  <2>1. /\ clusters' = [clusters EXCEPT ![a] = stored[StoredIndex(a)].version]
        /\ aliases' = IF clusters[a] = NULL THEN Append(aliases, a) ELSE aliases
    BY <1>3, <1>6 DEF Apply
  <2>2. Loaded(stored)[a] = stored[StoredIndex(a)].version
    BY <1>1, <1>3, <1>6, LoadedAt DEF StoredIndex
  <2>3. CASE Created(d, stored, a)
    <3>1. /\ Loaded(d)[a] = NULL /\ List(stored) = Append(List(d), a)
          /\ \A b \in Alias : b # a => Loaded(stored)[b] = Loaded(d)[b]
      BY <1>1, <1>2, <2>3, CreatedShows
    <3> QED
      BY <1>4, <1>5, <1>8, <1>9, <2>1, <2>2, <3>1
  <2>4. CASE Updated(d, stored, a)
    <3>1. /\ Loaded(d)[a] # NULL /\ List(stored) = List(d)
          /\ \A b \in Alias : b # a => Loaded(stored)[b] = Loaded(d)[b]
      BY <1>1, <1>2, <2>4, UpdatedShows
    <3> QED
      BY <1>4, <1>5, <1>8, <1>9, <2>1, <2>2, <3>1
  <2>5. ~Deleted(d, stored, a)
    BY <1>1, <1>2, <1>6, DeletedShows
  <2> QED
    BY <1>2, <2>3, <2>4, <2>5 DEF OneChange
<1>7. CASE ~Has(stored, a)
  <2>1. /\ clusters' = [clusters EXCEPT ![a] = NULL]
        /\ aliases' = RemoveAt(aliases, Index(aliases, a))
    BY <1>3, <1>7 DEF Apply
  <2>2. Loaded(stored)[a] = NULL
    BY <1>1, <1>3, <1>7, LoadedAt
  <2>3. Deleted(d, stored, a)
    BY <1>1, <1>2, <1>7, CreatedShows, UpdatedShows DEF OneChange
  <2>4. /\ List(stored) = RemoveAt(List(d), Index(List(d), a))
        /\ \A b \in Alias : b # a => Loaded(stored)[b] = Loaded(d)[b]
    BY <1>1, <1>2, <2>3, DeletedShows
  <2> QED
    BY <1>4, <1>5, <1>8, <2>1, <2>2, <2>4
<1> QED
  BY <1>6, <1>7

LEMMA NextAgrees == Inv /\ Agrees /\ [Next]_vars => Agrees'
<1> SUFFICES ASSUME Inv, Agrees, [Next]_vars PROVE Agrees'
  OBVIOUS
<1>1. CASE Open
  <2>1. /\ up' /\ stored' = disk /\ disk' = disk /\ lock' = lock /\ lock = NULL
        /\ clusters' = Loaded(disk) /\ aliases' = List(disk)
    BY <1>1 DEF Open, Inv, Locked, List
  <2> QED
    BY <2>1 DEF Agrees, Shown, Distinct
<1>2. CASE Crash
  BY <1>2 DEF Crash, Agrees, Distinct
<1>3. ASSUME NEW s \in Session, Expire(s)
      PROVE  Agrees'
  BY <1>3, AgreesUnchanged DEF Expire, registry, request
<1>4. ASSUME NEW q \in Request, Handler(q)
      PROVE  Agrees'
  <2>1. CASE \E s \in Session : LoginRead(q, s) \/ Authorise(q, s)
    BY <2>1, AgreesUnchanged DEF LoginRead, Authorise, Free, registry
  <2>2. CASE LoginInsert(q) \/ DropSession(q) \/ SaveFails(q) \/ Denied(q)
    <3>1. stored' = stored
      BY <2>2, FailureUndone DEF Inv, TypeOK, LoginInsert, DropSession, Denied, registry
    <3> QED
      BY <2>2, <3>1, AgreesUnchanged
      DEF LoginInsert, DropSession, SaveFails, Denied, Free, registry
  <2>3. CASE AnswerRefused(q)
    <3>1. lock # NULL => alias'[lock] = alias[lock]
      BY <2>3 DEF AnswerRefused, Return, Inv, TypeOK, Locked
    <3> QED
      BY <2>3, <3>1, AgreesUnchanged DEF AnswerRefused, registry
  <2>4. CASE \E a \in Alias : Switch(q, a) \/ DeleteRefused(q, a)
    BY <2>4, AgreesUnchanged DEF Switch, DeleteRefused, Free, registry
  <2> QED
    BY <1>4, <2>1, <2>2, <2>3, <2>4, CreateAgrees, UpdateAgrees, DeleteAgrees,
       ApplyAgrees DEF Handler
<1>5. CASE UNCHANGED vars
  BY <1>5, AgreesUnchanged DEF vars
<1> QED
  BY <1>1, <1>2, <1>3, <1>4, <1>5 DEF Next

(* Whenever Server.mu is free the alias list and the settings the server   *)
(* works with are those of the environment and the file, each alias once:  *)
(* createCluster, updateCluster and deleteCluster in any order, with write *)
(* failures, and with crashes between the file and the maps.               *)
THEOREM RegistryShowsFile == Spec => []RegistryAgrees
<1>1. Init => Agrees
  BY DEF Init, Agrees, Distinct
<1>2. Inv /\ Agrees => RegistryAgrees
  <2> SUFFICES ASSUME Inv, Agrees, Free PROVE RegistryAgrees
    BY DEF RegistryAgrees
  <2>1. disk \in Seq(Entry) /\ Distinct(disk) /\ stored = disk /\ Shown(disk)
    BY DEF Inv, TypeOK, Agrees, Free
  <2> QED
    BY <2>1, ListDistinct DEF RegistryAgrees, Shown, List
<1> QED
  BY <1>1, <1>2, AlwaysInv, NextAgrees, PTL DEF Spec

-----------------------------------------------------------------------------
(* The directory.  A session identifier is one login's until it ends, so a *)
(* login never takes over a session: the identifier is fresh when it is    *)
(* drawn (login, between its two critical sections) and nobody else's.     *)

Fresh ==
    /\ \A s \in Session : sessions[s] # NULL => s \in used
    /\ \A q \in Request : pc[q] = "login" => /\ sid[q] \in used
                                             /\ sessions[sid[q]] = NULL
    /\ \A p, q \in Request :
          pc[p] = "login" /\ pc[q] = "login" /\ sid[p] = sid[q] => p = q

DirectoryInv == Inv /\ Agrees /\ Fresh

LEMMA FreshKept ==
    ASSUME Fresh, UNCHANGED used,
           \A s \in Session : sessions'[s] # NULL => sessions[s] # NULL,
           \A q \in Request : pc'[q] = "login" => pc[q] = "login" /\ sid'[q] = sid[q],
           \A q \in Request : pc[q] = "login" => sid[q] \in Session
    PROVE  Fresh'
BY DEF Fresh

LEMMA NextFresh == Inv /\ Fresh /\ [Next]_vars => Fresh'
<1> SUFFICES ASSUME Inv, Fresh, [Next]_vars PROVE Fresh'
  OBVIOUS
<1>0. /\ sessions \in [Session -> SessionData \cup {NULL}]
      /\ pc \in [Request -> Pc] /\ sid \in [Request -> Session \cup {NULL}]
      /\ \A q \in Request : pc[q] # "idle" => sid[q] \in Session
      /\ \A q \in Request : pc[q] = "login" => sid[q] \in Session
  BY DEF Inv, TypeOK, Bound
<1>1. CASE Open
  BY <1>0, <1>1, FreshKept DEF Open, request
<1>2. CASE Crash
  BY <1>2 DEF Crash, Fresh, NoSessions
<1>3. ASSUME NEW s \in Session, Expire(s)
      PROVE  Fresh'
  BY <1>0, <1>3, FreshKept DEF Expire, request
<1>4. ASSUME NEW q \in Request, NEW s \in Session, LoginRead(q, s)
      PROVE  Fresh'
  <2>1. /\ s \notin used /\ used' = used \cup {s} /\ sessions' = sessions
        /\ pc'[q] = "login" /\ sid'[q] = s
        /\ \A p \in Request : p # q => pc'[p] = pc[p] /\ sid'[p] = sid[p]
    BY <1>0, <1>4 DEF LoginRead, Enter
  <2>2. sessions[s] = NULL
    BY <2>1 DEF Fresh
  <2> QED
    BY <2>1, <2>2 DEF Fresh
<1>5. ASSUME NEW q \in Request, LoginInsert(q)
      PROVE  Fresh'
  <2>1. /\ pc[q] = "login" /\ used' = used /\ sid[q] \in Session
        /\ \A s \in Session : s # sid[q] => sessions'[s] = sessions[s]
        /\ pc'[q] = "idle"
        /\ \A p \in Request : p # q => pc'[p] = pc[p] /\ sid'[p] = sid[p]
    BY <1>0, <1>5 DEF LoginInsert, Return
  <2>2. \A s \in Session : sessions'[s] # NULL => s \in used
    BY <2>1 DEF Fresh
  <2>3. ASSUME NEW p \in Request, pc'[p] = "login"
        PROVE  /\ p # q /\ pc[p] = "login" /\ sid'[p] = sid[p] /\ sid[p] # sid[q]
               /\ sid'[p] \in used /\ sessions'[sid'[p]] = NULL
    BY <1>0, <2>1, <2>3 DEF Fresh
  <2> QED
    BY <2>1, <2>2, <2>3 DEF Fresh
<1>6. ASSUME NEW q \in Request, UNCHANGED <<sessions, used>>,
             \E p \in Pc \ {"login"} : \E s, a : Enter(q, p, s, a)
      PROVE  Fresh'
  BY <1>0, <1>6, FreshKept DEF Enter
<1>7. ASSUME NEW q \in Request, UNCHANGED used, Return(q),
             \A s \in Session : sessions'[s] # NULL => sessions[s] # NULL
      PROVE  Fresh'
  BY <1>0, <1>7, FreshKept DEF Return
<1>p. {"authed", "apply", "refused"} \subseteq Pc \ {"login"}
  BY DEF Pc
<1>8. ASSUME NEW q \in Request, Handler(q)
      PROVE  Fresh'
  <2>1. CASE \E s \in Session : LoginRead(q, s) \/ Authorise(q, s)
    BY <1>4, <1>6, <1>p, <2>1 DEF Authorise
  <2>2. CASE LoginInsert(q)
    BY <1>5, <2>2
  <2>3. CASE DropSession(q) \/ AnswerRefused(q) \/ SaveFails(q) \/ Denied(q) \/ Apply(q)
    BY <1>0, <1>7, <2>3 DEF DropSession, AnswerRefused, SaveFails, Denied, Apply
  <2>4. CASE \E a \in Alias : Switch(q, a)
    BY <1>0, <1>7, <2>4 DEF Switch
  <2>5. CASE \E a \in Alias : CreateCluster(q, a) \/ UpdateCluster(q, a) \/ DeleteCluster(q, a)
    BY <1>6, <1>p, <2>5 DEF CreateCluster, UpdateCluster, DeleteCluster, Persist
  <2>6. CASE \E a \in Alias : DeleteRefused(q, a)
    BY <1>6, <1>p, <2>6 DEF DeleteRefused
  <2> QED
    BY <1>8, <2>1, <2>2, <2>3, <2>4, <2>5, <2>6 DEF Handler
<1>9. CASE UNCHANGED vars
  BY <1>0, <1>9, FreshKept DEF vars
<1> QED
  BY <1>1, <1>2, <1>3, <1>8, <1>9 DEF Next

(* What is promised holds of every state the handlers pass through.        *)
LEMMA DirectoryAlways == Spec => []DirectoryInv
<1>1. Init => Agrees /\ Fresh
  BY DEF Init, Agrees, Distinct, Fresh, NoSessions
<1> QED
  BY <1>1, AlwaysInv, NextAgrees, NextFresh, PTL DEF Spec, DirectoryInv

(* One cluster of the directory changes, to what the new file has of it.   *)
LEMMA FileChanges ==
    ASSUME NEW d \in Seq(Entry), NEW e \in Seq(Entry), NEW a \in Platform,
           Distinct(d), OneChange(d, e, a)
    PROVE  /\ Loaded(e) = [Loaded(d) EXCEPT ![a] = Loaded(e)[a]]
           /\ Distinct(e)
<1>1. Distinct(e) /\ \A b \in Alias : b # a => Loaded(e)[b] = Loaded(d)[b]
  BY CreatedShows, UpdatedShows, DeletedShows DEF OneChange
<1>2. /\ Loaded(d) = [b \in Alias |-> Loaded(d)[b]]
      /\ Loaded(e) = [b \in Alias |-> Loaded(e)[b]]
  BY DEF Loaded
<1> HIDE DEF Loaded
<1> QED
  BY <1>1, <1>2

LEMMA PersistBecomes ==
    ASSUME Inv, Agrees, NEW q \in Request, NEW a \in Platform, Free,
           NEW e \in Seq(Entry), Persist(q, a, e), OneChange(stored, e, a)
    PROVE  Atomic!Becomes(a, Loaded(e)[a])
<1>1. /\ stored = disk /\ disk \in Seq(Entry) /\ Distinct(disk)
      /\ disk' = e /\ sessions' = sessions
  BY DEF Inv, TypeOK, Agrees, Free, Persist
<1>2. Loaded(e) = [Loaded(disk) EXCEPT ![a] = Loaded(e)[a]]
  BY <1>1, FileChanges
<1>3. Loaded(disk)' = Loaded(e)
  BY <1>1
<1>4. UNCHANGED [s \in Session |-> At(s)]
  BY <1>1 DEF At
<1> QED
  BY <1>2, <1>3, <1>4 DEF Atomic!Becomes

LEMMA CreateRefines ==
    ASSUME Inv, Agrees, NEW q \in Request, NEW a \in Alias, CreateCluster(q, a)
    PROVE  Atomic!Create(a)
<1> DEFINE x == [alias |-> a, version |-> 1]
           e == Append(stored, x)
<1>1. /\ stored \in Seq(Entry) /\ stored = disk /\ Distinct(disk)
      /\ a \in Platform /\ a \notin Env /\ x \in Entry
  BY DEF Inv, TypeOK, CreateCluster, Entry, Agrees, Free, Platform
<1>2. /\ e \in Seq(Entry) /\ Len(stored) + 1 \in 1..Len(e)
      /\ e[Len(stored) + 1] = x /\ x.alias = a /\ x.version = 1
  <2>1. Len(stored) \in Nat /\ x.alias = a /\ x.version = 1
    BY <1>1
  <2> HIDE DEF x
  <2> QED
    BY <1>1, <2>1, AppendAt
<1>3. ~Has(stored, a) /\ Free /\ Persist(q, a, e)
  BY DEF CreateCluster, IsStored, Has
<1>4. Created(stored, e, a)
  BY <1>3 DEF Created
<1> HIDE DEF e, x
<1>5. Distinct(e) /\ Loaded(stored)[a] = NULL
  BY <1>1, <1>2, <1>4, CreatedShows
<1>6. Loaded(e)[a] = 1
  BY <1>2, <1>5, LoadedAt
<1>7. Atomic!Becomes(a, 1)
  BY <1>1, <1>2, <1>3, <1>4, <1>6, PersistBecomes DEF OneChange
<1> QED
  BY <1>1, <1>5, <1>7 DEF Atomic!Create, Atomic!Exists

LEMMA UpdateRefines ==
    ASSUME Inv, Agrees, NEW q \in Request, NEW a \in Alias, UpdateCluster(q, a)
    PROVE  Atomic!Edit(a)
<1> DEFINE k == StoredIndex(a)
           v == stored[k].version + 1
           x == [alias |-> a, version |-> v]
           e == [stored EXCEPT ![k] = x]
<1>1. /\ stored \in Seq(Entry) /\ stored = disk /\ Distinct(stored)
      /\ a \in Platform /\ a \notin Env /\ Free
  BY DEF Inv, TypeOK, UpdateCluster, Agrees, Free, Platform
<1>2. k \in 1..Len(stored) /\ stored[k] \in Entry /\ stored[k].alias = a
  BY <1>1, StoredAt DEF UpdateCluster
<1>3. v \in Nat /\ [stored[k] EXCEPT !.version = @ + 1] = x
  BY <1>2 DEF Entry
<1>4. Persist(q, a, e)
  BY <1>3 DEF UpdateCluster
<1>5. x \in Entry /\ x.version = v /\ x.alias = a
  BY <1>1, <1>3 DEF Entry
<1>6. e \in Seq(Entry) /\ k \in 1..Len(e) /\ e[k] = x
  <2> HIDE DEF x, k
  <2> QED
    BY <1>1, <1>2, <1>5
<1>7. Updated(stored, e, a)
  <2> HIDE DEF k, v
  <2> QED
    BY <1>2, <1>3 DEF Updated
<1>8. Loaded(stored)[a] = stored[k].version
  <2> HIDE DEF k
  <2> QED
    BY <1>1, <1>2, LoadedAt
<1> HIDE DEF e, x, k
<1>9. Distinct(e) /\ Loaded(stored)[a] # NULL
  BY <1>1, <1>6, <1>7, UpdatedShows
<1>10. Loaded(e)[a] = v
  BY <1>5, <1>6, <1>9, LoadedAt
<1>11. v = Loaded(disk)[a] + 1
  BY <1>1, <1>8
<1>12. Atomic!Becomes(a, v)
  BY <1>1, <1>4, <1>6, <1>7, <1>10, PersistBecomes DEF OneChange
<1> QED
  BY <1>1, <1>9, <1>11, <1>12 DEF Atomic!Edit, Atomic!Exists

LEMMA DeleteRefines ==
    ASSUME Inv, Agrees, NEW q \in Request, NEW a \in Alias, DeleteCluster(q, a)
    PROVE  Atomic!Delete(a)
<1> DEFINE k == StoredIndex(a)
           e == RemoveAt(stored, k)
<1>1. /\ stored \in Seq(Entry) /\ stored = disk /\ Distinct(stored)
      /\ a \in Platform /\ a \notin Env /\ Free /\ Persist(q, a, e)
      /\ clusters[a] # NULL /\ clusters = Loaded(disk)
  BY DEF Inv, TypeOK, DeleteCluster, Agrees, Free, Platform, Shown
<1>2. k \in 1..Len(stored) /\ stored[k].alias = a
  BY <1>1, StoredAt DEF DeleteCluster
<1> HIDE DEF k
<1>3. e \in Seq(Entry)
  BY <1>1, <1>2, RemoveAtType
<1>4. Deleted(stored, e, a)
  BY <1>2 DEF Deleted
<1> HIDE DEF e
<1>5. Distinct(e) /\ ~Has(e, a)
  BY <1>1, <1>3, <1>4, DeletedShows
<1>6. Loaded(e)[a] = NULL
  BY <1>1, <1>3, <1>5, LoadedAt
<1>7. Atomic!Becomes(a, NULL)
  BY <1>1, <1>3, <1>4, <1>6, PersistBecomes DEF OneChange
<1>8. Atomic!Deserted(a)
  <2> SUFFICES ASSUME NEW s \in Session
               PROVE  At(s) # a
    BY DEF Atomic!Deserted
  <2>1. a # NULL
    BY NullAssumption
  <2> QED
    BY <2>1 DEF At, DeleteCluster, InUse, InSession
<1> QED
  BY <1>1, <1>7, <1>8 DEF Atomic!Delete, Atomic!Exists

(* One session's cluster changes.                                          *)
LEMMA SessionGoes ==
    ASSUME NEW s \in Session, NEW a, disk' = disk,
           \A t \in Session : t # s => sessions'[t] = sessions[t],
           At(s)' = a
    PROVE  Atomic!Goes(s, a)
<1>1. Loaded(disk)' = Loaded(disk)
  OBVIOUS
<1>2. \A t \in Session : t # s => At(t)' = At(t)
  BY DEF At
<1> QED
  BY <1>1, <1>2 DEF Atomic!Goes

(* Nothing happens in the directory.                                       *)
LEMMA SameDirectory ==
    ASSUME disk' = disk, \A s \in Session : At(s)' = At(s)
    PROVE  UNCHANGED Atomic!vars
BY DEF Atomic!vars

LEMMA SessionRefines ==
    ASSUME DirectoryInv, NEW q \in Request
    PROVE  /\ LoginInsert(q) => Atomic!Next
           /\ DropSession(q) => Atomic!Next \/ UNCHANGED Atomic!vars
           /\ \A a \in Alias : Switch(q, a) => Atomic!Next \/ UNCHANGED Atomic!vars
<1>0. /\ sessions \in [Session -> SessionData \cup {NULL}]
      /\ \A t \in Session : sessions[t] # NULL => sessions[t].active \in Alias
      /\ pc[q] # "idle" => sid[q] \in Session /\ alias[q] \in Alias
      /\ NULL \notin Alias /\ NULL \notin SessionData
  BY NullAssumption DEF DirectoryInv, Inv, TypeOK, Bound, SessionData
<1>1. ASSUME LoginInsert(q)
      PROVE  Atomic!Next
  <2>0. PICK s \in Session : s = sid[q]
    BY <1>0, <1>1 DEF LoginInsert
  <2>1. /\ s \in Session /\ sessions[s] = NULL /\ disk' = disk
        /\ alias[q] \in Env /\ alias[q] \in Alias
        /\ sessions' = [sessions EXCEPT ![s] = [active |-> alias[q], expired |-> FALSE]]
    BY <1>0, <1>1, <2>0 DEF LoginInsert, DirectoryInv, Inv, Bound, Fresh, registry
  <2>2. sessions'[s] = [active |-> alias[q], expired |-> FALSE] /\ sessions'[s] # NULL
        /\ sessions'[s].active = alias[q]
        /\ \A t \in Session : t # s => sessions'[t] = sessions[t]
    <3>1. [active |-> alias[q], expired |-> FALSE] \in SessionData
      BY <2>1 DEF SessionData
    <3> QED
      BY <1>0, <2>1, <3>1
  <2>3. At(s) = NULL /\ At(s)' = alias[q]
    BY <2>1, <2>2 DEF At
  <2>4. Atomic!Goes(s, alias[q])
    BY <2>1, <2>2, <2>3, SessionGoes
  <2>5. Atomic!LogIn(s, alias[q])
    BY <2>1, <2>3, <2>4 DEF Atomic!LogIn
  <2> QED
    BY <2>1, <2>5 DEF Atomic!Next
<1>2. ASSUME DropSession(q)
      PROVE  Atomic!Next \/ UNCHANGED Atomic!vars
  <2>0. PICK s \in Session : s = sid[q]
    BY <1>0, <1>2 DEF DropSession
  <2>1. /\ s \in Session /\ disk' = disk /\ sessions'[s] = NULL
        /\ \A t \in Session : t # s => sessions'[t] = sessions[t]
    BY <1>0, <1>2, <2>0 DEF DropSession, registry
  <2>2. At(s)' = NULL
    BY <2>1 DEF At
  <2>3. CASE At(s) = NULL
    <3>1. \A t \in Session : At(t)' = At(t)
      BY <2>1, <2>2, <2>3 DEF At
    <3> QED
      BY <2>1, <3>1, SameDirectory
  <2>4. CASE At(s) # NULL
    <3>1. Atomic!LogOut(s)
      BY <2>1, <2>2, <2>4, SessionGoes DEF Atomic!LogOut
    <3> QED
      BY <2>1, <3>1 DEF Atomic!Next
  <2> QED
    BY <2>3, <2>4
<1>3. ASSUME NEW a \in Alias, Switch(q, a)
      PROVE  Atomic!Next \/ UNCHANGED Atomic!vars
  <2>0. PICK s \in Session : s = sid[q]
    BY <1>0, <1>3 DEF Switch
  <2>1. /\ s \in Session /\ disk' = disk /\ clusters[a] # NULL /\ clusters = Loaded(disk)
        /\ sessions' = IF sessions[s] = NULL THEN sessions
                       ELSE [sessions EXCEPT ![s].active = a]
    BY <1>0, <1>3, <2>0 DEF Switch, registry, DirectoryInv, Agrees, Free, Shown
  <2>2. CASE sessions[s] = NULL
    <3>1. \A t \in Session : At(t)' = At(t)
      BY <2>1, <2>2 DEF At
    <3> QED
      BY <2>1, <3>1, SameDirectory
  <2>3. CASE sessions[s] # NULL
    <3>1. /\ sessions'[s] # NULL /\ sessions'[s].active = a
          /\ \A t \in Session : t # s => sessions'[t] = sessions[t]
      <4>1. sessions[s] \in SessionData
        BY <1>0, <2>1, <2>3
      <4>2. [sessions[s] EXCEPT !.active = a] \in SessionData
        BY <4>1 DEF SessionData
      <4>3. sessions'[s] = [sessions[s] EXCEPT !.active = a]
        BY <1>0, <2>1, <2>3
      <4>4. sessions'[s].active = a
        BY <4>1, <4>3 DEF SessionData
      <4>5. \A t \in Session : t # s => sessions'[t] = sessions[t]
        BY <1>0, <2>1, <2>3
      <4> QED
        BY <1>0, <4>2, <4>3, <4>4, <4>5
    <3>2. At(s)' = a /\ At(s) # NULL
      BY <1>0, <2>1, <2>3, <3>1 DEF At
    <3>3. Atomic!Switch(s, a)
      BY <2>1, <3>1, <3>2, SessionGoes DEF Atomic!Switch, Atomic!Exists
    <3> QED
      BY <2>1, <3>3 DEF Atomic!Next
  <2> QED
    BY <2>2, <2>3
<1> QED
  BY <1>1, <1>2, <1>3

LEMMA NextDirectory == DirectoryInv /\ [Next]_vars => [Atomic!Next]_Atomic!vars
<1> SUFFICES ASSUME DirectoryInv, [Next]_vars
             PROVE  Atomic!Next \/ UNCHANGED Atomic!vars
  OBVIOUS
<1> USE DEF DirectoryInv
<1>0. ASSUME UNCHANGED <<disk, sessions>>
      PROVE  UNCHANGED Atomic!vars
  BY <1>0, SameDirectory DEF At
<1>1. CASE Open
  BY <1>0, <1>1 DEF Open
<1>2. CASE Crash
  <2>1. disk' = disk /\ \A s \in Session : At(s)' = NULL
    BY <1>2 DEF Crash, NoSessions, At
  <2>2. Loaded(disk)' = Loaded(disk)
    BY <2>1
  <2>3. Atomic!Restart
    BY <2>1, <2>2 DEF Atomic!Restart, Atomic!Nobody
  <2> QED
    BY <2>3 DEF Atomic!Next
<1>3. ASSUME NEW s \in Session, Expire(s)
      PROVE  UNCHANGED Atomic!vars
  <2>1. /\ disk' = disk /\ sessions[s] \in SessionData /\ sessions[s] # NULL
        /\ sessions' = [sessions EXCEPT ![s].expired = TRUE]
        /\ sessions \in [Session -> SessionData \cup {NULL}]
    BY <1>3 DEF Expire, registry, Inv, TypeOK
  <2>2. /\ sessions'[s] \in SessionData /\ sessions'[s].active = sessions[s].active
        /\ \A t \in Session : t # s => sessions'[t] = sessions[t]
    BY <2>1 DEF SessionData
  <2>3. \A t \in Session : At(t)' = At(t)
    BY <2>1, <2>2, NullAssumption DEF At
  <2> QED
    BY <2>1, <2>3, SameDirectory
<1>4. ASSUME NEW q \in Request, Handler(q)
      PROVE  Atomic!Next \/ UNCHANGED Atomic!vars
  <2>1. CASE \E s \in Session : LoginRead(q, s) \/ Authorise(q, s)
    BY <1>0, <2>1 DEF LoginRead, Authorise, registry
  <2>2. CASE SaveFails(q) \/ Denied(q) \/ AnswerRefused(q) \/ Apply(q)
    BY <1>0, <2>2 DEF SaveFails, Denied, AnswerRefused, Apply, registry
  <2>3. CASE \E a \in Alias : DeleteRefused(q, a)
    BY <1>0, <2>3 DEF DeleteRefused, registry
  <2>4. ASSUME NEW a \in Alias, CreateCluster(q, a) \/ UpdateCluster(q, a) \/ DeleteCluster(q, a)
        PROVE  Atomic!Next
    BY <2>4, CreateRefines, UpdateRefines, DeleteRefines DEF Atomic!Next
  <2>5. CASE LoginInsert(q) \/ DropSession(q) \/ \E a \in Alias : Switch(q, a)
    BY <2>5, SessionRefines
  <2> QED
    BY <1>4, <2>1, <2>2, <2>3, <2>4, <2>5 DEF Handler
<1>5. CASE UNCHANGED vars
  BY <1>0, <1>5 DEF vars
<1> QED
  BY <1>1, <1>2, <1>3, <1>4, <1>5 DEF Next

(* The registry implements the directory: whatever handlers, failed writes *)
(* and crashes do in which order, every cluster request takes effect at    *)
(* once or not at all (createCluster, updateCluster, deleteCluster, login, *)
(* switchCluster, logout).                                                 *)
THEOREM RegistryImplementsDirectory == Spec => Directory
<1>1. Init => Atomic!Init
  <2> SUFFICES ASSUME Init PROVE Atomic!Init
    OBVIOUS
  <2>1. Loaded(disk) = [a \in Alias |-> IF a \in Env THEN 0 ELSE NULL]
    BY DEF Init, Loaded
  <2>2. [s \in Session |-> At(s)] = [s \in Session |-> NULL]
    BY DEF Init, NoSessions, At
  <2> QED
    BY <2>1, <2>2 DEF Atomic!Init, Atomic!Nobody
<1> QED
  BY <1>1, NextDirectory, DirectoryAlways, PTL DEF Spec, Directory, Atomic!Spec
=============================================================================
