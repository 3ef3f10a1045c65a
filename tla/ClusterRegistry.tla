--------------------------- MODULE ClusterRegistry ---------------------------
(***************************************************************************)
(* Clusters and sessions of the console server: the maps Server.clusters,  *)
(* Server.aliases and Server.sessions under Server.mu, and the platform    *)
(* cluster store (internal/clusterconfig) with its file.                   *)
(*                                                                         *)
(* Clusters named by the environment come first and cannot be changed;     *)
(* administrators add, edit and delete platform clusters, each change      *)
(* under Server.mu: checked, written to the file, then applied to the      *)
(* maps, with a crash possible between the last two.  A login reads the    *)
(* default cluster and inserts its session under two separate locks, and a *)
(* request keeps the session it was authorised with while others switch,   *)
(* log out and delete.                                                     *)
(*                                                                         *)
(* Aliases stand for their case-folded, trimmed form; a version stands for *)
(* a cluster's address and credentials.                                    *)
(***************************************************************************)
EXTENDS Integers, Sequences

CONSTANTS
    NULL,
    Alias,
    EnvSeq,     \* the environment's clusters, in order
    Session,    \* session identifiers (random, never reused)
    Request,
    MaxVersion, \* bound: edits of a cluster
    MaxCrash    \* bound

Env == {EnvSeq[i] : i \in DOMAIN EnvSeq}
Platform == Alias \ Env

(* There is one at least, and config.Load refuses a repeated alias.        *)
ASSUME EnvAssumption ==
    /\ EnvSeq \in Seq(Alias) /\ EnvSeq # <<>>
    /\ \A i, j \in 1..Len(EnvSeq) : EnvSeq[i] = EnvSeq[j] => i = j
ASSUME BoundAssumption == MaxVersion \in Nat /\ MaxCrash \in Nat

Entry == [alias : Platform, version : Nat]
SessionData == [active : Alias, expired : BOOLEAN]
Pc == {"idle", "login", "authed", "apply", "refused"}

ASSUME NullAssumption ==
    /\ NULL \notin Nat /\ NULL \notin Alias
    /\ NULL \notin SessionData /\ NULL \notin Request

VARIABLES
    up,
    clusters,   \* Server.clusters: the version each alias is reached by
    aliases,    \* Server.aliases
    stored,     \* clusterconfig.Store.data, in memory
    disk,       \* platform-clusters.json
    sessions,   \* Server.sessions
    used,       \* session identifiers given out by this process
    lock,       \* the request that holds Server.mu across a file write
    pc, sid, alias,  \* per request: handler position, session, cluster
    crashes

vars == <<up, clusters, aliases, stored, disk, sessions, used, lock, pc, sid,
          alias, crashes>>
registry == <<clusters, aliases, stored, disk>>
request == <<pc, sid, alias>>

NoSessions == [s \in Session |-> NULL]

TypeOK ==
    /\ up \in BOOLEAN
    /\ clusters \in [Alias -> Nat \cup {NULL}]
    /\ aliases \in Seq(Alias)
    /\ stored \in Seq(Entry) /\ disk \in Seq(Entry)
    /\ sessions \in [Session -> SessionData \cup {NULL}]
    /\ used \subseteq Session
    /\ lock \in Request \cup {NULL}
    /\ pc \in [Request -> Pc]
    /\ sid \in [Request -> Session \cup {NULL}]
    /\ alias \in [Request -> Alias \cup {NULL}]
    /\ crashes \in 0..MaxCrash

-----------------------------------------------------------------------------
\* mutant: what comes after it goes with it
RemoveFrom(s, k) == SubSeq(s, 1, k - 1)

(* Helpers: s[:k-1] + s[k+1:], and lookups by alias.                       *)
RemoveAt(s, k) ==
    [i \in 1..(Len(s) - 1) |-> IF i < k THEN s[i] ELSE s[i + 1]]

Names(s) == [i \in 1..Len(s) |-> s[i].alias]
Index(s, a) == CHOOSE i \in 1..Len(s) : s[i] = a
IsStored(a) == \E i \in 1..Len(stored) : stored[i].alias = a
StoredIndex(a) == Index(Names(stored), a)

(* main: environment clusters, then the file's, into New.                  *)
Loaded(entries) ==
    [a \in Alias |->
        IF a \in Env THEN 0
        ELSE IF \E i \in 1..Len(entries) : entries[i].alias = a
             THEN entries[Index(Names(entries), a)].version ELSE NULL]

Init ==
    /\ up = FALSE
    /\ clusters = [a \in Alias |-> NULL]
    /\ aliases = <<>>
    /\ stored = <<>> /\ disk = <<>>
    /\ sessions = NoSessions
    /\ used = {}
    /\ lock = NULL
    /\ pc = [q \in Request |-> "idle"]
    /\ sid = [q \in Request |-> NULL]
    /\ alias = [q \in Request |-> NULL]
    /\ crashes = 0

Open ==
    /\ ~up
    /\ up' = TRUE
    /\ stored' = disk
    /\ clusters' = Loaded(disk)
    /\ aliases' = EnvSeq \o Names(disk)
    /\ UNCHANGED <<disk, sessions, used, lock, request, crashes>>

Crash ==
    /\ up /\ crashes < MaxCrash
    /\ up' = FALSE
    /\ crashes' = crashes + 1
    /\ clusters' = [a \in Alias |-> NULL] /\ aliases' = <<>> /\ stored' = <<>>
    /\ sessions' = NoSessions /\ used' = {}
    /\ lock' = NULL
    /\ pc' = [q \in Request |-> "idle"]
    /\ sid' = [q \in Request |-> NULL] /\ alias' = [q \in Request |-> NULL]
    /\ UNCHANGED disk

-----------------------------------------------------------------------------
(* Sessions *)

Free == up /\ lock = NULL

Return(q) ==
    /\ pc' = [pc EXCEPT ![q] = "idle"]
    /\ sid' = [sid EXCEPT ![q] = NULL]
    /\ alias' = [alias EXCEPT ![q] = NULL]

Enter(q, p, s, a) ==
    /\ pc' = [pc EXCEPT ![q] = p]
    /\ sid' = [sid EXCEPT ![q] = s]
    /\ alias' = [alias EXCEPT ![q] = a]

(* login, the password accepted: the first alias is read under one lock... *)
LoginRead(q, s) ==
    /\ Free /\ pc[q] = "idle" /\ s \notin used
    /\ used' = used \cup {s}
    /\ Enter(q, "login", s, aliases[1])
    /\ UNCHANGED <<up, registry, sessions, lock, crashes>>

(* ... and the session inserted under the next.                            *)
LoginInsert(q) ==
    /\ Free /\ pc[q] = "login"
    /\ sessions' = [sessions EXCEPT ![sid[q]] =
                      [active |-> alias[q], expired |-> FALSE]]
    /\ Return(q)
    /\ UNCHANGED <<up, registry, used, lock, crashes>>

(* The clock passes the session's ExpiresAt; nothing takes it out.          *)
Expire(s) ==
    /\ sessions[s] # NULL /\ ~sessions[s].expired
    /\ sessions' = [sessions EXCEPT ![s].expired = TRUE]
    /\ UNCHANGED <<up, registry, used, lock, request, crashes>>

(* auth: the request goes on with a copy of its session.  An expired one   *)
(* is refused and stays in the map.                                        *)
Authorise(q, s) ==
    /\ Free /\ pc[q] = "idle"
    /\ sessions[s] # NULL /\ ~sessions[s].expired
    /\ Enter(q, "authed", s, sessions[s].active)
    /\ UNCHANGED <<up, registry, sessions, used, lock, crashes>>

(* logout, or auth finding the account disabled.                           *)
DropSession(q) ==
    /\ Free /\ pc[q] = "authed"
    /\ sessions' = [sessions EXCEPT ![sid[q]] = NULL]
    /\ Return(q)
    /\ UNCHANGED <<up, registry, used, lock, crashes>>

\* mutant: a session already gone comes back
SwitchRevives(q, a) ==
    /\ Free /\ pc[q] = "authed"
    /\ sessions' = [sessions EXCEPT ![sid[q]] = [active |-> a, expired |-> FALSE]]
    /\ Return(q)
    /\ UNCHANGED <<up, registry, used, lock, crashes>>

(* switchCluster looks both up again under the lock; a session gone is 401. *)
Switch(q, a) ==
    /\ Free /\ pc[q] = "authed"
    /\ clusters[a] # NULL
    /\ sessions' = IF sessions[sid[q]] = NULL THEN sessions
                   ELSE [sessions EXCEPT ![sid[q]].active = a]
    /\ Return(q)
    /\ UNCHANGED <<up, registry, used, lock, crashes>>

-----------------------------------------------------------------------------
(* Platform clusters.  Persist: the store's memory and file; Apply: the    *)
(* server's maps, and the lock is released.                                *)

Persist(q, a, entries) ==
    /\ stored' = entries
    /\ disk' = entries
    /\ lock' = q
    /\ Enter(q, "apply", sid[q], a)
    /\ UNCHANGED <<up, clusters, aliases, sessions, used, crashes>>

CreateCluster(q, a) ==
    /\ Free /\ pc[q] = "authed"
    /\ clusters[a] = NULL /\ ~IsStored(a) /\ a \in Platform
    /\ Persist(q, a, Append(stored, [alias |-> a, version |-> 1]))

UpdateCluster(q, a) ==
    /\ Free /\ pc[q] = "authed"
    /\ a \in Platform /\ clusters[a] # NULL /\ IsStored(a)
    /\ stored[StoredIndex(a)].version < MaxVersion
    /\ Persist(q, a, [stored EXCEPT ![StoredIndex(a)].version = @ + 1])

InSession(a) == \E s \in Session : sessions[s] # NULL /\ sessions[s].active = a

\* mutant: only sessions that have not expired count
InSessionLive(a) ==
    \E s \in Session : /\ sessions[s] # NULL /\ sessions[s].active = a
                       /\ ~sessions[s].expired

(* Every session in the map counts, the expired ones too.                  *)
InUse(a) == InSession(a)

DeleteCluster(q, a) ==
    /\ Free /\ pc[q] = "authed"
    /\ a \in Platform /\ clusters[a] # NULL /\ IsStored(a)
    /\ ~InUse(a)
    /\ Persist(q, a, RemoveAt(stored, StoredIndex(a)))

(* 409 "cluster is active in a user session and cannot be deleted"         *)
DeleteRefused(q, a) ==
    /\ Free /\ pc[q] = "authed"
    /\ a \in Platform /\ clusters[a] # NULL
    /\ InUse(a)
    /\ Enter(q, "refused", sid[q], a)
    /\ UNCHANGED <<up, registry, sessions, used, lock, crashes>>

AnswerRefused(q) ==
    /\ up /\ pc[q] = "refused"
    /\ Return(q)
    /\ UNCHANGED <<up, registry, sessions, used, lock, crashes>>

\* mutant: the deleted record comes back at the end
PutBackLast(s, k, item) == Append(s, item)

(* What Delete does when the file cannot be written: the records from the  *)
(* k-th on move up, and the deleted one is back in its place.              *)
PutBack(s, k, item) ==
    [i \in 1..(Len(s) + 1) |->
        IF i < k THEN s[i] ELSE IF i = k THEN item ELSE s[i - 1]]

(* A write that fails: the store has changed its records already, and      *)
(* undoes the change with what it kept of them.                            *)
CreateFails(a) ==
    /\ a \in Platform /\ clusters[a] = NULL /\ ~IsStored(a)
    /\ LET s == Append(stored, [alias |-> a, version |-> 1])
       IN stored' = SubSeq(s, 1, Len(s) - 1)

UpdateFails(a) ==
    /\ a \in Platform /\ clusters[a] # NULL /\ IsStored(a)
    /\ LET k == StoredIndex(a)
           s == [stored EXCEPT ![k].version = @ + 1]
       IN stored' = [s EXCEPT ![k] = stored[k]]

DeleteFails(a) ==
    /\ a \in Platform /\ clusters[a] # NULL /\ IsStored(a) /\ ~InUse(a)
    /\ LET k == StoredIndex(a)
       IN stored' = PutBack(RemoveAt(stored, k), k, stored[k])

SaveFails(q) ==
    /\ Free /\ pc[q] = "authed"
    /\ \E a \in Alias : CreateFails(a) \/ UpdateFails(a) \/ DeleteFails(a)
    /\ Return(q)
    /\ UNCHANGED <<up, clusters, aliases, disk, sessions, used, lock, crashes>>

(* A request whose input is refused, or that changes none of this.         *)
Denied(q) ==
    /\ Free /\ pc[q] = "authed"
    /\ Return(q)
    /\ UNCHANGED <<up, registry, sessions, used, lock, crashes>>

\* mutant: an edit's version is not looked up
ApplyUnknown(q) ==
    LET a == alias[q]
    IN /\ lock = q
       /\ lock' = NULL
       /\ Return(q)
       /\ clusters' = [clusters EXCEPT ![a] = IF IsStored(a) THEN a ELSE NULL]
       /\ UNCHANGED <<up, aliases, stored, disk, sessions, used, crashes>>

Apply(q) ==
    LET a == alias[q]
    IN /\ lock = q
       /\ lock' = NULL
       /\ Return(q)
       /\ IF IsStored(a)
          THEN /\ clusters' = [clusters EXCEPT ![a] = stored[StoredIndex(a)].version]
               /\ aliases' = IF clusters[a] = NULL THEN Append(aliases, a) ELSE aliases
          ELSE /\ clusters' = [clusters EXCEPT ![a] = NULL]
               /\ aliases' = RemoveAt(aliases, Index(aliases, a))
       /\ UNCHANGED <<up, stored, disk, sessions, used, crashes>>

Handler(q) ==
    \/ \E s \in Session : LoginRead(q, s) \/ Authorise(q, s)
    \/ LoginInsert(q)
    \/ DropSession(q)
    \/ \E a \in Alias : \/ Switch(q, a)
                        \/ CreateCluster(q, a)
                        \/ UpdateCluster(q, a)
                        \/ DeleteCluster(q, a)
                        \/ DeleteRefused(q, a)
    \/ AnswerRefused(q)
    \/ SaveFails(q) \/ Denied(q)
    \/ Apply(q)

Next ==
    \/ Open
    \/ Crash
    \/ \E s \in Session : Expire(s)
    \/ \E q \in Request : Handler(q)

Spec == Init /\ [][Next]_vars

-----------------------------------------------------------------------------
(* Properties *)

(* Every session's active cluster is one the server knows, so the 409      *)
(* "active cluster is no longer available" needs a session that switched   *)
(* away in the meantime: through logins that read the default before a     *)
(* deletion and insert after it, switches racing deletions, and restarts.  *)
ActiveClusterExists ==
    \A s \in Session :
        sessions[s] # NULL => clusters[sessions[s].active] # NULL

(* Whenever Server.mu is free, the alias list is the environment's and     *)
(* then the file's clusters, without repetition, and each is reached with  *)
(* the settings in the file: through failed writes and crashes between the *)
(* file and the maps.                                                      *)
RegistryAgrees ==
    Free => /\ stored = disk
            /\ aliases = EnvSeq \o Names(disk)
            /\ \A i, j \in 1..Len(aliases) : aliases[i] = aliases[j] => i = j
            /\ clusters = Loaded(disk)

(* A session that was dropped is never active again: a switch already      *)
(* authorised when the user logs out does not bring it back.               *)
DroppedStaysDropped ==
    [][\A s \in used \cap used' :
         (sessions[s] = NULL /\ sessions'[s] # NULL)
           => \E q \in Request : pc[q] = "login" /\ sid[q] = s]_vars

(* The file is the directory: a change is made when it is written, whoever *)
(* looks into the maps sees it with Server.mu, and a crash in between has  *)
(* made it all the same.                                                   *)
At(s) == IF sessions[s] = NULL THEN NULL ELSE sessions[s].active

Atomic == INSTANCE ClusterDirectory WITH
    Fixed <- Env, version <- Loaded(disk), at <- [s \in Session |-> At(s)]

(* Handlers that check under one lock, write a file, then change the maps, *)
(* that work on copies of their session and fail or crash between any two  *)
(* steps are together one directory that every request changes at once:    *)
(* one cluster per change, none lost or undone, none deleted under a       *)
(* session, and no session on a cluster that is not there.                 *)
Directory == Atomic!Spec

(* server.go:601, "cluster is active in a user session and cannot be        *)
(* deleted": a session that can still be used has the cluster active.      *)
RefusedOnlyWhenActive ==
    [][\A q \in Request :
         (pc[q] = "authed" /\ pc'[q] = "refused") => InSessionLive(alias'[q])]_vars
=============================================================================
