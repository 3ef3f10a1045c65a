----------------------------- MODULE UserStore -----------------------------
(***************************************************************************)
(* The console's users and audit log: internal/store, with the handlers of *)
(* internal/server that change it.  All of it is one JSON document, kept   *)
(* in memory under Store.mu and rewritten whole (temporary file, rename)   *)
(* by every change.                                                        *)
(*                                                                         *)
(* A request is authorised when it arrives, changes the store later and    *)
(* audits later still, each under its own lock, so requests interleave.    *)
(* Inside the lock the change is in memory before the file is replaced: a  *)
(* crash or a failed write falls between the two.  The temporary file is   *)
(* no state of its own: every save truncates it, and nothing reads it.     *)
(***************************************************************************)
EXTENDS Integers, Sequences, FiniteSets

CONSTANTS
    NULL,
    User,       \* accounts that may ever exist (ids, one name each)
    Root,       \* the bootstrap administrator
    Request,    \* HTTP request goroutines
    MaxAudits,  \* audit records kept: 5000 in the code
    MaxWrites,  \* bound: audit records ever written
    MaxFault    \* bound: failed saves and crashes

ASSUME RootAssumption == Root \in User
ASSUME BoundAssumption ==
    MaxAudits \in Nat \ {0} /\ MaxWrites \in Nat /\ MaxFault \in Nat

Role == {"viewer", "editor", "admin"}
Account == [role : Role, disabled : BOOLEAN]

ASSUME NullAssumption == NULL \notin Account /\ NULL \notin Request

VARIABLES
    up,         \* the process is running
    users,      \* data.Users, in memory
    audits,     \* data.Audits, in memory: records are numbered as written
    written,    \* history: the number of the latest record in memory
    disk,       \* console.json, or NULL before the first save
    lock,       \* the request inside Store.mu with its change unsaved
    pc,         \* per request: where its handler is
    actor,      \* per request: the administrator it was authorised as
    faults,
    unsaved     \* history: memory was changed and the save skipped or failed

vars == <<up, users, audits, written, disk, lock, pc, actor, faults, unsaved>>

Pc == {"idle", "authed", "saving", "audit", "auditing"}
NoUsers == [u \in User |-> NULL]

TypeOK ==
    /\ up \in BOOLEAN
    /\ users \in [User -> Account \cup {NULL}]
    /\ audits \in Seq(Nat)
    /\ written \in Nat
    /\ disk = NULL \/ /\ disk.users \in [User -> Account \cup {NULL}]
                      /\ disk.audits \in Seq(Nat)
    /\ lock \in Request \cup {NULL}
    /\ pc \in [Request -> Pc]
    /\ actor \in [Request -> User \cup {NULL}]
    /\ faults \in 0..MaxFault
    /\ unsaved \in BOOLEAN

Init ==
    /\ up = FALSE
    /\ users = NoUsers
    /\ audits = <<>>
    /\ written = 0
    /\ disk = NULL
    /\ lock = NULL
    /\ pc = [q \in Request |-> "idle"]
    /\ actor = [q \in Request |-> NULL]
    /\ faults = 0
    /\ unsaved = FALSE

Active(a) == a # NULL /\ a.role = "admin" /\ ~a.disabled

\* mutant: a disabled administrator counts
AdminsWithDisabled(us) == {u \in User : us[u] # NULL /\ us[u].role = "admin"}

activeAdmins(us) == {u \in User : Active(us[u])}

-----------------------------------------------------------------------------
Latest(log) == IF log = <<>> THEN 0 ELSE log[Len(log)]

Bootstrap == [NoUsers EXCEPT ![Root] = [role |-> "admin", disabled |-> FALSE]]

(* store.Open: without a file the first administrator is created and saved; *)
(* if that save fails the program exits and nothing has happened.          *)
Open ==
    /\ ~up
    /\ up' = TRUE
    /\ IF disk = NULL
       THEN /\ users' = Bootstrap
            /\ audits' = <<>>
            /\ disk' = [users |-> Bootstrap, audits |-> <<>>]
       ELSE /\ users' = disk.users
            /\ audits' = disk.audits
            /\ UNCHANGED disk
    /\ written' = Latest(audits')
    /\ unsaved' = FALSE
    /\ UNCHANGED <<lock, pc, actor, faults>>

Free == up /\ lock = NULL

(* auth and admin: the account is read again on every request.             *)
Authorise(q, u) ==
    /\ Free /\ pc[q] = "idle"
    /\ Active(users[u])
    /\ pc' = [pc EXCEPT ![q] = "authed"]
    /\ actor' = [actor EXCEPT ![q] = u]
    /\ UNCHANGED <<up, users, audits, written, disk, lock, faults, unsaved>>

(* A login, a query, a cluster switch: the store gets an audit record only. *)
OtherRequest(q) ==
    /\ up /\ pc[q] = "idle"
    /\ pc' = [pc EXCEPT ![q] = "audit"]
    /\ UNCHANGED <<up, users, audits, written, disk, lock, actor, faults, unsaved>>

(* The handler answers with an error, or is done.                          *)
Return(q) ==
    /\ pc' = [pc EXCEPT ![q] = "idle"]
    /\ actor' = [actor EXCEPT ![q] = NULL]

(* CreateUser, once its arguments are valid and the name is free.          *)
CreateUser(q, t, role) ==
    /\ Free /\ pc[q] = "authed"
    /\ users[t] = NULL
    /\ users' = [users EXCEPT ![t] = [role |-> role, disabled |-> FALSE]]
    /\ lock' = q
    /\ pc' = [pc EXCEPT ![q] = "saving"]
    /\ UNCHANGED <<up, audits, written, disk, actor, faults, unsaved>>

(* What PATCH /api/users/{id} may carry; "" and "keep" are absent fields.  *)
NewRole == Role \cup {""}
NewState == {"keep", "enable", "disable"}
NewPassword == {"none", "valid", "short"}

Demotes(role, state) == role \notin {"", "admin"} \/ state = "disable"

\* mutant: an absent role is assigned too
ChangedBlank(a, role, state) == [role |-> role, disabled |-> state = "disable"]

Changed(a, role, state) ==
    [role |-> IF role = "" THEN a.role ELSE role,
     disabled |-> IF state = "keep" THEN a.disabled ELSE state = "disable"]

(* updateUser refuses one's own demotion, UpdateUser the last active       *)
(* administrator's: count = 1 and the target is counted.                   *)
Refused(q, t, role, state) ==
    \/ t = actor[q] /\ Demotes(role, state)
    \/ /\ Demotes(role, state)
       /\ Active(users[t]) /\ Cardinality(activeAdmins(users)) = 1

(* Any error before the first assignment: malformed input, an invalid role *)
(* or password, a name taken, no such user, a change that is Refused.      *)
Reject(q) ==
    /\ Free /\ pc[q] = "authed"
    /\ Return(q)
    /\ UNCHANGED <<up, users, audits, written, disk, lock, faults, unsaved>>

(* The role is assigned before the password is validated: the error leaves *)
(* the new role in memory, and the next save of anything writes it out.    *)
UpdateHalf(q, t, role, state, password) ==
    /\ Free /\ pc[q] = "authed"
    /\ users[t] # NULL /\ ~Refused(q, t, role, state)
    /\ password = "short"
    /\ users' = [users EXCEPT ![t] = Changed(@, role, "keep")]
    /\ unsaved' = (unsaved \/ users' # users)
    /\ Return(q)
    /\ UNCHANGED <<up, audits, written, disk, lock, faults>>

UpdateUser(q, t, role, state, password) ==
    /\ Free /\ pc[q] = "authed"
    /\ users[t] # NULL /\ ~Refused(q, t, role, state)
    /\ password # "short"
    /\ users' = [users EXCEPT ![t] = Changed(@, role, state)]
    /\ lock' = q
    /\ pc' = [pc EXCEPT ![q] = "saving"]
    /\ UNCHANGED <<up, audits, written, disk, actor, faults, unsaved>>

\* mutant: the oldest records are kept
KeepOldest(log) ==
    IF Len(log) > MaxAudits THEN SubSeq(log, 1, MaxAudits) ELSE log

Keep(log) ==
    IF Len(log) > MaxAudits
    THEN SubSeq(log, Len(log) - MaxAudits + 1, Len(log)) ELSE log

AddAudit(q) ==
    /\ Free /\ pc[q] = "audit"
    /\ written < MaxWrites
    /\ written' = written + 1
    /\ audits' = Keep(Append(audits, written + 1))
    /\ lock' = q
    /\ pc' = [pc EXCEPT ![q] = "auditing"]
    /\ UNCHANGED <<up, users, disk, actor, faults, unsaved>>

\* mutant: only the users are written
SaveUsersOnly(q) ==
    /\ lock = q
    /\ disk' = [disk EXCEPT !.users = users]
    /\ lock' = NULL
    /\ unsaved' = FALSE
    /\ IF pc[q] = "saving" THEN pc' = [pc EXCEPT ![q] = "audit"] /\ UNCHANGED actor
                           ELSE Return(q)
    /\ UNCHANGED <<up, users, audits, written, faults>>

(* saveLocked: the rename.  A change goes on to its audit record.          *)
Save(q) ==
    /\ lock = q
    /\ disk' = [users |-> users, audits |-> audits]
    /\ lock' = NULL
    /\ unsaved' = FALSE
    /\ IF pc[q] = "saving" THEN pc' = [pc EXCEPT ![q] = "audit"] /\ UNCHANGED actor
                           ELSE Return(q)
    /\ UNCHANGED <<up, users, audits, written, faults>>

Fault == faults < MaxFault /\ faults' = faults + 1

(* Nothing is rolled back: CreateUser and UpdateUser return an error with  *)
(* the change in memory, AddAudit ignores it.                              *)
SaveFails(q) ==
    /\ lock = q
    /\ Fault
    /\ lock' = NULL
    /\ unsaved' = TRUE
    /\ Return(q)
    /\ UNCHANGED <<up, users, audits, written, disk>>

Crash ==
    /\ up /\ Fault
    /\ up' = FALSE
    /\ users' = NoUsers
    /\ audits' = <<>>
    /\ written' = 0
    /\ lock' = NULL
    /\ pc' = [q \in Request |-> "idle"]
    /\ actor' = [q \in Request |-> NULL]
    /\ UNCHANGED <<disk, unsaved>>

Update(q) ==
    \E t \in User, role \in NewRole, state \in NewState, password \in NewPassword :
        \/ UpdateHalf(q, t, role, state, password)
        \/ UpdateUser(q, t, role, state, password)

Handler(q) ==
    \/ \E u \in User : Authorise(q, u)
    \/ OtherRequest(q)
    \/ \E t \in User, role \in Role : CreateUser(q, t, role)
    \/ Update(q)
    \/ Reject(q)
    \/ AddAudit(q)
    \/ Save(q)
    \/ SaveFails(q)

Next == Open \/ Crash \/ \E q \in Request : Handler(q)

Spec == Init /\ [][Next]_vars

-----------------------------------------------------------------------------
(* Properties *)

(* An active administrator always remains, in memory and in the file a     *)
(* restart would read: through administrators demoting each other at once  *)
(* on stale authorisations, half-applied updates, failed saves and crashes *)
(* (store.go:144, store_test.go).                                          *)
ActiveAdminRemains ==
    /\ up => \E u \in User : Active(users[u])
    /\ disk # NULL => \E u \in User : Active(disk.users[u])

(* Between requests the file holds what memory holds, unless a save failed *)
(* or an update stopped half way: what was acknowledged survives a crash.  *)
MemoryOnDisk ==
    (Free /\ ~unsaved) => disk = [users |-> users, audits |-> audits]

LastOf(n) ==
    LET k == IF n < MaxAudits THEN n ELSE MaxAudits
    IN [i \in 1..k |-> n - k + i]

(* README.md:125: the latest MaxAudits records are kept, in order and with *)
(* none missing, in memory and in the file, by requests that add their     *)
(* records in any order, through failed saves and crashes.                 *)
AuditTrail ==
    /\ audits = LastOf(written)
    /\ disk # NULL => disk.audits = LastOf(Latest(disk.audits))
=============================================================================
