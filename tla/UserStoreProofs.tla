-------------------------- MODULE UserStoreProofs --------------------------
(***************************************************************************)
(* Proofs about UserStore for every set of users and requests and every    *)
(* bound.                                                                  *)
(***************************************************************************)
EXTENDS UserStore, FiniteSetTheorems, SequenceTheorems, TLAPS

Accounts == [User -> Account \cup {NULL}]

(* The part of TypeOK the users depend on, and: a change waiting to be     *)
(* saved is in the memory of a running process.                            *)
UsersOK ==
    /\ users \in Accounts
    /\ disk # NULL => disk.users \in Accounts
    /\ lock # NULL => up

AdminInv == UsersOK /\ ActiveAdminRemains

LEMMA SomeAdmin ==
    \A us : activeAdmins(us) # {} <=> \E u \in User : Active(us[u])
BY DEF activeAdmins

LEMMA BootstrapOK ==
    /\ Bootstrap \in Accounts
    /\ activeAdmins(Bootstrap) # {}
<1> DEFINE a == [role |-> "admin", disabled |-> FALSE]
<1>1. a \in Account /\ a.role = "admin" /\ ~a.disabled
  BY DEF Account, Role
<1>2. Bootstrap = [NoUsers EXCEPT ![Root] = a] /\ NoUsers \in [User -> {NULL}]
  BY DEF Bootstrap, NoUsers
<1> HIDE DEF a
<1>3. Bootstrap \in Accounts /\ Bootstrap[Root] = a
  BY <1>1, <1>2, RootAssumption DEF Accounts
<1>4. a # NULL
  BY <1>1, NullAssumption
<1> QED
  BY <1>1, <1>3, <1>4, RootAssumption DEF activeAdmins, Active

(* What one allowed update does to the set of active administrators.       *)
LEMMA UpdateKeepsAdmin ==
    ASSUME users \in Accounts, activeAdmins(users) # {},
           NEW q \in Request, NEW t \in User, NEW role \in NewRole,
           NEW state \in NewState, NEW st \in {state, "keep"},
           users[t] # NULL, ~Refused(q, t, role, state),
           users' = [users EXCEPT ![t] = Changed(users[t], role, st)]
    PROVE  users' \in Accounts /\ activeAdmins(users') # {}
<1> DEFINE a == users[t]
           b == Changed(a, role, st)
<1>1. a \in Account
  BY DEF Accounts
<1>2. b \in Account
  BY <1>1, Zenon DEF Changed, Account, NewRole, NewState
<1>3. b # NULL
  BY <1>2, NullAssumption
<1>4. users' \in Accounts
  BY <1>2 DEF Accounts
<1>5. /\ users'[t] = b
      /\ \A u \in User \ {t} : users'[u] = users[u]
  BY DEF Accounts
<1>6. CASE Demotes(role, state) /\ Active(a)
  <2>1. Cardinality(activeAdmins(users)) # 1
    BY <1>6 DEF Refused
  <2>2. activeAdmins(users) # {t}
    BY <2>1, FS_Singleton
  <2>3. PICK u \in User \ {t} : Active(users[u])
    BY <2>2 DEF activeAdmins
  <2>4. Active(users'[u])
    BY <1>5, <2>3
  <2> QED
    BY <1>4, <2>4 DEF activeAdmins
<1>7. CASE ~Active(a)
  <2>1. PICK u \in User \ {t} : Active(users[u])
    BY <1>7 DEF activeAdmins
  <2>2. Active(users'[u])
    BY <1>5, <2>1
  <2> QED
    BY <1>4, <2>2 DEF activeAdmins
<1>8. CASE Active(a) /\ ~Demotes(role, state)
  <2>1. role \in {"", "admin"} /\ st # "disable"
    BY <1>8 DEF Demotes
  <2>2. b.role = "admin"
    BY <1>8, <2>1 DEF Changed, Active
  <2>3. ~b.disabled
    BY <1>8, <2>1, Zenon DEF Changed, Active
  <2>4. Active(b)
    BY <1>3, <2>2, <2>3 DEF Active
  <2> QED
    BY <1>4, <1>5, <2>4 DEF activeAdmins
<1> QED
  BY <1>4, <1>6, <1>7, <1>8

LEMMA InitAdmin == Init => AdminInv
BY DEF Init, AdminInv, UsersOK, ActiveAdminRemains, Accounts, NoUsers

LEMMA NextAdmin == AdminInv /\ [Next]_vars => AdminInv'
<1> SUFFICES ASSUME AdminInv, [Next]_vars
             PROVE  AdminInv'
  OBVIOUS
<1> USE DEF AdminInv
<1>1. CASE Open
  <2>1. CASE disk = NULL
    <3>1. users' = Bootstrap /\ disk'.users = Bootstrap /\ lock' = lock /\ up'
      BY <1>1, <2>1 DEF Open
    <3> QED
      BY <3>1, BootstrapOK DEF UsersOK, ActiveAdminRemains, activeAdmins
  <2>2. CASE disk # NULL
    BY <1>1, <2>2 DEF Open, UsersOK, ActiveAdminRemains, activeAdmins
  <2> QED
    BY <2>1, <2>2
<1>2. CASE Crash
  BY <1>2 DEF Crash, UsersOK, ActiveAdminRemains, activeAdmins, Accounts, NoUsers
<1>3. ASSUME NEW q \in Request, Handler(q)
      PROVE  AdminInv'
  <2>1. CASE users' = users /\ disk' = disk /\ up' = up /\ (lock' # NULL => up)
    BY <2>1 DEF UsersOK, ActiveAdminRemains, activeAdmins
  <2>2. CASE (\E u \in User : Authorise(q, u)) \/ OtherRequest(q) \/ Reject(q)
    BY <2>1, <2>2 DEF Authorise, OtherRequest, Reject, UsersOK
  <2>3. CASE AddAudit(q) \/ SaveFails(q)
    BY <2>1, <2>3 DEF AddAudit, SaveFails, Free, UsersOK
  <2>4. CASE Save(q)
    <3>1. up /\ disk'.users = users /\ users' = users /\ up' = up
      BY <2>4, NullAssumption DEF Save, UsersOK
    <3>2. lock' = NULL
      BY <2>4 DEF Save
    <3> QED
      BY <3>1, <3>2 DEF UsersOK, ActiveAdminRemains, activeAdmins
  <2>5. ASSUME NEW t \in User, NEW role \in Role, CreateUser(q, t, role)
        PROVE  AdminInv'
    <3> DEFINE a == [role |-> role, disabled |-> FALSE]
    <3>1. a \in Account
      BY DEF Account
    <3>2. /\ up /\ up' = up /\ disk' = disk /\ users[t] = NULL
          /\ users' = [users EXCEPT ![t] = a]
      BY <2>5 DEF CreateUser, Free
    <3> HIDE DEF a
    <3>3. users' \in Accounts
      BY <3>1, <3>2 DEF UsersOK, Accounts
    <3>4. PICK u \in User : Active(users[u])
      BY <3>2 DEF ActiveAdminRemains, activeAdmins
    <3>5. users'[u] = users[u]
      BY <3>2, <3>4 DEF UsersOK, Accounts, Active
    <3>6. activeAdmins(users') # {}
      BY <3>4, <3>5 DEF activeAdmins
    <3> QED
      BY <3>2, <3>3, <3>6 DEF UsersOK, ActiveAdminRemains, activeAdmins
  <2>6. ASSUME NEW t \in User, NEW role \in NewRole, NEW state \in NewState,
               NEW password \in NewPassword,
               \/ UpdateHalf(q, t, role, state, password)
               \/ UpdateUser(q, t, role, state, password)
        PROVE  AdminInv'
    <3>1. /\ up /\ up' = up /\ disk' = disk
          /\ users[t] # NULL /\ ~Refused(q, t, role, state)
          /\ \E st \in {state, "keep"} :
                users' = [users EXCEPT ![t] = Changed(users[t], role, st)]
      BY <2>6 DEF UpdateHalf, UpdateUser, Free
    <3>2. users' \in Accounts /\ activeAdmins(users') # {}
      BY <3>1, UpdateKeepsAdmin, SomeAdmin DEF UsersOK, ActiveAdminRemains
    <3> QED
      BY <3>1, <3>2 DEF UsersOK, ActiveAdminRemains, activeAdmins
  <2> QED
    BY <1>3, <2>2, <2>3, <2>4, <2>5, <2>6 DEF Handler, Update
<1>4. CASE UNCHANGED vars
  BY <1>4 DEF vars, UsersOK, ActiveAdminRemains, activeAdmins
<1> QED
  BY <1>1, <1>2, <1>3, <1>4 DEF Next

(* Whoever demotes or disables whom, concurrently and across failed saves  *)
(* and crashes, an active administrator remains in memory and on disk.     *)
THEOREM AdminAlwaysRemains == Spec => []ActiveAdminRemains
<1>1. AdminInv => ActiveAdminRemains
  BY DEF AdminInv
<1> QED
  BY <1>1, InitAdmin, NextAdmin, PTL DEF Spec

-----------------------------------------------------------------------------
(* The audit log.  Its records are numbered, so a log is known by its last *)
(* number; what a process starts from is what the file tells.              *)

LEMMA LastOfType ==
    ASSUME NEW n \in Nat
    PROVE  /\ LastOf(n) \in Seq(Nat) /\ Latest(LastOf(n)) = n
           /\ Len(LastOf(n)) = IF n < MaxAudits THEN n ELSE MaxAudits
           /\ \A i \in 1..Len(LastOf(n)) : LastOf(n)[i] = n - Len(LastOf(n)) + i
<1> DEFINE k == IF n < MaxAudits THEN n ELSE MaxAudits
           s == LastOf(n)
<1>1. k \in Nat /\ k <= n /\ (n > 0 => k > 0)
  BY BoundAssumption
<1>2. s = [i \in 1..k |-> n - k + i]
  BY DEF LastOf
<1> HIDE DEF k, s
<1>3. \A i \in 1..k : n - k + i \in Nat
  BY <1>1
<1>4. s \in Seq(Nat) /\ Len(s) = k /\ \A i \in 1..k : s[i] = n - k + i
  BY <1>1, <1>2, <1>3
<1>5. Latest(s) = n
  <2>1. CASE n = 0
    <3>1. Len(s) = 0
      BY <1>1, <1>4, <2>1
    <3> QED
      BY <1>4, <2>1, <3>1 DEF Latest
  <2>2. CASE n > 0
    <3>1. s # <<>> /\ k \in 1..k /\ n - k + k = n
      BY <1>1, <1>4, <2>2
    <3> QED
      BY <1>4, <3>1 DEF Latest
  <2> QED
    BY <2>1, <2>2
<1> QED
  BY <1>4, <1>5 DEF s, k

LEMMA LastOfZero == LastOf(0) = <<>>
<1>1. LastOf(0) \in Seq(Nat) /\ Len(LastOf(0)) = 0
  BY LastOfType, BoundAssumption
<1> QED
  BY <1>1

(* AddAudit: the next record, and as many before it as fit.                *)
LEMMA KeepsLatestRecords ==
    ASSUME NEW n \in Nat
    PROVE  Keep(Append(LastOf(n), n + 1)) = LastOf(n + 1)
<1> DEFINE s == LastOf(n)
           t == Append(s, n + 1)
           u == LastOf(n + 1)
           k == Len(s)
<1>1. /\ s \in Seq(Nat) /\ k \in Nat /\ k = (IF n < MaxAudits THEN n ELSE MaxAudits)
      /\ \A i \in 1..k : s[i] = n - k + i
  BY LastOfType
<1>2. /\ u \in Seq(Nat)
      /\ Len(u) = (IF n + 1 < MaxAudits THEN n + 1 ELSE MaxAudits)
      /\ \A i \in 1..Len(u) : u[i] = (n + 1) - Len(u) + i
  BY LastOfType
<1>3. MaxAudits \in Nat /\ MaxAudits >= 1
  BY BoundAssumption
<1> HIDE DEF s, u
<1>4. /\ t \in Seq(Nat) /\ Len(t) = k + 1 /\ t[k + 1] = n + 1
      /\ \A i \in 1..k : t[i] = s[i]
  BY <1>1
<1> HIDE DEF t, k
<1>5. \A i \in 1..(k + 1) : t[i] = n - k + i
  <2>1. k \in Nat /\ t[k + 1] = n - k + (k + 1)
    BY <1>1, <1>4
  <2>2. \A i \in 1..k : t[i] = n - k + i
    BY <1>1, <1>4
  <2>3. \A i \in 1..(k + 1) : i \in 1..k \/ i = k + 1
    BY <2>1
  <2> QED
    BY <2>1, <2>2, <2>3
<1>6. CASE n < MaxAudits
  <2>1. Keep(t) = t /\ Len(u) = k + 1
    BY <1>1, <1>2, <1>3, <1>4, <1>6 DEF Keep
  <2>2. \A i \in 1..(k + 1) : t[i] = u[i]
    BY <1>1, <1>2, <1>5, <1>6, <2>1
  <2>3. t = u
    BY <1>2, <1>4, <2>1, <2>2
  <2> QED
    BY <2>1, <2>3 DEF t, s, u
<1>7. CASE ~ n < MaxAudits
  <2>1. k = MaxAudits /\ Len(u) = k
    BY <1>1, <1>2, <1>3, <1>7
  <2>2. Keep(t) = SubSeq(t, 2, k + 1)
    BY <1>1, <1>4, <2>1 DEF Keep
  <2>3. /\ SubSeq(t, 2, k + 1) \in Seq(Nat) /\ Len(SubSeq(t, 2, k + 1)) = k
        /\ \A i \in 1..k : SubSeq(t, 2, k + 1)[i] = t[i + 1]
    <3>1. /\ k \in Nat /\ k >= 1 /\ k + 1 \in Int
          /\ \A i \in 2..(k + 1) : t[i] \in Nat
      BY <1>1, <1>3, <1>4, <2>1
    <3>2. /\ SubSeq(t, 2, k + 1) \in Seq(Nat)
          /\ Len(SubSeq(t, 2, k + 1)) = IF 2 <= k + 1 THEN (k + 1) - 2 + 1 ELSE 0
          /\ \A i \in 1..((k + 1) - 2 + 1) : SubSeq(t, 2, k + 1)[i] = t[2 + i - 1]
      BY <3>1, SubSeqProperties
    <3>3. (k + 1) - 2 + 1 = k /\ 2 <= k + 1 /\ \A i \in 1..k : 2 + i - 1 = i + 1
      BY <3>1
    <3> QED
      BY <3>2, <3>3
  <2>4. ASSUME NEW i \in 1..k
        PROVE  i + 1 \in 1..(k + 1) /\ t[i + 1] = n - k + (i + 1)
    <3>1. PICK j \in 1..(k + 1) : j = i + 1
      BY <1>1
    <3>2. t[j] = n - k + j
      BY <1>5
    <3> QED
      BY <3>1, <3>2
  <2>5. ASSUME NEW i \in 1..k
        PROVE  SubSeq(t, 2, k + 1)[i] = u[i]
    <3>1. i \in 1..Len(u) /\ u[i] = (n + 1) - k + i
      BY <1>2, <2>1
    <3>2. SubSeq(t, 2, k + 1)[i] = n - k + (i + 1)
      BY <2>3, <2>4
    <3>3. i \in Nat /\ k \in Nat
      BY <1>1
    <3> QED
      BY <3>1, <3>2, <3>3
  <2>6. SubSeq(t, 2, k + 1) = u
    BY <1>2, <2>1, <2>3, <2>5
  <2> QED
    BY <2>2, <2>6 DEF t, s, u
<1> QED
  BY <1>6, <1>7

-----------------------------------------------------------------------------
(* The file and the memory.  The file is a whole document, and only a save *)
(* under way, failed or skipped sets it apart from the memory.             *)

Document(d) == d = NULL \/ d = [users |-> d.users, audits |-> d.audits]

FileInv ==
    /\ written \in Nat /\ Document(disk)
    /\ disk # NULL => disk.audits \in Seq(Nat)
    /\ MemoryOnDisk /\ AuditTrail

LEMMA InitFile == Init => FileInv
BY LastOfZero DEF Init, FileInv, Document, MemoryOnDisk, AuditTrail, Free

LEMMA NextFile == FileInv /\ UsersOK /\ [Next]_vars => FileInv'
<1> SUFFICES ASSUME FileInv, UsersOK, [Next]_vars
             PROVE  FileInv'
  OBVIOUS
<1> USE DEF FileInv
<1>1. CASE Open
  <2>1. CASE disk = NULL
    <3>1. /\ disk' = [users |-> Bootstrap, audits |-> <<>>]
          /\ users' = Bootstrap /\ audits' = <<>> /\ written' = 0
      BY <1>1, <2>1 DEF Open, Latest
    <3>2. disk'.audits = <<>> /\ Latest(<<>>) = 0 /\ <<>> \in Seq(Nat)
      BY <3>1 DEF Latest
    <3> QED
      BY <3>1, <3>2, LastOfZero DEF Document, MemoryOnDisk, AuditTrail
  <2>2. CASE disk # NULL
    <3>1. /\ disk' = disk /\ users' = disk.users /\ audits' = disk.audits
          /\ written' = Latest(disk.audits)
      BY <1>1, <2>2 DEF Open
    <3>2. disk.audits = LastOf(Latest(disk.audits))
          /\ disk = [users |-> disk.users, audits |-> disk.audits]
      BY <2>2 DEF AuditTrail, Document
    <3>3. Latest(disk.audits) \in Nat
      BY <2>2 DEF Latest
    <3> QED
      BY <3>1, <3>2, <3>3 DEF Document, MemoryOnDisk, AuditTrail
  <2> QED
    BY <2>1, <2>2
<1>2. CASE Crash
  BY <1>2, LastOfZero DEF Crash, Document, MemoryOnDisk, AuditTrail, Free
<1>3. ASSUME NEW q \in Request, Handler(q)
      PROVE  FileInv'
  <2>1. ASSUME UNCHANGED <<audits, written, disk>>
        PROVE  written' \in Nat /\ Document(disk)' /\ AuditTrail'
    BY <2>1 DEF Document, AuditTrail
  <2>2. CASE UNCHANGED <<up, users, audits, written, disk, lock, unsaved>>
    BY <2>1, <2>2 DEF MemoryOnDisk, Free
  <2>3. CASE \/ \E u \in User : Authorise(q, u)
             \/ OtherRequest(q) \/ Reject(q)
    BY <2>2, <2>3 DEF Authorise, OtherRequest, Reject
  <2>4. ASSUME UNCHANGED <<audits, written, disk>>, lock' # NULL \/ unsaved'
        PROVE  FileInv'
    BY <2>1, <2>4 DEF MemoryOnDisk, Free
  <2>5. CASE SaveFails(q)
    BY <2>4, <2>5 DEF SaveFails
  <2>6. ASSUME NEW t \in User, NEW role \in Role, CreateUser(q, t, role)
        PROVE  FileInv'
    BY <2>4, <2>6, NullAssumption DEF CreateUser
  <2>7. ASSUME NEW t \in User, NEW role \in NewRole, NEW state \in NewState,
               NEW password \in NewPassword,
               UpdateUser(q, t, role, state, password)
        PROVE  FileInv'
    BY <2>4, <2>7, NullAssumption DEF UpdateUser
  <2>8. ASSUME NEW t \in User, NEW role \in NewRole, NEW state \in NewState,
               NEW password \in NewPassword,
               UpdateHalf(q, t, role, state, password)
        PROVE  FileInv'
    <3>1. UNCHANGED <<up, audits, written, disk, lock>>
          /\ unsaved' = (unsaved \/ users' # users)
      BY <2>8 DEF UpdateHalf
    <3>2. CASE users' = users
      BY <2>1, <3>1, <3>2 DEF MemoryOnDisk, Free
    <3>3. CASE users' # users
      BY <2>4, <3>1, <3>3
    <3> QED
      BY <3>2, <3>3
  <2>9. CASE AddAudit(q)
    <3>1. /\ audits' = Keep(Append(audits, written + 1)) /\ written' = written + 1
          /\ lock' = q /\ disk' = disk
      BY <2>9 DEF AddAudit
    <3>2. audits' = LastOf(written')
      BY <3>1, KeepsLatestRecords DEF AuditTrail
    <3> QED
      BY <3>1, <3>2, NullAssumption DEF AuditTrail, MemoryOnDisk, Free, Document
  <2>10. CASE Save(q)
    <3>1. /\ disk' = [users |-> users, audits |-> audits]
          /\ UNCHANGED <<users, audits, written>>
      BY <2>10 DEF Save
    <3>2. disk'.audits = audits /\ disk'.users = users
      BY <3>1
    <3>3. Latest(audits) = written /\ audits \in Seq(Nat)
      BY LastOfType DEF AuditTrail
    <3> QED
      BY <3>1, <3>2, <3>3 DEF AuditTrail, MemoryOnDisk, Document
  <2> QED
    BY <1>3, <2>3, <2>5, <2>6, <2>7, <2>8, <2>9, <2>10 DEF Handler, Update
<1>4. CASE UNCHANGED vars
  BY <1>4 DEF vars, MemoryOnDisk, AuditTrail, Document, Free
<1> QED
  BY <1>1, <1>2, <1>3, <1>4 DEF Next
LEMMA NextAdminFile == AdminInv /\ FileInv /\ [Next]_vars => FileInv'
BY NextFile DEF AdminInv

(* Accounts, file and audit trail keep their invariant through every       *)
(* interleaving of handlers, failed saves and crashes (Store.mu).          *)
THEOREM FileAlways == Spec => [](AdminInv /\ FileInv)
BY InitAdmin, InitFile, NextAdmin, NextAdminFile, PTL DEF Spec

(* What was acknowledged survives a crash: between requests, and unless a  *)
(* save failed or an update stopped half way, console.json holds what the  *)
(* memory holds (Store.saveLocked under Store.mu).                         *)
THEOREM AcknowledgedIsSaved == Spec => []MemoryOnDisk
<1>1. FileInv => MemoryOnDisk
  BY DEF FileInv
<1> QED
  BY <1>1, FileAlways, PTL

(* Memory and file hold the latest MaxAudits records of their log, in      *)
(* order and without a gap, for every MaxAudits and number of records      *)
(* (AddAudit).                                                             *)
THEOREM AuditNeverGaps == Spec => []AuditTrail
<1>1. FileInv => AuditTrail
  BY DEF FileInv
<1> QED
  BY <1>1, FileAlways, PTL

-----------------------------------------------------------------------------
RequestsOK ==
    /\ up \in BOOLEAN /\ unsaved \in BOOLEAN
    /\ lock \in Request \cup {NULL}
    /\ pc \in [Request -> Pc]
    /\ actor \in [Request -> User \cup {NULL}]
    /\ faults \in 0..MaxFault

LEMMA NextRequests == RequestsOK /\ [Next]_vars => RequestsOK'
<1> SUFFICES ASSUME RequestsOK, [Next]_vars PROVE RequestsOK'
  OBVIOUS
<1> USE DEF RequestsOK
<1>0. {"idle", "authed", "saving", "audit", "auditing"} \subseteq Pc
  BY DEF Pc
<1>1. Fault => faults' \in 0..MaxFault
  BY BoundAssumption DEF Fault
<1>2. CASE Open
  BY <1>2 DEF Open
<1>3. CASE Crash
  BY <1>0, <1>1, <1>3 DEF Crash
<1>4. ASSUME NEW q \in Request, Handler(q)
      PROVE  RequestsOK'
  <2>1. Return(q) => pc' \in [Request -> Pc] /\ actor' \in [Request -> User \cup {NULL}]
    BY <1>0 DEF Return
  <2>2. ASSUME NEW u \in User, Authorise(q, u)
        PROVE  RequestsOK'
    BY <1>0, <2>2 DEF Authorise
  <2>3. CASE OtherRequest(q) \/ AddAudit(q)
    BY <1>0, <2>3 DEF OtherRequest, AddAudit
  <2>4. CASE Reject(q)
    BY <2>1, <2>4 DEF Reject
  <2>5. CASE SaveFails(q)
    BY <1>1, <2>1, <2>5 DEF SaveFails
  <2>6. CASE Save(q)
    <3>1. pc' \in [Request -> Pc] /\ actor' \in [Request -> User \cup {NULL}]
      BY <1>0, <2>1, <2>6 DEF Save
    <3> QED
      BY <2>6, <3>1 DEF Save
  <2>7. ASSUME NEW t \in User, NEW role \in Role, CreateUser(q, t, role)
        PROVE  RequestsOK'
    BY <1>0, <2>7 DEF CreateUser
  <2>8. ASSUME NEW t \in User, NEW role \in NewRole, NEW state \in NewState,
               NEW password \in NewPassword,
               UpdateUser(q, t, role, state, password)
        PROVE  RequestsOK'
    BY <1>0, <2>8 DEF UpdateUser
  <2>9. ASSUME NEW t \in User, NEW role \in NewRole, NEW state \in NewState,
               NEW password \in NewPassword,
               UpdateHalf(q, t, role, state, password)
        PROVE  RequestsOK'
    <3>1. unsaved' = (unsaved \/ users' # users)
      BY <2>9 DEF UpdateHalf
    <3>2. unsaved' \in BOOLEAN
      BY <3>1, Zenon
    <3> QED
      BY <2>1, <2>9, <3>2 DEF UpdateHalf
  <2> QED
    BY <1>4, <2>2, <2>3, <2>4, <2>5, <2>6, <2>7, <2>8, <2>9 DEF Handler, Update
<1>5. CASE UNCHANGED vars
  BY <1>5 DEF vars
<1> QED
  BY <1>2, <1>3, <1>4, <1>5 DEF Next

(* Every variable keeps its type; the half-applied update too leaves a     *)
(* valid account.                                                          *)
THEOREM UsersTyped == Spec => []TypeOK
<1>1. Init => RequestsOK
  <2> SUFFICES ASSUME Init PROVE RequestsOK
    OBVIOUS
  <2>1. up \in BOOLEAN /\ unsaved \in BOOLEAN
    BY DEF Init
  <2>2. /\ lock \in Request \cup {NULL} /\ pc \in [Request -> Pc]
        /\ actor \in [Request -> User \cup {NULL}] /\ faults \in 0..MaxFault
    BY BoundAssumption DEF Init, Pc
  <2> QED
    BY <2>1, <2>2 DEF RequestsOK
<1>2. AdminInv /\ FileInv /\ RequestsOK => TypeOK
  <2> SUFFICES ASSUME AdminInv, FileInv, RequestsOK PROVE TypeOK
    OBVIOUS
  <2>1. audits \in Seq(Nat) /\ written \in Nat
    BY LastOfType DEF FileInv, AuditTrail
  <2> QED
    BY <2>1 DEF AdminInv, UsersOK, Accounts, FileInv, RequestsOK, TypeOK
<1> QED
  BY <1>1, <1>2, FileAlways, NextRequests, PTL DEF Spec
=============================================================================
