----------------------------- MODULE MonitorView -----------------------------
(***************************************************************************)
(* The monitor page: fetchMonitor and the cluster selector of the console  *)
(* (internal/server/web/app.js), the handlers monitor and switchCluster    *)
(* (internal/server/server.go), and Client.Monitor                         *)
(* (internal/clickhouse/client.go), which reads the system tables at once  *)
(* and gives up at the first error.                                        *)
(*                                                                         *)
(* The browser runs one continuation at a time.  Between sending a request *)
(* and its answer anything may happen: the user changes the cluster, looks *)
(* elsewhere, asks again, logs out and in; requests overtake each other;   *)
(* another tab of the session changes the cluster, or the snapshots in     *)
(* localStorage, which all tabs share.  A request names no cluster: the    *)
(* server takes the session's.                                             *)
(***************************************************************************)
EXTENDS Integers, FiniteSets

CONSTANTS
    Cluster,
    First,      \* the active cluster of a new session
    NULL,
    MaxFetch,   \* bound: requests with a part still running somewhere
    Queries     \* system tables read for one snapshot, 5 in the code

ASSUME ClusterAssumption == First \in Cluster /\ NULL \notin Cluster
ASSUME BoundAssumption == MaxFetch \in Nat /\ Queries \in Nat \ {0}

Slot == 1..MaxFetch

\* mutant: a channel without room
BufferNone == 0

(* Results that fit into the channel.                                      *)
Buffer == Queries

(* A request for a snapshot: `for' is the cluster the browser asked for,   *)
(* `got' the one it was served from; `running' goroutines have not sent    *)
(* their result, `unread' ones lie in the channel.                *)
Fetch == [at : {"request", "serving", "answer", "heard"},
          for : Cluster, got : Cluster \cup {NULL}, ok : BOOLEAN,
          running : 0..Queries, unread : 0..Queries]

ASSUME AbsentAssumption == NULL \notin Fetch

VARIABLES
    session,    \* server: the session's active cluster
    active,     \* state.activeCluster, NULL from a logout to the next login
    view,       \* state.activeView is the monitor
    visible,    \* the monitor is the section on the page
    loading,    \* state.monitorLoadingCluster
    disabled,   \* the refresh button
    shown,      \* whose snapshot the page shows, NULL for none
    cache,      \* localStorage: per cluster, whose snapshot, NULL for none
    switching,  \* the cluster a change was answered with, NULL for none
    fetch,      \* the requests for snapshots, NULL when all of one is over
    moved,      \* history: the cluster changed since the button was disabled
    behind      \* history: a change the visible page took no notice of

vars == <<session, active, view, visible, loading, disabled, shown, cache,
          switching, fetch, moved, behind>>
page == <<view, visible, loading, disabled, shown, moved>>

TypeOK ==
    /\ session \in Cluster /\ active \in Cluster \cup {NULL}
    /\ view \in BOOLEAN /\ visible \in BOOLEAN /\ disabled \in BOOLEAN
    /\ loading \in Cluster \cup {NULL}
    /\ shown \in Cluster \cup {NULL}
    /\ cache \in [Cluster -> Cluster \cup {NULL}]
    /\ switching \in Cluster \cup {NULL}
    /\ fetch \in [Slot -> Fetch \cup {NULL}]
    /\ moved \in BOOLEAN /\ behind \in BOOLEAN

(* The page of a new session.  A reloaded page begins here as well: what   *)
(* it stored before is what another tab may have stored.                   *)
Init ==
    /\ session = First /\ active = First
    /\ view = FALSE /\ visible = FALSE
    /\ loading = NULL /\ disabled = FALSE
    /\ shown = NULL
    /\ cache = [c \in Cluster |-> NULL]
    /\ switching = NULL
    /\ fetch = [s \in Slot |-> NULL]
    /\ moved = FALSE /\ behind = FALSE

-----------------------------------------------------------------------------
(* loadMonitor, fetchMonitor: up to the request *)

\* mutant: sent before a cluster is known
AskedBlank(c) == [at |-> "request", for |-> NULL, got |-> NULL, ok |-> FALSE,
                  running |-> 0, unread |-> 0]

Asked(c) == [at |-> "request", for |-> c, got |-> NULL, ok |-> FALSE,
             running |-> 0, unread |-> 0]

Joins(c) ==
    /\ loading = c
    /\ UNCHANGED <<loading, disabled, fetch>>

(* Slots are alike: a request takes the first free one.                    *)
Sends(c) ==
    /\ loading # c
    /\ loading' = c
    /\ disabled' = TRUE
    /\ \E s \in Slot : /\ fetch[s] = NULL
                       /\ \A t \in Slot : fetch[t] = NULL => s <= t
                       /\ fetch' = [fetch EXCEPT ![s] = Asked(c)]

FetchMonitor(c) == Joins(c) \/ Sends(c)

(* Whether what is cached is older than monitorCacheTTL is left open.      *)
LoadMonitor(c) ==
    \/ /\ cache[c] = NULL
       /\ FetchMonitor(c)
       /\ UNCHANGED shown
    \/ /\ cache[c] # NULL
       /\ shown' = cache[c]
       /\ FetchMonitor(c) \/ UNCHANGED <<loading, disabled, fetch>>

Unsent == loading' = loading

OpenView ==
    /\ active # NULL
    /\ view' = TRUE /\ visible' = TRUE
    /\ LoadMonitor(active)
    /\ moved' = (moved /\ Unsent)
    /\ behind' = FALSE
    /\ UNCHANGED <<session, active, cache, switching>>

LeaveView ==
    /\ active # NULL /\ visible
    /\ view' = FALSE /\ visible' = FALSE
    /\ behind' = FALSE
    /\ UNCHANGED <<session, active, loading, disabled, shown, cache, switching,
                   fetch, moved>>

Refresh ==
    /\ active # NULL /\ visible /\ ~disabled
    /\ FetchMonitor(active)
    /\ moved' = (moved /\ Unsent)
    /\ UNCHANGED <<session, active, view, visible, shown, cache, switching, behind>>

-----------------------------------------------------------------------------
(* The server: monitor, and Client.Monitor *)

In(s, at) == fetch[s] # NULL /\ fetch[s].at = at
Put(s, f) == fetch' = [fetch EXCEPT ![s] = f]

Serve(s) ==
    /\ In(s, "request")
    /\ Put(s, [fetch[s] EXCEPT !.at = "serving", !.got = session, !.running = Queries])
    /\ UNCHANGED <<session, active, page, cache, switching, behind>>

(* The session is gone (401) or its cluster (409), or the request is lost. *)
Refuse(s) ==
    /\ In(s, "request")
    /\ Put(s, [fetch[s] EXCEPT !.at = "answer"])
    /\ UNCHANGED <<session, active, page, cache, switching, behind>>

(* Once all goroutines have ended the channel does not count, nor the      *)
(* request if it was heard of.                                             *)
Over(f) ==
    IF f.running > 0 THEN f
    ELSE IF f.at = "heard" THEN NULL ELSE [f EXCEPT !.unread = 0]

(* While the handler receives, a result is received when it is sent: the   *)
(* last of good ones makes the answer, the first bad one an error.         *)
Result(s, good) ==
    /\ In(s, "serving")
    /\ LET all == fetch[s].running = 1
       IN Put(s, [fetch[s] EXCEPT !.running = @ - 1,
                                  !.at = IF good /\ ~all THEN @ ELSE "answer",
                                  !.got = IF good THEN @ ELSE NULL,
                                  !.ok = good /\ all])
    /\ UNCHANGED <<session, active, page, cache, switching, behind>>

(* Then the other goroutines send to a channel that nobody reads.          *)
ResultUnread(s) ==
    /\ fetch[s] # NULL /\ fetch[s].at \in {"answer", "heard"}
    /\ fetch[s].running > 0
    /\ fetch[s].unread < Buffer
    /\ Put(s, Over([fetch[s] EXCEPT !.running = @ - 1, !.unread = @ + 1]))
    /\ UNCHANGED <<session, active, page, cache, switching, behind>>

-----------------------------------------------------------------------------
(* fetchMonitor: from the answer on *)

\* mutant: whatever cluster the answer is of
FitsAny(f) == f.for = active

(* Neither the user nor the session has left the cluster.                  *)
Fits(f) == f.for = active /\ f.got = f.for

\* mutant: an error leaves the page as it is
AfterErrorKeeps(f) == shown

(* An error blanks the page of a cluster that has nothing cached: whoever  *)
(* stored it, what is cached is taken for what is shown.                   *)
AfterError(f) == IF f.for = active /\ cache[f.for] = NULL THEN NULL ELSE shown

\* mutant: an answer that is ignored does not get to the flag
FlagAfterIgnores(f) == IF Fits(f) /\ loading = f.for THEN NULL ELSE loading

FlagAfter(f) == IF loading = f.for THEN NULL ELSE loading

\* mutant: the button comes back after an answer, not after an error
ButtonAfterAnswer(f) == IF f.ok /\ f.for = active THEN FALSE ELSE disabled

ButtonAfter(f) == IF f.for = active THEN FALSE ELSE disabled

(* The answer may be lost on the way; the browser may refuse to store the  *)
(* snapshot, which is ignored.                                             *)
Hear(s, arrived) ==
    /\ In(s, "answer")
    /\ LET f == [fetch[s] EXCEPT !.ok = @ /\ arrived]
       IN /\ IF f.ok /\ Fits(f)
             THEN /\ shown' = f.got
                  /\ cache' \in {cache, [cache EXCEPT ![f.for] = f.got]}
             ELSE /\ shown' = IF f.ok THEN shown ELSE AfterError(f)
                  /\ UNCHANGED cache
          /\ loading' = FlagAfter(f)
          /\ disabled' = ButtonAfter(f)
          /\ moved' = (moved /\ disabled')
          /\ behind' = IF f.ok /\ f.for = active THEN visible /\ ~Fits(f) ELSE behind
          /\ Put(s, Over([Asked(First) EXCEPT !.at = "heard",
                      !.running = f.running, !.unread = f.unread]))
    /\ UNCHANGED <<session, active, view, visible, switching>>

-----------------------------------------------------------------------------
(* The cluster selector, and switchCluster *)

(* Until its answer the form's button is disabled, so that one change is   *)
(* under way; the dialog can be closed and the rest of the page used.      *)
SwitchCluster(c) ==
    /\ switching = NULL /\ active \notin {NULL, c}
    /\ session' = c
    /\ switching' = c
    /\ UNCHANGED <<active, page, cache, fetch, behind>>

(* The answer is lost: the page stays with the cluster it had.             *)
SwitchLost ==
    /\ switching # NULL
    /\ switching' = NULL
    /\ UNCHANGED <<session, active, page, cache, fetch, behind>>

(* An answer that comes after a logout sets the cluster all the same.      *)
Switched ==
    /\ switching # NULL
    /\ switching' = NULL
    /\ active' = switching
    /\ IF view THEN LoadMonitor(active')
               ELSE UNCHANGED <<loading, disabled, shown, fetch>>
    /\ moved' = (disabled' /\ Unsent)
    /\ behind' = (visible /\ ~view)
    /\ UNCHANGED <<session, view, visible, cache>>

-----------------------------------------------------------------------------
(* The cluster set without a load: logout, login, an administrator's edit *)

(* state is reset; the page stays as it is behind the login form, a        *)
(* disabled button included.                                               *)
Logout ==
    /\ active # NULL
    /\ active' = NULL /\ view' = FALSE /\ loading' = NULL
    /\ moved' = disabled
    /\ behind' = visible
    /\ UNCHANGED <<session, visible, disabled, shown, cache, switching, fetch>>

Takes(c) ==
    /\ active' = c
    /\ moved' = IF active = c THEN moved ELSE disabled
    /\ behind' = (behind \/ (visible /\ active # c))
    /\ UNCHANGED <<view, visible, loading, disabled, shown, cache, switching, fetch>>

(* After a logout, or after a 401, which shows the form and resets         *)
(* nothing.  A new session has the first cluster; showApp goes on with the *)
(* page it finds and does not load.                                        *)
Login == session' = First /\ Takes(First)

(* After a platform cluster was saved the session is read again.  What the *)
(* answer says was its cluster at some time since: with another tab, any.  *)
Reread(c) == active # c /\ Takes(c) /\ UNCHANGED session

-----------------------------------------------------------------------------
(* Another tab: the same cookie and the same localStorage *)

OtherTab(c) ==
    /\ session # c
    /\ session' = c
    /\ UNCHANGED <<active, page, cache, switching, fetch, behind>>

(* It runs the same code and stores a cluster's own snapshot; no code      *)
(* listens for it.                                                         *)
OtherTabStores(c) ==
    /\ cache[c] # c
    /\ cache' = [cache EXCEPT ![c] = c]
    /\ behind' = (behind \/ (visible /\ c = active /\ cache[c] = NULL))
    /\ UNCHANGED <<session, active, page, switching, fetch>>

-----------------------------------------------------------------------------
User ==
    \/ OpenView \/ LeaveView \/ Refresh
    \/ \E c \in Cluster : SwitchCluster(c)
    \/ Logout \/ Login
    \/ \E c \in Cluster : Reread(c)

Hears(s) == \E arrived \in BOOLEAN : Hear(s, arrived)

Served(s) == Serve(s) \/ (\E good \in BOOLEAN : Result(s, good)) \/ ResultUnread(s)

Next ==
    \/ User
    \/ \E c \in Cluster : OtherTab(c) \/ OtherTabStores(c)
    \/ \E s \in Slot : Served(s) \/ Refuse(s) \/ Hears(s)
    \/ SwitchLost \/ Switched

Spec == Init /\ [][Next]_vars

(* Every request has an end: the queries by the client's deadline, the     *)
(* request by that, and the browser runs its continuations.  For each      *)
(* request it is enough that one of its steps is not put off for ever.     *)
FairSpec ==
    /\ Spec
    /\ \A s \in Slot : WF_vars(Served(s) \/ Hears(s))

-----------------------------------------------------------------------------
(* Properties *)

(* What is kept for a cluster is a snapshot of that cluster, though the    *)
(* server chose the cluster it was taken from (app.js:984, README.md:102). *)
CacheOwn == \A c \in Cluster : cache[c] \in {NULL, c}

InFlight(c) ==
    \E s \in Slot : fetch[s] # NULL /\ fetch[s].at # "heard" /\ fetch[s].for = c

(* The flag that keeps a second request for a cluster from being sent      *)
(* never outlives the first: whatever order requests are answered in, the  *)
(* cluster can be asked for again (app.js:977, 994).                       *)
FlagHasFetch == loading # NULL => InFlight(loading)

(* While the user stays on a cluster the refresh button waits only for a   *)
(* request that is under way (README.md:102, the button always fetches).   *)
(* After a change of the cluster it may wait for nothing: the new cluster  *)
(* is shown from the cache, and the request of the old one leaves the      *)
(* button alone (app.js:995).                                              *)
ButtonReturns == disabled /\ ~moved => InFlight(active)

(* Once nothing is under way for the chosen cluster the monitor shows that *)
(* cluster or nothing, never the one chosen before, unless since its last  *)
(* load the page fell behind: an answer for the cluster was taken from     *)
(* another and ignored, another tab stored the snapshot that was missing,  *)
(* so that an error does not blank the page, or a login or the session     *)
(* read again changed the cluster (app.js:984, 992, 107, 732).             *)
SettledShowsActive ==
    visible /\ ~behind /\ ~InFlight(active) => shown \in {NULL, active}

(* Every request is over some day, its goroutines included: those that end *)
(* after the first error has made the answer find room for their results   *)
(* (client.go:506-524).                                                    *)
FetchesEnd == \A s \in Slot : []<>(fetch[s] = NULL)
=============================================================================
