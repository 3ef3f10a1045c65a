------------------------- MODULE MonitorViewProofs -------------------------
(***************************************************************************)
(* Proofs about MonitorView, for any clusters, requests and queries: the   *)
(* types, and the invariants of the page.  That the page settles on the    *)
(* active cluster needs to be said together with what its requests and its *)
(* cache hold on the way there.                                            *)
(***************************************************************************)
EXTENDS MonitorView, TLAPS

(* A request has no result before it is served, and a handler that still   *)
(* receives has results to come.                                           *)
Pending(f) ==
    /\ f.at = "request" => ~f.ok
    /\ f.at = "serving" => f.running > 0

InOrder(f) == f # NULL => f \in Fetch /\ Pending(f)

FetchesOK == \A s \in Slot : fetch[s] # NULL => Pending(fetch[s])

(* A page that is not behind has a cluster, and shows it if it is cached:  *)
(* so an error that finds something cached leaves the right page.          *)
CachedIsShown ==
    visible /\ ~behind => active # NULL /\ (cache[active] # NULL => shown = active)

PageInv ==
    /\ TypeOK
    /\ FetchesOK
    /\ CacheOwn
    /\ CachedIsShown
    /\ FlagHasFetch
    /\ ButtonReturns
    /\ SettledShowsActive

-----------------------------------------------------------------------------
(* The requests *)

LEMMA BlankFetch == NULL \notin Cluster /\ NULL \notin Fetch
BY ClusterAssumption, AbsentAssumption

LEMMA InitPage == Init => PageInv
<1> SUFFICES ASSUME Init PROVE PageInv
  OBVIOUS
<1>1. TypeOK
  BY ClusterAssumption DEF Init, TypeOK
<1> QED
  BY <1>1 DEF Init, PageInv, FetchesOK, CacheOwn, CachedIsShown, FlagHasFetch,
              ButtonReturns, SettledShowsActive

(* A request stays in flight while its slot keeps it.                      *)
LEMMA StaysInFlight ==
    ASSUME TypeOK, NEW c, InFlight(c),
           NEW s \in Slot, NEW f, fetch' = [fetch EXCEPT ![s] = f],
           \/ fetch[s] = NULL \/ fetch[s].at = "heard" \/ fetch[s].for # c
           \/ f # NULL /\ f.at # "heard" /\ f.for = fetch[s].for
    PROVE  InFlight(c)'
<1>1. PICK t \in Slot : fetch[t] # NULL /\ fetch[t].at # "heard" /\ fetch[t].for = c
  BY DEF InFlight
<1>2. CASE t = s
  BY <1>1, <1>2 DEF TypeOK, InFlight
<1>3. CASE t # s
  BY <1>1, <1>3 DEF TypeOK, InFlight
<1> QED
  BY <1>2, <1>3

(* One slot changes, and what it holds afterwards is in order.             *)
LEMMA SlotStep ==
    ASSUME TypeOK, FetchesOK,
           NEW s \in Slot, NEW f \in Fetch \cup {NULL}, fetch' = [fetch EXCEPT ![s] = f],
           f # NULL => Pending(f)
    PROVE  fetch' \in [Slot -> Fetch \cup {NULL}] /\ FetchesOK'
<1>1. fetch' \in [Slot -> Fetch \cup {NULL}]
  BY DEF TypeOK
<1>2. ASSUME NEW t \in Slot, fetch'[t] # NULL
      PROVE  Pending(fetch'[t])
  <2>1. CASE t = s
    BY <1>2, <2>1 DEF TypeOK
  <2>2. CASE t # s
    BY <1>2, <2>2 DEF TypeOK, FetchesOK
  <2> QED
    BY <2>1, <2>2
<1>3. FetchesOK'
  BY <1>2 DEF FetchesOK, Pending
<1> QED
  BY <1>1, <1>3

(* A step of the server: the slot's request is at f afterwards, and still  *)
(* in flight if it was.                                                    *)
Turns(s, f) ==
    /\ fetch[s] # NULL
    /\ fetch' = [fetch EXCEPT ![s] = f]
    /\ UNCHANGED <<session, active, page, cache, switching, behind>>

InFlightStill(e, f) == e.at # "heard" => f # NULL /\ f.at # "heard" /\ f.for = e.for

(* The server's steps leave the page and what it waits for alone.          *)
LEMMA ServerStep ==
    ASSUME PageInv, NEW s \in Slot, NEW f, Turns(s, f),
           InOrder(f), InFlightStill(fetch[s], f)
    PROVE  PageInv'
<1> USE DEF Turns, InFlightStill
<1>0. f \in Fetch \cup {NULL} /\ (f # NULL => Pending(f))
  BY DEF InOrder
<1>1. fetch' \in [Slot -> Fetch \cup {NULL}] /\ FetchesOK'
  BY <1>0, SlotStep DEF PageInv
<1>2. TypeOK'
  BY <1>1 DEF PageInv, TypeOK, page
<1>3. ASSUME NEW c, InFlight(c) PROVE InFlight(c)'
  BY <1>3, StaysInFlight DEF PageInv
<1>4. FlagHasFetch'
  BY <1>3 DEF PageInv, TypeOK, page, FlagHasFetch, InFlight
<1>5. ButtonReturns'
  BY <1>3 DEF PageInv, TypeOK, page, ButtonReturns, InFlight
<1>6. SettledShowsActive'
  BY <1>3 DEF PageInv, TypeOK, page, SettledShowsActive, InFlight
<1>7. CacheOwn' /\ CachedIsShown'
  BY DEF PageInv, page, CacheOwn, CachedIsShown
<1> QED
  BY <1>1, <1>2, <1>4, <1>5, <1>6, <1>7 DEF PageInv

LEMMA ServedPage == ASSUME PageInv, NEW s \in Slot, Served(s) \/ Refuse(s) PROVE PageInv'
<1> DEFINE e == fetch[s]
<1>1. e # NULL => e \in Fetch /\ Pending(e)
  BY DEF PageInv, TypeOK, FetchesOK
<1>2. session \in Cluster
  BY DEF PageInv, TypeOK
<1>3. CASE Serve(s)
  <2> DEFINE f == [e EXCEPT !.at = "serving", !.got = session, !.running = Queries]
  <2>1. Turns(s, f) /\ e # NULL /\ e.at = "request"
    BY <1>3 DEF Serve, In, Put, Turns
  <2> HIDE DEF e
  <2>4. Queries \in 0..Queries /\ Queries > 0
    BY BoundAssumption
  <2>5. f \in Fetch
    BY <1>1, <1>2, <2>1, <2>4 DEF Fetch
  <2>6. f.at = "serving" /\ f.for = e.for /\ f.got = session /\ f.running = Queries
    BY <1>1, <2>1 DEF Fetch
  <2> HIDE DEF f
  <2>7. InOrder(f)
    BY <2>4, <2>5, <2>6 DEF InOrder, Pending
  <2>8. InFlightStill(e, f)
    BY <2>5, <2>6, BlankFetch DEF InFlightStill
  <2> QED
    BY <2>1, <2>7, <2>8, ServerStep DEF e
<1>4. CASE Refuse(s)
  <2> DEFINE f == [e EXCEPT !.at = "answer"]
  <2>1. Turns(s, f) /\ e # NULL /\ e.at = "request"
    BY <1>4 DEF Refuse, In, Put, Turns
  <2> HIDE DEF e
  <2>2. f \in Fetch
    BY <1>1, <2>1 DEF Fetch
  <2>3. f.at = "answer" /\ f.for = e.for /\ f.ok = e.ok
    BY <1>1, <2>1 DEF Fetch
  <2> HIDE DEF f
  <2>4. InOrder(f)
    BY <1>1, <2>1, <2>2, <2>3 DEF InOrder, Pending
  <2>5. InFlightStill(e, f)
    BY <2>2, <2>3, BlankFetch DEF InFlightStill
  <2> QED
    BY <2>1, <2>4, <2>5, ServerStep DEF e
<1>5. ASSUME NEW good \in BOOLEAN, Result(s, good) PROVE PageInv'
  <2> DEFINE all == e.running = 1
             f == [e EXCEPT !.running = @ - 1,
                            !.at = IF good /\ ~all THEN @ ELSE "answer",
                            !.got = IF good THEN @ ELSE NULL,
                            !.ok = good /\ all]
  <2>1. Turns(s, f) /\ e # NULL /\ e.at = "serving"
    BY <1>5 DEF Result, In, Put, Turns
  <2> HIDE DEF e
  <2>2. e.running \in 1..Queries
    BY <1>1, <2>1, BoundAssumption DEF Fetch, Pending
  <2>3. f \in Fetch
    <3>1. /\ e.running - 1 \in 0..Queries
          /\ (IF good THEN e.got ELSE NULL) \in Cluster \cup {NULL}
          /\ (IF good /\ ~all THEN e.at ELSE "answer") \in {"serving", "answer"}
      BY <1>1, <2>1, <2>2, BoundAssumption DEF Fetch
    <3>2. (good /\ all) \in BOOLEAN
      OBVIOUS
    <3> QED
      BY <1>1, <2>1, <3>1, <3>2 DEF Fetch
  <2>4. f.for = e.for /\ f.at \in {"serving", "answer"} /\ f.running = e.running - 1
        /\ (f.at = "serving" => e.running # 1)
    BY <1>1, <2>1 DEF Fetch
  <2> HIDE DEF f
  <2>5. InOrder(f)
    BY <2>2, <2>3, <2>4 DEF InOrder, Pending
  <2>6. InFlightStill(e, f)
    BY <2>3, <2>4, BlankFetch DEF InFlightStill
  <2> QED
    BY <2>1, <2>5, <2>6, ServerStep DEF e
<1>6. CASE ResultUnread(s)
  <2> DEFINE g == [e EXCEPT !.running = @ - 1, !.unread = @ + 1]
             f == Over(g)
  <2>1. /\ Turns(s, f) /\ e # NULL /\ e.at \in {"answer", "heard"}
        /\ e.running > 0 /\ e.unread < Queries
    BY <1>6 DEF ResultUnread, Put, Buffer, Turns
  <2> HIDE DEF e
  <2>2. g \in Fetch
    <3>1. e.running - 1 \in 0..Queries /\ e.unread + 1 \in 0..Queries
      BY <1>1, <2>1, BoundAssumption DEF Fetch
    <3> QED
      BY <1>1, <2>1, <3>1 DEF Fetch
  <2>3. g.at = e.at /\ g.for = e.for /\ g.got = e.got /\ g.ok = e.ok
    BY <1>1, <2>1 DEF Fetch
  <2> HIDE DEF g
  <2>4. \/ f = NULL /\ g.at = "heard"
        \/ f \in Fetch /\ f.at = g.at /\ f.for = g.for /\ f.ok = g.ok
    <3>1. [g EXCEPT !.unread = 0] \in Fetch
      BY <2>2, BoundAssumption DEF Fetch
    <3> QED
      BY <2>2, <3>1 DEF Over, Fetch
  <2> HIDE DEF f
  <2>5. InOrder(f)
    BY <1>1, <2>1, <2>2, <2>3, <2>4 DEF InOrder, Pending
  <2>6. InFlightStill(e, f)
    BY <2>2, <2>3, <2>4, BlankFetch DEF InFlightStill
  <2> QED
    BY <2>1, <2>5, <2>6, ServerStep DEF e
<1> QED
  BY <1>3, <1>4, <1>5, <1>6 DEF Served

-----------------------------------------------------------------------------
(* The page's own steps *)

(* Whether it joins a request or sends one, fetchMonitor leaves the        *)
(* cluster's request in flight under the flag.                             *)
LEMMA Fetching ==
    ASSUME PageInv, NEW c \in Cluster, FetchMonitor(c)
    PROVE  /\ loading' = c /\ disabled' \in BOOLEAN
           /\ fetch' \in [Slot -> Fetch \cup {NULL}] /\ FetchesOK'
           /\ InFlight(c)'
<1>1. CASE Joins(c)
  BY <1>1, BlankFetch
  DEF Joins, PageInv, TypeOK, FlagHasFetch, InFlight, FetchesOK
<1>2. CASE Sends(c)
  <2>1. PICK s \in Slot : fetch[s] = NULL /\ fetch' = [fetch EXCEPT ![s] = Asked(c)]
    BY <1>2 DEF Sends
  <2>2. Asked(c) \in Fetch /\ Pending(Asked(c))
    BY BoundAssumption DEF Asked, Fetch, Pending
  <2>3. fetch' \in [Slot -> Fetch \cup {NULL}] /\ FetchesOK'
    <3> HIDE DEF Asked
    <3> QED
      BY <2>1, <2>2, SlotStep DEF PageInv
  <2>4. fetch'[s] = Asked(c) /\ Asked(c) # NULL
    BY <2>1, <2>2, BlankFetch DEF PageInv, TypeOK
  <2>5. InFlight(c)'
    BY <2>4 DEF InFlight, Asked
  <2> QED
    BY <1>2, <2>3, <2>5 DEF Sends
<1> QED
  BY <1>1, <1>2 DEF FetchMonitor

(* Where the page turns to a cluster it shows it, or asks for it.          *)
LEMMA Loading ==
    ASSUME PageInv, UNCHANGED <<session, cache>>,
           switching' \in Cluster \cup {NULL},
           NEW c \in Cluster, active' = c, LoadMonitor(c),
           view' \in BOOLEAN, visible' \in BOOLEAN, moved' \in BOOLEAN, ~behind',
           behind' \in BOOLEAN,
           \/ c = active /\ moved' = (moved /\ Unsent)
           \/ moved' = (disabled' /\ Unsent)
    PROVE  PageInv'
<1>1. PageInv /\ TypeOK /\ NULL \notin Cluster
  BY BlankFetch DEF PageInv
<1>2. /\ cache[c] = NULL => shown' = shown
      /\ cache[c] # NULL => shown' = c
      /\ cache[c] = NULL => FetchMonitor(c)
  BY <1>1 DEF LoadMonitor, PageInv, CacheOwn
<1>3. shown' \in Cluster \cup {NULL}
  BY <1>1, <1>2 DEF TypeOK
<1>4. CASE FetchMonitor(c)
  <2>1. /\ loading' = c /\ disabled' \in BOOLEAN
        /\ fetch' \in [Slot -> Fetch \cup {NULL}] /\ FetchesOK'
        /\ InFlight(c)'
    BY <1>1, <1>4, Fetching
  <2>2. TypeOK'
    BY <1>1, <1>3, <2>1 DEF TypeOK
  <2>3. FlagHasFetch' /\ ButtonReturns' /\ SettledShowsActive'
    BY <2>1 DEF FlagHasFetch, ButtonReturns, SettledShowsActive, InFlight
  <2>4. CacheOwn' /\ CachedIsShown'
    BY <1>1, <1>2 DEF PageInv, CacheOwn, CachedIsShown
  <2> QED
    BY <2>1, <2>2, <2>3, <2>4 DEF PageInv
<1>5. CASE cache[c] # NULL /\ UNCHANGED <<loading, disabled, fetch>>
  <2>1. TypeOK' /\ FetchesOK' /\ FlagHasFetch'
    BY <1>1, <1>3, <1>5
    DEF PageInv, TypeOK, FetchesOK, FlagHasFetch, InFlight
  <2>2. ButtonReturns'
    BY <1>1, <1>5 DEF PageInv, TypeOK, ButtonReturns, InFlight, Unsent
  <2>3. SettledShowsActive' /\ CacheOwn' /\ CachedIsShown'
    BY <1>1, <1>2, <1>5 DEF PageInv, SettledShowsActive, CacheOwn, CachedIsShown
  <2> QED
    BY <2>1, <2>2, <2>3 DEF PageInv
<1> QED
  BY <1>4, <1>5 DEF LoadMonitor

LEMMA UserPage == ASSUME PageInv, User PROVE PageInv'
<1>0. TypeOK
  BY DEF PageInv
<1>1. CASE OpenView
  <2>1. moved' = (moved /\ Unsent) /\ moved' \in BOOLEAN
    BY <1>0, <1>1 DEF OpenView, TypeOK
  <2>2. /\ active \in Cluster /\ active' = active /\ LoadMonitor(active)
        /\ view' \in BOOLEAN /\ visible' \in BOOLEAN /\ ~behind' /\ behind' \in BOOLEAN
        /\ switching' \in Cluster \cup {NULL} /\ UNCHANGED <<session, cache>>
    BY <1>0, <1>1 DEF OpenView, TypeOK
  <2> QED
    BY <2>1, <2>2, Loading
<1>2. CASE LeaveView
  BY <1>0, <1>2
  DEF LeaveView, PageInv, TypeOK, FetchesOK, CacheOwn, CachedIsShown, FlagHasFetch,
      ButtonReturns, SettledShowsActive, InFlight
<1>3. CASE Refresh
  <2>1. /\ FetchMonitor(active) /\ active \in Cluster
        /\ UNCHANGED <<session, active, view, visible, shown, cache, switching, behind>>
    BY <1>0, <1>3 DEF Refresh, TypeOK
  <2>2. /\ loading' = active /\ disabled' \in BOOLEAN
        /\ fetch' \in [Slot -> Fetch \cup {NULL}] /\ FetchesOK'
        /\ InFlight(active)'
    BY <2>1, Fetching DEF InFlight
  <2>3. moved' \in BOOLEAN
    BY <1>0, <1>3 DEF Refresh, TypeOK
  <2>4. TypeOK'
    BY <1>0, <2>1, <2>2, <2>3 DEF TypeOK
  <2>5. FlagHasFetch' /\ ButtonReturns' /\ SettledShowsActive'
    BY <2>1, <2>2 DEF FlagHasFetch, ButtonReturns, SettledShowsActive, InFlight
  <2>6. CacheOwn' /\ CachedIsShown'
    BY <2>1 DEF PageInv, CacheOwn, CachedIsShown
  <2> QED
    BY <2>2, <2>4, <2>5, <2>6 DEF PageInv
<1>4. ASSUME NEW c \in Cluster, SwitchCluster(c) PROVE PageInv'
  BY <1>0, <1>4
  DEF SwitchCluster, page, PageInv, TypeOK, FetchesOK, CacheOwn, CachedIsShown,
      FlagHasFetch, ButtonReturns, SettledShowsActive, InFlight
<1>5. CASE Logout
  <2>1. ASSUME NEW c, InFlight(c) PROVE InFlight(c)'
    BY <1>5, <2>1 DEF Logout, InFlight
  <2>2. TypeOK' /\ FetchesOK' /\ CacheOwn'
    BY <1>0, <1>5 DEF Logout, PageInv, TypeOK, FetchesOK, CacheOwn
  <2>3. CachedIsShown' /\ FlagHasFetch' /\ ButtonReturns' /\ SettledShowsActive'
    BY <1>5 DEF Logout, CachedIsShown, FlagHasFetch, ButtonReturns, SettledShowsActive
  <2> QED
    BY <2>2, <2>3 DEF PageInv
<1>6. ASSUME NEW c \in Cluster, Takes(c), session' \in Cluster PROVE PageInv'
  <2>1. \A d : InFlight(d) <=> InFlight(d)'
    BY <1>6 DEF Takes, InFlight
  <2>2. TypeOK' /\ FetchesOK' /\ CacheOwn'
    BY <1>0, <1>6 DEF Takes, PageInv, TypeOK, FetchesOK, CacheOwn
  <2>3. FlagHasFetch'
    BY <1>6 DEF Takes, PageInv, FlagHasFetch, InFlight
  <2>4. CASE active = c
    <3>1. UNCHANGED <<active, visible, disabled, shown, cache, fetch, moved>> /\ behind' = behind
      BY <1>0, <1>6, <2>4 DEF Takes, TypeOK
    <3>2. CachedIsShown' /\ ButtonReturns' /\ SettledShowsActive'
      BY <3>1 DEF PageInv, CachedIsShown, ButtonReturns, SettledShowsActive, InFlight
    <3> QED
      BY <2>2, <2>3, <3>2 DEF PageInv
  <2>5. CASE active # c
    <3>1. CachedIsShown' /\ ButtonReturns' /\ SettledShowsActive'
      BY <1>6, <2>5 DEF Takes, CachedIsShown, ButtonReturns, SettledShowsActive
    <3> QED
      BY <2>2, <2>3, <3>1 DEF PageInv
  <2> QED
    BY <2>4, <2>5
<1>7. CASE Login
  BY <1>6, <1>7, ClusterAssumption DEF Login
<1>8. ASSUME NEW c \in Cluster, Reread(c) PROVE PageInv'
  BY <1>0, <1>6, <1>8 DEF Reread, TypeOK
<1> QED
  BY <1>1, <1>2, <1>3, <1>4, <1>5, <1>7, <1>8 DEF User

(* The answer is heard: the flag and the button are given back for its     *)
(* own cluster only, so that no other request was waited for.              *)
LEMMA HearPage ==
    ASSUME PageInv, NEW s \in Slot, NEW arrived \in BOOLEAN, Hear(s, arrived)
    PROVE  PageInv'
<1> DEFINE e == fetch[s]
           f == [e EXCEPT !.ok = @ /\ arrived]
           g == [Asked(First) EXCEPT !.at = "heard", !.running = f.running, !.unread = f.unread]
<1>0. TypeOK /\ FetchesOK /\ NULL \notin Cluster
  BY BlankFetch DEF PageInv
<1>1. e # NULL /\ e.at = "answer" /\ e \in Fetch
  BY <1>0 DEF Hear, In, TypeOK
<1>2. /\ f.for = e.for /\ f.got = e.got /\ f.running = e.running /\ f.unread = e.unread
      /\ (f.ok => e.ok) /\ f.for \in Cluster /\ f.got \in Cluster \cup {NULL}
      /\ f.running \in 0..Queries /\ f.unread \in 0..Queries
  BY <1>1 DEF Fetch
<1>3. /\ IF f.ok /\ Fits(f)
         THEN /\ shown' = f.got
              /\ cache' \in {cache, [cache EXCEPT ![f.for] = f.got]}
         ELSE /\ shown' = IF f.ok THEN shown ELSE AfterError(f)
              /\ UNCHANGED cache
      /\ loading' = FlagAfter(f)
      /\ disabled' = ButtonAfter(f)
      /\ moved' = (moved /\ disabled')
      /\ behind' = IF f.ok /\ f.for = active THEN visible /\ ~Fits(f) ELSE behind
      /\ fetch' = [fetch EXCEPT ![s] = Over(g)]
      /\ UNCHANGED <<session, active, view, visible, switching>>
  BY DEF Hear, Put
<1> HIDE DEF f
<1>4. g \in Fetch /\ Pending(g) /\ g.at = "heard"
  BY <1>2, BoundAssumption, ClusterAssumption DEF Asked, Fetch, Pending
<1> HIDE DEF g
<1>5. Over(g) \in Fetch \cup {NULL} /\ (Over(g) # NULL => Over(g) = g)
  BY <1>4 DEF Over
<1>6. fetch' \in [Slot -> Fetch \cup {NULL}] /\ FetchesOK'
  <2> DEFINE h == Over(g)
  <2>1. /\ h \in Fetch \cup {NULL} /\ fetch' = [fetch EXCEPT ![s] = h]
        /\ (h # NULL => Pending(h))
    BY <1>3, <1>4, <1>5
  <2> HIDE DEF h
  <2> QED
    BY <1>0, <2>1, SlotStep
(* Whether the flag, the button or the page waits for another cluster, it  *)
(* waits for another slot.                                                 *)
<1>7. ASSUME NEW c, c # f.for, InFlight(c) PROVE InFlight(c)'
  BY <1>0, <1>2, <1>3, <1>7, StaysInFlight
<1>8. CacheOwn'
  BY <1>0, <1>2, <1>3 DEF PageInv, TypeOK, CacheOwn, Fits
<1>9. shown' \in Cluster \cup {NULL}
  BY <1>0, <1>2, <1>3 DEF TypeOK, Fits, AfterError
<1>10. CachedIsShown'
  <2> SUFFICES ASSUME visible', ~behind'
               PROVE  active' # NULL /\ (cache'[active'] # NULL => shown' = active')
    BY DEF CachedIsShown
  <2>1. CASE f.ok /\ Fits(f)
    BY <1>0, <1>2, <1>3, <2>1 DEF Fits
  <2>2. CASE ~(f.ok /\ Fits(f))
    <3>1. visible /\ ~behind /\ UNCHANGED <<active, cache>>
      BY <1>3, <2>2
    <3>2. active # NULL /\ (cache[active] # NULL => shown = active)
      BY <3>1 DEF PageInv, CachedIsShown
    <3>3. cache[active] # NULL => shown' = shown
      BY <1>3, <2>2 DEF AfterError
    <3> QED
      BY <3>1, <3>2, <3>3
  <2> QED
    BY <2>1, <2>2
<1>11. cache' \in [Cluster -> Cluster \cup {NULL}]
  <2>1. CASE f.ok /\ Fits(f)
    BY <1>0, <1>2, <1>3, <2>1 DEF TypeOK, Fits
  <2>2. CASE ~(f.ok /\ Fits(f))
    BY <1>0, <1>3, <2>2 DEF TypeOK
  <2> QED
    BY <2>1, <2>2
<1>12. TypeOK'
  <2>1. loading' \in Cluster \cup {NULL}
    BY <1>0, <1>3 DEF TypeOK, FlagAfter
  <2>2. disabled' \in BOOLEAN
    BY <1>0, <1>3 DEF TypeOK, ButtonAfter
  <2>3. moved' \in BOOLEAN /\ behind' \in BOOLEAN
    BY <1>0, <1>3 DEF TypeOK, Fits
  <2> QED
    BY <1>0, <1>3, <1>6, <1>9, <1>11, <2>1, <2>2, <2>3 DEF TypeOK
<1>13. FlagHasFetch'
  <2> SUFFICES ASSUME loading' # NULL PROVE InFlight(loading)'
    BY DEF FlagHasFetch
  <2>1. loading' = loading /\ loading # f.for /\ loading \in Cluster
    BY <1>0, <1>3 DEF FlagAfter, TypeOK
  <2>2. InFlight(loading)
    BY <2>1 DEF PageInv, FlagHasFetch
  <2> QED
    BY <1>7, <2>1, <2>2 DEF InFlight
<1>14. ButtonReturns'
  <2> SUFFICES ASSUME disabled', ~moved' PROVE InFlight(active)'
    BY DEF ButtonReturns
  <2>1. f.for # active /\ disabled
    BY <1>3 DEF ButtonAfter
  <2>2. ~moved /\ active' = active
    BY <1>3
  <2>3. InFlight(active)
    BY <2>1, <2>2 DEF PageInv, ButtonReturns
  <2> QED
    BY <1>7, <2>1, <2>2, <2>3 DEF InFlight
<1>15. SettledShowsActive'
  <2> SUFFICES ASSUME visible', ~behind', ~InFlight(active)' PROVE shown' \in {NULL, active'}
    BY DEF SettledShowsActive
  <2>1. CASE f.ok /\ f.for = active
    BY <1>3, <2>1 DEF Fits
  <2>2. CASE ~f.ok /\ f.for = active
    <3>1. cache[active] # NULL => shown = active
      BY <1>3, <2>2 DEF PageInv, CachedIsShown
    <3> QED
      BY <1>3, <2>2, <3>1 DEF AfterError
  <2>3. CASE f.for # active
    <3>1. visible /\ ~behind /\ ~InFlight(active) /\ active' = active
      BY <1>3, <1>7, <2>3 DEF InFlight
    <3>2. shown' = shown
      BY <1>3, <2>3 DEF Fits, AfterError
    <3> QED
      BY <3>1, <3>2 DEF PageInv, SettledShowsActive
  <2> QED
    BY <2>1, <2>2, <2>3
<1> QED
  BY <1>6, <1>8, <1>10, <1>12, <1>13, <1>14, <1>15 DEF PageInv

LEMMA NextPage == PageInv /\ [Next]_vars => PageInv'
<1> SUFFICES ASSUME PageInv, [Next]_vars PROVE PageInv'
  OBVIOUS
<1>0. TypeOK
  BY DEF PageInv
<1>1. CASE User
  BY <1>1, UserPage
<1>2. ASSUME NEW c \in Cluster, OtherTabStores(c) PROVE PageInv'
  <2>1. /\ cache' = [cache EXCEPT ![c] = c]
        /\ behind' = (behind \/ (visible /\ c = active /\ cache[c] = NULL))
        /\ UNCHANGED <<session, active, page, switching, fetch>>
    BY <1>2 DEF OtherTabStores
  <2>2. TypeOK' /\ FetchesOK' /\ CacheOwn'
    BY <1>0, <2>1 DEF page, PageInv, TypeOK, FetchesOK, CacheOwn
  <2>3. CachedIsShown'
    BY <1>0, <2>1 DEF page, PageInv, TypeOK, CachedIsShown
  <2>4. FlagHasFetch' /\ ButtonReturns' /\ SettledShowsActive'
    BY <2>1 DEF page, PageInv, FlagHasFetch, ButtonReturns, SettledShowsActive, InFlight
  <2> QED
    BY <2>2, <2>3, <2>4 DEF PageInv
<1>3. ASSUME NEW c \in Cluster, OtherTab(c) PROVE PageInv'
  BY <1>0, <1>3
  DEF OtherTab, page, PageInv, TypeOK, FetchesOK, CacheOwn, CachedIsShown,
      FlagHasFetch, ButtonReturns, SettledShowsActive, InFlight
<1>4. ASSUME NEW s \in Slot, Served(s) \/ Refuse(s) PROVE PageInv'
  BY <1>4, ServedPage
<1>5. ASSUME NEW s \in Slot, Hears(s) PROVE PageInv'
  BY <1>5, HearPage DEF Hears
<1>6. CASE SwitchLost
  BY <1>0, <1>6
  DEF SwitchLost, page, PageInv, TypeOK, FetchesOK, CacheOwn, CachedIsShown,
      FlagHasFetch, ButtonReturns, SettledShowsActive, InFlight
<1>7. CASE Switched
  <2>1. /\ switching \in Cluster /\ active' = switching /\ switching' = NULL
        /\ moved' = (disabled' /\ Unsent) /\ UNCHANGED <<session, view, visible, cache>>
        /\ behind' = (visible /\ ~view)
    BY <1>0, <1>7 DEF Switched, TypeOK
  <2>2. moved' \in BOOLEAN
    BY <2>1
  <2>3. CASE view
    <3>1. /\ LoadMonitor(switching) /\ view' \in BOOLEAN /\ visible' \in BOOLEAN
          /\ ~behind' /\ behind' \in BOOLEAN /\ switching' \in Cluster \cup {NULL}
      BY <1>0, <1>7, <2>1, <2>3 DEF Switched, TypeOK
    <3> QED
      BY <2>1, <2>2, <3>1, Loading
  <2>4. CASE ~view
    BY <1>0, <1>7, <2>1, <2>2, <2>4
    DEF Switched, PageInv, TypeOK, FetchesOK, CacheOwn, CachedIsShown,
        FlagHasFetch, ButtonReturns, SettledShowsActive, InFlight, Unsent
  <2> QED
    BY <2>3, <2>4
<1>8. CASE UNCHANGED vars
  BY <1>8
  DEF vars, PageInv, TypeOK, FetchesOK, CacheOwn, CachedIsShown,
      FlagHasFetch, ButtonReturns, SettledShowsActive, InFlight
<1> QED
  BY <1>1, <1>2, <1>3, <1>4, <1>5, <1>6, <1>7, <1>8 DEF Next

-----------------------------------------------------------------------------
(* The page keeps its invariant whatever the browser, the other tab and    *)
(* the server do, in any order.                                            *)
THEOREM PageAlways == Spec => []PageInv
BY InitPage, NextPage, PTL DEF Spec

(* Every variable keeps its type; in particular a handler never receives   *)
(* more results than it started queries.                                   *)
THEOREM PageTyped == Spec => []TypeOK
<1>1. PageInv => TypeOK
  BY DEF PageInv
<1> QED
  BY <1>1, PageAlways, PTL

(* The cache of a cluster never holds another cluster's snapshot.          *)
THEOREM CacheStaysOwn == Spec => []CacheOwn
<1>1. PageInv => CacheOwn
  BY DEF PageInv
<1> QED
  BY <1>1, PageAlways, PTL

(* The flag of a cluster being loaded stands for a request in flight, so   *)
(* that it never keeps the cluster from being asked for again.             *)
THEOREM FlagReturns == Spec => []FlagHasFetch
<1>1. PageInv => FlagHasFetch
  BY DEF PageInv
<1> QED
  BY <1>1, PageAlways, PTL

(* While the user stays on a cluster a disabled button waits for a request *)
(* in flight.                                                              *)
THEOREM ButtonWaitsForFetch == Spec => []ButtonReturns
<1>1. PageInv => ButtonReturns
  BY DEF PageInv
<1> QED
  BY <1>1, PageAlways, PTL

(* With nothing under way a page that is not behind shows the active       *)
(* cluster or nothing, whatever other tabs store and whoever logs in.      *)
THEOREM SettlesOnActive == Spec => []SettledShowsActive
<1>1. PageInv => SettledShowsActive
  BY DEF PageInv
<1> QED
  BY <1>1, PageAlways, PTL
=============================================================================
