------------------------- MODULE AlertHistoryProofs -------------------------
(***************************************************************************)
(* Proofs about AlertHistory for every Limit, every set of rules, requests *)
(* and emissions, and every bound.                                         *)
(***************************************************************************)
EXTENDS AlertHistory, FiniteSetTheorems, TLAPS

LEMMA NoHookType == NoHook \in Ref
BY DEF NoHook, Ref

LEMMA IdleType == Idle \in Emission /\ NoRows \in [Table -> Nat]
<1>1. NoRows \in [Table -> Nat]
  BY DEF NoRows
<1> QED
  BY <1>1, NoHookType DEF Idle, Emission, Table

LEMMA PruningType ==
    ASSUME NEW e \in Emission
    PROVE  /\ Pruning(e) \in Emission
           /\ Pruning(e).at = "cut" /\ Pruning(e).ref = NoHook
BY IdleType, NoHookType DEF Pruning, Idle, Emission, Table

-----------------------------------------------------------------------------
(* References: an id names one webhook for ever, so wherever a reference   *)
(* has got to, it means the webhook it was chosen for.                     *)

IdsOK ==
    /\ made = nextHook - 1 /\ nextHook \in Nat \ {0}
    /\ hooks \in [Hook -> Nat \cup {NULL}]
    /\ \A h \in Hook : Exists(h) => hooks[h] = h

RefOK(f) == f \in Ref /\ f.hook = f.meant /\ f.hook \in Hook \cup {0}

Refs ==
    /\ rules \in [Rule -> Ref \cup {NULL}]
    /\ \A r \in Rule : rules[r] # NULL => RefOK(rules[r])
    /\ pc \in [Request -> Pc] /\ ref \in [Request -> Ref]
    /\ rule \in [Request -> Rule \cup {NULL}]
    /\ \A q \in Request : pc[q] \in {"create", "update"} => RefOK(ref[q])
    /\ \A q \in Request : pc[q] = "update" => rule[q] \in Rule
    /\ \A q \in Request : pc[q] = "delete" => ref[q].hook \in Hook

Emissions ==
    /\ emit \in [Emitter -> Emission]
    /\ \A s \in Emitter :
          /\ RefOK(emit[s].ref)
          /\ At(s, "load") => emit[s].ref.hook \in Hook
          /\ At(s, "send") => emit[s].target = emit[s].ref.meant

RefInv == IdsOK /\ Refs /\ Emissions

LEMMA NoHookOK == RefOK(NoHook)
BY NoHookType DEF RefOK, NoHook

LEMMA InitRefs == Init => RefInv
<1> SUFFICES ASSUME Init PROVE RefInv
  OBVIOUS
<1> USE DEF Init
<1>1. IdsOK
  BY DEF IdsOK, Exists
<1>2. Refs
  BY NoHookType, NullAssumption DEF Refs, Pc
<1>3. Emissions
  BY IdleType, NoHookOK DEF Emissions, At, Idle
<1> QED
  BY <1>1, <1>2, <1>3 DEF RefInv

(* One emission changes, to a value that is fine.                          *)
LEMMA EmitOK ==
    ASSUME Emissions, NEW s \in Emitter, NEW e \in Emission,
           emit' = [emit EXCEPT ![s] = e], RefOK(e.ref),
           e.at = "load" => e.ref.hook \in Hook,
           e.at = "send" => e.target = e.ref.meant
    PROVE  Emissions'
BY DEF Emissions, At, RefOK

LEMMA CreateWebhookRefs == RefInv /\ CreateWebhook => RefInv'
<1> SUFFICES ASSUME RefInv, CreateWebhook PROVE RefInv'
  OBVIOUS
<1> USE DEF RefInv
<1>1. /\ nextHook \in Hook /\ made + 1 = nextHook
      /\ hooks' = [hooks EXCEPT ![nextHook] = nextHook]
      /\ nextHook' = nextHook + 1 /\ made' = made + 1
      /\ UNCHANGED <<rules, pc, ref, rule, emit>>
  BY BoundAssumption
  DEF CreateWebhook, NewHook, IdsOK, requestVars, historyVars, Hook
<1>2. IdsOK'
  BY <1>1 DEF IdsOK, Exists, Hook
<1>3. Refs' /\ Emissions'
  BY <1>1 DEF Refs, Emissions, At, RefOK
<1> QED
  BY <1>2, <1>3

LEMMA RequestRefs ==
    ASSUME RefInv, NEW q \in Request, Handler(q)
    PROVE  RefInv'
<1> USE DEF RefInv
<1>1. /\ pc \in [Request -> Pc] /\ ref \in [Request -> Ref]
      /\ rule \in [Request -> Rule \cup {NULL}]
      /\ rules \in [Rule -> Ref \cup {NULL}]
      /\ \A p \in Request : /\ pc[p] \in {"create", "update"} => RefOK(ref[p])
                            /\ pc[p] = "update" => rule[p] \in Rule
                            /\ pc[p] = "delete" => ref[p].hook \in Hook
      /\ \A r \in Rule : rules[r] # NULL => RefOK(rules[r])
  BY DEF Refs
<1>2. ASSUME NEW p \in Pc, NEW f \in Ref, NEW r \in Rule \cup {NULL},
             Enter(q, p, f, r),
             p \in {"create", "update"} => RefOK(f),
             p = "update" => r \in Rule,
             p = "delete" => f.hook \in Hook,
             rules' \in [Rule -> Ref \cup {NULL}],
             \A x \in Rule : rules'[x] # NULL => RefOK(rules'[x])
      PROVE  Refs'
  BY <1>1, <1>2 DEF Enter, Refs, RefOK
<1>3. ASSUME UNCHANGED <<webhookVars, emit>>
      PROVE  IdsOK' /\ Emissions'
  BY <1>3 DEF webhookVars, IdsOK, Emissions, Exists, At, RefOK
<1>4. "idle" \in Pc /\ "create" \in Pc /\ "update" \in Pc /\ "delete" \in Pc
  BY DEF Pc
<1>5. ASSUME NEW h \in Hook \cup {0}, NEW p \in {"create", "update"},
             NEW r \in Rule \cup {NULL}, p = "update" => r \in Rule,
             ValidateRule(q, h, p, r)
      PROVE  RefInv'
  <2>1. RefOK(Chosen(h))
    BY <1>5, NoHookOK DEF ValidateRule, Chosen, RefOK, Ref, IdsOK, Hook
  <2>2. Chosen(h) \in Ref
    BY <2>1 DEF RefOK
  <2>3. Enter(q, p, Chosen(h), r) /\ rules' = rules
        /\ UNCHANGED <<webhookVars, emit>>
    BY <1>5 DEF ValidateRule, historyVars
  <2> QED
    BY <1>1, <1>2, <1>3, <1>4, <1>5, <2>1, <2>2, <2>3
<1>6. ASSUME NEW r \in Rule, CreateRule(q, r)
      PROVE  RefInv'
  <2>1. /\ rules' = [rules EXCEPT ![r] = ref[q]] /\ RefOK(ref[q])
        /\ Enter(q, "idle", NoHook, NULL) /\ UNCHANGED <<webhookVars, emit>>
    BY <1>1, <1>6 DEF CreateRule, Return, historyVars
  <2>2. /\ rules' \in [Rule -> Ref \cup {NULL}]
        /\ \A x \in Rule : rules'[x] # NULL => RefOK(rules'[x])
    BY <1>1, <2>1 DEF RefOK
  <2> QED
    BY <1>2, <1>3, <1>4, <2>1, <2>2, NoHookType
<1>7. CASE UpdateRule(q)
  <2>1. /\ rule[q] \in Rule /\ RefOK(ref[q])
        /\ rules' = IF rules[rule[q]] = NULL THEN rules
                    ELSE [rules EXCEPT ![rule[q]] = ref[q]]
        /\ Enter(q, "idle", NoHook, NULL) /\ UNCHANGED <<webhookVars, emit>>
    BY <1>1, <1>7 DEF UpdateRule, Return, historyVars
  <2>2. /\ rules' \in [Rule -> Ref \cup {NULL}]
        /\ \A x \in Rule : rules'[x] # NULL => RefOK(rules'[x])
    BY <1>1, <2>1 DEF RefOK
  <2> QED
    BY <1>2, <1>3, <1>4, <2>1, <2>2, NoHookType
<1>8. ASSUME NEW h \in Hook, CountRules(q, h)
      PROVE  RefInv'
  <2> DEFINE f == [hook |-> h, meant |-> 0]
  <2>1. f \in Ref /\ f.hook = h
    BY DEF Ref, Hook
  <2>2. Enter(q, "delete", f, NULL) /\ rules' = rules
        /\ UNCHANGED <<webhookVars, emit>>
    BY <1>8 DEF CountRules, historyVars
  <2> HIDE DEF f
  <2> QED
    BY <1>1, <1>2, <1>3, <1>4, <2>1, <2>2
<1>9. CASE DeleteWebhook(q)
  <2>1. /\ ref[q].hook \in Hook
        /\ hooks' = [hooks EXCEPT ![ref[q].hook] = NULL]
        /\ Enter(q, "idle", NoHook, NULL)
        /\ UNCHANGED <<nextHook, made, rules, emit>>
    BY <1>1, <1>9 DEF DeleteWebhook, Return, historyVars
  <2>2. IdsOK'
    BY <2>1 DEF IdsOK, Exists
  <2>3. Emissions'
    BY <2>1 DEF Emissions, At, RefOK
  <2>4. Refs'
    BY <1>1, <1>2, <1>4, <2>1, NoHookType
  <2> QED
    BY <2>2, <2>3, <2>4
<1>10. CASE RequestFails(q)
  <2>1. Enter(q, "idle", NoHook, NULL) /\ rules' = rules
        /\ UNCHANGED <<webhookVars, emit>>
    BY <1>10 DEF RequestFails, Return, historyVars
  <2> QED
    BY <1>1, <1>2, <1>3, <1>4, <2>1, NoHookType
<1> QED
  BY <1>5, <1>6, <1>7, <1>8, <1>9, <1>10 DEF Handler

LEMMA EmissionTypes ==
    ASSUME Emissions, NEW s \in Emitter
    PROVE  /\ emit[s] \in Emission /\ emit[s].table \in Table
           /\ emit[s].own \in [Table -> Nat] /\ emit[s].cutoff \in Nat
           /\ RefOK(emit[s].ref)
           /\ At(s, "load") => emit[s].ref.hook \in Hook
BY DEF Emissions, Emission

LEMMA EmitRefs ==
    ASSUME RefInv, NEW s \in Emitter, EmitStep(s),
           next \in [Table -> Nat], rows \in [Table -> SUBSET Nat]
    PROVE  RefInv'
<1> USE DEF RefInv
<1>1. UNCHANGED <<webhookVars, rules, requestVars>>
  BY DEF EmitStep, ReadRule, CreateEvent, LoadWebhook, Deliver, ReadCutoff,
         NothingToCut, DeleteOld, StatementFails, tableVars
<1>2. IdsOK' /\ Refs'
  BY <1>1 DEF webhookVars, requestVars, IdsOK, Refs, Exists
<1> SUFFICES Emissions'
  BY <1>2
<1>3. /\ emit[s] \in Emission /\ RefOK(emit[s].ref) /\ emit[s].table \in Table
      /\ emit[s].own \in [Table -> Nat]
  BY EmissionTypes
<1>4. "events" \in Table /\ "deliveries" \in Table
  BY DEF Table
<1>5. ASSUME NEW e \in Emission, emit' = [emit EXCEPT ![s] = Pruning(e)]
      PROVE  Emissions'
  BY <1>5, PruningType, NoHookOK, EmitOK
<1>6. ASSUME NEW r \in Rule, ReadRule(s, r)
      PROVE  Emissions'
  <2> DEFINE e == [Idle EXCEPT !.at = "record", !.ref = rules[r]]
  <2>1. RefOK(rules[r]) /\ rules[r] \in Ref
    BY <1>6 DEF ReadRule, Refs
  <2>2. e \in Emission /\ e.ref = rules[r] /\ e.at = "record"
    BY <2>1, IdleType DEF Idle, Emission
  <2>3. emit' = [emit EXCEPT ![s] = e]
    BY <1>6 DEF ReadRule
  <2> QED
    BY <2>1, <2>2, <2>3, EmitOK
<1>7. CASE CreateEvent(s)
  <2> DEFINE e == [emit[s] EXCEPT !.own["events"] = next["events"]]
             f == [e EXCEPT !.at = "load"]
  <2>1. e \in Emission /\ e.ref = emit[s].ref
    BY <1>3, <1>4 DEF Emission
  <2>2. f \in Emission /\ f.ref = emit[s].ref /\ f.at = "load"
    BY <2>1 DEF Emission
  <2>3. emit' = [emit EXCEPT ![s] = IF e.ref.hook = 0 THEN Pruning(e) ELSE f]
    BY <1>7 DEF CreateEvent
  <2> HIDE DEF e, f
  <2>4. CASE e.ref.hook = 0
    BY <1>5, <2>1, <2>3, <2>4
  <2>5. CASE e.ref.hook # 0
    <3>1. f.ref.hook \in Hook
      BY <1>3, <2>1, <2>2, <2>5 DEF RefOK
    <3> QED
      BY <1>3, <2>2, <2>3, <2>5, <3>1, EmitOK
  <2> QED
    BY <2>4, <2>5
<1>8. CASE LoadWebhook(s)
  <2> DEFINE h == emit[s].ref.hook
             f == [emit[s] EXCEPT !.at = "send", !.target = hooks[h]]
  <2>1. /\ h \in Hook
        /\ emit' = [emit EXCEPT ![s] = IF Exists(h) THEN f ELSE Pruning(emit[s])]
    BY <1>8, EmissionTypes DEF LoadWebhook
  <2>2. CASE Exists(h)
    <3>1. hooks[h] = h /\ h \in Nat
      BY <2>1, <2>2 DEF IdsOK, Hook
    <3>2. f \in Emission /\ f.ref = emit[s].ref /\ f.target = h /\ f.at = "send"
      BY <1>3, <3>1 DEF Emission
    <3>3. f.target = f.ref.meant
      BY <1>3, <3>2 DEF RefOK
    <3> HIDE DEF f
    <3> QED
      BY <1>3, <2>1, <2>2, <3>2, <3>3, EmitOK
  <2>3. CASE ~Exists(h)
    BY <1>3, <1>5, <2>1, <2>3
  <2> QED
    BY <2>2, <2>3
<1>9. CASE Deliver(s)
  <2> DEFINE e == [emit[s] EXCEPT !.own["deliveries"] = next["deliveries"]]
  <2>1. e \in Emission
    BY <1>3, <1>4 DEF Emission
  <2>2. emit' = [emit EXCEPT ![s] = Pruning(e)]
    BY <1>9 DEF Deliver
  <2> HIDE DEF e
  <2> QED
    BY <1>5, <2>1, <2>2
<1>10. ASSUME NEW t \in Table, NEW i \in rows[t], ReadCutoff(s, i)
       PROVE  Emissions'
  <2> DEFINE e == [emit[s] EXCEPT !.at = "prune", !.cutoff = i]
  <2>1. i \in Nat
    BY <1>10
  <2>2. e \in Emission /\ e.ref = emit[s].ref /\ e.at = "prune"
    BY <1>3, <2>1 DEF Emission
  <2>3. emit' = [emit EXCEPT ![s] = e]
    BY <1>3, <1>10 DEF ReadCutoff, Emissions
  <2> HIDE DEF e
  <2> QED
    BY <1>3, <2>2, <2>3, EmitOK
<1>11. CASE NextTable(s)
  <2> DEFINE e == [emit[s] EXCEPT !.at = "cut", !.table = "deliveries", !.cutoff = 0]
  <2>1. e \in Emission /\ e.ref = emit[s].ref /\ e.at = "cut"
    BY <1>3, <1>4 DEF Emission
  <2>2. emit' = [emit EXCEPT ![s] = IF emit[s].table = "events" THEN e ELSE Idle]
    BY <1>11 DEF NextTable
  <2>3. Idle.at = "idle" /\ RefOK(Idle.ref) /\ Idle \in Emission
    BY IdleType, NoHookOK DEF Idle
  <2> HIDE DEF e
  <2> QED
    BY <1>3, <2>1, <2>2, <2>3, EmitOK
<1>12. CASE StatementFails(s)
  <2>1. emit' = [emit EXCEPT ![s] = IF emit[s].at \in {"load", "send"}
                                    THEN Pruning(emit[s]) ELSE Idle]
    BY <1>12 DEF StatementFails
  <2>2. Idle.at = "idle" /\ RefOK(Idle.ref) /\ Idle \in Emission
    BY IdleType, NoHookOK DEF Idle
  <2> QED
    BY <1>3, <1>5, <2>1, <2>2, EmitOK
<1> QED
  BY <1>6, <1>7, <1>8, <1>9, <1>10, <1>11, <1>12
  DEF EmitStep, NothingToCut, DeleteOld

(* The rows: each table holds ids below its counter, and a cutoff waiting  *)
(* to be used has Limit rows at or above it, whatever has been inserted or *)
(* deleted since it was read.                                              *)
From(t, c) == {j \in rows[t] : j >= c}

RowsOK ==
    /\ next \in [Table -> Nat]
    /\ rows \in [Table -> SUBSET Nat]
    /\ \A t \in Table : IsFiniteSet(rows[t])
    /\ \A s \in Emitter :
          At(s, "prune") => Cardinality(From(emit[s].table, emit[s].cutoff)) >= Limit

LEMMA InitRows == Init => RowsOK
<1> SUFFICES ASSUME Init PROVE RowsOK
  OBVIOUS
<1>1. IsFiniteSet({})
  BY FS_EmptySet
<1> QED
  BY <1>1 DEF Init, RowsOK, At, Idle

LEMMA FromFinite ==
    ASSUME RowsOK, NEW t \in Table, NEW c
    PROVE  IsFiniteSet(From(t, c)) /\ Cardinality(From(t, c)) \in Nat
BY FS_Subset, FS_CardinalityType DEF RowsOK, From

(* No row is deleted, or those below a cutoff that has its Limit rows.     *)
LEMMA RowsGrow ==
    ASSUME RowsOK, next' \in [Table -> Nat], rows' \in [Table -> SUBSET Nat],
           \A t \in Table : IsFiniteSet(rows'[t]) /\ rows[t] \subseteq rows'[t],
           \A s \in Emitter : At(s, "prune")' =>
              \/ /\ At(s, "prune") /\ emit[s].table \in Table
                 /\ emit'[s].table = emit[s].table
                 /\ emit'[s].cutoff = emit[s].cutoff
              \/ /\ emit'[s].table \in Table
                 /\ Cardinality(From(emit'[s].table, emit'[s].cutoff)) >= Limit
    PROVE  RowsOK'
<1>1. ASSUME NEW s \in Emitter, At(s, "prune")'
      PROVE  Cardinality(From(emit[s].table, emit[s].cutoff)') >= Limit
  <2> DEFINE t == emit'[s].table
             c == emit'[s].cutoff
             old == From(t, c)
             new == {j \in rows'[t] : j >= c}
  <2>1. t \in Table /\ Cardinality(old) >= Limit
    BY <1>1 DEF RowsOK
  <2>2. old \subseteq new /\ IsFiniteSet(new)
    <3>1. IsFiniteSet(rows'[t]) /\ new \subseteq rows'[t]
      BY <2>1
    <3>2. old \subseteq new
      BY <2>1 DEF From
    <3> QED
      BY <3>1, <3>2, FS_Subset
  <2>3. Cardinality(old) <= Cardinality(new) /\ Cardinality(new) \in Nat
        /\ Cardinality(old) \in Nat
    BY <2>2, FS_Subset, FS_CardinalityType
  <2> HIDE DEF old
  <2>4. Cardinality(new) >= Limit
    BY <2>1, <2>3, BoundAssumption
  <2> QED
    BY <2>4 DEF From
<1> QED
  BY <1>1 DEF RowsOK

LEMMA InsertRows ==
    ASSUME RowsOK, NEW t \in Table,
           rows' = [rows EXCEPT ![t] = rows[t] \cup {next[t]}],
           next' = [next EXCEPT ![t] = next[t] + 1]
    PROVE  /\ next' \in [Table -> Nat] /\ rows' \in [Table -> SUBSET Nat]
           /\ \A u \in Table : IsFiniteSet(rows'[u]) /\ rows[u] \subseteq rows'[u]
<1>1. next[t] \in Nat /\ rows[t] \in SUBSET Nat /\ IsFiniteSet(rows[t])
  BY DEF RowsOK
<1>2. next' \in [Table -> Nat]
  BY <1>1 DEF RowsOK
<1>3. IsFiniteSet(rows[t] \cup {next[t]})
  BY <1>1, FS_AddElement
<1>4. rows' \in [Table -> SUBSET Nat]
  BY <1>1 DEF RowsOK
<1>5. \A u \in Table : rows'[u] = IF u = t THEN rows[t] \cup {next[t]} ELSE rows[u]
  BY DEF RowsOK
<1> QED
  BY <1>2, <1>3, <1>4, <1>5 DEF RowsOK

LEMMA CutoffHasLimit ==
    ASSUME RowsOK, NEW t \in Table, NEW i \in rows[t], Cuts(t, i)
    PROVE  Cardinality(From(t, i)) >= Limit
<1>1. rows[t] \in SUBSET Nat /\ IsFiniteSet(rows[t]) /\ i \in Nat
  BY DEF RowsOK
<1>2. IsFiniteSet(Newer(t, i))
  BY <1>1, FS_Subset DEF Newer
<1>3. From(t, i) = Newer(t, i) \cup {i} /\ i \notin Newer(t, i)
  BY <1>1 DEF From, Newer
<1>4. Cardinality(Newer(t, i) \cup {i}) = Cardinality(Newer(t, i)) + 1
  BY <1>2, <1>3, FS_AddElement
<1>5. Cardinality(Newer(t, i)) = Limit - 1
  BY DEF Cuts
<1> QED
  BY <1>3, <1>4, <1>5, BoundAssumption

LEMMA DeleteRows ==
    ASSUME RowsOK, Emissions, NEW s \in Emitter, DeleteOld(s)
    PROVE  RowsOK'
<1> DEFINE t == emit[s].table
           c == emit[s].cutoff
<1>1. t \in Table /\ c \in Nat /\ Cardinality(From(t, c)) >= Limit
  BY EmissionTypes DEF DeleteOld, RowsOK
<1>2. /\ rows' = [rows EXCEPT ![t] = From(t, c)] /\ next' = next
      /\ \A p \in Emitter : p # s => emit'[p] = emit[p]
  BY DEF DeleteOld, NextTable, Pruned, From, Emissions
<1>3. ~At(s, "prune")'
  BY DEF DeleteOld, NextTable, At, Emissions, Idle
<1> HIDE DEF t, c
<1>4. From(t, c) \in SUBSET Nat /\ IsFiniteSet(From(t, c))
  BY <1>1, FromFinite DEF RowsOK, From
<1>5. /\ rows' \in [Table -> SUBSET Nat]
      /\ \A u \in Table : rows'[u] = IF u = t THEN From(t, c) ELSE rows[u]
  BY <1>1, <1>2, <1>4 DEF RowsOK
<1>6. \A u \in Table : IsFiniteSet(rows'[u])
  BY <1>4, <1>5 DEF RowsOK
<1>7. ASSUME NEW p \in Emitter, At(p, "prune")'
      PROVE  Cardinality(From(emit[p].table, emit[p].cutoff)') >= Limit
  <2> DEFINE u == emit[p].table
             d == emit[p].cutoff
             new == {j \in rows'[u] : j >= d}
  <2>1. p # s /\ emit'[p] = emit[p]
    BY <1>2, <1>3, <1>7
  <2>2. u \in Table /\ d \in Nat /\ Cardinality(From(u, d)) >= Limit
    BY <1>7, <2>1, EmissionTypes DEF At, RowsOK
  <2>3. From(emit[p].table, emit[p].cutoff)' = new
    BY <2>1 DEF From
  <2> HIDE DEF u, d
  <2>4. CASE u # t
    BY <1>5, <2>2, <2>3, <2>4 DEF From
  <2>5. CASE u = t /\ c >= d
    <3>1. new = From(t, c)
      BY <1>1, <1>5, <2>2, <2>5 DEF From, RowsOK
    <3> QED
      BY <1>1, <2>3, <3>1
  <2>6. CASE u = t /\ d >= c
    <3>1. new = From(u, d)
      BY <1>1, <1>5, <2>2, <2>6 DEF From, RowsOK
    <3> QED
      BY <2>2, <2>3, <3>1
  <2> QED
    BY <1>1, <2>2, <2>4, <2>5, <2>6
<1> QED
  BY <1>2, <1>5, <1>6, <1>7 DEF RowsOK

LEMMA EmitRows ==
    ASSUME RowsOK, Emissions, NEW s \in Emitter, EmitStep(s)
    PROVE  RowsOK'
<1>1. ASSUME rows' = rows, next' = next, NEW e,
             emit' = [emit EXCEPT ![s] = e], e.at # "prune"
      PROVE  RowsOK'
  <2>1. \A p \in Emitter : At(p, "prune")' => At(p, "prune") /\ emit'[p] = emit[p]
    BY <1>1 DEF At, Emissions
  <2> QED
    BY <1>1, <2>1 DEF RowsOK, From, At
<1>2. ASSUME NEW t \in Table, Insert(t), NEW e,
             emit' = [emit EXCEPT ![s] = e], e.at # "prune"
      PROVE  RowsOK'
  <2>1. /\ next' \in [Table -> Nat] /\ rows' \in [Table -> SUBSET Nat]
        /\ \A u \in Table : IsFiniteSet(rows'[u]) /\ rows[u] \subseteq rows'[u]
    BY <1>2, InsertRows DEF Insert
  <2>2. \A p \in Emitter : At(p, "prune")' =>
          At(p, "prune") /\ emit'[p] = emit[p] /\ emit[p].table \in Table
    BY <1>2, EmissionTypes DEF At, Emissions
  <2> QED
    BY <2>1, <2>2, RowsGrow
<1>3. ASSUME NEW r \in Rule, ReadRule(s, r)
      PROVE  RowsOK'
  <2> DEFINE f == [Idle EXCEPT !.at = "record", !.ref = rules[r]]
  <2>1. emit' = [emit EXCEPT ![s] = f] /\ rows' = rows /\ next' = next
    BY <1>3 DEF ReadRule
  <2>2. f.at # "prune"
    BY DEF Idle
  <2> HIDE DEF f
  <2> QED
    BY <1>1, <2>1, <2>2
<1>4. CASE CreateEvent(s)
  <2> DEFINE e == [emit[s] EXCEPT !.own["events"] = next["events"]]
             f == IF e.ref.hook = 0 THEN Pruning(e) ELSE [e EXCEPT !.at = "load"]
  <2>1. Insert("events") /\ emit' = [emit EXCEPT ![s] = f] /\ "events" \in Table
    BY <1>4 DEF CreateEvent, Table
  <2>2. f.at # "prune"
    BY EmissionTypes DEF Pruning, Idle, Emission
  <2> HIDE DEF f
  <2> QED
    BY <1>2, <2>1, <2>2
<1>5. CASE LoadWebhook(s)
  <2> DEFINE h == emit[s].ref.hook
             f == IF Exists(h)
                  THEN [emit[s] EXCEPT !.at = "send", !.target = hooks[h]]
                  ELSE Pruning(emit[s])
  <2>1. emit' = [emit EXCEPT ![s] = f] /\ rows' = rows /\ next' = next
    BY <1>5 DEF LoadWebhook
  <2>2. f.at # "prune"
    BY EmissionTypes DEF Pruning, Idle, Emission
  <2> HIDE DEF f
  <2> QED
    BY <1>1, <2>1, <2>2
<1>6. CASE Deliver(s)
  <2> DEFINE f == Pruning([emit[s] EXCEPT !.own["deliveries"] = next["deliveries"]])
  <2>1. Insert("deliveries") /\ emit' = [emit EXCEPT ![s] = f]
        /\ "deliveries" \in Table
    BY <1>6 DEF Deliver, Table
  <2>2. f.at # "prune"
    BY DEF Pruning, Idle
  <2> HIDE DEF f
  <2> QED
    BY <1>2, <2>1, <2>2
<1>7. ASSUME NEW i, ReadCutoff(s, i)
      PROVE  RowsOK'
  <2> DEFINE t == emit[s].table
             e == [emit[s] EXCEPT !.at = "prune", !.cutoff = i]
  <2>1. t \in Table /\ i \in rows[t] /\ Cuts(t, i) /\ emit[s] \in Emission
    BY <1>7, EmissionTypes DEF ReadCutoff
  <2>2. Cardinality(From(t, i)) >= Limit
    BY <2>1, CutoffHasLimit
  <2>3. e.table = t /\ e.cutoff = i
    BY <2>1 DEF Emission
  <2>4. emit' = [emit EXCEPT ![s] = e] /\ rows' = rows /\ next' = next
    BY <1>7, <2>1 DEF ReadCutoff, Emissions
  <2> HIDE DEF e
  <2>5. /\ emit'[s] = e
        /\ \A p \in Emitter : p # s => emit'[p] = emit[p] /\ emit[p].table \in Table
    BY <2>4, EmissionTypes DEF Emissions
  <2>6. \A p \in Emitter : At(p, "prune")' =>
          \/ /\ At(p, "prune") /\ emit[p].table \in Table
             /\ emit'[p].table = emit[p].table
             /\ emit'[p].cutoff = emit[p].cutoff
          \/ /\ emit'[p].table \in Table
             /\ Cardinality(From(emit'[p].table, emit'[p].cutoff)) >= Limit
    BY <2>1, <2>2, <2>3, <2>5 DEF At
  <2>7. /\ next' \in [Table -> Nat] /\ rows' \in [Table -> SUBSET Nat]
        /\ \A u \in Table : IsFiniteSet(rows'[u]) /\ rows[u] \subseteq rows'[u]
    BY <2>4 DEF RowsOK
  <2> QED
    BY <2>6, <2>7, RowsGrow
<1>8. CASE NothingToCut(s)
  <2> DEFINE f == IF emit[s].table = "events"
                  THEN [emit[s] EXCEPT !.at = "cut", !.table = "deliveries", !.cutoff = 0]
                  ELSE Idle
  <2>1. emit' = [emit EXCEPT ![s] = f] /\ rows' = rows /\ next' = next
    BY <1>8 DEF NothingToCut, NextTable
  <2>2. f.at # "prune"
    BY EmissionTypes DEF Idle, Emission
  <2> HIDE DEF f
  <2> QED
    BY <1>1, <2>1, <2>2
<1>9. CASE StatementFails(s)
  <2> DEFINE f == IF emit[s].at \in {"load", "send"} THEN Pruning(emit[s]) ELSE Idle
  <2>1. emit' = [emit EXCEPT ![s] = f] /\ rows' = rows /\ next' = next
    BY <1>9 DEF StatementFails
  <2>2. f.at # "prune"
    BY DEF Pruning, Idle
  <2> HIDE DEF f
  <2> QED
    BY <1>1, <2>1, <2>2
<1> QED
  BY <1>3, <1>4, <1>5, <1>6, <1>7, <1>8, <1>9, DeleteRows DEF EmitStep

-----------------------------------------------------------------------------
HistoryInv == RefInv /\ RowsOK

LEMMA InitHistory == Init => HistoryInv
BY InitRefs, InitRows DEF HistoryInv

(* The references and the rows survive every step; a step that is not of   *)
(* an emission leaves the rows alone.                                      *)
LEMMA NextHistory == HistoryInv /\ [Next]_vars => HistoryInv'
<1> SUFFICES ASSUME HistoryInv, [Next]_vars PROVE HistoryInv'
  OBVIOUS
<1>0. RefInv /\ IdsOK /\ Refs /\ Emissions /\ RowsOK
      /\ next \in [Table -> Nat] /\ rows \in [Table -> SUBSET Nat]
  BY DEF HistoryInv, RefInv, RowsOK
<1>1. ASSUME UNCHANGED <<rows, next>>,
             \A s \in Emitter : At(s, "prune")' => At(s, "prune") /\ emit'[s] = emit[s]
      PROVE  RowsOK'
  BY <1>0, <1>1 DEF RowsOK, From, At
<1>2. CASE CreateWebhook
  BY <1>0, <1>1, <1>2, CreateWebhookRefs
  DEF HistoryInv, CreateWebhook, historyVars, At
<1>3. ASSUME NEW r \in Rule, DeleteRule(r)
      PROVE  HistoryInv'
  <2>1. /\ rules' = [rules EXCEPT ![r] = NULL]
        /\ UNCHANGED <<webhookVars, requestVars, historyVars>>
    BY <1>3 DEF DeleteRule
  <2>2. IdsOK' /\ Emissions'
    BY <1>0, <2>1 DEF IdsOK, Emissions, Exists, At, RefOK, webhookVars, historyVars
  <2>3. Refs'
    BY <1>0, <2>1 DEF Refs, RefOK, requestVars
  <2>4. RowsOK'
    BY <1>1, <2>1 DEF historyVars, At
  <2> QED
    BY <2>2, <2>3, <2>4 DEF HistoryInv, RefInv
<1>4. ASSUME NEW q \in Request, Handler(q)
      PROVE  HistoryInv'
  <2>1. UNCHANGED historyVars
    BY <1>4 DEF Handler, ValidateRule, CreateRule, UpdateRule, CountRules,
                DeleteWebhook, RequestFails
  <2>2. RowsOK'
    BY <1>1, <2>1 DEF historyVars, At
  <2> QED
    BY <1>0, <1>4, <2>2, RequestRefs DEF HistoryInv
<1>5. ASSUME NEW s \in Emitter, EmitStep(s)
      PROVE  HistoryInv'
  BY <1>0, <1>5, EmitRefs, EmitRows DEF HistoryInv
<1>6. CASE Crash
  <2>1. /\ pc' = [q \in Request |-> "idle"] /\ ref' = [q \in Request |-> NoHook]
        /\ rule' = [q \in Request |-> NULL]
        /\ emit' = [s \in Emitter |-> Idle]
        /\ UNCHANGED <<webhookVars, rules, rows, next>>
    BY <1>6 DEF Crash
  <2>2. IdsOK'
    BY <1>0, <2>1 DEF IdsOK, Exists, webhookVars
  <2>3. Refs'
    BY <1>0, <2>1, NoHookType DEF Refs, Pc, RefOK
  <2>4. \A s \in Emitter : emit'[s] = Idle /\ Idle.at = "idle" /\ Idle.ref = NoHook
    BY <2>1 DEF Idle
  <2>5. Emissions'
    BY <2>1, <2>4, IdleType, NoHookOK DEF Emissions, At, RefOK
  <2>6. RowsOK'
    BY <1>1, <2>1, <2>4 DEF At
  <2> QED
    BY <2>2, <2>3, <2>5, <2>6 DEF HistoryInv, RefInv
<1>7. CASE UNCHANGED vars
  <2>1. UNCHANGED <<webhookVars, rules, requestVars, rows, next, emit>>
    BY <1>7 DEF vars, webhookVars, requestVars
  <2>2. IdsOK' /\ Emissions' /\ Refs'
    BY <1>0, <2>1
    DEF IdsOK, Emissions, Refs, Exists, At, RefOK, webhookVars, requestVars
  <2>3. RowsOK'
    BY <1>1, <2>1 DEF At
  <2> QED
    BY <2>2, <2>3 DEF HistoryInv, RefInv
<1> QED
  BY <1>2, <1>3, <1>4, <1>5, <1>6, <1>7 DEF Next

(* References and rows keep their invariants through every interleaving    *)
(* of the statements of sql_repository.go.                                 *)
THEOREM HistoryAlways == Spec => []HistoryInv
BY InitHistory, NextHistory, PTL DEF Spec

(* A notification is sent to the target its rule's webhook had when the    *)
(* administrator chose it: LoadWebhook and DeleteWebhook in any order.     *)
THEOREM NeverMisdirected == Spec => []NotifiesChosen
<1>1. HistoryInv => NotifiesChosen
  BY DEF HistoryInv, RefInv, Emissions, NotifiesChosen
<1> QED
  BY <1>1, HistoryAlways, PTL

(* A row is deleted by DeleteOld alone, and only from below a cutoff with  *)
(* Limit rows at or above it.                                              *)
LEMMA KeepsLatest ==
    HistoryInv /\ [Next]_vars =>
    [\A t \in Table : \A i \in rows[t] \ rows'[t] :
        Cardinality(Newer(t, i)) >= Limit]_vars
<1> SUFFICES ASSUME HistoryInv, [Next]_vars,
                    NEW t \in Table, NEW i \in rows[t] \ rows'[t]
             PROVE  Cardinality(Newer(t, i)) >= Limit
  OBVIOUS
<1>1. RowsOK /\ Emissions
  BY DEF HistoryInv, RefInv
<1>2. PICK s \in Emitter : DeleteOld(s)
  <2>1. CASE UNCHANGED rows
    BY <2>1
  <2>2. ASSUME NEW u \in Table, Insert(u)
        PROVE  FALSE
    BY <1>1, <2>2, InsertRows DEF Insert
  <2>3. "events" \in Table /\ "deliveries" \in Table
    BY DEF Table
  <2>4. ASSUME NEW s \in Emitter, EmitStep(s), ~DeleteOld(s)
        PROVE  FALSE
    <3>1. UNCHANGED rows \/ Insert("events") \/ Insert("deliveries")
      BY <2>4 DEF EmitStep, ReadRule, CreateEvent, LoadWebhook, Deliver,
                  ReadCutoff, NothingToCut, StatementFails
    <3> QED
      BY <2>1, <2>2, <2>3, <3>1
  <2>5. ASSUME ~\E s \in Emitter : EmitStep(s)
        PROVE  UNCHANGED rows
    BY <2>5 DEF Next, CreateWebhook, DeleteRule, Handler, ValidateRule, CreateRule,
                UpdateRule, CountRules, DeleteWebhook, RequestFails, Crash,
                historyVars, vars
  <2> QED
    BY <2>1, <2>4, <2>5
<1> DEFINE c == emit[s].cutoff
           u == emit[s].table
<1>3. u \in Table /\ c \in Nat /\ Cardinality(From(u, c)) >= Limit
  BY <1>1, <1>2, EmissionTypes DEF DeleteOld, RowsOK
<1>4. rows' = [rows EXCEPT ![u] = From(u, c)]
  BY <1>2 DEF DeleteOld, Pruned, From
<1> HIDE DEF c, u
<1>5. u = t /\ i < c /\ i \in Nat
  BY <1>1, <1>3, <1>4 DEF RowsOK, From
<1>6. From(t, c) \subseteq Newer(t, i)
  BY <1>1, <1>3, <1>5 DEF RowsOK, From, Newer
<1>7. IsFiniteSet(Newer(t, i))
  BY <1>1, FS_Subset DEF RowsOK, Newer
<1>8. /\ Cardinality(From(t, c)) <= Cardinality(Newer(t, i))
      /\ Cardinality(From(t, c)) \in Nat /\ Cardinality(Newer(t, i)) \in Nat
  BY <1>1, <1>6, <1>7, FromFinite, FS_Subset, FS_CardinalityType
<1> QED
  BY <1>3, <1>5, <1>8, BoundAssumption

(* However late a cutoff is used, only rows that Limit newer ones have     *)
(* displaced are deleted.                                                  *)
THEOREM OnlyDisplacedDeleted == Spec => LatestKept
BY HistoryAlways, KeepsLatest, PTL DEF Spec, LatestKept

-----------------------------------------------------------------------------
(* How far a table may grow.                                               *)

(* Of two ids the smaller has more ids above it.                           *)
LEMMA NewerStep ==
    ASSUME NEW S \in SUBSET Nat, IsFiniteSet(S), NEW i \in S, NEW k \in S, i < k
    PROVE  Cardinality({j \in S : j > i}) # Cardinality({j \in S : j > k})
<1> DEFINE P == {j \in S : j > i}
           Q == {j \in S : j > k}
<1>1. i \in Nat /\ k \in Nat
  OBVIOUS
<1>2. k \in P /\ k \notin Q
  BY <1>1
<1>3. ASSUME NEW j \in Q
      PROVE  j \in P
  <2>1. j \in S /\ j \in Nat /\ j > k
    BY <1>3
  <2>2. j > i
    BY <1>1, <2>1
  <2> QED
    BY <2>1, <2>2
<1>4. IsFiniteSet(P)
  BY FS_Subset
<1> HIDE DEF P, Q
<1>5. Q \subseteq P
  BY <1>3
<1>6. Cardinality(P) = Cardinality(Q) => P = Q
  BY <1>4, <1>5, FS_Subset
<1>7. Cardinality(P) # Cardinality(Q)
  BY <1>2, <1>6
<1> QED
  BY <1>7 DEF P, Q

(* The n-th newest of a finite set of ids exists: counting what is newer   *)
(* than each id is an injection into 0..Cardinality-1, hence a surjection. *)
LEMMA RankExists ==
    ASSUME NEW S \in SUBSET Nat, IsFiniteSet(S), NEW n \in Nat, n < Cardinality(S)
    PROVE  \E i \in S : Cardinality({j \in S : j > i}) = n
<1> DEFINE A(i) == {j \in S : j > i}
           T == 0..(Cardinality(S) - 1)
           f == [i \in S |-> Cardinality(A(i))]
<1>0. Cardinality(S) \in Nat
  BY FS_CardinalityType
<1>1. ASSUME NEW i \in S
      PROVE  IsFiniteSet(A(i)) /\ Cardinality(A(i)) \in Nat /\ Cardinality(A(i)) \in T
  <2>1. A(i) \subseteq S /\ A(i) # S
    OBVIOUS
  <2>2. /\ IsFiniteSet(A(i)) /\ Cardinality(A(i)) <= Cardinality(S)
        /\ (Cardinality(A(i)) = Cardinality(S) => A(i) = S)
    BY <2>1, FS_Subset
  <2>3. Cardinality(A(i)) \in Nat
    BY <2>2, FS_CardinalityType
  <2> QED
    BY <1>0, <2>1, <2>2, <2>3
<1>2. ASSUME NEW i \in S, NEW k \in S, i < k
      PROVE  Cardinality(A(i)) # Cardinality(A(k))
  BY <1>2, NewerStep
<1>3. \A i, k \in S : Cardinality(A(i)) = Cardinality(A(k)) => i = k
  <2> SUFFICES ASSUME NEW i \in S, NEW k \in S, i # k
               PROVE  Cardinality(A(i)) # Cardinality(A(k))
    OBVIOUS
  <2>1. i < k \/ k < i
    OBVIOUS
  <2> QED
    BY <1>2, <2>1
<1>4. f \in Injection(S, T)
  <2> HIDE DEF A, T
  <2> QED
    BY <1>1, <1>3 DEF Injection, IsInjective
<1>5. IsFiniteSet(T) /\ Cardinality(T) = Cardinality(S)
  <2> DEFINE b == Cardinality(S) - 1
  <2>1. b \in Int /\ 0 \in Int /\ Cardinality(S) = b + 1 /\ b >= -1
    BY <1>0
  <2> HIDE DEF b
  <2>2. IsFiniteSet(0..b) /\ Cardinality(0..b) = IF 0 > b THEN 0 ELSE b - 0 + 1
    BY <2>1, FS_Interval
  <2>3. Cardinality(0..b) = b + 1
    BY <2>1, <2>2
  <2> QED
    BY <2>1, <2>2, <2>3 DEF b
<1>6. f \in Surjection(S, T)
  <2> HIDE DEF f, T
  <2> QED
    BY <1>4, <1>5, FS_Injection
<1>7. n \in T
  BY <1>0
<1>8. \E i \in S : f[i] = n
  BY <1>6, <1>7, Zenon DEF Surjection
<1> QED
  BY <1>8

(* With nothing to cut a table has fewer than Limit rows.                  *)
LEMMA FewRows ==
    ASSUME RowsOK, NEW t \in Table, ~\E i \in rows[t] : Cuts(t, i)
    PROVE  Cardinality(rows[t]) \in Nat /\ Cardinality(rows[t]) < Limit
<1>1. rows[t] \in SUBSET Nat /\ IsFiniteSet(rows[t])
  BY DEF RowsOK
<1>2. Cardinality(rows[t]) \in Nat
  BY <1>1, FS_CardinalityType
<1>3. CASE ~ Cardinality(rows[t]) < Limit
  <2>1. Limit - 1 \in Nat /\ Limit - 1 < Cardinality(rows[t])
    BY <1>2, <1>3, BoundAssumption
  <2>2. \E i \in rows[t] : Cardinality({j \in rows[t] : j > i}) = Limit - 1
    BY <1>1, <2>1, RankExists
  <2> QED
    BY <2>2 DEF Cuts, Newer
<1> QED
  BY <1>2, <1>3

(* What an emission keeps when it deletes with a cutoff read long before:  *)
(* some id m after its own row separates the rows that were there when the *)
(* cutoff was read, of which at most Limit are left, from those inserted   *)
(* since, whose emissions have all still to prune.                         *)
Window(t, c, m) == {i \in rows[t] : c <= i /\ i < m}

Separates(t, c, o, m) ==
    /\ o < m /\ m <= next[t]
    /\ Cardinality(Window(t, c, m)) <= Limit
    /\ \A i \in rows[t] : i >= m => i \in owed[t]

Numbered ==
    /\ owed \in [Table -> SUBSET Nat]
    /\ \A t \in Table : next[t] >= 1 /\ \A i \in rows[t] : i < next[t]
    /\ \A s \in Emitter : \A t \in Table : emit[s].own[t] < next[t]

Separated ==
    \A s \in Emitter : At(s, "prune") =>
        \E m \in Nat : Separates(emit[s].table, emit[s].cutoff,
                                 emit[s].own[emit[s].table], m)

Settled == Numbered /\ Separated /\ HistoryBounded

(* Fewer rows is a smaller count.                                          *)
LEMMA Fewer ==
    ASSUME NEW S, NEW R, S \subseteq R, IsFiniteSet(R), Cardinality(R) <= Limit
    PROVE  IsFiniteSet(S) /\ Cardinality(S) <= Limit
<1>1. /\ IsFiniteSet(S) /\ Cardinality(S) <= Cardinality(R)
      /\ Cardinality(S) \in Nat /\ Cardinality(R) \in Nat
  BY FS_Subset, FS_CardinalityType
<1> QED
  BY <1>1, BoundAssumption

LEMMA WindowFinite ==
    ASSUME RowsOK, NEW t \in Table, NEW c, NEW m
    PROVE  IsFiniteSet(Window(t, c, m))
BY FS_Subset DEF RowsOK, Window
(* A row inserted later is at or above m, and its emission owes it.        *)
LEMMA StillSeparates ==
    ASSUME RowsOK, NEW t \in Table, NEW c \in Nat, NEW o \in Nat, NEW m \in Nat,
           Separates(t, c, o, m), next'[t] \in Nat, next[t] <= next'[t],
           \A i \in rows'[t] : i \in Nat /\ (i \in rows[t] \/ i >= next[t]),
           \A i \in rows'[t] : i >= m => i \in owed'[t]
    PROVE  Separates(t, c, o, m)'
<1> DEFINE W == {i \in rows'[t] : c <= i /\ i < m}
<1>1. next[t] \in Nat /\ o < m /\ m <= next[t] /\ Cardinality(Window(t, c, m)) <= Limit
  BY DEF Separates, RowsOK
<1>2. W \subseteq Window(t, c, m)
  BY <1>1 DEF Window
<1>3. Cardinality(W) <= Limit
  <2> HIDE DEF W
  <2> QED
    BY <1>1, <1>2, WindowFinite, Fewer
<1> QED
  BY <1>1, <1>3 DEF Separates, Window

LEMMA OwnType ==
    ASSUME Emissions, Numbered, NEW s \in Emitter
    PROVE  /\ emit[s] \in Emission /\ emit[s].table \in Table /\ emit[s].cutoff \in Nat
           /\ emit[s].own \in [Table -> Nat]
           /\ \A t \in Table : emit[s].own[t] \in Nat /\ emit[s].own[t] < next[t]
BY EmissionTypes DEF Numbered

LEMMA InitSettled == Init => Settled
<1> SUFFICES ASSUME Init PROVE Settled
  OBVIOUS
<1>1. Cardinality({}) = 0
  BY FS_EmptySet
<1>2. Numbered
  BY DEF Init, Numbered, Idle, NoRows
<1>3. Separated
  BY DEF Init, Separated, At, Idle
<1>4. HistoryBounded
  <2>1. \A t \in Table : rows[t] \ owed[t] = {}
    BY DEF Init
  <2> QED
    BY <1>1, <2>1, BoundAssumption DEF HistoryBounded
<1> QED
  BY <1>2, <1>3, <1>4 DEF Settled

(* The tables stay as they are, and nobody starts to delete.               *)
LEMMA QuietSettled ==
    ASSUME Settled, UNCHANGED <<rows, next, owed>>,
           \A s \in Emitter :
              \/ emit'[s] = emit[s]
              \/ /\ emit'[s].at # "prune"
                 /\ \A t \in Table : emit'[s].own[t] < next[t]
    PROVE  Settled'
<1>1. Numbered'
  BY DEF Settled, Numbered
<1>2. HistoryBounded'
  BY DEF Settled, HistoryBounded
<1>3. ASSUME NEW s \in Emitter, At(s, "prune")'
      PROVE  \E m \in Nat : Separates(emit[s].table, emit[s].cutoff,
                                      emit[s].own[emit[s].table], m)'
  <2>1. emit'[s] = emit[s] /\ At(s, "prune")
    BY <1>3 DEF At
  <2>2. PICK m \in Nat : Separates(emit[s].table, emit[s].cutoff,
                                   emit[s].own[emit[s].table], m)
    BY <2>1 DEF Settled, Separated
  <2>3. Separates(emit[s].table, emit[s].cutoff, emit[s].own[emit[s].table], m)'
    BY <2>1, <2>2 DEF Separates, Window
  <2> QED
    BY <2>3
<1> QED
  BY <1>1, <1>2, <1>3 DEF Settled, Separated

(* A row comes in, owed by its emission.                                   *)
InsertsRow(s, e, u) ==
    /\ Insert(u) /\ emit' = [emit EXCEPT ![s] = e] /\ e.at # "prune"
    /\ \A t \in Table : e.own[t] = IF t = u THEN next[u] ELSE emit[s].own[t]

LEMMA InsertSettled ==
    ASSUME RowsOK, Emissions, Settled, NEW u \in Table, NEW s \in Emitter,
           NEW e, InsertsRow(s, e, u)
    PROVE  Settled'
<1> USE DEF Settled, InsertsRow
<1>1. /\ next \in [Table -> Nat] /\ rows \in [Table -> SUBSET Nat]
      /\ owed \in [Table -> SUBSET Nat]
      /\ \A t \in Table : IsFiniteSet(rows[t])
  BY DEF RowsOK, Numbered
<1>2. /\ \A t \in Table : next'[t] = IF t = u THEN next[u] + 1 ELSE next[t]
      /\ \A t \in Table : rows'[t] = IF t = u THEN rows[u] \cup {next[u]} ELSE rows[t]
      /\ \A t \in Table : owed'[t] = IF t = u THEN owed[u] \cup {next[u]} ELSE owed[t]
  BY <1>1 DEF Insert
<1>3. owed' \in [Table -> SUBSET Nat]
  BY <1>1 DEF Insert
<1>4. /\ emit'[s] = e
      /\ \A p \in Emitter : p # s => emit'[p] = emit[p]
  BY DEF Emissions
<1>5. Numbered'
  <2>1. \A t \in Table : next'[t] >= 1 /\ \A i \in rows'[t] : i < next'[t]
    BY <1>1, <1>2 DEF Numbered
  <2>2. ASSUME NEW p \in Emitter, NEW t \in Table
        PROVE  emit'[p].own[t] < next'[t]
    BY <1>1, <1>2, <1>4, OwnType
  <2> QED
    BY <1>3, <2>1, <2>2 DEF Numbered
<1>6. HistoryBounded'
  <2> SUFFICES ASSUME NEW t \in Table
               PROVE  Cardinality(rows'[t] \ owed'[t]) <= Limit
    BY DEF HistoryBounded
  <2>1. rows'[t] \ owed'[t] \subseteq rows[t] \ owed[t]
    BY <1>2
  <2>2. IsFiniteSet(rows[t] \ owed[t]) /\ Cardinality(rows[t] \ owed[t]) <= Limit
    BY <1>1, FS_Subset DEF HistoryBounded
  <2> QED
    BY <2>1, <2>2, Fewer
<1>7. ASSUME NEW p \in Emitter, At(p, "prune")'
      PROVE  \E m \in Nat : Separates(emit[p].table, emit[p].cutoff,
                                      emit[p].own[emit[p].table], m)'
  <2>1. emit'[p] = emit[p] /\ At(p, "prune")
    BY <1>4, <1>7 DEF At
  <2> DEFINE t == emit[p].table
             c == emit[p].cutoff
             o == emit[p].own[t]
  <2>2. t \in Table /\ c \in Nat /\ o \in Nat
    BY OwnType
  <2>3. PICK m \in Nat : Separates(t, c, o, m)
    BY <2>1 DEF Separated
  <2>4. m <= next[t] /\ \A i \in rows[t] : i >= m => i \in owed[t]
    BY <2>3 DEF Separates
  <2> HIDE DEF t, c, o
  <2>5. /\ next'[t] \in Nat /\ next[t] <= next'[t]
        /\ \A i \in rows'[t] : i \in Nat /\ (i \in rows[t] \/ i >= next[t])
    BY <1>1, <1>2, <2>2
  <2>6. \A i \in rows'[t] : i >= m => i \in owed'[t]
    BY <1>2, <2>2, <2>4
  <2>7. \A d, w \in Nat, x \in Table : Separates(x, d, w, m) /\ x = t =>
           Separates(x, d, w, m)'
    BY <2>5, <2>6, StillSeparates
  <2>8. \A x \in Table, d, w \in Nat :
           x = t /\ d = c /\ w = o => Separates(x, d, w, m)'
    BY <2>3, <2>7
  <2>9. Separates(emit[p].table, emit[p].cutoff, emit[p].own[emit[p].table], m)'
    <3>1. emit'[p].table = t /\ emit'[p].cutoff = c /\ emit'[p].own[emit'[p].table] = o
      BY <2>1 DEF t, c, o
    <3> QED
      BY <2>2, <2>8, <3>1
  <2> QED
    BY <2>9
<1> QED
  BY <1>5, <1>6, <1>7 DEF Separated
(* A cutoff is read: m is the counter, which no row has reached.           *)
LEMMA CutoffSettled ==
    ASSUME RowsOK, Emissions, Settled, NEW s \in Emitter, NEW i, ReadCutoff(s, i)
    PROVE  Settled'
<1> USE DEF Settled
<1> DEFINE u == emit[s].table
           k == emit[s].own[u]
           e == [emit[s] EXCEPT !.at = "prune", !.cutoff = i]
<1>1. /\ u \in Table /\ i \in rows[u] /\ Cuts(u, i)
      /\ UNCHANGED <<rows, next, owed>>
  BY OwnType DEF ReadCutoff
<1>2. /\ i \in Nat /\ next[u] \in Nat /\ IsFiniteSet(rows[u])
      /\ rows[u] \in SUBSET Nat /\ k \in Nat /\ k < next[u]
      /\ \A j \in rows[u] : j < next[u]
  BY <1>1, OwnType DEF RowsOK, Numbered
<1>3. emit' = [emit EXCEPT ![s] = e]
  BY OwnType DEF ReadCutoff, Emissions
<1>4. /\ emit'[s].table = u /\ emit'[s].cutoff = i /\ emit'[s].own = emit[s].own
      /\ \A p \in Emitter : p # s => emit'[p] = emit[p]
  BY <1>3, OwnType DEF Emissions, Emission
<1>5. Numbered' /\ HistoryBounded'
  BY <1>1, <1>4 DEF Numbered, HistoryBounded
<1> HIDE DEF e, u, k
<1>6. Separates(u, i, k, next[u])
  <2>1. Window(u, i, next[u]) = Newer(u, i) \cup {i} /\ i \notin Newer(u, i)
    BY <1>1, <1>2 DEF Window, Newer
  <2>2. IsFiniteSet(Newer(u, i)) /\ Cardinality(Newer(u, i)) = Limit - 1
    BY <1>1, <1>2, FS_Subset DEF Newer, Cuts
  <2>3. Cardinality(Newer(u, i) \cup {i}) = Cardinality(Newer(u, i)) + 1
    BY <2>1, <2>2, FS_AddElement
  <2>4. Cardinality(Window(u, i, next[u])) <= Limit
    BY <2>1, <2>2, <2>3, BoundAssumption
  <2>5. \A j \in rows[u] : ~ j >= next[u]
    BY <1>2
  <2> QED
    BY <1>2, <2>4, <2>5 DEF Separates
<1>7. ASSUME NEW p \in Emitter, At(p, "prune")'
      PROVE  \E m \in Nat : Separates(emit[p].table, emit[p].cutoff,
                                      emit[p].own[emit[p].table], m)'
  <2>0. ASSUME NEW t \in Table, NEW c \in Nat, NEW o \in Nat, NEW m \in Nat,
               Separates(t, c, o, m)
        PROVE  Separates(t, c, o, m)'
    BY <1>1, <2>0 DEF Separates, Window
  <2> DEFINE t == emit'[p].table
             c == emit'[p].cutoff
             o == emit'[p].own[t]
  <2>1. t \in Table /\ c \in Nat /\ o \in Nat
    BY <1>1, <1>2, <1>4, OwnType DEF k
  <2>2. \E m \in Nat : Separates(t, c, o, m)
    <3>1. CASE p = s
      <4>1. t = u /\ c = i /\ o = k
        BY <1>4, <3>1 DEF k, u
      <4> QED
        BY <1>2, <1>6, <4>1
    <3>2. CASE p # s
      BY <1>4, <1>7, <3>2 DEF Separated, At
    <3> QED
      BY <3>1, <3>2
  <2>3. PICK m \in Nat : Separates(t, c, o, m)
    BY <2>2
  <2>4. Separates(emit[p].table, emit[p].cutoff, emit[p].own[emit[p].table], m)'
    <3> HIDE DEF t, c, o
    <3>1. \A x \in Table, d, w \in Nat :
             x = t /\ d = c /\ w = o => Separates(x, d, w, m)'
      BY <2>0, <2>3
    <3> QED
      BY <2>1, <3>1 DEF t, c, o
  <2> QED
    BY <2>4
<1> QED
  BY <1>5, <1>7 DEF Separated

(* An emission is done with a table: its row is no longer owed.            *)
LEMMA NextTableSteps ==
    ASSUME Emissions, Numbered, NEW s \in Emitter, NextTable(s),
           rows' \in [Table -> SUBSET Nat]
    PROVE  /\ emit'[s].at # "prune"
           /\ \A t \in Table : emit'[s].own[t] = emit[s].own[t] \/ emit'[s].own[t] = 0
           /\ \A p \in Emitter : p # s => emit'[p] = emit[p]
           /\ owed' \in [Table -> SUBSET Nat]
           /\ \A t \in Table : owed'[t] =
                 IF t = emit[s].table
                 THEN (owed[t] \ {emit[s].own[t]}) \cap rows'[t] ELSE owed[t]
<1> DEFINE f == IF emit[s].table = "events"
                THEN [emit[s] EXCEPT !.at = "cut", !.table = "deliveries", !.cutoff = 0]
                ELSE Idle
<1>1. emit' = [emit EXCEPT ![s] = f]
  BY DEF NextTable
<1>2. f.at # "prune" /\ (f.own = emit[s].own \/ f.own = NoRows)
  BY OwnType DEF Idle, Emission
<1> HIDE DEF f
<1>3. /\ emit'[s] = f
      /\ \A p \in Emitter : p # s => emit'[p] = emit[p]
  BY <1>1 DEF Emissions
<1>4. emit[s].table \in Table /\ emit[s].own[emit[s].table] \in Nat
  BY OwnType
<1>5. owed' = [owed EXCEPT ![emit[s].table] =
                  (owed[emit[s].table] \ {emit[s].own[emit[s].table]})
                  \cap rows'[emit[s].table]]
  BY DEF NextTable
<1>6. owed' \in [Table -> SUBSET Nat]
  BY <1>4, <1>5 DEF Numbered
<1>7. \A t \in Table : owed'[t] =
         IF t = emit[s].table
         THEN (owed[t] \ {emit[s].own[t]}) \cap rows'[t] ELSE owed[t]
  BY <1>4, <1>5 DEF Numbered
<1> QED
  BY <1>2, <1>3, <1>6, <1>7 DEF NoRows

(* There was nothing to cut: fewer than Limit rows, whoever they are owed  *)
(* by, so the counter separates for everybody.                             *)
LEMMA NothingSettled ==
    ASSUME RowsOK, Emissions, Settled, NEW s \in Emitter, NothingToCut(s)
    PROVE  Settled'
<1> USE DEF Settled
<1> DEFINE u == emit[s].table
<1>1. /\ UNCHANGED <<rows, next>> /\ NextTable(s) /\ u \in Table
      /\ ~\E i \in rows[u] : Cuts(u, i)
  BY OwnType DEF NothingToCut
<1>2. /\ next \in [Table -> Nat] /\ rows \in [Table -> SUBSET Nat]
      /\ \A t \in Table : IsFiniteSet(rows[t])
  BY DEF RowsOK
<1>3. Cardinality(rows[u]) <= Limit
  BY <1>1, FewRows, BoundAssumption
<1>4. /\ emit'[s].at # "prune"
      /\ \A t \in Table : emit'[s].own[t] = emit[s].own[t] \/ emit'[s].own[t] = 0
      /\ \A p \in Emitter : p # s => emit'[p] = emit[p]
      /\ owed' \in [Table -> SUBSET Nat]
      /\ \A t \in Table : t # u => owed'[t] = owed[t]
  BY <1>1, <1>2, NextTableSteps
<1> HIDE DEF u
<1>5. Numbered'
  <2>1. ASSUME NEW p \in Emitter, NEW t \in Table
        PROVE  emit'[p].own[t] < next'[t]
    BY <1>1, <1>2, <1>4, OwnType DEF Numbered
  <2> QED
    BY <1>1, <1>4, <2>1 DEF Numbered
<1>6. HistoryBounded'
  <2> SUFFICES ASSUME NEW t \in Table
               PROVE  Cardinality(rows'[t] \ owed'[t]) <= Limit
    BY DEF HistoryBounded
  <2>1. CASE t = u
    BY <1>1, <1>2, <1>3, <2>1, Fewer
  <2>2. CASE t # u
    BY <1>1, <1>4, <2>2 DEF HistoryBounded
  <2> QED
    BY <2>1, <2>2
<1>7. ASSUME NEW p \in Emitter, At(p, "prune")'
      PROVE  \E m \in Nat : Separates(emit[p].table, emit[p].cutoff,
                                      emit[p].own[emit[p].table], m)'
  <2> DEFINE t == emit[p].table
             c == emit[p].cutoff
             o == emit[p].own[t]
  <2>1. emit'[p] = emit[p] /\ At(p, "prune")
    BY <1>4, <1>7 DEF At
  <2>2. t \in Table /\ c \in Nat /\ o \in Nat /\ o < next[t] /\ next[t] \in Nat
    BY <1>2, OwnType
  <2>3. PICK m \in Nat : Separates(t, c, o, m)
    BY <2>1 DEF Separated
  <2>4. emit'[p].table = t /\ emit'[p].cutoff = c /\ emit'[p].own[emit'[p].table] = o
    BY <2>1
  <2> HIDE DEF t, c, o
  <2>5. CASE t # u
    <3>1. /\ o < m /\ m <= next'[t] /\ Cardinality(Window(t, c, m)) <= Limit
          /\ \A i \in rows'[t] : i >= m => i \in owed'[t]
      BY <1>1, <1>4, <2>2, <2>3, <2>5 DEF Separates
    <3>2. Window(t, c, m) = {i \in rows'[t] : c <= i /\ i < m}
      BY <1>1 DEF Window
    <3> QED
      BY <2>2, <2>4, <3>1, <3>2 DEF Separates, Window
  <2>6. CASE t = u
    <3>0. PICK m1 \in Nat : m1 = next[t]
      BY <2>2
    <3>1. Window(t, c, m1) \subseteq rows[t]
      BY DEF Window
    <3>2. Cardinality(Window(t, c, m1)) <= Limit
      BY <1>2, <1>3, <2>2, <2>6, <3>1, Fewer
    <3>3. \A i \in rows'[t] : ~ i >= m1
      BY <1>1, <1>2, <2>2, <3>0 DEF Numbered
    <3>4. Window(t, c, m1) = {i \in rows'[t] : c <= i /\ i < m1}
      BY <1>1 DEF Window
    <3>5. Separates(emit[p].table, emit[p].cutoff, emit[p].own[emit[p].table], m1)'
      BY <1>1, <2>2, <2>4, <3>0, <3>2, <3>3, <3>4 DEF Separates, Window
    <3> QED
      BY <3>5
  <2> QED
    BY <2>5, <2>6
<1> QED
  BY <1>5, <1>6, <1>7 DEF Separated
(* Deleting: of the rows from the cutoff on at most Limit were there when  *)
(* it was read, the emission's own among them, and the others are owed.    *)
LEMMA DeleteSettled ==
    ASSUME RowsOK, Emissions, Settled, NEW s \in Emitter, DeleteOld(s)
    PROVE  Settled'
<1> USE DEF Settled
<1> DEFINE u == emit[s].table
           d == emit[s].cutoff
           k == emit[s].own[u]
<1>1. /\ NextTable(s) /\ u \in Table /\ d \in Nat /\ k \in Nat /\ next' = next
      /\ rows' = [rows EXCEPT ![u] = {i \in rows[u] : i >= d}] /\ At(s, "prune")
  BY OwnType DEF DeleteOld, Pruned
<1>2. /\ next \in [Table -> Nat] /\ rows \in [Table -> SUBSET Nat]
      /\ \A t \in Table : IsFiniteSet(rows[t])
  BY DEF RowsOK
<1>3. /\ \A t \in Table : rows'[t] = IF t = u THEN {i \in rows[u] : i >= d} ELSE rows[t]
      /\ rows' \in [Table -> SUBSET Nat]
  BY <1>1, <1>2
<1>4. /\ emit'[s].at # "prune"
      /\ \A t \in Table : emit'[s].own[t] = emit[s].own[t] \/ emit'[s].own[t] = 0
      /\ \A p \in Emitter : p # s => emit'[p] = emit[p]
      /\ owed' \in [Table -> SUBSET Nat]
      /\ \A t \in Table : owed'[t] =
            IF t = u THEN (owed[t] \ {k}) \cap rows'[t] ELSE owed[t]
  <2>1. \A t \in Table : owed'[t] =
           IF t = u THEN (owed[t] \ {emit[s].own[t]}) \cap rows'[t] ELSE owed[t]
    BY <1>1, <1>3, NextTableSteps
  <2>2. \A t \in Table : t = u => emit[s].own[t] = k
    OBVIOUS
  <2>3. \A t \in Table : owed'[t] =
           IF t = u THEN (owed[t] \ {k}) \cap rows'[t] ELSE owed[t]
    <3> HIDE DEF u, d, k
    <3> QED
      BY <2>1, <2>2
  <2> QED
    BY <1>1, <1>3, <2>3, NextTableSteps
<1>5. PICK n \in Nat : Separates(u, d, k, n)
  BY <1>1 DEF Separated
<1>6. /\ k < n /\ n <= next[u] /\ Cardinality(Window(u, d, n)) <= Limit
      /\ \A i \in rows[u] : i >= n => i \in owed[u]
  BY <1>5 DEF Separates
<1> HIDE DEF u, d, k
<1>7. Numbered'
  <2>1. ASSUME NEW p \in Emitter, NEW t \in Table
        PROVE  emit'[p].own[t] < next'[t]
    BY <1>1, <1>2, <1>4, OwnType DEF Numbered
  <2>2. \A t \in Table : next'[t] >= 1 /\ \A i \in rows'[t] : i < next'[t]
    BY <1>1, <1>3 DEF Numbered
  <2> QED
    BY <1>4, <2>1, <2>2 DEF Numbered
<1>8. HistoryBounded'
  <2> SUFFICES ASSUME NEW t \in Table
               PROVE  Cardinality(rows'[t] \ owed'[t]) <= Limit
    BY DEF HistoryBounded
  <2>1. CASE t = u
    <3>1. rows'[t] \ owed'[t] \subseteq Window(u, d, n)
      <4> SUFFICES ASSUME NEW i \in rows'[t], i \notin owed'[t]
                   PROVE  i \in Window(u, d, n)
        OBVIOUS
      <4>1. i \in rows[u] /\ i \in Nat /\ i >= d /\ (i = k \/ i \notin owed[u])
        BY <1>1, <1>2, <1>3, <1>4, <2>1
      <4>2. i < n
        BY <1>1, <1>6, <4>1
      <4> QED
        BY <1>1, <4>1, <4>2 DEF Window
    <3> QED
      BY <1>1, <1>6, <3>1, WindowFinite, Fewer
  <2>2. CASE t # u
    BY <1>3, <1>4, <2>2 DEF HistoryBounded
  <2> QED
    BY <2>1, <2>2
<1>9. ASSUME NEW p \in Emitter, At(p, "prune")'
      PROVE  \E m \in Nat : Separates(emit[p].table, emit[p].cutoff,
                                      emit[p].own[emit[p].table], m)'
  <2> DEFINE t == emit[p].table
             c == emit[p].cutoff
             o == emit[p].own[t]
  <2>1. emit'[p] = emit[p] /\ At(p, "prune")
    BY <1>4, <1>9 DEF At
  <2>2. t \in Table /\ c \in Nat /\ o \in Nat /\ next[t] \in Nat
    BY <1>2, OwnType
  <2>3. PICK m \in Nat : Separates(t, c, o, m)
    BY <2>1 DEF Separated
  <2>4. emit'[p].table = t /\ emit'[p].cutoff = c /\ emit'[p].own[emit'[p].table] = o
    BY <2>1
  <2> HIDE DEF t, c, o
  <2>5. /\ o < m /\ m <= next[t] /\ Cardinality(Window(t, c, m)) <= Limit
        /\ \A i \in rows[t] : i >= m => i \in owed[t]
    BY <2>3 DEF Separates
  <2>6. ASSUME NEW m1 \in Nat, o < m1, m1 <= next[t],
               Cardinality({i \in rows'[t] : c <= i /\ i < m1}) <= Limit,
               \A i \in rows'[t] : i >= m1 => i \in owed'[t]
        PROVE  Separates(emit[p].table, emit[p].cutoff, emit[p].own[emit[p].table], m1)'
    BY <1>1, <2>2, <2>4, <2>6 DEF Separates, Window
  <2>7. CASE t # u \/ k < m
    <3>1. {i \in rows'[t] : c <= i /\ i < m} \subseteq Window(t, c, m)
      BY <1>3, <2>2 DEF Window
    <3>2. Cardinality({i \in rows'[t] : c <= i /\ i < m}) <= Limit
      BY <2>2, <2>5, <3>1, WindowFinite, Fewer
    <3>3. \A i \in rows'[t] : i >= m => i \in owed'[t]
      BY <1>1, <1>2, <1>3, <1>4, <2>2, <2>5, <2>7
    <3> QED
      BY <2>5, <2>6, <3>2, <3>3
  <2>8. CASE t = u /\ ~ k < m
    <3>1. {i \in rows'[t] : c <= i /\ i < n} \subseteq Window(u, d, n)
      BY <1>1, <1>2, <1>3, <2>2, <2>8 DEF Window
    <3>2. Cardinality({i \in rows'[t] : c <= i /\ i < n}) <= Limit
      BY <1>1, <1>6, <3>1, WindowFinite, Fewer
    <3>3. \A i \in rows'[t] : i >= n => i \in owed'[t]
      BY <1>1, <1>2, <1>3, <1>4, <1>6, <2>2, <2>8
    <3>4. o < n /\ n <= next[t]
      BY <1>1, <1>6, <2>2, <2>5, <2>8
    <3> QED
      BY <2>6, <3>2, <3>3, <3>4
  <2> QED
    BY <2>7, <2>8, <1>1
<1> QED
  BY <1>7, <1>8, <1>9 DEF Separated
LEMMA EmitSettled ==
    ASSUME RowsOK, Emissions, Settled, NEW s \in Emitter, EmitStep(s)
    PROVE  Settled'
<1>0. /\ emit[s] \in Emission /\ emit[s].own \in [Table -> Nat]
      /\ \A t \in Table : emit[s].own[t] \in Nat /\ emit[s].own[t] < next[t]
      /\ \A t \in Table : 0 < next[t] /\ next[t] \in Nat
      /\ "events" \in Table /\ "deliveries" \in Table
  BY OwnType DEF Settled, Numbered, RowsOK, Table
<1>1. ASSUME UNCHANGED <<rows, next, owed>>, NEW e, emit' = [emit EXCEPT ![s] = e],
             e.at # "prune", e.own = emit[s].own \/ e.own = NoRows
      PROVE  Settled'
  <2>1. /\ emit'[s] = e
        /\ \A p \in Emitter : p # s => emit'[p] = emit[p]
    BY <1>1 DEF Emissions
  <2>2. \A t \in Table : e.own[t] < next[t]
    BY <1>0, <1>1 DEF NoRows
  <2> QED
    BY <1>1, <2>1, <2>2, QuietSettled
<1>2. Pruning(emit[s]).own = emit[s].own /\ Pruning(emit[s]).at = "cut"
      /\ Idle.own = NoRows /\ Idle.at = "idle"
  BY DEF Pruning, Idle
<1>3. ASSUME NEW r \in Rule, ReadRule(s, r)
      PROVE  Settled'
  <2> DEFINE f == [Idle EXCEPT !.at = "record", !.ref = rules[r]]
  <2>1. emit' = [emit EXCEPT ![s] = f] /\ UNCHANGED <<rows, next, owed>>
    BY <1>3 DEF ReadRule
  <2>2. f.at # "prune" /\ f.own = NoRows
    BY DEF Idle
  <2> HIDE DEF f
  <2> QED
    BY <1>1, <2>1, <2>2
<1>4. CASE CreateEvent(s)
  <2> DEFINE e == [emit[s] EXCEPT !.own["events"] = next["events"]]
             f == IF e.ref.hook = 0 THEN Pruning(e) ELSE [e EXCEPT !.at = "load"]
  <2>1. Insert("events") /\ emit' = [emit EXCEPT ![s] = f]
    BY <1>4 DEF CreateEvent
  <2>2. e.own = [emit[s].own EXCEPT !["events"] = next["events"]] /\ e \in Emission
    BY <1>0 DEF Emission
  <2>3. f.at # "prune" /\ f.own = e.own
    <3> HIDE DEF e
    <3> QED
      BY <2>2 DEF Pruning, Idle, Emission
  <2> HIDE DEF e, f
  <2>4. \A t \in Table :
           f.own[t] = IF t = "events" THEN next["events"] ELSE emit[s].own[t]
    BY <1>0, <2>2, <2>3
  <2>5. PICK u \in Table : u = "events"
    BY <1>0
  <2>6. InsertsRow(s, f, u)
    BY <2>1, <2>3, <2>4, <2>5 DEF InsertsRow
  <2> QED
    BY <2>6, InsertSettled
<1>5. CASE LoadWebhook(s)
  <2> DEFINE h == emit[s].ref.hook
             f == IF Exists(h)
                  THEN [emit[s] EXCEPT !.at = "send", !.target = hooks[h]]
                  ELSE Pruning(emit[s])
  <2>1. emit' = [emit EXCEPT ![s] = f] /\ UNCHANGED <<rows, next, owed>>
    BY <1>5 DEF LoadWebhook
  <2>2. f.at # "prune" /\ f.own = emit[s].own
    BY <1>0, <1>2 DEF Emission
  <2> HIDE DEF f
  <2> QED
    BY <1>1, <2>1, <2>2
<1>6. CASE Deliver(s)
  <2> DEFINE e == [emit[s] EXCEPT !.own["deliveries"] = next["deliveries"]]
             f == Pruning(e)
  <2>1. Insert("deliveries") /\ emit' = [emit EXCEPT ![s] = f]
    BY <1>6 DEF Deliver
  <2>2. e.own = [emit[s].own EXCEPT !["deliveries"] = next["deliveries"]]
    BY <1>0 DEF Emission
  <2>3. f.at # "prune" /\ f.own = e.own
    BY DEF Pruning, Idle
  <2> HIDE DEF e, f
  <2>4. \A t \in Table :
           f.own[t] = IF t = "deliveries" THEN next["deliveries"] ELSE emit[s].own[t]
    BY <1>0, <2>2, <2>3
  <2>5. PICK u \in Table : u = "deliveries"
    BY <1>0
  <2>6. InsertsRow(s, f, u)
    BY <2>1, <2>3, <2>4, <2>5 DEF InsertsRow
  <2> QED
    BY <2>6, InsertSettled
<1>7. CASE StatementFails(s)
  <2> DEFINE f == IF emit[s].at \in {"load", "send"} THEN Pruning(emit[s]) ELSE Idle
  <2>1. emit' = [emit EXCEPT ![s] = f] /\ UNCHANGED <<rows, next, owed>>
    BY <1>7 DEF StatementFails
  <2>2. f.at # "prune" /\ (f.own = emit[s].own \/ f.own = NoRows)
    BY <1>2
  <2> HIDE DEF f
  <2> QED
    BY <1>1, <2>1, <2>2
<1> QED
  BY <1>3, <1>4, <1>5, <1>6, <1>7, CutoffSettled, NothingSettled, DeleteSettled
  DEF EmitStep

LEMMA NextSettled == HistoryInv /\ Settled /\ [Next]_vars => Settled'
<1> SUFFICES ASSUME HistoryInv, Settled, [Next]_vars PROVE Settled'
  OBVIOUS
<1>1. RowsOK /\ Emissions
  BY DEF HistoryInv, RefInv
<1>2. ASSUME NEW s \in Emitter, EmitStep(s)
      PROVE  Settled'
  BY <1>1, <1>2, EmitSettled
<1>3. CASE UNCHANGED historyVars
  BY <1>1, <1>3, QuietSettled DEF historyVars
<1>4. CASE Crash
  <2>1. \A s \in Emitter : emit'[s] = Idle
    BY <1>4 DEF Crash
  <2>2. Idle.at # "prune" /\ \A t \in Table : Idle.own[t] = 0
    BY DEF Idle, NoRows
  <2>3. \A t \in Table : 0 < next[t]
    BY <1>1 DEF Settled, Numbered, RowsOK
  <2> QED
    BY <1>1, <1>4, <2>1, <2>2, <2>3, QuietSettled DEF Crash
<1>5. ASSUME ~\E s \in Emitter : EmitStep(s), ~Crash
      PROVE  UNCHANGED historyVars
  BY <1>5 DEF Next, CreateWebhook, DeleteRule, Handler, ValidateRule, CreateRule,
              UpdateRule, CountRules, DeleteWebhook, RequestFails, historyVars, vars
<1> QED
  BY <1>2, <1>3, <1>4, <1>5

(* Every emission that still has to delete keeps, with its own stale       *)
(* cutoff, no more rows than Limit of those it saw (Prune).                *)
THEOREM SettledAlways == Spec => []Settled
BY InitSettled, NextSettled, HistoryAlways, PTL DEF Spec

(* Whatever inserts, cutoffs, deletes, failures and crashes interleave, a  *)
(* table has at most Limit rows beyond those whose own emission has still  *)
(* to prune it or was cut short: Service.emit and pruneTable.              *)
THEOREM HistoryStaysBounded == Spec => []HistoryBounded
BY SettledAlways, PTL DEF Settled

(* Every variable keeps its type.                                          *)
THEOREM HistoryTyped == Spec => []TypeOK
<1> DEFINE Counted == faults \in 0..MaxFault
<1>1. Init => Counted
  BY BoundAssumption DEF Init
<1>2. Counted /\ [Next]_vars => Counted'
  <2> SUFFICES ASSUME Counted, [Next]_vars PROVE Counted'
    OBVIOUS
  <2>1. Fault => Counted'
    BY BoundAssumption DEF Fault
  <2>2. UNCHANGED faults \/ Fault
    BY DEF Next, CreateWebhook, DeleteRule, Handler, ValidateRule, CreateRule,
           UpdateRule, CountRules, DeleteWebhook, RequestFails, EmitStep, ReadRule,
           CreateEvent, LoadWebhook, Deliver, ReadCutoff, NothingToCut, DeleteOld,
           StatementFails, Crash, vars
  <2> QED
    BY <2>1, <2>2
<1>3. HistoryInv /\ Settled /\ Counted => TypeOK
  <2> SUFFICES ASSUME HistoryInv, Settled, Counted PROVE TypeOK
    OBVIOUS
  <2>1. hooks \in [Hook -> Nat \cup {NULL}] /\ nextHook \in Nat /\ made \in Nat
    BY DEF HistoryInv, RefInv, IdsOK
  <2>2. /\ rules \in [Rule -> Ref \cup {NULL}]
        /\ pc \in [Request -> Pc] /\ ref \in [Request -> Ref]
        /\ rule \in [Request -> Rule \cup {NULL}]
    BY DEF HistoryInv, RefInv, Refs
  <2>3. /\ emit \in [Emitter -> Emission]
        /\ rows \in [Table -> SUBSET Nat] /\ next \in [Table -> Nat]
    BY DEF HistoryInv, RefInv, Emissions, RowsOK
  <2>4. owed \in [Table -> SUBSET Nat]
    BY DEF Settled, Numbered
  <2> QED
    BY <2>1, <2>2, <2>3, <2>4 DEF TypeOK
<1> QED
  BY <1>1, <1>2, <1>3, HistoryAlways, SettledAlways, PTL DEF Spec
=============================================================================
