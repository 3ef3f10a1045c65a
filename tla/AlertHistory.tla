---------------------------- MODULE AlertHistory ----------------------------
(***************************************************************************)
(* The tables around the alert rules: webhooks and the rules' references   *)
(* to them, and the history of events and deliveries with its pruning      *)
(* (internal/alerting/sql_repository.go, Service.emit and Service.deliver, *)
(* the handlers of internal/server/alerting.go).                           *)
(*                                                                         *)
(* No statement runs in a transaction with another: a rule is checked and  *)
(* written, a webhook is counted and deleted, and old rows are found and   *)
(* deleted, in separate statements on up to eight connections, by HTTP     *)
(* requests and by the evaluations that emit at the same time.  A          *)
(* statement is a step here.                                               *)
(*                                                                         *)
(* Of a webhook only its id and its target matter, and a target is the     *)
(* number of the webhook's creation; renaming one, or giving it another    *)
(* target, is left out.                                                    *)
(***************************************************************************)
EXTENDS Integers, FiniteSets

CONSTANTS
    NULL,
    Rule,       \* the rules that may exist
    Request,    \* HTTP request goroutines
    Emitter,    \* evaluation goroutines inside emit
    Limit,      \* Service.historyLimit: 300 unless configured
    MaxHook,    \* bound: webhooks ever created
    MaxRow,     \* bound: events ever inserted
    MaxFault    \* bound: failed statements and crashes

ASSUME BoundAssumption ==
    /\ Limit \in Nat \ {0}
    /\ MaxHook \in Nat /\ MaxRow \in Nat /\ MaxFault \in Nat

Hook == 1..MaxHook
Table == {"events", "deliveries"}

(* alert_rules.webhook_id, 0 for SQL NULL, and the target it stood for     *)
(* when the administrator chose it.                                        *)
Ref == [hook : Nat, meant : Nat]
NoHook == [hook |-> 0, meant |-> 0]

ASSUME NullAssumption == NULL \notin Ref /\ NULL \notin Nat /\ NULL \notin Rule

Pc == {"idle", "create", "update", "delete"}

(* One emission: the reference it works with, the target it sends to, the  *)
(* table it is pruning, the first id to keep, and (history) the rows it    *)
(* inserted.                                                               *)
Emission == [at : {"idle", "record", "load", "send", "cut", "prune"},
             ref : Ref, target : Nat, table : Table, cutoff : Nat,
             own : [Table -> Nat]]

NoRows == [t \in Table |-> 0]
Idle == [at |-> "idle", ref |-> NoHook, target |-> 0, table |-> "events",
         cutoff |-> 0, own |-> NoRows]

VARIABLES
    hooks,      \* alert_webhooks: the target of each id
    nextHook,   \* its AUTOINCREMENT counter
    made,       \* webhooks created so far
    rules,      \* alert_rules: each rule's reference, or NULL
    pc, ref, rule,  \* per request: handler position, its input
    rows,       \* ids in alert_events and alert_deliveries
    next,       \* their AUTOINCREMENT counters
    emit,       \* the emissions
    faults,
    owed        \* history, per table: the rows whose emission has not pruned
                \* the table since it inserted them

vars == <<hooks, nextHook, made, rules, pc, ref, rule, rows, next, emit,
          faults, owed>>
webhookVars == <<hooks, nextHook, made>>
requestVars == <<pc, ref, rule>>
historyVars == <<rows, next, emit, owed>>

TypeOK ==
    /\ hooks \in [Hook -> Nat \cup {NULL}]
    /\ nextHook \in Nat /\ made \in Nat
    /\ rules \in [Rule -> Ref \cup {NULL}]
    /\ pc \in [Request -> Pc]
    /\ ref \in [Request -> Ref]
    /\ rule \in [Request -> Rule \cup {NULL}]
    /\ rows \in [Table -> SUBSET Nat]
    /\ next \in [Table -> Nat]
    /\ emit \in [Emitter -> Emission]
    /\ faults \in 0..MaxFault
    /\ owed \in [Table -> SUBSET Nat]

Init ==
    /\ hooks = [h \in Hook |-> NULL]
    /\ nextHook = 1 /\ made = 0
    /\ rules = [r \in Rule |-> NULL]
    /\ pc = [q \in Request |-> "idle"]
    /\ ref = [q \in Request |-> NoHook]
    /\ rule = [q \in Request |-> NULL]
    /\ rows = [t \in Table |-> {}]
    /\ next = [t \in Table |-> 1]
    /\ emit = [s \in Emitter |-> Idle]
    /\ faults = 0
    /\ owed = [t \in Table |-> {}]

-----------------------------------------------------------------------------
(* Administrators *)

Exists(h) == hooks[h] # NULL

\* mutant: the id after the greatest in use, as without AUTOINCREMENT
LargestPlusOne ==
    CHOOSE h \in Hook \cup {MaxHook + 1} :
        /\ \A g \in Hook : Exists(g) => g < h
        /\ h = 1 \/ (h - 1 \in Hook /\ Exists(h - 1))

NewHook == nextHook

CreateWebhook ==
    /\ NewHook \in Hook /\ made < MaxHook
    /\ hooks' = [hooks EXCEPT ![NewHook] = made + 1]
    /\ nextHook' = nextHook + 1
    /\ made' = made + 1
    /\ UNCHANGED <<rules, requestVars, historyVars, faults>>

Enter(q, p, f, r) ==
    /\ pc' = [pc EXCEPT ![q] = p]
    /\ ref' = [ref EXCEPT ![q] = f]
    /\ rule' = [rule EXCEPT ![q] = r]

Return(q) == Enter(q, "idle", NoHook, NULL)

Chosen(h) == IF h = 0 THEN NoHook ELSE [hook |-> h, meant |-> hooks[h]]

(* validateAlertRule: the webhook is in the list; nothing holds it there.  *)
ValidateRule(q, h, p, r) ==
    /\ pc[q] = "idle"
    /\ h # 0 => Exists(h)
    /\ Enter(q, p, Chosen(h), r)
    /\ UNCHANGED <<webhookVars, rules, historyVars, faults>>

CreateRule(q, r) ==
    /\ pc[q] = "create" /\ rules[r] = NULL
    /\ rules' = [rules EXCEPT ![r] = ref[q]]
    /\ Return(q)
    /\ UNCHANGED <<webhookVars, historyVars, faults>>

(* A rule deleted in the meantime is ErrNotFound.                          *)
UpdateRule(q) ==
    /\ pc[q] = "update"
    /\ rules' = IF rules[rule[q]] = NULL THEN rules
                ELSE [rules EXCEPT ![rule[q]] = ref[q]]
    /\ Return(q)
    /\ UNCHANGED <<webhookVars, historyVars, faults>>

DeleteRule(r) ==
    /\ rules[r] # NULL
    /\ rules' = [rules EXCEPT ![r] = NULL]
    /\ UNCHANGED <<webhookVars, requestVars, historyVars, faults>>

Used(h) == \E r \in Rule : rules[r] # NULL /\ rules[r].hook = h

(* DeleteWebhook: SELECT COUNT, refused when a rule uses the webhook...    *)
CountRules(q, h) ==
    /\ pc[q] = "idle"
    /\ ~Used(h)
    /\ Enter(q, "delete", [hook |-> h, meant |-> 0], NULL)
    /\ UNCHANGED <<webhookVars, rules, historyVars, faults>>

(* ... then DELETE; a row gone already is ErrNotFound.                     *)
DeleteWebhook(q) ==
    /\ pc[q] = "delete"
    /\ hooks' = [hooks EXCEPT ![ref[q].hook] = NULL]
    /\ Return(q)
    /\ UNCHANGED <<nextHook, made, rules, historyVars, faults>>

-----------------------------------------------------------------------------
(* Service.emit *)

At(s, p) == emit[s].at = p
tableVars == <<webhookVars, rules, requestVars>>

(* The evaluation works on the rule as its pass read it.                   *)
ReadRule(s, r) ==
    /\ At(s, "idle") /\ rules[r] # NULL
    /\ emit' = [emit EXCEPT ![s] = [Idle EXCEPT !.at = "record", !.ref = rules[r]]]
    /\ UNCHANGED <<tableVars, rows, next, faults, owed>>

\* mutant: the new row's id is lost
InsertLost(t) ==
    /\ rows' = [rows EXCEPT ![t] = @ \cup {NULL}]
    /\ UNCHANGED next
    /\ UNCHANGED owed

Insert(t) ==
    /\ rows' = [rows EXCEPT ![t] = @ \cup {next[t]}]
    /\ next' = [next EXCEPT ![t] = @ + 1]
    /\ owed' = [owed EXCEPT ![t] = @ \cup {next[t]}]

(* What is left of an emission once there is nothing to send.              *)
Pruning(e) == [Idle EXCEPT !.at = "cut", !.own = e.own]

CreateEvent(s) ==
    LET e == [emit[s] EXCEPT !.own["events"] = next["events"]]
    IN /\ At(s, "record") /\ next["events"] <= MaxRow
       /\ Insert("events")
       /\ emit' = [emit EXCEPT ![s] =
             IF e.ref.hook = 0 THEN Pruning(e) ELSE [e EXCEPT !.at = "load"]]
       /\ UNCHANGED <<tableVars, faults>>

(* Webhook by id: its target now, and nothing is sent when it is gone.     *)
LoadWebhook(s) ==
    LET h == emit[s].ref.hook
    IN /\ At(s, "load")
       /\ emit' = [emit EXCEPT ![s] =
             IF Exists(h) THEN [@ EXCEPT !.at = "send", !.target = hooks[h]]
                          ELSE Pruning(@)]
       /\ UNCHANGED <<tableVars, rows, next, faults, owed>>

(* The POST and, whatever its result, its row.                             *)
Deliver(s) ==
    LET e == [emit[s] EXCEPT !.own["deliveries"] = next["deliveries"]]
    IN /\ At(s, "send")
       /\ Insert("deliveries")
       /\ emit' = [emit EXCEPT ![s] = Pruning(e)]
       /\ UNCHANGED <<tableVars, faults>>

Newer(t, i) == {j \in rows[t] : j > i}

\* mutant: OFFSET limit
CutsOneLate(t, i) == Cardinality(Newer(t, i)) = Limit

(* SELECT id ... ORDER BY id DESC LIMIT 1 OFFSET limit-1                   *)
Cuts(t, i) == Cardinality(Newer(t, i)) = Limit - 1

ReadCutoff(s, i) ==
    /\ At(s, "cut")
    /\ i \in rows[emit[s].table] /\ Cuts(emit[s].table, i)
    /\ emit' = [emit EXCEPT ![s].at = "prune", ![s].cutoff = i]
    /\ UNCHANGED <<tableVars, rows, next, faults, owed>>

(* The table is done: on to the deliveries, or the emission ends.          *)
NextTable(s) ==
    LET t == emit[s].table
    IN /\ emit' = [emit EXCEPT ![s] =
             IF t = "events"
             THEN [@ EXCEPT !.at = "cut", !.table = "deliveries", !.cutoff = 0]
             ELSE Idle]
       /\ owed' = [owed EXCEPT ![t] = (@ \ {emit[s].own[t]}) \cap rows'[t]]

NothingToCut(s) ==
    /\ At(s, "cut")
    /\ ~\E i \in rows[emit[s].table] : Cuts(emit[s].table, i)
    /\ UNCHANGED rows
    /\ NextTable(s)
    /\ UNCHANGED <<tableVars, next, faults>>

\* mutant: id <= cutoff
PrunedThrough(ids, c) == {i \in ids : i > c}

(* DELETE ... WHERE id < cutoff                                            *)
Pruned(ids, c) == {i \in ids : i >= c}

DeleteOld(s) ==
    /\ At(s, "prune")
    /\ rows' = [rows EXCEPT ![emit[s].table] = Pruned(@, emit[s].cutoff)]
    /\ NextTable(s)
    /\ UNCHANGED <<tableVars, next, faults>>

-----------------------------------------------------------------------------
Fault == faults < MaxFault /\ faults' = faults + 1

(* A statement fails: the emission gives up, but for the webhook's and the *)
(* delivery's, which leave the pruning to be done.                         *)
StatementFails(s) ==
    /\ ~At(s, "idle")
    /\ Fault
    /\ emit' = [emit EXCEPT ![s] = IF @.at \in {"load", "send"} THEN Pruning(@)
                                                                ELSE Idle]
    /\ UNCHANGED <<tableVars, rows, next, owed>>

RequestFails(q) ==
    /\ pc[q] # "idle"
    /\ Fault
    /\ Return(q)
    /\ UNCHANGED <<webhookVars, rules, historyVars>>

Crash ==
    /\ Fault
    /\ pc' = [q \in Request |-> "idle"]
    /\ ref' = [q \in Request |-> NoHook]
    /\ rule' = [q \in Request |-> NULL]
    /\ emit' = [s \in Emitter |-> Idle]
    /\ UNCHANGED <<webhookVars, rules, rows, next, owed>>

Handler(q) ==
    \/ \E h \in Hook \cup {0} :
          \/ ValidateRule(q, h, "create", NULL)
          \/ \E r \in Rule : ValidateRule(q, h, "update", r)
    \/ \E r \in Rule : CreateRule(q, r)
    \/ UpdateRule(q)
    \/ \E h \in Hook : CountRules(q, h)
    \/ DeleteWebhook(q)
    \/ RequestFails(q)

EmitStep(s) ==
    \/ \E r \in Rule : ReadRule(s, r)
    \/ CreateEvent(s)
    \/ LoadWebhook(s)
    \/ Deliver(s)
    \/ \E t \in Table : \E i \in rows[t] : ReadCutoff(s, i)
    \/ NothingToCut(s)
    \/ DeleteOld(s)
    \/ StatementFails(s)

Next ==
    \/ CreateWebhook
    \/ \E r \in Rule : DeleteRule(r)
    \/ \E q \in Request : Handler(q)
    \/ \E s \in Emitter : EmitStep(s)
    \/ Crash

Spec == Init /\ [][Next]_vars

-----------------------------------------------------------------------------
(* Properties *)

(* A notification goes to the webhook the administrator chose, or nowhere: *)
(* also when it was deleted under the rule by a request that had counted   *)
(* before the rule was written, and others were created since.             *)
NotifiesChosen ==
    \A s \in Emitter : At(s, "send") => emit[s].target = emit[s].ref.meant

(* docs/alerting.md:45: Limit rows are kept.  At any moment there may be   *)
(* more, but every row beyond Limit is one whose emission has still to     *)
(* prune, or was cut short by a fault; however emissions interleave their  *)
(* inserts, cutoffs and deletes, the next full pruning catches up.         *)
HistoryBounded ==
    \A t \in Table : Cardinality(rows[t] \ owed[t]) <= Limit

(* Only what Limit newer rows have displaced is deleted, although a cutoff *)
(* may be used long after it was read.                                     *)
LatestKept ==
    [][\A t \in Table : \A i \in rows[t] \ rows'[t] :
          Cardinality(Newer(t, i)) >= Limit]_vars

(* alerting_test.go:65: "used webhook should not be deletable".            *)
UsedWebhookStays ==
    [][\A h \in Hook : (Exists(h) /\ hooks'[h] = NULL) => ~Used(h)]_vars
=============================================================================
