----------------------------- MODULE QueryBatch -----------------------------
(***************************************************************************)
(* A batch of SQL from the editor to ClickHouse: the handlers query and    *)
(* dryRun (internal/server/server.go).  The text is split, every statement *)
(* classified and authorised, then they are sent one by one, and the       *)
(* answer and the audit say how far that came.                             *)
(*                                                                         *)
(* ClickHouse may execute a statement and its answer still be an error     *)
(* here: the deadline passes, the answer is larger than the limit, or is   *)
(* not the JSON that was asked for.                                        *)
(***************************************************************************)
EXTENDS Integers, Sequences, FiniteSets

CONSTANTS
    Split(_),       \* SplitStatements: [err |-> BOOLEAN, list |-> statements]
    Kind(_),        \* Classify
    Texts,          \* bound: [symbols, length] of the texts that are written
    GrantEnabled,
    MaxStatements   \* 100 in the code

Role == {"viewer", "editor", "admin"}
Phase == {"edit", "refused", "running", "done"}
Status == {"none", "ok", "error"}

ASSUME BoundAssumption == MaxStatements \in Nat /\ Texts # {}

VARIABLES
    text,       \* in the editor, then in the request
    phase,
    role,       \* of the session, as the request took it
    dry,        \* dryRun, which has ClickHouse explain and not execute
    statements,
    sent,       \* statements answered without an error
    ran,        \* external: the statements ClickHouse executed, by number
    answer,     \* the response's status and executed_statements
    audit       \* the audit records of the request

vars == <<text, phase, role, dry, statements, sent, ran, answer, audit>>
request == <<text, role, dry, statements>>

TypeOK ==
    /\ \E family \in Texts : text \in Seq(family.symbols)
    /\ phase \in Phase
    /\ role \in Role \cup {"none"}
    /\ dry \in BOOLEAN
    /\ Len(statements) \in 0..MaxStatements
    /\ sent \in 0..Len(statements)
    /\ ran \in Seq(1..Len(statements)) /\ Len(ran) <= Len(statements)
    /\ answer \in [status : Status, executed : 0..Len(statements)]
    /\ audit \in {<<>>} \cup {<<[status |-> a]>> : a \in Status}

Init ==
    /\ text = <<>>
    /\ phase = "edit"
    /\ role = "none" /\ dry = FALSE
    /\ statements = <<>> /\ sent = 0
    /\ ran = <<>>
    /\ answer = [status |-> "none", executed |-> 0]
    /\ audit = <<>>

(* authorizeSQLKind; the kind of a statement it does not know is refused   *)
(* before, by Classify.                                                    *)
Allowed(r, kind) ==
    \/ kind = "query"
    \/ kind = "dml" /\ r # "viewer"
    \/ kind = "ddl" /\ r = "admin"
    \/ kind = "grant" /\ r = "admin" /\ GrantEnabled

\* mutant: the first statement speaks for all of them
AcceptableFirst(batch, r) ==
    /\ ~batch.err
    /\ Len(batch.list) \in 1..MaxStatements
    /\ Allowed(r, Kind(batch.list[1]))

(* What query and dryRun ask of a batch before anything is sent.           *)
Acceptable(batch, r) ==
    /\ ~batch.err
    /\ Len(batch.list) \in 1..MaxStatements
    /\ \A i \in DOMAIN batch.list : Allowed(r, Kind(batch.list[i]))

Write(c) ==
    /\ phase = "edit"
    /\ text' = Append(text, c)
    /\ UNCHANGED <<phase, role, dry, statements, sent, ran, answer, audit>>

(* The batch is not acceptable, or the session's cluster is gone.          *)
Refuse(r, gone) ==
    /\ phase = "edit"
    /\ gone \/ ~Acceptable(Split(text), r)
    /\ phase' = "refused"
    /\ UNCHANGED <<request, sent, ran, answer, audit>>

Begin(r) ==
    /\ phase = "edit"
    /\ Acceptable(Split(text), r)
    /\ phase' = "running"
    /\ role' = r /\ dry' \in BOOLEAN
    /\ statements' = Split(text).list
    /\ UNCHANGED <<text, sent, ran, answer, audit>>

Pending == phase = "running" /\ sent < Len(statements)
Executed == IF dry THEN ran ELSE Append(ran, sent + 1)

\* mutant: the next round begins with the same statement
SendAgain ==
    /\ Pending
    /\ ran' = Executed
    /\ UNCHANGED <<request, phase, sent, answer, audit>>

(* client.Execute, client.DryRun *)
Send ==
    /\ Pending
    /\ ran' = Executed
    /\ sent' = sent + 1
    /\ UNCHANGED <<request, phase, answer, audit>>

\* mutant: the one that failed is counted
EndCounting(status) ==
    /\ phase' = "done"
    /\ answer' = [status |-> status,
                  executed |-> IF status = "error" THEN sent + 1 ELSE sent]
    /\ audit' = Append(audit, [status |-> status])
    /\ UNCHANGED <<request, sent>>

End(status) ==
    /\ phase' = "done"
    /\ answer' = [status |-> status, executed |-> sent]
    /\ audit' = Append(audit, [status |-> status])
    /\ UNCHANGED <<request, sent>>

(* The first error ends the batch: refused by ClickHouse, or executed and  *)
(* not answered.                                                           *)
SendFails(executed) ==
    /\ Pending
    /\ ran' = IF executed THEN Executed ELSE ran
    /\ End("error")

Finish ==
    /\ phase = "running" /\ sent = Len(statements)
    /\ End("ok")
    /\ UNCHANGED ran

Characters == {c \in UNION {family.symbols : family \in Texts} :
                 \E family \in Texts : /\ Len(text) < family.length
                                       /\ \A i \in DOMAIN text : text[i] \in family.symbols
                                       /\ c \in family.symbols}

Next ==
    \/ \E c \in Characters : Write(c)
    \/ \E r \in Role, gone \in BOOLEAN : Refuse(r, gone)
    \/ \E r \in Role : Begin(r)
    \/ Send
    \/ \E executed \in BOOLEAN : SendFails(executed)
    \/ Finish

Spec == Init /\ [][Next]_vars

-----------------------------------------------------------------------------
(* Properties *)

(* Nothing of a batch is executed unless the role may execute all of it    *)
(* (README.md:147, "each is authorised first, then executed in order").    *)
AllowedFirst ==
    ran # <<>> => LET batch == Split(text).list
                  IN \A i \in DOMAIN batch : Allowed(role, Kind(batch[i]))

(* What ClickHouse executed is a beginning of the batch, in order; the     *)
(* answer counts it, or all but the statement that failed, and agrees with *)
(* the one audit record (server.go:273-298).                               *)
AnswerTellsWhatRan ==
    /\ \A i \in DOMAIN ran : ran[i] = i
    /\ (phase = "done" /\ ~dry) =>
          IF answer.status = "ok"
          THEN Len(ran) = Len(statements) /\ answer.executed = Len(ran)
          ELSE answer.executed \in {Len(ran) - 1, Len(ran)}
    /\ phase = "done" => audit = <<[status |-> answer.status]>>
    /\ phase \in {"refused", "edit"} => ran = <<>> /\ audit = <<>>
=============================================================================
