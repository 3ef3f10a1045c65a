-------------------------- MODULE QueryBatchProofs --------------------------
(* Proofs about QueryBatch, for every splitting and every classification,  *)
(* and then about SqlSplit, for texts of any length over any alphabet.     *)
EXTENDS MCQueryBatch, SequenceTheorems, FiniteSetTheorems, WellFoundedInduction, TLAPS

(* Before a batch begins nothing was executed or audited, and one that is  *)
(* acceptable is the only one that begins.                                 *)
Untouched == ran = <<>> /\ audit = <<>> /\ sent = 0 /\ statements = <<>>
Begun ==
    /\ Acceptable(Split(text), role)
    /\ statements = Split(text).list

(* While it runs, what was executed is what was answered.                  *)
Counted ==
    /\ sent \in 0..Len(statements)
    /\ ran \in Seq(Nat)
    /\ \A i \in 1..Len(ran) : ran[i] = i
    /\ Len(ran) = IF dry THEN 0 ELSE sent
    /\ audit = <<>>

Ended ==
    /\ \A i \in DOMAIN ran : ran[i] = i
    /\ audit = <<[status |-> answer.status]>>
    /\ ~dry => IF answer.status = "ok"
               THEN Len(ran) = Len(statements) /\ answer.executed = Len(ran)
               ELSE answer.executed \in {Len(ran) - 1, Len(ran)}

BatchInv ==
    /\ phase \in Phase
    /\ phase \in {"edit", "refused"} => Untouched
    /\ phase \in {"running", "done"} => Begun
    /\ phase = "running" => Counted
    /\ phase = "done" => Ended

(* One more statement executed, the next one: what was executed stays a    *)
(* beginning of the batch.                                                 *)
LEMMA ExecutedExtends ==
    ASSUME Counted, Len(statements) \in Nat, sent < Len(statements)
    PROVE  /\ Executed \in Seq(Nat)
           /\ \A i \in 1..Len(Executed) : Executed[i] = i
           /\ Len(Executed) = IF dry THEN 0 ELSE sent + 1
<1>1. sent + 1 \in Nat
  BY DEF Counted
<1>2. CASE dry
  BY <1>2 DEF Executed, Counted
<1>3. CASE ~dry
  <2>1. Executed = Append(ran, sent + 1) /\ Len(ran) = sent
    BY <1>3 DEF Executed, Counted
  <2>2. /\ Append(ran, sent + 1) \in Seq(Nat)
        /\ Len(Append(ran, sent + 1)) = sent + 1
        /\ Append(ran, sent + 1)[sent + 1] = sent + 1
        /\ \A i \in 1..Len(ran) : Append(ran, sent + 1)[i] = ran[i]
    BY <1>1, <2>1, AppendProperties DEF Counted
  <2>3. ASSUME NEW i \in 1..(sent + 1)
        PROVE  Append(ran, sent + 1)[i] = i
    BY <1>1, <2>1, <2>2 DEF Counted
  <2> QED
    BY <1>3, <2>1, <2>2, <2>3
<1> QED
  BY <1>2, <1>3

(* The audit of a batch is one record, with the answer's status.           *)
LEMMA EndAudits ==
    ASSUME NEW status, audit = <<>>, End(status)
    PROVE  /\ audit' = <<[status |-> answer'.status]>>
           /\ answer'.status = status /\ answer'.executed = sent
BY DEF End

LEMMA BatchStep ==
    ASSUME BatchInv, [Next]_vars
    PROVE  BatchInv'
<1> USE DEF BatchInv, Phase
<1> SUFFICES ASSUME Next PROVE BatchInv'
  BY DEF vars, Untouched, Begun, Acceptable, Counted, Ended
<1>0. phase \in {"running", "done"} => Len(statements) \in Nat
  BY BoundAssumption DEF Begun, Acceptable
<1>1. ASSUME NEW c \in Characters, Write(c) PROVE BatchInv'
  BY <1>1 DEF Write, Untouched
<1>2. ASSUME NEW r \in Role, NEW gone \in BOOLEAN, Refuse(r, gone) PROVE BatchInv'
  BY <1>2 DEF Refuse, request, Untouched
<1>3. ASSUME NEW r \in Role, Begin(r) PROVE BatchInv'
  <2>1. phase' = "running" /\ Begun'
    BY <1>3 DEF Begin, Begun, Acceptable
  <2>2. Len(statements') \in Nat
    BY <1>3, BoundAssumption DEF Begin, Acceptable
  <2>3. Counted'
    BY <1>3, <2>2, EmptySeq DEF Begin, Counted, Untouched
  <2> QED
    BY <2>1, <2>3
<1>4. CASE Send
  <2>1. /\ Counted /\ sent < Len(statements)
        /\ phase' = "running" /\ statements' = statements /\ text' = text
        /\ role' = role /\ dry' = dry /\ audit' = audit
        /\ sent' = sent + 1 /\ ran' = Executed
    BY <1>4 DEF Send, Pending, request
  <2>2. Counted'
    BY <1>0, <1>4, <2>1, ExecutedExtends DEF Counted, Pending, Send
  <2>3. Begun'
    BY <1>4, <2>1 DEF Begun, Acceptable, Pending, Send
  <2> QED
    BY <2>1, <2>2, <2>3
<1>5. ASSUME NEW executed \in BOOLEAN, SendFails(executed) PROVE BatchInv'
  <2>1. /\ Counted /\ Begun /\ sent < Len(statements) /\ Len(statements) \in Nat
        /\ phase' = "done" /\ statements' = statements /\ text' = text
        /\ role' = role /\ dry' = dry
        /\ ran' \in {ran, Executed}
    BY <1>0, <1>5 DEF SendFails, End, Pending, request
  <2>2. /\ audit' = <<[status |-> answer'.status]>>
        /\ answer'.status = "error" /\ answer'.executed = sent
    BY <1>5, <2>1, EndAudits DEF SendFails, Counted
  <2>3. ran' \in Seq(Nat) /\ \A i \in 1..Len(ran') : ran'[i] = i
    BY <2>1, ExecutedExtends DEF Counted
  <2>4. ~dry => Len(ran') \in {sent, sent + 1}
    BY <2>1, ExecutedExtends DEF Counted
  <2>5. Ended'
    BY <2>1, <2>2, <2>3, <2>4 DEF Ended, Counted
  <2>6. Begun'
    BY <2>1 DEF Begun, Acceptable
  <2> QED
    BY <2>1, <2>5, <2>6
<1>6. CASE Finish
  <2>1. /\ Counted /\ Begun /\ sent = Len(statements)
        /\ phase' = "done" /\ statements' = statements /\ text' = text
        /\ role' = role /\ dry' = dry /\ ran' = ran
    BY <1>6 DEF Finish, End, request
  <2>2. /\ audit' = <<[status |-> answer'.status]>>
        /\ answer'.status = "ok" /\ answer'.executed = sent
    BY <1>6, <2>1, EndAudits DEF Finish, Counted
  <2>3. Ended'
    BY <2>1, <2>2 DEF Ended, Counted
  <2>4. Begun'
    BY <2>1 DEF Begun, Acceptable
  <2> QED
    BY <2>1, <2>3, <2>4
<1> QED
  BY <1>1, <1>2, <1>3, <1>4, <1>5, <1>6 DEF Next

LEMMA BatchAlways == Spec => []BatchInv
<1>1. Init => BatchInv
  BY DEF Init, BatchInv, Phase, Untouched
<1>2. BatchInv /\ [Next]_vars => BatchInv'
  BY BatchStep
<1> QED
  BY <1>1, <1>2, PTL DEF Spec

(* No statement is executed of a batch that the role may not execute as a  *)
(* whole, whatever the splitting and the classification are.               *)
THEOREM NothingUnauthorised == Spec => []AllowedFirst
<1>1. BatchInv => AllowedFirst
  BY DEF BatchInv, Phase, Untouched, Begun, Acceptable, AllowedFirst
<1> QED
  BY <1>1, BatchAlways, PTL

(* The answer and the one audit record tell how much of the batch was      *)
(* executed, up to the statement that failed.                              *)
THEOREM ToldTruly == Spec => []AnswerTellsWhatRan
<1>1. BatchInv => AnswerTellsWhatRan
  BY DEF BatchInv, Phase, Untouched, Counted, Ended, AnswerTellsWhatRan
<1> QED
  BY <1>1, BatchAlways, PTL

-----------------------------------------------------------------------------
(* Types.  What was executed numbers statements of the batch: that takes   *)
(* the invariant, which knows that as many were executed as were answered. *)

Numbered(s) == s \in Seq(1..Len(statements)) /\ Len(s) <= Len(statements)

LEMMA ExecutedNumbered ==
    ASSUME TypeOK, BatchInv, phase = "running", sent < Len(statements)
    PROVE  Numbered(Executed)
<1>1. Counted /\ sent \in Nat /\ Len(statements) \in Nat
  BY BoundAssumption DEF TypeOK, BatchInv, Counted
<1>2. CASE dry
  BY <1>2 DEF Executed, TypeOK, Numbered
<1>3. CASE ~dry
  <2>1. Len(ran) = sent /\ sent + 1 \in 1..Len(statements)
    BY <1>1, <1>3 DEF Counted
  <2>2. /\ Append(ran, sent + 1) \in Seq(1..Len(statements))
        /\ Len(Append(ran, sent + 1)) = sent + 1
    BY <1>1, <2>1, AppendProperties DEF TypeOK
  <2> QED
    BY <1>1, <1>3, <2>2 DEF Executed, Numbered
<1> QED
  BY <1>2, <1>3 DEF TypeOK

LEMMA TypedStep ==
    ASSUME TypeOK, BatchInv, Next
    PROVE  TypeOK'
<1> USE DEF TypeOK, Phase, Status
<1>0. BatchInv'
  BY BatchStep
<1>1. ASSUME NEW c \in Characters, Write(c) PROVE TypeOK'
  <2>1. PICK family \in Texts : /\ \A i \in DOMAIN text : text[i] \in family.symbols
                                /\ c \in family.symbols
    BY <1>1 DEF Characters
  <2>2. text \in Seq(family.symbols)
    <3>1. PICK S : text \in Seq(S)
      OBVIOUS
    <3> QED
      BY <2>1, <3>1
  <2>3. text' \in Seq(family.symbols)
    BY <1>1, <2>1, <2>2, AppendProperties DEF Write
  <2>4. UNCHANGED <<phase, role, dry, statements, sent, ran, answer, audit>>
    BY <1>1 DEF Write
  <2> QED
    BY <2>3, <2>4
<1>2. ASSUME NEW r \in Role, NEW gone \in BOOLEAN, Refuse(r, gone) PROVE TypeOK'
  BY <1>2 DEF Refuse, request
<1>3. ASSUME NEW r \in Role, Begin(r) PROVE TypeOK'
  <2>1. /\ Len(statements') \in 1..MaxStatements
        /\ UNCHANGED <<text, sent, ran, answer, audit>>
        /\ phase' = "running" /\ role' = r /\ dry' \in BOOLEAN
    BY <1>3 DEF Begin, Acceptable
  <2>2. sent = 0 /\ ran = <<>> /\ Len(statements) = 0
    BY <1>3 DEF Begin, BatchInv, Untouched
  <2>3. Len(statements') \in Nat /\ 0 \in 0..Len(statements')
    BY <2>1, BoundAssumption
  <2>4. answer' \in [status : Status, executed : 0..Len(statements')]
    BY <2>1, <2>2, <2>3
  <2>5. ran' \in Seq(1..Len(statements')) /\ Len(ran') <= Len(statements')
    BY <2>1, <2>2, <2>3, EmptySeq
  <2> QED
    BY <2>1, <2>2, <2>3, <2>4, <2>5, BoundAssumption
<1>4. CASE Send
  <2>1. /\ UNCHANGED <<text, role, dry, statements, phase, answer, audit>>
        /\ sent < Len(statements) /\ sent' = sent + 1 /\ ran' = Executed
        /\ phase = "running"
    BY <1>4 DEF Send, Pending, request
  <2>2. Numbered(ran')
    BY <2>1, ExecutedNumbered
  <2> QED
    BY <2>1, <2>2, BoundAssumption DEF Numbered
<1>5. ASSUME NEW executed \in BOOLEAN, SendFails(executed) PROVE TypeOK'
  <2>1. /\ UNCHANGED <<text, role, dry, statements, sent>>
        /\ sent < Len(statements) /\ ran' \in {ran, Executed}
        /\ phase = "running" /\ phase' = "done" /\ End("error")
    BY <1>5 DEF SendFails, End, Pending, request
  <2>2. Numbered(ran')
    BY <2>1, ExecutedNumbered DEF Numbered
  <2>3. answer' \in [status : Status, executed : 0..Len(statements)]
    BY <2>1 DEF End
  <2>4. audit' \in {<<>>} \cup {<<[status |-> a]>> : a \in Status}
    BY <2>1, EndAudits DEF BatchInv, Counted
  <2> QED
    BY <2>1, <2>2, <2>3, <2>4 DEF Numbered
<1>6. CASE Finish
  <2>1. /\ UNCHANGED <<text, role, dry, statements, sent, ran>>
        /\ phase = "running" /\ phase' = "done" /\ End("ok")
    BY <1>6 DEF Finish, End, request
  <2>2. answer' \in [status : Status, executed : 0..Len(statements)]
    BY <2>1 DEF End
  <2>3. audit' \in {<<>>} \cup {<<[status |-> a]>> : a \in Status}
    BY <2>1, EndAudits DEF BatchInv, Counted
  <2> QED
    BY <2>1, <2>2, <2>3
<1> QED
  BY <1>1, <1>2, <1>3, <1>4, <1>5, <1>6 DEF Next

(* Every variable keeps its type, for batches and texts of any length: in  *)
(* particular no statement is executed beyond the batch, and the answer    *)
(* counts no more than there are.                                          *)
THEOREM BatchTyped == Spec => []TypeOK
<1>1. Init => TypeOK
  <2> SUFFICES ASSUME Init PROVE TypeOK
    OBVIOUS
  <2>1. PICK family : family \in Texts
    BY BoundAssumption
  <2>2. text \in Seq(family.symbols)
    BY EmptySeq DEF Init
  <2>3. Len(statements) = 0 /\ sent \in 0..Len(statements)
        /\ 0 \in 0..MaxStatements /\ 0 \in 0..Len(statements)
    BY BoundAssumption, EmptySeq DEF Init
  <2>4. ran \in Seq(1..Len(statements)) /\ Len(ran) <= Len(statements)
    BY <2>3, EmptySeq DEF Init
  <2>5. answer \in [status : Status, executed : 0..Len(statements)]
    BY <2>3 DEF Init, Status
  <2> QED
    BY <2>1, <2>2, <2>3, <2>4, <2>5 DEF Init, TypeOK, Phase, Status
<1>2. TypeOK /\ BatchInv /\ [Next]_vars => TypeOK'
  BY TypedStep DEF vars, TypeOK
<1> QED
  BY <1>1, <1>2, BatchAlways, PTL DEF Spec

-----------------------------------------------------------------------------
(* Splitting is what the grammar says.  The loop's mode at a place is      *)
(* compared with the token that the grammar has there, round by round:     *)
(* Read is the invariant of the loop.                                      *)

(* A set of naturals has a least element.                                  *)
LEMMA Least ==
    ASSUME NEW S \in SUBSET Nat, S # {}
    PROVE  \E m \in S : \A k \in S : m <= k
<1> DEFINE R == OpToRel(<, Nat)
<1>1. IsWellFoundedOn(R, Nat)
  BY NatLessThanWellFounded
<1>2. \A x, y \in Nat : <<x, y>> \in R <=> x < y
  BY DEF OpToRel
<1> HIDE DEF R
<1>3. PICK m \in S : \A k \in S : ~(<<k, m>> \in R)
  BY <1>1, WFMin
<1>4. \A k \in S : ~(k < m)
  BY <1>2, <1>3
<1> QED
  BY <1>3, <1>4

(* Min of a set of naturals is its least element.                          *)
LEMMA MinLeast ==
    ASSUME NEW S \in SUBSET Nat, S # {}
    PROVE  Min(S) \in S /\ \A k \in S : Min(S) <= k
<1>1. PICK m \in S : \A k \in S : m <= k
  BY Least
<1> QED
  BY <1>1 DEF Min

(* A property of the naturals up to N that a step carries on holds of all: *)
(* otherwise there is a least number without it.                           *)
LEMMA UpTo ==
    ASSUME NEW N \in Nat, NEW S, 0 \in S,
           \A n \in 0..(N - 1) : n \in S => n + 1 \in S
    PROVE  0..N \subseteq S
<1> DEFINE T == {n \in 0..N : n \notin S}
<1>1. CASE T # {}
  <2>0. T \in SUBSET Nat
    OBVIOUS
  <2>1. PICK m \in T : \A k \in T : m <= k
    <3> HIDE DEF T
    <3> QED
      BY <1>1, <2>0, Least
  <2>2. m \in 0..N /\ m \notin S /\ m # 0
    BY <2>1
  <2>3. m - 1 \in 0..(N - 1) /\ m - 1 \notin T
    BY <2>1, <2>2
  <2>4. m - 1 \in S
    BY <2>3
  <2> QED
    BY <2>2, <2>3, <2>4
<1> QED
  BY <1>1

(* A function that takes D to itself can be applied N times.               *)
Iterated(f, N, x, G) == \A n \in 0..N : f[n] = IF n = 0 THEN x ELSE G[f[n - 1]]

(* Applied at most N times, from x.                                        *)
LEMMA Iterates ==
    ASSUME NEW N \in Nat, NEW D, NEW x \in D, NEW G \in [D -> D]
    PROVE  \E f \in [0..N -> D] : Iterated(f, N, x, G)
<1> DEFINE Is(f, m) == \A n \in 0..m : f[n] = IF n = 0 THEN x ELSE G[f[n - 1]]
           S == {m \in 0..N : \E f \in [0..m -> D] : Is(f, m)}
<1>1. 0 \in S
  <2> DEFINE f == [n \in 0..0 |-> x]
  <2>1. f \in [0..0 -> D] /\ Is(f, 0)
    OBVIOUS
  <2> HIDE DEF f, Is
  <2> QED
    BY <2>1
<1>2. ASSUME NEW m \in 0..(N - 1), m \in S
      PROVE  m + 1 \in S
  <2>1. PICK f \in [0..m -> D] : Is(f, m)
    BY <1>2
  <2> DEFINE g == [n \in 0..(m + 1) |-> IF n = m + 1 THEN G[f[m]] ELSE f[n]]
  <2>2. m \in 0..m /\ \A n \in 0..(m + 1) : n = m + 1 \/ n \in 0..m
    OBVIOUS
  <2>3. g \in [0..(m + 1) -> D]
    BY <2>2
  <2>4. ASSUME NEW n \in 0..(m + 1)
        PROVE  g[n] = IF n = 0 THEN x ELSE G[g[n - 1]]
    <3>1. CASE n = m + 1
      BY <3>1
    <3>2. CASE n \in 0..m
      <4>1. g[n] = f[n] /\ (n # 0 => n - 1 \in 0..m /\ g[n - 1] = f[n - 1])
        BY <3>2
      <4>2. f[n] = IF n = 0 THEN x ELSE G[f[n - 1]]
        BY <2>1, <3>2
      <4> QED
        BY <4>1, <4>2
    <3> QED
      BY <2>2, <3>1, <3>2
  <2> HIDE DEF g
  <2>5. Is(g, m + 1)
    BY <2>4
  <2> HIDE DEF Is
  <2> QED
    BY <2>3, <2>5
<1>3. N \in S
  <2> HIDE DEF S
  <2>1. 0..N \subseteq S
    BY <1>1, <1>2, UpTo
  <2> QED
    BY <2>1
<1> QED
  BY <1>3 DEF Iterated

-----------------------------------------------------------------------------
(* Runs *)

(* Nothing is an even run.                                                 *)
LEMMA EvenAtStart ==
    ASSUME NEW S, NEW i \in Int
    PROVE  EvenRun(S, i, i)
<1>1. 0 \in 0..(i - i) /\ i - 2 * 0 = i /\ i..(i - 1) \subseteq S
  OBVIOUS
<1> QED
  BY <1>1 DEF EvenRun

(* After a place that is not in the set, so is the run.                    *)
LEMMA EvenAfterGap ==
    ASSUME NEW S, NEW i \in Int, NEW j \in Int, i <= j, j - 1 \notin S
    PROVE  EvenRun(S, i, j)
<1>1. 0 \in 0..(j - i) /\ j - 2 * 0 = j /\ j..(j - 1) \subseteq S /\ j - 1 \notin S
  OBVIOUS
<1> QED
  BY <1>1 DEF EvenRun

(* An element that follows an even run makes it odd, the next one even     *)
(* again.                                                                  *)
LEMMA OddAfterEven ==
    ASSUME NEW S, NEW i \in Int, NEW j \in Int, i <= j, j \in S, EvenRun(S, i, j)
    PROVE  ~EvenRun(S, i, j + 1)
<1>1. PICK n \in 0..(j - i) : LET first == j - 2 * n
                              IN /\ first >= i /\ first..(j - 1) \subseteq S
                                 /\ first = i \/ first - 1 \notin S
  BY DEF EvenRun
<1>2. SUFFICES ASSUME NEW m \in 0..(j + 1 - i),
                      j + 1 - 2 * m >= i, (j + 1 - 2 * m)..(j + 1 - 1) \subseteq S,
                      j + 1 - 2 * m = i \/ j + 1 - 2 * m - 1 \notin S
               PROVE  FALSE
  BY DEF EvenRun
<1> DEFINE a == j - 2 * n
           b == j + 1 - 2 * m
<1>3. a \in Int /\ b \in Int /\ a >= i /\ b >= i
  BY <1>1, <1>2
<1>4. \A k \in Int : (a <= k /\ k < j => k \in S) /\ (b <= k /\ k <= j => k \in S)
  BY <1>1, <1>2
<1>5. (a = i \/ a - 1 \notin S) /\ (b = i \/ b - 1 \notin S)
  BY <1>1, <1>2
<1>6. a <= j /\ b <= j + 1
  BY <1>1, <1>2
<1>7. m # 0
  <2>1. CASE m = 0
    BY <2>1, <1>2
  <2> QED
    BY <2>1
<1>8. b <= j
  BY <1>2, <1>7
<1>9. a # b
  BY <1>1, <1>2
<1> HIDE DEF a, b
<1>10. CASE a < b
  <2>1. b # i /\ b - 1 \in Int /\ a <= b - 1 /\ b - 1 < j
    BY <1>3, <1>8, <1>10
  <2> QED
    BY <2>1, <1>4, <1>5
<1>11. CASE b < a
  <2>1. a # i /\ a - 1 \in Int /\ b <= a - 1 /\ a - 1 <= j
    BY <1>3, <1>6, <1>11
  <2> QED
    BY <2>1, <1>4, <1>5
<1> QED
  BY <1>3, <1>9, <1>10, <1>11

(* Two elements more leave the run even.                                   *)
LEMMA EvenAfterTwo ==
    ASSUME NEW S, NEW i \in Int, NEW j \in Int, i <= j, j \in S, EvenRun(S, i, j)
    PROVE  EvenRun(S, i, j + 2)
<1>1. CASE j + 1 \notin S
  BY <1>1, EvenAfterGap
<1>2. CASE j + 1 \in S
  <2>1. PICK n \in 0..(j - i) : LET first == j - 2 * n
                                IN /\ first >= i /\ first..(j - 1) \subseteq S
                                   /\ first = i \/ first - 1 \notin S
    BY DEF EvenRun
  <2> DEFINE m == n + 1
  <2>2. m \in 0..(j + 2 - i) /\ j + 2 - 2 * m = j - 2 * n
    BY <2>1
  <2>3. (j - 2 * n)..(j + 2 - 1) \subseteq S
    BY <1>2, <2>1
  <2>4. /\ j + 2 - 2 * m >= i
        /\ (j + 2 - 2 * m)..(j + 2 - 1) \subseteq S
        /\ j + 2 - 2 * m = i \/ j + 2 - 2 * m - 1 \notin S
    BY <2>1, <2>2, <2>3
  <2> HIDE DEF m
  <2> QED
    BY <2>2, <2>4 DEF EvenRun
<1> QED
  BY <1>1, <1>2

-----------------------------------------------------------------------------
(* Tokens *)

(* A heredoc's delimiter has its two marks at least and fits in the text.  *)
LEMMA Delimiters ==
    ASSUME NEW V, NEW t \in Seq(V), NEW i \in 1..Len(t)
    PROVE  LET d == HeredocDelimiter(t, i)
           IN d # <<>> => /\ t[i] = "$" /\ Len(d) \in Nat /\ Len(d) >= 2
                          /\ i + Len(d) - 1 <= Len(t)
<1>1. Len(t) \in Nat
  OBVIOUS
<1> DEFINE closing == {j \in (i + 1)..Len(t) :
                         t[j] = "$" /\ \A k \in (i + 1)..(j - 1) : t[k] \in Letter}
           d == HeredocDelimiter(t, i)
<1>2. d = IF t[i] = "$" /\ closing # {} THEN SubSeq(t, i, Min(closing)) ELSE <<>>
  BY DEF HeredocDelimiter
<1>3. SUFFICES ASSUME t[i] = "$", closing # {}
               PROVE  Len(d) \in Nat /\ Len(d) >= 2 /\ i + Len(d) - 1 <= Len(t)
  BY <1>2
<1>4. closing \in SUBSET Nat /\ closing \subseteq (i + 1)..Len(t)
  BY <1>1
<1> HIDE DEF closing
<1>5. Min(closing) \in (i + 1)..Len(t)
  BY <1>3, <1>4, MinLeast
<1>6. d = SubSeq(t, i, Min(closing))
  BY <1>2, <1>3
<1> HIDE DEF d
<1>7. Len(d) = Min(closing) - i + 1
  BY <1>1, <1>5, <1>6
<1> QED
  BY <1>1, <1>5, <1>7

(* Two characters at i.                                                    *)
LEMMA Two ==
    ASSUME NEW V, NEW t \in Seq(V), NEW i \in Int, NEW a, NEW b
    PROVE  HasPrefix(t, i, <<a, b>>) <=> (i + 1 <= Len(t) /\ t[i] = a /\ t[i + 1] = b)
<1> DEFINE d == <<a, b>>
<1>1. Len(d) = 2 /\ DOMAIN d = {1, 2} /\ d[1] = a /\ d[2] = b
  OBVIOUS
<1>2. i + 1 - 1 = i /\ i + 2 - 1 = i + 1
  OBVIOUS
<1> HIDE DEF d
<1>3. HasPrefix(t, i, d) <=> (i + 1 <= Len(t) /\ t[i] = a /\ t[i + 1] = b)
  BY <1>1, <1>2 DEF HasPrefix
<1> QED
  BY <1>3 DEF d

(* The beginnings of tokens exclude one another, so the order in which the *)
(* code asks for them does not matter.                                     *)
LEMMA LineDelimiters ==
    ASSUME NEW V, NEW t \in Seq(V), NEW i \in 1..Len(t)
    PROVE  /\ LineDelimiter(t, i) \in {0, 1, 2}
           /\ LineDelimiter(t, i) > 0 =>
                  /\ t[i] \in {"-", "/", "#"}
                  /\ i + LineDelimiter(t, i) - 1 <= Len(t)
                  /\ ~HasPrefix(t, i, OpenComment)
                  /\ \A k \in i..(i + LineDelimiter(t, i) - 1) : t[k] # NL
<1>1. Len(t) \in Nat
  OBVIOUS
<1>0. \A a, b : HasPrefix(t, i, <<a, b>>) <=> (i + 1 <= Len(t) /\ t[i] = a /\ t[i + 1] = b)
  <2>1. i \in Int
    BY <1>1
  <2> QED
    BY <2>1, Two, Zenon
<1>2. /\ HasPrefix(t, i, <<"-", "-">>) <=> (i + 1 <= Len(t) /\ t[i] = "-" /\ t[i + 1] = "-")
      /\ HasPrefix(t, i, <<"/", "/">>) <=> (i + 1 <= Len(t) /\ t[i] = "/" /\ t[i + 1] = "/")
      /\ HasPrefix(t, i, <<"#", "!">>) <=> (i + 1 <= Len(t) /\ t[i] = "#" /\ t[i + 1] = "!")
      /\ HasPrefix(t, i, <<"#", " ">>) <=> (i + 1 <= Len(t) /\ t[i] = "#" /\ t[i + 1] = " ")
      /\ HasPrefix(t, i, OpenComment) <=> (i + 1 <= Len(t) /\ t[i] = "/" /\ t[i + 1] = "*")
  BY <1>0 DEF OpenComment
<1>3. CASE \E d \in {<<"-", "-">>, <<"/", "/">>, <<"#", "!">>} : HasPrefix(t, i, d)
  <2>1. LineDelimiter(t, i) = 2
    BY <1>3 DEF LineDelimiter
  <2>2. /\ i + 1 <= Len(t) /\ t[i] \in {"-", "/", "#"} /\ t[i + 1] # NL /\ t[i + 1] # "*"
    BY <1>2, <1>3 DEF NL
  <2>3. \A k \in i..(i + 2 - 1) : t[k] # NL
    BY <1>1, <2>2 DEF NL
  <2>4. ~HasPrefix(t, i, OpenComment)
    BY <1>2, <2>2
  <2> QED
    BY <1>1, <2>1, <2>2, <2>3, <2>4
<1>4. CASE ~(\E d \in {<<"-", "-">>, <<"/", "/">>, <<"#", "!">>} : HasPrefix(t, i, d))
           /\ HasPrefix(t, i, <<"#", " ">>)
  <2>1. LineDelimiter(t, i) = 1
    BY <1>4 DEF LineDelimiter
  <2>2. t[i] = "#"
    BY <1>2, <1>4
  <2>3. \A k \in i..(i + 1 - 1) : t[k] # NL
    BY <1>1, <2>2 DEF NL
  <2>4. ~HasPrefix(t, i, OpenComment)
    BY <1>2, <2>2
  <2> QED
    BY <1>1, <2>1, <2>2, <2>3, <2>4
<1>5. CASE ~(\E d \in {<<"-", "-">>, <<"/", "/">>, <<"#", "!">>} : HasPrefix(t, i, d))
           /\ ~HasPrefix(t, i, <<"#", " ">>)
  <2>1. LineDelimiter(t, i) = 0
    BY <1>5 DEF LineDelimiter
  <2> QED
    BY <2>1
<1> QED
  BY <1>3, <1>4, <1>5

(* At most one kind of token begins at a place.                            *)
LEMMA Beginnings ==
    ASSUME NEW V, NEW t \in Seq(V), NEW i \in 1..Len(t)
    PROVE  /\ LineDelimiter(t, i) > 0 => /\ ~HasPrefix(t, i, OpenComment)
                                         /\ HeredocDelimiter(t, i) = <<>>
                                         /\ t[i] \notin QuoteMark
           /\ HasPrefix(t, i, OpenComment) => /\ HeredocDelimiter(t, i) = <<>>
                                              /\ t[i] \notin QuoteMark
           /\ HeredocDelimiter(t, i) # <<>> => t[i] \notin QuoteMark
<1>1. LineDelimiter(t, i) > 0 => t[i] \in {"-", "/", "#"} /\ ~HasPrefix(t, i, OpenComment)
  BY LineDelimiters
<1>2. HasPrefix(t, i, OpenComment) => t[i] = "/"
  BY Two DEF OpenComment
<1>3. HeredocDelimiter(t, i) # <<>> => t[i] = "$"
  BY Delimiters
<1>4. t[i] \in QuoteMark => t[i] \in {"'", "\""}
  BY DEF QuoteMark
<1> QED
  BY <1>1, <1>2, <1>3, <1>4

(* Which ends a token may have.                                            *)
LEMMA EndsOf ==
    ASSUME NEW V, NEW t \in Seq(V), NEW i \in 1..Len(t)
    PROVE  LET d == HeredocDelimiter(t, i)
           IN /\ LineDelimiter(t, i) > 0 => Ends(t, i) = LineEnds(t, i)
              /\ HasPrefix(t, i, OpenComment) => Ends(t, i) = CommentEnds(t, i)
              /\ d # <<>> => Ends(t, i) = HeredocEnds(t, i, d)
              /\ t[i] \in QuoteMark => Ends(t, i) = QuoteEnds(t, i)
              /\ (/\ ~(LineDelimiter(t, i) > 0) /\ ~HasPrefix(t, i, OpenComment)
                  /\ d = <<>> /\ t[i] \notin QuoteMark) => Ends(t, i) = {i}
<1> DEFINE d == HeredocDelimiter(t, i)
<1>1. /\ LineDelimiter(t, i) > 0 => /\ ~HasPrefix(t, i, OpenComment)
                                    /\ d = <<>>
                                    /\ t[i] \notin QuoteMark
      /\ HasPrefix(t, i, OpenComment) => d = <<>> /\ t[i] \notin QuoteMark
      /\ d # <<>> => t[i] \notin QuoteMark
  BY Beginnings
<1>2. Ends(t, i) = CASE LineDelimiter(t, i) > 0 -> LineEnds(t, i)
                     [] HasPrefix(t, i, OpenComment) -> CommentEnds(t, i)
                     [] d # <<>> -> HeredocEnds(t, i, d)
                     [] t[i] \in QuoteMark -> QuoteEnds(t, i)
                     [] OTHER -> {i}
  BY DEF Ends
<1> HIDE DEF d
<1>3. /\ LineDelimiter(t, i) > 0 => Ends(t, i) = LineEnds(t, i)
      /\ HasPrefix(t, i, OpenComment) => Ends(t, i) = CommentEnds(t, i)
      /\ d # <<>> => Ends(t, i) = HeredocEnds(t, i, d)
      /\ t[i] \in QuoteMark => Ends(t, i) = QuoteEnds(t, i)
      /\ (/\ ~(LineDelimiter(t, i) > 0) /\ ~HasPrefix(t, i, OpenComment)
          /\ d = <<>> /\ t[i] \notin QuoteMark) => Ends(t, i) = {i}
  BY <1>1, <1>2
<1> QED
  BY <1>3 DEF d

(* A token ends at the first place where it can, or beyond the text.       *)
LEMMA EndIsFirst ==
    ASSUME NEW V, NEW t \in Seq(V), NEW i \in 1..Len(t)
    PROVE  /\ Ends(t, i) \subseteq i..Len(t)
           /\ TokenEnd(t, i) \in Ends(t, i) \cup {Len(t) + 1}
           /\ TokenEnd(t, i) \in i..(Len(t) + 1)
           /\ \A j \in Ends(t, i) : TokenEnd(t, i) <= j
<1>1. Len(t) \in Nat
  OBVIOUS
<1>2. Ends(t, i) \subseteq i..Len(t)
  <2> DEFINE d == HeredocDelimiter(t, i)
  <2>1. d # <<>> => Len(d) \in Nat /\ Len(d) >= 2
    BY Delimiters
  <2>2. LineEnds(t, i) \subseteq i..Len(t)
    BY DEF LineEnds
  <2>3. CommentEnds(t, i) \subseteq i..Len(t)
    BY <1>1 DEF CommentEnds
  <2>4. d # <<>> => HeredocEnds(t, i, d) \subseteq i..Len(t)
    <3> HIDE DEF d
    <3> QED
      BY <1>1, <2>1 DEF HeredocEnds
  <2>5. QuoteEnds(t, i) \subseteq i..Len(t)
    BY <1>1 DEF QuoteEnds
  <2>6. {i} \subseteq i..Len(t)
    BY <1>1
  <2>7. /\ LineDelimiter(t, i) > 0 => Ends(t, i) = LineEnds(t, i)
        /\ HasPrefix(t, i, OpenComment) => Ends(t, i) = CommentEnds(t, i)
        /\ d # <<>> => Ends(t, i) = HeredocEnds(t, i, d)
        /\ t[i] \in QuoteMark => Ends(t, i) = QuoteEnds(t, i)
        /\ (/\ ~(LineDelimiter(t, i) > 0) /\ ~HasPrefix(t, i, OpenComment)
            /\ d = <<>> /\ t[i] \notin QuoteMark) => Ends(t, i) = {i}
    BY EndsOf
  <2> HIDE DEF d
  <2> QED
    BY <2>2, <2>3, <2>4, <2>5, <2>6, <2>7
<1> DEFINE S == Ends(t, i) \cup {Len(t) + 1}
<1>3. S \in SUBSET Nat /\ S # {} /\ S \subseteq i..(Len(t) + 1)
  BY <1>1, <1>2
<1>4. TokenEnd(t, i) = Min(S)
  BY DEF TokenEnd
<1>5. Min(S) \in S /\ \A k \in S : Min(S) <= k
  <2> HIDE DEF S
  <2> QED
    BY <1>3, MinLeast
<1> QED
  BY <1>2, <1>3, <1>4, <1>5

(* The recursive function behind Tokens exists.                            *)
LEMMA TokenFunction ==
    ASSUME NEW V, NEW t \in Seq(V)
    PROVE  \E f : /\ f = [n \in 0..Len(t) |-> IF n = 0 THEN 1 ELSE AfterToken(t, f[n - 1])]
                  /\ Tokens(t) = {f[n] : n \in 0..Len(t)} \cap 1..Len(t)
<1> DEFINE L == Len(t)
           D == 1..(L + 2)
           G == [i \in D |-> AfterToken(t, i)]
           Is(f) == f = [n \in 0..L |-> IF n = 0 THEN 1 ELSE AfterToken(t, f[n - 1])]
<1>1. L \in Nat
  OBVIOUS
<1>2. G \in [D -> D]
  <2> SUFFICES ASSUME NEW i \in D PROVE AfterToken(t, i) \in D
    OBVIOUS
  <2>1. CASE i \in 1..L
    BY <1>1, <2>1, EndIsFirst DEF AfterToken
  <2>2. CASE i > L
    BY <1>1, <2>2 DEF AfterToken
  <2> QED
    BY <1>1, <2>1, <2>2
<1>3. PICK f \in [0..L -> D] : Iterated(f, L, 1, G)
  <2> HIDE DEF L, G
  <2>1. 1 \in D
    BY <1>1
  <2> HIDE DEF D
  <2> QED
    BY <1>1, <1>2, <2>1, Iterates
<1>4. \A n \in 0..L : f[n] = IF n = 0 THEN 1 ELSE AfterToken(t, f[n - 1])
  <2> SUFFICES ASSUME NEW n \in 0..L, n # 0 PROVE f[n] = AfterToken(t, f[n - 1])
    BY <1>3 DEF Iterated
  <2>1. n - 1 \in 0..L
    BY <1>1
  <2> QED
    BY <1>3, <2>1 DEF Iterated
<1>5. Is(f)
  BY <1>4
<1> DEFINE F == CHOOSE g : Is(g)
<1>6. Is(F)
  <2> HIDE DEF Is
  <2> QED
    BY <1>5
<1>7. Tokens(t) = {F[n] : n \in 0..L} \cap 1..L
  BY DEF Tokens
<1> HIDE DEF F
<1> QED
  BY <1>6, <1>7

(* Tokens follow one another without a gap and do not overlap.             *)
LEMMA TokensFollow ==
    ASSUME NEW V, NEW t \in Seq(V)
    PROVE  /\ Tokens(t) \subseteq 1..Len(t)
           /\ 1 <= Len(t) => 1 \in Tokens(t)
           /\ \A i \in Tokens(t) : TokenEnd(t, i) < Len(t) => TokenEnd(t, i) + 1 \in Tokens(t)
           /\ \A i, j \in Tokens(t) : i < j => TokenEnd(t, i) < j
<1> DEFINE L == Len(t)
<1>0. L \in Nat
  OBVIOUS
<1>1. PICK f : /\ f = [n \in 0..L |-> IF n = 0 THEN 1 ELSE AfterToken(t, f[n - 1])]
               /\ Tokens(t) = {f[n] : n \in 0..L} \cap 1..L
  BY TokenFunction
<1>2. f[0] = 1
  BY <1>0, <1>1
<1>3. \A n \in 0..(L - 1) : f[n + 1] = AfterToken(t, f[n])
  <2> SUFFICES ASSUME NEW n \in 0..(L - 1)
               PROVE  f[n + 1] = AfterToken(t, f[n])
    OBVIOUS
  <2>1. n + 1 \in 0..L /\ n + 1 # 0 /\ (n + 1) - 1 = n
    BY <1>0
  <2>2. \A k \in 0..L : f[k] = IF k = 0 THEN 1 ELSE AfterToken(t, f[k - 1])
    BY <1>1
  <2>3. f[n + 1] = AfterToken(t, f[(n + 1) - 1])
    BY <2>1, <2>2
  <2> QED
    BY <2>1, <2>3
<1>4. \A i \in 1..L : /\ AfterToken(t, i) = TokenEnd(t, i) + 1
                      /\ TokenEnd(t, i) \in i..(L + 1)
  BY <1>0, EndIsFirst DEF AfterToken
<1>5. \A i \in (L + 1)..(L + 2) : AfterToken(t, i) = i
  BY <1>0 DEF AfterToken
<1> HIDE DEF L
<1>6. \A n \in 0..L : f[n] \in 1..(L + 2) /\ (f[n] > L \/ f[n] >= n + 1)
  <2> DEFINE S == {n \in 0..L : f[n] \in 1..(L + 2) /\ (f[n] > L \/ f[n] >= n + 1)}
  <2>1. 0 \in S
    BY <1>0, <1>2
  <2>2. ASSUME NEW n \in 0..(L - 1), n \in S
        PROVE  n + 1 \in S
    <3>1. CASE f[n] \in 1..L
      <4>1. n + 1 \in 0..L /\ f[n] >= n + 1
        BY <1>0, <2>2, <3>1
      <4>2. f[n + 1] = TokenEnd(t, f[n]) + 1 /\ TokenEnd(t, f[n]) \in f[n]..(L + 1)
        BY <1>3, <1>4, <3>1
      <4>3. f[n + 1] \in 1..(L + 2) /\ f[n + 1] >= n + 2
        BY <1>0, <3>1, <4>1, <4>2
      <4> QED
        BY <4>1, <4>3
    <3>2. CASE f[n] \in (L + 1)..(L + 2)
      BY <1>0, <1>3, <1>5, <2>2, <3>2
    <3> QED
      BY <1>0, <2>2, <3>1, <3>2
  <2>3. 0..L \subseteq S
    <3> HIDE DEF S
    <3> QED
      BY <1>0, <2>1, <2>2, UpTo
  <2> QED
    BY <2>3
<1>7. \A m, n \in 0..L : (m < n /\ f[m] <= L) => TokenEnd(t, f[m]) < f[n]
  <2> SUFFICES ASSUME NEW m \in 0..L, f[m] <= L
               PROVE  \A n \in 0..L : m < n => TokenEnd(t, f[m]) < f[n]
    BY <1>0
  <2> DEFINE S == {n \in 0..L : m < n => TokenEnd(t, f[m]) < f[n]}
  <2>1. 0 \in S
    BY <1>0
  <2>2. ASSUME NEW n \in 0..(L - 1), n \in S
        PROVE  n + 1 \in S
    <3>0. /\ n \in 0..L /\ n + 1 \in 0..L /\ f[n + 1] = AfterToken(t, f[n])
          /\ f[n] \in 1..(L + 2) /\ f[m] \in 1..L
      BY <1>0, <1>3, <1>6
    <3>1. f[n] < f[n + 1] \/ f[n] = f[n + 1]
      BY <1>0, <1>4, <1>5, <3>0
    <3>2. CASE m = n
      <4>1. f[n + 1] = TokenEnd(t, f[m]) + 1 /\ TokenEnd(t, f[m]) \in Int
        BY <1>0, <1>4, <3>0, <3>2
      <4> QED
        BY <3>0, <4>1
    <3>3. CASE m < n
      <4>1. TokenEnd(t, f[m]) < f[n] /\ TokenEnd(t, f[m]) \in Int /\ f[n + 1] \in Int
        BY <1>0, <1>4, <1>6, <2>2, <3>0, <3>3
      <4> QED
        BY <3>0, <3>1, <4>1
    <3>4. CASE n < m
      BY <3>0, <3>4
    <3> QED
      BY <3>0, <3>2, <3>3, <3>4
  <2>3. 0..L \subseteq S
    <3> HIDE DEF S
    <3> QED
      BY <1>0, <2>1, <2>2, UpTo
  <2> QED
    BY <2>3
<1>8. 1 <= L => 1 \in Tokens(t)
  <2>1. 0 \in 0..L
    BY <1>0
  <2> QED
    BY <1>0, <1>1, <1>2, <2>1
<1>9. ASSUME NEW i \in Tokens(t), TokenEnd(t, i) < L
      PROVE  TokenEnd(t, i) + 1 \in Tokens(t)
  <2>1. PICK n \in 0..L : f[n] = i
    BY <1>1
  <2>2. i \in 1..L
    BY <1>1
  <2>3. n \in 0..(L - 1)
    <3>1. i >= n + 1
      BY <1>0, <1>6, <2>1, <2>2
    <3>2. TokenEnd(t, i) \in i..(L + 1)
      BY <1>4, <2>2
    <3> QED
      BY <1>0, <1>9, <2>2, <3>1, <3>2
  <2>4. n + 1 \in 0..L /\ f[n + 1] = TokenEnd(t, i) + 1
    BY <1>0, <1>3, <1>4, <2>1, <2>2, <2>3
  <2>5. TokenEnd(t, i) + 1 \in 1..L
    BY <1>0, <1>4, <1>9, <2>2
  <2> QED
    BY <1>1, <2>4, <2>5
<1>10. ASSUME NEW i \in Tokens(t), NEW j \in Tokens(t), i < j
       PROVE  TokenEnd(t, i) < j
  <2>1. PICK m \in 0..L : f[m] = i
    BY <1>1
  <2>2. PICK n \in 0..L : f[n] = j
    BY <1>1
  <2>3. i \in 1..L /\ j \in 1..L
    BY <1>1
  <2>4. m < n \/ m = n \/ n < m
    BY <1>0
  <2>5. ~(n < m)
    <3>1. TokenEnd(t, j) \in j..(L + 1)
      BY <1>4, <2>3
    <3>2. n < m => TokenEnd(t, j) < i
      BY <1>7, <2>1, <2>2, <2>3, <1>0
    <3> QED
      BY <1>0, <2>3, <3>1, <3>2, <1>10
  <2>6. m # n
    BY <2>1, <2>2, <2>3, <1>10
  <2> QED
    BY <1>7, <2>1, <2>2, <2>3, <2>4, <2>5, <2>6, <1>0
<1> QED
  BY <1>1, <1>8, <1>9, <1>10 DEF L

-----------------------------------------------------------------------------
(* A token p of which the characters before i are read, in each mode.      *)

LineWithin(t, p, i) ==
    /\ LineDelimiter(t, p) > 0
    /\ p < i /\ i <= Len(t) + 1
    /\ \A k \in p..(i - 1) : t[k] # NL

CommentWithin(t, p, i, n) ==
    /\ LineDelimiter(t, p) = 0 /\ HasPrefix(t, p, OpenComment)
    /\ p <= i /\ i <= Len(t) + 1
    /\ EvenRun(Pairs(t), p, i)
    /\ n = Cardinality(Marks(t, p, "/", i)) - Cardinality(Marks(t, p, "*", i))
    /\ \A j \in CommentEnds(t, p) : i <= j

HeredocWithin(t, p, i, d) ==
    /\ LineDelimiter(t, p) = 0 /\ ~HasPrefix(t, p, OpenComment)
    /\ d # <<>> /\ d = HeredocDelimiter(t, p)
    /\ p + Len(d) <= i /\ i <= Len(t) + 1
    /\ \A j \in HeredocEnds(t, p, d) : i + Len(d) - 1 <= j

QuoteWithin(t, p, i, c) ==
    /\ LineDelimiter(t, p) = 0 /\ ~HasPrefix(t, p, OpenComment)
    /\ HeredocDelimiter(t, p) = <<>>
    /\ c = t[p] /\ c \in QuoteMark
    /\ p < i /\ i <= Len(t) + 2
    /\ EvenRun(Escapes(t), p + 1, i)
    /\ \A j \in QuoteEnds(t, p) : i <= j

(* Each mode's round inside a token, compared with the ends of the token:  *)
(* a line comment ends at the end of its line.                             *)
LEMMA LineStep ==
    ASSUME NEW V, NEW t \in Seq(V), NEW p \in 1..Len(t), NEW i \in 1..Len(t),
           LineWithin(t, p, i)
    PROVE  IF t[i] = NL THEN TokenEnd(t, p) = i ELSE LineWithin(t, p, i + 1)
<1>1. Len(t) \in Nat
  OBVIOUS
<1>2. CASE t[i] = NL
  <2>1. Ends(t, p) = LineEnds(t, p)
    BY EndsOf DEF LineWithin
  <2>2. i \in LineEnds(t, p) /\ \A j \in LineEnds(t, p) : i <= j
    BY <1>1, <1>2 DEF LineEnds, LineWithin
  <2>3. TokenEnd(t, p) \in LineEnds(t, p) /\ TokenEnd(t, p) <= i
    BY <1>1, <2>1, <2>2, EndIsFirst
  <2>4. TokenEnd(t, p) \in Int
    BY <1>1, EndIsFirst
  <2> QED
    BY <1>2, <2>2, <2>3, <2>4
<1>3. CASE t[i] # NL
  BY <1>1, <1>3 DEF LineWithin
<1> QED
  BY <1>2, <1>3

(* At the end of the text a line comment ends with it.                     *)
LEMMA LineAtEnd ==
    ASSUME NEW V, NEW t \in Seq(V), NEW p \in 1..Len(t), LineWithin(t, p, Len(t) + 1)
    PROVE  TokenEnd(t, p) = Len(t)
<1>1. Len(t) \in Nat
  OBVIOUS
<1>2. Ends(t, p) = LineEnds(t, p)
  BY EndsOf DEF LineWithin
<1>3. Len(t) \in LineEnds(t, p) /\ \A j \in LineEnds(t, p) : j = Len(t)
  BY <1>1 DEF LineEnds, LineWithin
<1>4. TokenEnd(t, p) \in LineEnds(t, p) \cup {Len(t) + 1} /\ TokenEnd(t, p) <= Len(t)
  BY <1>1, <1>2, <1>3, EndIsFirst
<1> QED
  BY <1>1, <1>3, <1>4

(* The marks before i + 1 are those before i and, after an even run, the   *)
(* one that begins at i.                                                   *)
LEMMA MarksNext ==
    ASSUME NEW V, NEW t \in Seq(V), NEW p \in 1..Len(t), NEW i \in p..(Len(t) + 1), NEW c
    PROVE  /\ (i \notin Pairs(t) \/ ~EvenRun(Pairs(t), p, i) \/ t[i] # c)
                  => Marks(t, p, c, i + 1) = Marks(t, p, c, i)
           /\ (i \in Pairs(t) /\ EvenRun(Pairs(t), p, i) /\ t[i] = c)
                  => /\ i \in Marks(t, p, c, i + 1)
                     /\ Cardinality(Marks(t, p, c, i + 1)) = Cardinality(Marks(t, p, c, i)) + 1
           /\ Cardinality(Marks(t, p, c, i)) \in Nat
<1>1. Len(t) \in Nat /\ Pairs(t) \subseteq 1..(Len(t) - 1)
  BY DEF Pairs
<1>2. IsFiniteSet(Marks(t, p, c, i))
  <2>1. Marks(t, p, c, i) \subseteq 1..Len(t)
    BY <1>1 DEF Marks
  <2>2. IsFiniteSet(1..Len(t))
    BY <1>1, FS_Interval
  <2> QED
    BY <2>1, <2>2, FS_Subset
<1>3. \A k \in Pairs(t) : k < i + 1 <=> (k < i \/ k = i)
  BY <1>1
<1>4. CASE i \notin Pairs(t) \/ ~EvenRun(Pairs(t), p, i) \/ t[i] # c
  <2>1. Marks(t, p, c, i + 1) = Marks(t, p, c, i)
    BY <1>3, <1>4 DEF Marks
  <2> QED
    BY <1>2, <1>4, <2>1, FS_CardinalityType
<1>5. CASE i \in Pairs(t) /\ EvenRun(Pairs(t), p, i) /\ t[i] = c
  <2>1. Marks(t, p, c, i + 1) = Marks(t, p, c, i) \cup {i} /\ i \notin Marks(t, p, c, i)
    BY <1>1, <1>3, <1>5 DEF Marks
  <2> QED
    BY <1>2, <1>5, <2>1, FS_AddElement, FS_CardinalityType
<1> QED
  BY <1>2, <1>4, <1>5, FS_CardinalityType

(* The characters of a pair.                                               *)
LEMMA PairsAt ==
    ASSUME NEW V, NEW t \in Seq(V), NEW i \in 1..Len(t)
    PROVE  /\ i \in Pairs(t) <=> HasPrefix(t, i, OpenComment) \/ HasPrefix(t, i, CloseComment)
           /\ HasPrefix(t, i, OpenComment) => i + 1 <= Len(t) /\ t[i] = "/"
           /\ HasPrefix(t, i, CloseComment) => i + 1 <= Len(t) /\ t[i] = "*"
<1>1. Len(t) \in Nat /\ i \in Int
  OBVIOUS
<1>2. \A a, b : HasPrefix(t, i, <<a, b>>) <=> (i + 1 <= Len(t) /\ t[i] = a /\ t[i + 1] = b)
  BY <1>1, Two, Zenon
<1>3. /\ HasPrefix(t, i, OpenComment) <=> (i + 1 <= Len(t) /\ t[i] = "/" /\ t[i + 1] = "*")
      /\ HasPrefix(t, i, CloseComment) <=> (i + 1 <= Len(t) /\ t[i] = "*" /\ t[i + 1] = "/")
  BY <1>2 DEF OpenComment, CloseComment
<1>4. {t[i], t[i + 1]} = {"/", "*"} <=> \/ t[i] = "/" /\ t[i + 1] = "*"
                                        \/ t[i] = "*" /\ t[i + 1] = "/"
  OBVIOUS
<1>5. i \in Pairs(t) <=> i + 1 <= Len(t) /\ {t[i], t[i + 1]} = {"/", "*"}
  <2>1. i \in 1..(Len(t) - 1) <=> i + 1 <= Len(t)
    BY <1>1
  <2> QED
    BY <2>1, Zenon DEF Pairs
<1> QED
  BY <1>3, <1>4, <1>5

(* No mark of a comment begins right before a place after an even run, so  *)
(* no comment ends there.                                                  *)
LEMMA NoEndHere ==
    ASSUME NEW V, NEW t \in Seq(V), NEW p \in 1..Len(t), NEW i \in p..(Len(t) + 1),
           EvenRun(Pairs(t), p, i)
    PROVE  i \notin CommentEnds(t, p)
<1>1. SUFFICES ASSUME i \in CommentEnds(t, p) PROVE FALSE
  OBVIOUS
<1>2. Len(t) \in Nat
  OBVIOUS
<1>3. i - 1 \in Pairs(t) /\ EvenRun(Pairs(t), p, i - 1) /\ p <= i - 1
  BY <1>1, <1>2 DEF CommentEnds, Marks
<1> DEFINE j == i - 1
<1>4. j \in Int /\ j + 1 = i /\ p \in Int
  BY <1>2
<1> HIDE DEF j
<1>5. ~EvenRun(Pairs(t), p, j + 1)
  BY <1>3, <1>4, OddAfterEven DEF j
<1> QED
  BY <1>4, <1>5

(* The ends of a comment are places of the text with a closing mark.       *)
LEMMA CommentEndsTyped ==
    ASSUME NEW V, NEW t \in Seq(V), NEW p \in 1..Len(t)
    PROVE  CommentEnds(t, p) \subseteq 1..Len(t)
<1>1. Len(t) \in Nat
  OBVIOUS
<1> QED
  BY <1>1 DEF CommentEnds

(* In a comment an opening mark takes it one deeper,                       *)
LEMMA CommentOpens ==
    ASSUME NEW V, NEW t \in Seq(V), NEW p \in 1..Len(t), NEW i \in 1..Len(t), NEW n \in Nat,
           CommentWithin(t, p, i, n), HasPrefix(t, i, OpenComment)
    PROVE  CommentWithin(t, p, i + 2, n + 1)
<1> DEFINE P == Pairs(t)
           opens(j) == Cardinality(Marks(t, p, "/", j))
           closes(j) == Cardinality(Marks(t, p, "*", j))
<1>1. Len(t) \in Nat /\ i \in Int /\ p \in Int /\ p <= i
  BY DEF CommentWithin
<1>2. i \in P /\ t[i] = "/" /\ t[i] # "*" /\ i + 1 <= Len(t)
  BY PairsAt
<1>3. EvenRun(P, p, i) /\ ~EvenRun(P, p, i + 1) /\ EvenRun(P, p, i + 2)
  <2>1. EvenRun(P, p, i)
    BY DEF CommentWithin
  <2> QED
    BY <1>1, <1>2, <2>1, OddAfterEven, EvenAfterTwo
<1>4. /\ opens(i + 1) = opens(i) + 1 /\ closes(i + 1) = closes(i)
      /\ opens(i) \in Nat /\ closes(i) \in Nat
  <2>1. i \in p..(Len(t) + 1)
    BY <1>1, <1>2
  <2>2. Marks(t, p, "*", i + 1) = Marks(t, p, "*", i)
    BY <1>2, <2>1, MarksNext
  <2>3. opens(i + 1) = opens(i) + 1
    BY <1>2, <1>3, <2>1, MarksNext
  <2>4. opens(i) \in Nat /\ closes(i) \in Nat
    BY <2>1, MarksNext
  <2> QED
    BY <2>2, <2>3, <2>4
<1>5. opens(i + 2) = opens(i + 1) /\ closes(i + 2) = closes(i + 1)
  <2>1. i + 1 \in p..(Len(t) + 1) /\ (i + 1) + 1 = i + 2
    BY <1>1, <1>2
  <2>2. \A c : Marks(t, p, c, (i + 1) + 1) = Marks(t, p, c, i + 1)
    BY <1>3, <2>1, MarksNext
  <2> QED
    BY <2>1, <2>2
<1>6. i + 1 \notin CommentEnds(t, p)
  <2>1. i \notin Marks(t, p, "*", i + 1)
    BY <1>2 DEF Marks
  <2>2. (i + 1) - 1 = i
    BY <1>1
  <2> QED
    BY <2>1, <2>2 DEF CommentEnds
<1>7. i \notin CommentEnds(t, p)
  BY <1>1, <1>3, NoEndHere
<1>8. \A j \in CommentEnds(t, p) : j \in Int /\ i <= j /\ j # i /\ j # i + 1
  BY <1>1, <1>6, <1>7, CommentEndsTyped DEF CommentWithin
<1>9. \A j \in CommentEnds(t, p) : i + 2 <= j
  BY <1>1, <1>8
<1>10. n + 1 = opens(i + 2) - closes(i + 2)
  <2>1. n = opens(i) - closes(i)
    BY DEF CommentWithin
  <2> HIDE DEF opens, closes
  <2> QED
    BY <1>4, <1>5, <2>1
<1> QED
  BY <1>1, <1>2, <1>3, <1>9, <1>10 DEF CommentWithin

(* a closing one ends it or takes it back,                                 *)
LEMMA CommentCloses ==
    ASSUME NEW V, NEW t \in Seq(V), NEW p \in 1..Len(t), NEW i \in 1..Len(t), NEW n \in Nat,
           CommentWithin(t, p, i, n), HasPrefix(t, i, CloseComment)
    PROVE  IF n = 1 THEN TokenEnd(t, p) = i + 1 /\ i + 1 <= Len(t)
                    ELSE CommentWithin(t, p, i + 2, n - 1)
<1> DEFINE P == Pairs(t)
           opens(j) == Cardinality(Marks(t, p, "/", j))
           closes(j) == Cardinality(Marks(t, p, "*", j))
<1>1. Len(t) \in Nat /\ i \in Int /\ p \in Int /\ p <= i
  BY DEF CommentWithin
<1>2. i \in P /\ t[i] = "*" /\ t[i] # "/" /\ i + 1 <= Len(t)
  BY PairsAt
<1>3. EvenRun(P, p, i) /\ ~EvenRun(P, p, i + 1) /\ EvenRun(P, p, i + 2)
  <2>1. EvenRun(P, p, i)
    BY DEF CommentWithin
  <2> QED
    BY <1>1, <1>2, <2>1, OddAfterEven, EvenAfterTwo
<1>4. /\ closes(i + 1) = closes(i) + 1 /\ opens(i + 1) = opens(i)
      /\ opens(i) \in Nat /\ closes(i) \in Nat
      /\ i \in Marks(t, p, "*", i + 1)
  <2>1. i \in p..(Len(t) + 1)
    BY <1>1, <1>2
  <2>2. Marks(t, p, "/", i + 1) = Marks(t, p, "/", i)
    BY <1>2, <2>1, MarksNext
  <2>3. i \in Marks(t, p, "*", i + 1) /\ closes(i + 1) = closes(i) + 1
    BY <1>2, <1>3, <2>1, MarksNext
  <2>4. opens(i) \in Nat /\ closes(i) \in Nat
    BY <2>1, MarksNext
  <2> QED
    BY <2>2, <2>3, <2>4
<1>5. opens(i + 2) = opens(i + 1) /\ closes(i + 2) = closes(i + 1)
  <2>1. i + 1 \in p..(Len(t) + 1) /\ (i + 1) + 1 = i + 2
    BY <1>1, <1>2
  <2>2. \A c : Marks(t, p, c, (i + 1) + 1) = Marks(t, p, c, i + 1)
    BY <1>3, <2>1, MarksNext
  <2> QED
    BY <2>1, <2>2
<1>6. i + 1 \in CommentEnds(t, p) <=> n = 1
  <2>1. n = opens(i) - closes(i)
    BY DEF CommentWithin
  <2>2. opens(i + 1) = closes(i + 1) <=> n = 1
    <3> HIDE DEF opens, closes
    <3> QED
      BY <1>4, <2>1
  <2>3. (i + 1) - 1 = i /\ i + 1 \in (p + 1)..Len(t)
    BY <1>1, <1>2
  <2> QED
    BY <1>4, <2>2, <2>3 DEF CommentEnds
<1>7. i \notin CommentEnds(t, p)
  BY <1>1, <1>3, NoEndHere
<1>8. \A j \in CommentEnds(t, p) : j \in Int /\ i + 1 <= j
  <2>1. \A j \in CommentEnds(t, p) : j \in Int /\ i <= j /\ j # i
    BY <1>1, <1>7, CommentEndsTyped DEF CommentWithin
  <2> QED
    BY <1>1, <2>1
<1>9. CASE n = 1
  <2>1. Ends(t, p) = CommentEnds(t, p)
    BY EndsOf DEF CommentWithin
  <2>2. /\ TokenEnd(t, p) \in CommentEnds(t, p) \cup {Len(t) + 1}
        /\ TokenEnd(t, p) <= i + 1
    BY <1>6, <1>9, <2>1, EndIsFirst
  <2> QED
    BY <1>1, <1>2, <1>8, <1>9, <2>2
<1>10. CASE n # 1
  <2>1. \A j \in CommentEnds(t, p) : i + 2 <= j
    <3>1. \A j \in CommentEnds(t, p) : j # i + 1
      BY <1>6, <1>10
    <3> QED
      BY <1>1, <1>8, <3>1
  <2>2. n - 1 = opens(i + 2) - closes(i + 2)
    <3>1. n = opens(i) - closes(i)
      BY DEF CommentWithin
    <3> HIDE DEF opens, closes
    <3> QED
      BY <1>4, <1>5, <3>1
  <2> QED
    BY <1>1, <1>2, <1>3, <1>10, <2>1, <2>2 DEF CommentWithin
<1> QED
  BY <1>9, <1>10

(* and anything else leaves the depth.                                     *)
LEMMA CommentGoesOn ==
    ASSUME NEW V, NEW t \in Seq(V), NEW p \in 1..Len(t), NEW i \in 1..Len(t), NEW n \in Nat,
           CommentWithin(t, p, i, n),
           ~HasPrefix(t, i, OpenComment), ~HasPrefix(t, i, CloseComment)
    PROVE  CommentWithin(t, p, i + 1, n)
<1>1. Len(t) \in Nat /\ i \in Int /\ p \in Int /\ p <= i
  BY DEF CommentWithin
<1>2. i \notin Pairs(t)
  BY PairsAt
<1>3. EvenRun(Pairs(t), p, i + 1)
  <2>1. (i + 1) - 1 = i
    BY <1>1
  <2>2. i + 1 \in Int /\ p <= i + 1
    BY <1>1
  <2> QED
    BY <1>1, <1>2, <2>1, <2>2, EvenAfterGap
<1>4. \A c : Marks(t, p, c, i + 1) = Marks(t, p, c, i)
  BY <1>1, <1>2, MarksNext
<1>5. i \notin CommentEnds(t, p)
  BY <1>1, NoEndHere DEF CommentWithin
<1>6. \A j \in CommentEnds(t, p) : j \in Int /\ i <= j /\ j # i
  BY <1>1, <1>5, CommentEndsTyped DEF CommentWithin
<1>7. \A j \in CommentEnds(t, p) : i + 1 <= j
  BY <1>1, <1>6
<1> QED
  BY <1>1, <1>3, <1>4, <1>7 DEF CommentWithin

(* A heredoc ends with the first delimiter like the one that opened it.    *)
LEMMA HeredocStep ==
    ASSUME NEW V, NEW t \in Seq(V), NEW p \in 1..Len(t), NEW i \in 1..Len(t), NEW d,
           HeredocWithin(t, p, i, d)
    PROVE  /\ Len(d) \in Nat /\ Len(d) >= 2
           /\ IF HasPrefix(t, i, d)
              THEN TokenEnd(t, p) = i + Len(d) - 1 /\ i + Len(d) - 1 <= Len(t)
              ELSE HeredocWithin(t, p, i + 1, d)
<1>1. /\ Len(t) \in Nat /\ p + Len(d) <= i /\ d # <<>> /\ d = HeredocDelimiter(t, p)
      /\ LineDelimiter(t, p) = 0 /\ ~HasPrefix(t, p, OpenComment)
      /\ \A j \in HeredocEnds(t, p, d) : i + Len(d) - 1 <= j
  BY DEF HeredocWithin
<1>2. Len(d) \in Nat /\ Len(d) >= 2
  BY <1>1, Delimiters
<1>3. Ends(t, p) = HeredocEnds(t, p, d)
  BY <1>1, EndsOf
<1>4. \A j \in HeredocEnds(t, p, d) : j \in Int /\ HasPrefix(t, j - Len(d) + 1, d)
  BY <1>1, <1>2 DEF HeredocEnds
<1> DEFINE last == i + Len(d) - 1
<1>5. last \in Int /\ last - Len(d) + 1 = i
  BY <1>1, <1>2
<1>6. CASE HasPrefix(t, i, d)
  <2>1. last <= Len(t)
    BY <1>6 DEF HasPrefix
  <2>2. last \in (p + 2 * Len(d) - 1)..Len(t)
    BY <1>1, <1>2, <1>5, <2>1
  <2> HIDE DEF last
  <2>3. last \in HeredocEnds(t, p, d)
    BY <1>5, <1>6, <2>2 DEF HeredocEnds
  <2>4. TokenEnd(t, p) <= last /\ TokenEnd(t, p) \in HeredocEnds(t, p, d) \cup {Len(t) + 1}
    BY <1>3, <2>3, EndIsFirst
  <2>5. \A j \in HeredocEnds(t, p, d) : last <= j
    BY <1>1 DEF last
  <2>6. TokenEnd(t, p) = last
    BY <1>1, <1>4, <1>5, <2>1, <2>4, <2>5
  <2> QED
    BY <1>2, <1>6, <2>1, <2>6 DEF last
<1>7. CASE ~HasPrefix(t, i, d)
  <2>1. last \notin HeredocEnds(t, p, d)
    <3> HIDE DEF last
    <3> QED
      BY <1>4, <1>5, <1>7
  <2>2. \A j \in HeredocEnds(t, p, d) : (i + 1) + Len(d) - 1 <= j
    BY <1>1, <1>2, <1>4, <2>1
  <2>3. p + Len(d) <= i + 1 /\ i + 1 <= Len(t) + 1
    BY <1>1, <1>2
  <2> QED
    BY <1>1, <1>2, <1>7, <2>2, <2>3 DEF HeredocWithin
<1> QED
  BY <1>6, <1>7

(* A quotation goes on after a backslash and what follows it, ends at its  *)
(* mark, and goes on with anything else.                                   *)
LEMMA QuoteStep ==
    ASSUME NEW V, NEW t \in Seq(V), NEW p \in 1..Len(t), NEW i \in 1..Len(t), NEW c,
           QuoteWithin(t, p, i, c)
    PROVE  /\ t[i] = "\\" => t[i] # c /\ QuoteWithin(t, p, i + 2, c)
           /\ t[i] = c => TokenEnd(t, p) = i
           /\ (t[i] # "\\" /\ t[i] # c) => QuoteWithin(t, p, i + 1, c)
<1> DEFINE E == Escapes(t)
<1>1. /\ Len(t) \in Nat /\ p \in Int /\ i \in Int /\ p < i /\ c \in QuoteMark /\ c = t[p]
      /\ LineDelimiter(t, p) = 0 /\ ~HasPrefix(t, p, OpenComment)
      /\ HeredocDelimiter(t, p) = <<>>
      /\ EvenRun(E, p + 1, i)
      /\ \A j \in QuoteEnds(t, p) : i <= j
  BY DEF QuoteWithin
<1>2. c # "\\"
  BY <1>1 DEF QuoteMark
<1>3. \A j \in QuoteEnds(t, p) : j \in Int /\ t[j] = c /\ EvenRun(E, p + 1, j)
  BY <1>1 DEF QuoteEnds
<1>4. i \in E <=> t[i] = "\\"
  BY DEF Escapes
<1>5. p + 1 \in Int /\ p + 1 <= i /\ (i + 1) - 1 = i
  BY <1>1
<1>6. CASE t[i] = "\\"
  <2>1. ~EvenRun(E, p + 1, i + 1) /\ EvenRun(E, p + 1, i + 2)
    BY <1>1, <1>4, <1>5, <1>6, OddAfterEven, EvenAfterTwo
  <2>2. \A j \in QuoteEnds(t, p) : j # i /\ j # i + 1
    BY <1>2, <1>3, <1>6, <2>1
  <2>3. \A j \in QuoteEnds(t, p) : i + 2 <= j
    BY <1>1, <1>3, <2>2
  <2>4. p < i + 2 /\ i + 2 <= Len(t) + 2
    BY <1>1
  <2> QED
    BY <1>1, <1>2, <1>6, <2>1, <2>3, <2>4 DEF QuoteWithin
<1>7. CASE t[i] = c
  <2>1. Ends(t, p) = QuoteEnds(t, p)
    BY <1>1, EndsOf
  <2>2. i \in (p + 1)..Len(t)
    BY <1>1
  <2>3. i \in QuoteEnds(t, p)
    BY <1>1, <1>7, <2>2 DEF QuoteEnds
  <2>4. TokenEnd(t, p) <= i /\ TokenEnd(t, p) \in QuoteEnds(t, p) \cup {Len(t) + 1}
    BY <2>1, <2>3, EndIsFirst
  <2>5. TokenEnd(t, p) = i
    BY <1>1, <1>3, <2>4
  <2> QED
    BY <1>2, <1>7, <2>5
<1>8. CASE t[i] # "\\" /\ t[i] # c
  <2>1. i + 1 \in Int /\ p + 1 <= i + 1
    BY <1>1
  <2>2. EvenRun(E, p + 1, i + 1)
    <3> HIDE DEF E
    <3> QED
      BY <1>4, <1>5, <1>8, <2>1, EvenAfterGap
  <2>3. \A j \in QuoteEnds(t, p) : j # i
    BY <1>3, <1>8
  <2>4. \A j \in QuoteEnds(t, p) : i + 1 <= j
    BY <1>1, <1>3, <2>3
  <2>5. p < i + 1 /\ i + 1 <= Len(t) + 2
    BY <1>1
  <2> QED
    BY <1>1, <1>8, <2>2, <2>4, <2>5 DEF QuoteWithin
<1> QED
  BY <1>6, <1>7, <1>8

(* What a round in code makes of the token that begins there.              *)
LEMMA TokenBegins ==
    ASSUME NEW V, NEW t \in Seq(V), NEW p \in 1..Len(t)
    PROVE  LET d == HeredocDelimiter(t, p)
           IN /\ LineDelimiter(t, p) > 0 => LineWithin(t, p, p + LineDelimiter(t, p))
              /\ HasPrefix(t, p, OpenComment) => CommentWithin(t, p, p + 2, 1)
              /\ d # <<>> => HeredocWithin(t, p, p + Len(d), d)
              /\ t[p] \in QuoteMark => QuoteWithin(t, p, p + 1, t[p])
              /\ (/\ ~(LineDelimiter(t, p) > 0) /\ ~HasPrefix(t, p, OpenComment)
                  /\ d = <<>> /\ t[p] \notin QuoteMark) => TokenEnd(t, p) = p
<1> DEFINE d == HeredocDelimiter(t, p)
<1>1. Len(t) \in Nat /\ p \in Int
  OBVIOUS
<1>2. /\ LineDelimiter(t, p) \in {0, 1, 2}
      /\ LineDelimiter(t, p) > 0 => /\ ~HasPrefix(t, p, OpenComment) /\ d = <<>>
                                    /\ t[p] \notin QuoteMark
      /\ HasPrefix(t, p, OpenComment) => d = <<>> /\ t[p] \notin QuoteMark
      /\ d # <<>> => t[p] \notin QuoteMark
  BY LineDelimiters, Beginnings
<1>3. ASSUME LineDelimiter(t, p) > 0
      PROVE  LineWithin(t, p, p + LineDelimiter(t, p))
  <2>1. /\ p + LineDelimiter(t, p) - 1 <= Len(t)
        /\ \A k \in p..(p + LineDelimiter(t, p) - 1) : t[k] # NL
    BY <1>3, LineDelimiters
  <2> QED
    BY <1>1, <1>2, <1>3, <2>1 DEF LineWithin
<1>4. ASSUME HasPrefix(t, p, OpenComment)
      PROVE  CommentWithin(t, p, p + 2, 1)
  <2>1. EvenRun(Pairs(t), p, p)
    BY <1>1, EvenAtStart
  <2>2. \A c : Marks(t, p, c, p) = {}
    BY <1>1 DEF Marks, Pairs
  <2>3. \A c : Cardinality(Marks(t, p, c, p)) = 0
    BY <2>2, FS_EmptySet
  <2>4. \A j \in CommentEnds(t, p) : p <= j
    BY <1>1 DEF CommentEnds
  <2>5. CommentWithin(t, p, p, 0)
    BY <1>1, <1>2, <1>4, <2>1, <2>3, <2>4 DEF CommentWithin
  <2>6. CommentWithin(t, p, p + 2, 0 + 1)
    BY <1>4, <2>5, CommentOpens
  <2> QED
    BY <2>6
<1>5. ASSUME d # <<>>
      PROVE  HeredocWithin(t, p, p + Len(d), d)
  <2>1. Len(d) \in Nat /\ Len(d) >= 2 /\ p + Len(d) - 1 <= Len(t)
    BY <1>5, Delimiters
  <2> DEFINE i == p + Len(d)
  <2>2. \A j \in HeredocEnds(t, p, d) : i + Len(d) - 1 <= j
    BY <1>1, <2>1 DEF HeredocEnds
  <2>3. p + Len(d) <= i /\ i <= Len(t) + 1
    BY <1>1, <2>1
  <2>4. LineDelimiter(t, p) = 0 /\ ~HasPrefix(t, p, OpenComment)
    BY <1>2, <1>5
  <2> HIDE DEF i
  <2>5. HeredocWithin(t, p, i, d)
    BY <1>5, <2>2, <2>3, <2>4 DEF HeredocWithin
  <2> QED
    BY <2>5 DEF i
<1>6. ASSUME t[p] \in QuoteMark
      PROVE  QuoteWithin(t, p, p + 1, t[p])
  <2>1. EvenRun(Escapes(t), p + 1, p + 1)
    BY <1>1, EvenAtStart
  <2>2. \A j \in QuoteEnds(t, p) : p + 1 <= j
    BY <1>1 DEF QuoteEnds
  <2>3. LineDelimiter(t, p) = 0 /\ ~HasPrefix(t, p, OpenComment) /\ d = <<>>
    BY <1>2, <1>6
  <2>4. p < p + 1 /\ p + 1 <= Len(t) + 2
    BY <1>1
  <2> QED
    BY <1>6, <2>1, <2>2, <2>3, <2>4 DEF QuoteWithin
<1>7. ASSUME ~(LineDelimiter(t, p) > 0), ~HasPrefix(t, p, OpenComment),
             d = <<>>, t[p] \notin QuoteMark
      PROVE  TokenEnd(t, p) = p
  <2>1. Ends(t, p) = {p}
    BY <1>7, EndsOf
  <2>2. TokenEnd(t, p) <= p /\ TokenEnd(t, p) \in p..(Len(t) + 1)
    BY <2>1, EndIsFirst
  <2> QED
    BY <1>1, <2>2
<1> QED
  BY <1>3, <1>4, <1>5, <1>6, <1>7

-----------------------------------------------------------------------------
(* Rounds *)

(* Mode m at i is inside the token that begins at p.                       *)
Within(t, p, i, m) ==
    /\ p < i
    /\ \/ m = Line /\ LineWithin(t, p, i)
       \/ \E n \in Nat \ {0} : m = Block(n) /\ CommentWithin(t, p, i, n)
       \/ \E d : m = Heredoc(d) /\ HeredocWithin(t, p, i, d)
       \/ \E c \in QuoteMark : m = Quote(c) /\ QuoteWithin(t, p, i, c)

(* A token that is no comment.                                             *)
Solid(t, p) == LineDelimiter(t, p) = 0 /\ ~HasPrefix(t, p, OpenComment)

(* A round in code takes a token of one character, or begins a longer one. *)
LEMMA InCodeStep ==
    ASSUME NEW V, NEW t \in Seq(V), NEW p \in 1..Len(t)
    PROVE  LET n == InCode(t, p)
           IN /\ n.take \in Nat \ {0}
              /\ \/ Within(t, p, p + n.take, n.mode)
                 \/ n.mode = Code /\ n.take = 1 /\ TokenEnd(t, p) = p
              /\ n.mode.is \in {"code", "quote", "heredoc"} <=> Solid(t, p)
<1> DEFINE d == HeredocDelimiter(t, p)
           n == InCode(t, p)
<1>1. Len(t) \in Nat /\ p \in Int
  OBVIOUS
<1>2. /\ LineDelimiter(t, p) \in {0, 1, 2}
      /\ LineDelimiter(t, p) > 0 => /\ ~HasPrefix(t, p, OpenComment) /\ d = <<>>
                                    /\ t[p] \notin QuoteMark
      /\ HasPrefix(t, p, OpenComment) => d = <<>> /\ t[p] \notin QuoteMark
      /\ d # <<>> => t[p] \notin QuoteMark /\ Len(d) \in Nat /\ Len(d) >= 2
  BY LineDelimiters, Beginnings, Delimiters
<1>3. n = CASE LineDelimiter(t, p) > 0 -> Step(Line, LineDelimiter(t, p))
            [] HasPrefix(t, p, OpenComment) -> Step(Block(1), 2)
            [] d # <<>> -> Step(Heredoc(d), Len(d))
            [] t[p] \in QuoteMark -> Step(Quote(t[p]), 1)
            [] OTHER -> Step(Code, 1)
  BY DEF InCode
<1>4. /\ LineDelimiter(t, p) > 0 => LineWithin(t, p, p + LineDelimiter(t, p))
      /\ HasPrefix(t, p, OpenComment) => CommentWithin(t, p, p + 2, 1)
      /\ d # <<>> => HeredocWithin(t, p, p + Len(d), d)
      /\ t[p] \in QuoteMark => QuoteWithin(t, p, p + 1, t[p])
      /\ (/\ ~(LineDelimiter(t, p) > 0) /\ ~HasPrefix(t, p, OpenComment)
          /\ d = <<>> /\ t[p] \notin QuoteMark) => TokenEnd(t, p) = p
  BY TokenBegins
<1> HIDE DEF d, n
<1>5. CASE LineDelimiter(t, p) > 0
  <2>1. n = [mode |-> Line, take |-> LineDelimiter(t, p)] /\ Line.is = "line"
    BY <1>2, <1>3, <1>5 DEF Step, Line
  <2>2. Within(t, p, p + n.take, n.mode)
    BY <1>1, <1>2, <1>4, <1>5, <2>1 DEF Within
  <2> QED
    BY <1>2, <1>5, <2>1, <2>2 DEF Solid, n
<1>6. CASE HasPrefix(t, p, OpenComment)
  <2>1. n = [mode |-> Block(1), take |-> 2] /\ Block(1).is = "block"
    BY <1>2, <1>3, <1>6 DEF Step, Block
  <2>2. Within(t, p, p + n.take, n.mode)
    BY <1>1, <1>4, <1>6, <2>1 DEF Within
  <2> QED
    BY <1>6, <2>1, <2>2 DEF Solid, n
<1>7. CASE d # <<>>
  <2>1. n = [mode |-> Heredoc(d), take |-> Len(d)] /\ Heredoc(d).is = "heredoc"
    BY <1>2, <1>3, <1>7 DEF Step, Heredoc
  <2>2. Within(t, p, p + n.take, n.mode)
    BY <1>1, <1>2, <1>4, <1>7, <2>1 DEF Within
  <2> QED
    BY <1>2, <1>7, <2>1, <2>2 DEF Solid, n
<1>8. CASE t[p] \in QuoteMark
  <2>1. n = [mode |-> Quote(t[p]), take |-> 1] /\ Quote(t[p]).is = "quote"
    BY <1>2, <1>3, <1>8 DEF Step, Quote
  <2>2. Within(t, p, p + n.take, n.mode)
    BY <1>1, <1>4, <1>8, <2>1 DEF Within
  <2> QED
    BY <1>2, <1>8, <2>1, <2>2 DEF Solid, n
<1>9. CASE ~(LineDelimiter(t, p) > 0) /\ ~HasPrefix(t, p, OpenComment)
           /\ d = <<>> /\ t[p] \notin QuoteMark
  <2>1. n = [mode |-> Code, take |-> 1] /\ Code.is = "code"
    BY <1>3, <1>9 DEF Step, Code
  <2> QED
    BY <1>2, <1>4, <1>9, <2>1 DEF Solid, n
<1> QED
  BY <1>5, <1>6, <1>7, <1>8, <1>9

(* A round inside a token leaves it under way, or ends where it ends; of a  *)
(* doubled mark it takes the second too, which begins a token of its own.  *)
LEMMA LexStep ==
    ASSUME NEW V, NEW t \in Seq(V), NEW p \in 1..Len(t), NEW i \in 1..Len(t), NEW m,
           Within(t, p, i, m)
    PROVE  LET n == Lex(t, i, m)
           IN /\ n.take \in Nat \ {0}
              /\ \/ Within(t, p, i + n.take, n.mode)
                 \/ /\ n.mode = Code
                    /\ TokenEnd(t, p) = i + n.take - 1 /\ i + n.take - 1 <= Len(t)
                 \/ /\ TokenEnd(t, p) = i /\ i < Len(t)
                    /\ t[p] \in QuoteMark /\ t[i + 1] \in QuoteMark
                    /\ Within(t, i + 1, i + n.take, n.mode)
<1> DEFINE n == Lex(t, i, m)
<1>1. Len(t) \in Nat /\ p \in Int /\ i \in Int /\ p < i
  BY DEF Within
<1>2. n = CASE m.is = "code" -> InCode(t, i)
            [] m.is = "line" -> Step(IF t[i] = NL THEN Code ELSE Line, 1)
            [] m.is = "block" -> InBlock(t, i, m.depth)
            [] m.is = "quote" -> InQuote(t, i, m.mark)
            [] m.is = "heredoc" ->
                   IF HasPrefix(t, i, m.tag) THEN Step(Code, Len(m.tag)) ELSE Step(m, 1)
  BY DEF Lex
<1> HIDE DEF n
<1>3. CASE m = Line /\ LineWithin(t, p, i)
  <2>1. m.is = "line"
    BY <1>3 DEF Line
  <2>2. n = [mode |-> IF t[i] = NL THEN Code ELSE Line, take |-> 1]
    BY <1>2, <2>1 DEF Step
  <2>3. IF t[i] = NL THEN TokenEnd(t, p) = i ELSE LineWithin(t, p, i + 1)
    BY <1>3, LineStep
  <2>4. t[i] # NL => Within(t, p, i + n.take, n.mode)
    BY <1>1, <2>2, <2>3 DEF Within
  <2> QED
    BY <1>1, <2>2, <2>3, <2>4 DEF n
<1>4. ASSUME NEW k \in Nat \ {0}, m = Block(k), CommentWithin(t, p, i, k)
      PROVE  /\ n.take \in Nat \ {0}
             /\ \/ Within(t, p, i + n.take, n.mode)
                \/ /\ n.mode = Code
                   /\ TokenEnd(t, p) = i + n.take - 1 /\ i + n.take - 1 <= Len(t)
  <2>1. m.is = "block" /\ m.depth = k
    BY <1>4 DEF Block
  <2>2. n = InBlock(t, i, k)
    BY <1>2, <2>1
  <2>3. ~(HasPrefix(t, i, OpenComment) /\ HasPrefix(t, i, CloseComment))
    BY PairsAt
  <2>4. CASE HasPrefix(t, i, OpenComment)
    <3>1. n = [mode |-> Block(k + 1), take |-> 2]
      BY <2>2, <2>3, <2>4 DEF InBlock, Step
    <3>2. CommentWithin(t, p, i + 2, k + 1) /\ k + 1 \in Nat \ {0}
      BY <1>4, <2>4, CommentOpens
    <3>3. Within(t, p, i + n.take, n.mode)
      BY <1>1, <3>1, <3>2 DEF Within
    <3> QED
      BY <3>1, <3>3
  <2>5. CASE HasPrefix(t, i, CloseComment)
    <3>1. n = [mode |-> Block(k - 1), take |-> 2]
      BY <2>2, <2>3, <2>5 DEF InBlock, Step
    <3>2. IF k = 1 THEN TokenEnd(t, p) = i + 1 /\ i + 1 <= Len(t)
                   ELSE CommentWithin(t, p, i + 2, k - 1)
      BY <1>4, <2>5, CommentCloses
    <3>3. CASE k = 1
      <4>1. n.mode = Code
        BY <3>1, <3>3 DEF Block
      <4> QED
        BY <1>1, <3>1, <3>2, <3>3, <4>1
    <3>4. CASE k # 1
      <4>1. k - 1 \in Nat \ {0}
        BY <1>4, <3>4
      <4>2. Within(t, p, i + n.take, n.mode)
        BY <1>1, <3>1, <3>2, <3>4, <4>1 DEF Within
      <4> QED
        BY <3>1, <4>2
    <3> QED
      BY <3>3, <3>4
  <2>6. CASE ~HasPrefix(t, i, OpenComment) /\ ~HasPrefix(t, i, CloseComment)
    <3>1. n = [mode |-> Block(k), take |-> 1]
      BY <2>2, <2>6 DEF InBlock, Step
    <3>2. CommentWithin(t, p, i + 1, k)
      BY <1>4, <2>6, CommentGoesOn
    <3>3. Within(t, p, i + n.take, n.mode)
      BY <1>1, <1>4, <3>1, <3>2 DEF Within
    <3> QED
      BY <3>1, <3>3
  <2> QED
    BY <2>4, <2>5, <2>6
<1>5. ASSUME NEW d, m = Heredoc(d), HeredocWithin(t, p, i, d)
      PROVE  /\ n.take \in Nat \ {0}
             /\ \/ Within(t, p, i + n.take, n.mode)
                \/ /\ n.mode = Code
                   /\ TokenEnd(t, p) = i + n.take - 1 /\ i + n.take - 1 <= Len(t)
  <2>1. m.is = "heredoc" /\ m.tag = d
    BY <1>5 DEF Heredoc
  <2>2. n = IF HasPrefix(t, i, d) THEN [mode |-> Code, take |-> Len(d)]
                                  ELSE [mode |-> m, take |-> 1]
    BY <1>2, <2>1 DEF Step
  <2>3. /\ Len(d) \in Nat /\ Len(d) >= 2
        /\ IF HasPrefix(t, i, d)
           THEN TokenEnd(t, p) = i + Len(d) - 1 /\ i + Len(d) - 1 <= Len(t)
           ELSE HeredocWithin(t, p, i + 1, d)
    BY <1>5, HeredocStep
  <2>4. CASE HasPrefix(t, i, d)
    BY <2>2, <2>3, <2>4
  <2>5. CASE ~HasPrefix(t, i, d)
    <3>1. Within(t, p, i + n.take, n.mode)
      BY <1>1, <1>5, <2>2, <2>3, <2>5 DEF Within
    <3> QED
      BY <2>2, <2>5, <3>1
  <2> QED
    BY <2>4, <2>5
<1>6. ASSUME NEW c \in QuoteMark, m = Quote(c), QuoteWithin(t, p, i, c)
      PROVE  /\ n.take \in Nat \ {0}
             /\ \/ Within(t, p, i + n.take, n.mode)
                \/ /\ n.mode = Code
                   /\ TokenEnd(t, p) = i + n.take - 1 /\ i + n.take - 1 <= Len(t)
                \/ /\ TokenEnd(t, p) = i /\ i < Len(t)
                   /\ t[p] \in QuoteMark /\ t[i + 1] \in QuoteMark
                   /\ Within(t, i + 1, i + n.take, n.mode)
  <2>0. t[p] \in QuoteMark
    BY <1>6 DEF QuoteWithin
  <2>1. m.is = "quote" /\ m.mark = c
    BY <1>6 DEF Quote
  <2>2. n = InQuote(t, i, c)
    BY <1>2, <2>1
  <2>3. /\ t[i] = "\\" => t[i] # c /\ QuoteWithin(t, p, i + 2, c)
        /\ t[i] = c => TokenEnd(t, p) = i
        /\ (t[i] # "\\" /\ t[i] # c) => QuoteWithin(t, p, i + 1, c)
    BY <1>6, QuoteStep
  <2>4. CASE t[i] = "\\"
    <3>1. n = [mode |-> Quote(c), take |-> 2]
      BY <2>2, <2>3, <2>4 DEF InQuote, Step
    <3>2. Within(t, p, i + n.take, n.mode)
      BY <1>1, <1>6, <2>3, <2>4, <3>1 DEF Within
    <3> QED
      BY <3>1, <3>2
  <2>5. CASE t[i] = c
    <3>1. n = IF HasPrefix(t, i + 1, <<c>>) THEN [mode |-> Quote(c), take |-> 2]
                                            ELSE [mode |-> Code, take |-> 1]
      BY <2>2, <2>3, <2>5 DEF InQuote, Step
    <3>2. TokenEnd(t, p) = i
      BY <2>3, <2>5
    <3>3. CASE HasPrefix(t, i + 1, <<c>>)
      <4>1. i + 1 <= Len(t) /\ t[i + 1] = c
        <5> DEFINE u == <<c>>
        <5>1. Len(u) = 1 /\ DOMAIN u = {1} /\ u[1] = c
          OBVIOUS
        <5>2. (i + 1) + 1 - 1 = i + 1
          BY <1>1
        <5> HIDE DEF u
        <5>3. HasPrefix(t, i + 1, u) => i + 1 <= Len(t) /\ t[i + 1] = c
          BY <5>1, <5>2 DEF HasPrefix
        <5> QED
          BY <3>3, <5>3 DEF u
      <4>2. i + 1 \in 1..Len(t) /\ (i + 1) + 1 = i + 2
        BY <1>1, <4>1
      <4>3. QuoteWithin(t, i + 1, (i + 1) + 1, c)
        BY <1>6, <4>1, <4>2, TokenBegins
      <4>4. Within(t, i + 1, i + n.take, n.mode)
        BY <1>1, <1>6, <3>1, <3>3, <4>2, <4>3 DEF Within
      <4> QED
        BY <1>1, <1>6, <2>0, <3>1, <3>2, <3>3, <4>1, <4>4
    <3>4. CASE ~HasPrefix(t, i + 1, <<c>>)
      BY <1>1, <3>1, <3>2, <3>4
    <3> QED
      BY <3>3, <3>4
  <2>6. CASE t[i] # "\\" /\ t[i] # c
    <3>1. n = [mode |-> Quote(c), take |-> 1]
      BY <2>2, <2>6 DEF InQuote, Step
    <3>2. Within(t, p, i + n.take, n.mode)
      BY <1>1, <1>6, <2>3, <2>6, <3>1 DEF Within
    <3> QED
      BY <3>1, <3>2
  <2> QED
    BY <2>4, <2>5, <2>6
<1> QED
  BY <1>3, <1>4, <1>5, <1>6 DEF Within, n

-----------------------------------------------------------------------------
(* The loop *)

(* Code at i: a token begins there, and those before are over.             *)
Between(t, i) ==
    /\ i \in 1..(Len(t) + 1)
    /\ i = Len(t) + 1 \/ i \in Tokens(t)
    /\ \A q \in Tokens(t) : q < i => TokenEnd(t, q) < i

Placed(t, s) ==
    \/ s.mode = Code /\ Between(t, s.at)
    \/ \E p \in Tokens(t) : s.from <= p /\ Within(t, p, s.at, s.mode)

(* The last semicolon.                                                     *)
SinceCut(t, m, i) ==
    /\ m \in 1..i
    /\ m = 1 \/ (m - 1 \in Tokens(t) /\ t[m - 1] = Semicolon)
    /\ \A q \in Tokens(t) : (m <= q /\ q < i) => t[q] # Semicolon

Spoken(t, m, i) == \E w \in Words(t) : m <= w /\ w < i

(* The statements that end before x.                                       *)
Listed(t, x) ==
    [k \in 1..Cardinality(Below(StatementCuts(t), x)) |->
        LET c == Nth(StatementCuts(t), k)
        IN Trim(SubSeq(t, CutBefore(t, c) + 1, c - 1))]

IsState(s) ==
    /\ s = [at |-> s.at, mode |-> s.mode, list |-> s.list, from |-> s.from, code |-> s.code]
    /\ s.at \in Nat

Read(t, s) ==
    /\ IsState(s) /\ Placed(t, s) /\ SinceCut(t, s.from, s.at)
    /\ s.code <=> Spoken(t, s.from, s.at)
    /\ s.list = Listed(t, s.from)

(* After the end of a token there is code, and none began in between.      *)
LEMMA TokenOver ==
    ASSUME NEW V, NEW t \in Seq(V), NEW p \in Tokens(t), TokenEnd(t, p) <= Len(t)
    PROVE  /\ Between(t, TokenEnd(t, p) + 1)
           /\ \A q \in Tokens(t) : ~(p < q /\ q <= TokenEnd(t, p))
<1> DEFINE e == TokenEnd(t, p)
<1>1. Len(t) \in Nat /\ p \in 1..Len(t) /\ Tokens(t) \subseteq 1..Len(t)
  BY TokensFollow
<1>2. e \in p..(Len(t) + 1)
  BY <1>1, EndIsFirst
<1>3. \A q \in Tokens(t) : p < q => e < q
  BY TokensFollow
<1>4. \A q \in Tokens(t) : q < p => TokenEnd(t, q) < p /\ TokenEnd(t, q) \in Int
  BY <1>1, TokensFollow, EndIsFirst
<1>5. e < Len(t) => e + 1 \in Tokens(t)
  BY TokensFollow
<1> HIDE DEF e
<1>6. ASSUME NEW q \in Tokens(t), q < e + 1
      PROVE  TokenEnd(t, q) < e + 1
  <2>1. q \in Int /\ ~(p < q)
    BY <1>1, <1>2, <1>3, <1>6
  <2>2. CASE q = p
    BY <1>2, <2>2 DEF e
  <2>3. CASE q < p
    BY <1>1, <1>2, <1>4, <2>3
  <2> QED
    BY <1>1, <2>1, <2>2, <2>3
<1>7. e + 1 \in 1..(Len(t) + 1) /\ (e + 1 = Len(t) + 1 \/ e + 1 \in Tokens(t))
  BY <1>1, <1>2, <1>5 DEF e
<1>8. Between(t, e + 1)
  BY <1>6, <1>7 DEF Between
<1>9. \A q \in Tokens(t) : ~(p < q /\ q <= e)
  BY <1>1, <1>2, <1>3
<1> QED
  BY <1>8, <1>9 DEF e

(* A token of which the characters before i are read ends at i or after.   *)
LEMMA EndsAhead ==
    ASSUME NEW V, NEW t \in Seq(V), NEW p \in Tokens(t), NEW i \in Nat, NEW m,
           Within(t, p, i, m)
    PROVE  \A j \in Ends(t, p) : i <= j \/ (m = Line /\ Len(t) <= j)
<1>1. Len(t) \in Nat /\ p \in 1..Len(t) /\ Tokens(t) \subseteq 1..Len(t)
  BY TokensFollow
<1>2. ASSUME LineWithin(t, p, i), NEW j \in Ends(t, p)
      PROVE  i <= j \/ Len(t) <= j
  <2>1. j \in LineEnds(t, p)
    BY <1>1, <1>2, EndsOf DEF LineWithin
  <2> QED
    BY <1>1, <1>2, <2>1 DEF LineEnds, LineWithin
<1>3. ASSUME NEW n, CommentWithin(t, p, i, n), NEW j \in Ends(t, p)
      PROVE  i <= j
  BY <1>1, <1>3, EndsOf DEF CommentWithin
<1>4. ASSUME NEW d, HeredocWithin(t, p, i, d), NEW j \in Ends(t, p)
      PROVE  i <= j
  <2>1. d # <<>> /\ d = HeredocDelimiter(t, p)
    BY <1>4 DEF HeredocWithin
  <2>2. Len(d) \in Nat /\ Len(d) >= 2
    BY <1>1, <2>1, Delimiters
  <2>3. j \in HeredocEnds(t, p, d)
    BY <1>1, <1>4, <2>1, EndsOf
  <2>4. i + Len(d) - 1 <= j
    BY <1>4, <2>3 DEF HeredocWithin
  <2>5. j \in Int
    BY <1>1, <2>2, <2>3 DEF HeredocEnds
  <2> QED
    BY <2>2, <2>4, <2>5
<1>5. ASSUME NEW c, QuoteWithin(t, p, i, c), NEW j \in Ends(t, p)
      PROVE  i <= j
  BY <1>1, <1>5, EndsOf DEF QuoteWithin
<1> QED
  BY <1>2, <1>3, <1>4, <1>5 DEF Within

(* No token begins within another.                                         *)
LEMMA NoneWithin ==
    ASSUME NEW V, NEW t \in Seq(V), NEW p \in Tokens(t), NEW i \in Nat, NEW m,
           Within(t, p, i, m)
    PROVE  \A q \in Tokens(t) : ~(p < q /\ q < i)
<1>1. Len(t) \in Nat /\ p \in 1..Len(t) /\ Tokens(t) \subseteq 1..Len(t)
  BY TokensFollow
<1>2. \A j \in Ends(t, p) : i <= j \/ Len(t) <= j
  BY EndsAhead
<1>3. /\ TokenEnd(t, p) \in Ends(t, p) \cup {Len(t) + 1}
      /\ TokenEnd(t, p) \in Int
  BY <1>1, EndIsFirst
<1>4. TokenEnd(t, p) >= i \/ TokenEnd(t, p) >= Len(t)
  BY <1>1, <1>2, <1>3
<1>5. \A q \in Tokens(t) : p < q => TokenEnd(t, p) < q
  BY TokensFollow
<1> QED
  BY <1>1, <1>3, <1>4, <1>5

-----------------------------------------------------------------------------
(* Cutting *)

(* Tokens, cuts and statement cuts are places; there are finitely many.    *)
LEMMA CutsTyped ==
    ASSUME NEW V, NEW t \in Seq(V)
    PROVE  /\ Len(t) \in Nat /\ Tokens(t) \subseteq 1..Len(t)
           /\ \A q \in Tokens(t) : q \in Int /\ 1 <= q /\ q <= Len(t)
           /\ \A c \in Cuts(t) : c \in Int /\ 1 <= c /\ c <= Len(t) + 1
           /\ StatementCuts(t) \subseteq Cuts(t)
           /\ \A x : IsFiniteSet(Below(StatementCuts(t), x))
<1>1. /\ Len(t) \in Nat /\ Tokens(t) \subseteq 1..Len(t)
      /\ \A q \in Tokens(t) : q \in Int /\ 1 <= q /\ q <= Len(t)
  BY TokensFollow
<1>2. \A c \in Cuts(t) : c \in Int /\ 1 <= c /\ c <= Len(t) + 1
  <2> SUFFICES ASSUME NEW c \in Cuts(t)
               PROVE  c \in Int /\ 1 <= c /\ c <= Len(t) + 1
    OBVIOUS
  <2>1. c \in Tokens(t) \/ c = Len(t) + 1
    BY DEF Cuts
  <2> QED
    BY <1>1, <2>1
<1>3. StatementCuts(t) \subseteq Cuts(t)
  BY DEF StatementCuts
<1>4. IsFiniteSet(1..(Len(t) + 1))
  BY <1>1, FS_Interval
<1>5. ASSUME NEW x
      PROVE  IsFiniteSet(Below(StatementCuts(t), x))
  <2>1. Below(StatementCuts(t), x) \subseteq 1..(Len(t) + 1)
    BY <1>1, <1>2, <1>3 DEF Below
  <2> QED
    BY <1>4, <2>1, FS_Subset
<1> QED
  BY <1>1, <1>2, <1>3, <1>5

(* Counting what is below tells the elements of a set apart.               *)
LEMMA BelowGrows ==
    ASSUME NEW S \in SUBSET Nat, NEW a \in S, NEW d \in S, a < d
    PROVE  Below(S, a) \subseteq Below(S, d) /\ a \in Below(S, d) /\ a \notin Below(S, a)
<1>1. \A b \in S : b \in Int
  OBVIOUS
<1>2. \A b \in S : b < a => b < d
  BY <1>1
<1>3. ~(a < a)
  BY <1>1
<1> QED
  BY <1>2, <1>3 DEF Below

(* So an element is the one that as many as are below it precede.          *)
LEMMA NthIs ==
    ASSUME NEW S \in SUBSET Nat, NEW c \in S, \A x : IsFiniteSet(Below(S, x))
    PROVE  Nth(S, Cardinality(Below(S, c)) + 1) = c
<1>1. \A x : IsFiniteSet(Below(S, x)) /\ Cardinality(Below(S, x)) \in Nat
  BY FS_CardinalityType
<1>2. ASSUME NEW a \in S, NEW d \in S, a < d
      PROVE  Cardinality(Below(S, a)) # Cardinality(Below(S, d))
  <2>1. Below(S, a) \subseteq Below(S, d) /\ a \in Below(S, d) /\ a \notin Below(S, a)
    BY <1>2, BelowGrows
  <2>2. Cardinality(Below(S, a)) = Cardinality(Below(S, d)) => Below(S, a) = Below(S, d)
    BY <1>1, <2>1, FS_Subset
  <2> QED
    BY <2>1, <2>2
<1>3. \A a \in S : Cardinality(Below(S, a)) = Cardinality(Below(S, c)) => a = c
  <2> SUFFICES ASSUME NEW a \in S, a # c
               PROVE  Cardinality(Below(S, a)) # Cardinality(Below(S, c))
    OBVIOUS
  <2>1. a < c \/ c < a
    OBVIOUS
  <2> QED
    BY <1>2, <2>1
<1> DEFINE k == Cardinality(Below(S, c)) + 1
<1>4. k - 1 = Cardinality(Below(S, c))
  BY <1>1
<1> HIDE DEF k
<1>5. Nth(S, k) = c
  BY <1>3, <1>4 DEF Nth
<1> QED
  BY <1>5 DEF k

(* At a semicolon, and at the end of the text, what was read since the     *)
(* last one is the next statement if there was a word.                     *)
LEMMA CutHere ==
    ASSUME NEW V, NEW t \in Seq(V), NEW s, Read(t, s), s.at \in Cuts(t)
    PROVE  Pieces(t, s) = Listed(t, s.at + 1)
<1> DEFINE S == StatementCuts(t)
           c == s.at
           Piece(k) == Trim(SubSeq(t, CutBefore(t, Nth(S, k)) + 1, Nth(S, k) - 1))
<1> DEFINE m == s.from
<1>1. /\ Len(t) \in Nat
      /\ \A q \in Tokens(t) : q \in Int /\ 1 <= q /\ q <= Len(t)
      /\ \A b \in Cuts(t) : b \in Int /\ 1 <= b /\ b <= Len(t) + 1
      /\ S \subseteq Cuts(t) /\ \A x : IsFiniteSet(Below(S, x))
  BY CutsTyped
<1>2. /\ m \in Int /\ c \in Int /\ 1 <= m /\ m <= c /\ c <= Len(t) + 1 /\ c \in Cuts(t)
      /\ m = 1 \/ (m - 1 \in Tokens(t) /\ t[m - 1] = Semicolon)
      /\ \A q \in Tokens(t) : (m <= q /\ q < c) => t[q] # Semicolon
      /\ s.list = Listed(t, m)
  BY <1>1 DEF Read, SinceCut, IsState
<1>0. s.code <=> Spoken(t, m, c)
  BY DEF Read
<1> HIDE DEF c, m, S
<1>3. ASSUME NEW b \in Cuts(t), b < c
      PROVE  b <= m - 1
  <2>1. b \in Tokens(t) /\ t[b] = Semicolon
    BY <1>1, <1>2, <1>3 DEF Cuts
  <2> QED
    BY <1>1, <1>2, <1>3, <2>1
<1>4. CutBefore(t, c) = m - 1
  <2> DEFINE T == {0} \cup Below(Cuts(t), c)
  <2>1. m - 1 \in T
    <3>1. CASE m = 1
      BY <3>1
    <3>2. CASE m # 1
      <4>1. m - 1 \in Cuts(t) /\ m - 1 < c
        BY <1>2, <3>2 DEF Cuts
      <4> QED
        BY <4>1 DEF Below
    <3> QED
      BY <3>1, <3>2
  <2>2. \A b \in T : b \in Int /\ b <= m - 1
    <3> SUFFICES ASSUME NEW b \in T PROVE b \in Int /\ b <= m - 1
      OBVIOUS
    <3>1. b = 0 \/ (b \in Cuts(t) /\ b < c)
      BY DEF Below
    <3> QED
      BY <1>1, <1>2, <1>3, <3>1
  <2>3. CutBefore(t, c) = Max(T)
    BY DEF CutBefore
  <2>4. m - 1 \in Int
    BY <1>2
  <2> DEFINE a == m - 1
  <2> HIDE DEF T, a
  <2>5. \A b \in T : a >= b
    BY <2>2, <2>4 DEF a
  <2>6. a \in T /\ a \in Int
    BY <2>1, <2>4 DEF a
  <2>7. Max(T) \in T /\ \A b \in T : Max(T) >= b
    BY <2>5, <2>6 DEF Max
  <2>8. Max(T) \in Int /\ Max(T) >= a /\ a >= Max(T)
    BY <2>2, <2>5, <2>6, <2>7
  <2>9. Max(T) = a
    BY <2>6, <2>8
  <2> QED
    BY <2>3, <2>9 DEF a
<1>5. c \in S <=> Spoken(t, m, c)
  <2>1. c \in S <=> \E w \in Words(t) : CutBefore(t, c) < w /\ w < c
    BY <1>2 DEF StatementCuts, S
  <2>2. \A w \in Words(t) : w \in Int
    <3>1. Words(t) \subseteq Tokens(t)
      BY DEF Words
    <3> QED
      BY <1>1, <3>1
  <2>3. \A w \in Words(t) : m - 1 < w <=> m <= w
    BY <1>2, <2>2
  <2> QED
    BY <1>2, <1>4, <2>1, <2>3 DEF Spoken
<1>6. Below(S, m) = Below(S, c)
  <2>1. \A b \in S : b < m <=> b < c
    <3> SUFFICES ASSUME NEW b \in S PROVE b < m <=> b < c
      OBVIOUS
    <3>1. b \in Cuts(t) /\ b \in Int
      BY <1>1
    <3> QED
      BY <1>2, <1>3, <3>1
  <2> QED
    BY <2>1 DEF Below
<1>7. Listed(t, m) = [k \in 1..Cardinality(Below(S, c)) |-> Piece(k)]
  BY <1>6 DEF Listed, S
<1>8. Listed(t, c + 1) = [k \in 1..Cardinality(Below(S, c + 1)) |-> Piece(k)]
  BY DEF Listed, S
<1>9. Cardinality(Below(S, c)) \in Nat
  BY <1>1, FS_CardinalityType
<1>10. CASE Spoken(t, m, c)
  <2>1. c \in S /\ Below(S, c + 1) = Below(S, c) \cup {c} /\ c \notin Below(S, c)
    <3>1. c \in S
      BY <1>5, <1>10
    <3>2. \A b \in S : b < c + 1 <=> (b < c \/ b = c)
      BY <1>1, <1>2
    <3>3. ~(c < c)
      BY <1>2
    <3> QED
      BY <3>1, <3>2, <3>3 DEF Below
  <2>2. Cardinality(Below(S, c + 1)) = Cardinality(Below(S, c)) + 1
    BY <1>1, <2>1, FS_AddElement
  <2> DEFINE n == Cardinality(Below(S, c))
  <2>3. Nth(S, n + 1) = c
    <3>1. S \in SUBSET Nat
      BY <1>1
    <3> QED
      BY <1>1, <2>1, <3>1, NthIs
  <2>4. Piece(n + 1) = Trim(SubSeq(t, m, c - 1))
    <3>1. m - 1 + 1 = m
      BY <1>2
    <3>2. CutBefore(t, c) + 1 = m
      BY <1>4, <3>1
    <3> HIDE DEF n
    <3> QED
      BY <2>3, <3>2
  <2>5. Pieces(t, s) = Append([k \in 1..n |-> Piece(k)], Piece(n + 1))
    BY <1>0, <1>2, <1>7, <1>10, <2>4, Zenon DEF Pieces, c, m
  <2> HIDE DEF n, Piece
  <2>6. n \in Nat
    BY <1>9 DEF n
  <2>7. Append([k \in 1..n |-> Piece(k)], Piece(n + 1)) = [k \in 1..(n + 1) |-> Piece(k)]
    <3> DEFINE f == [k \in 1..n |-> Piece(k)]
               P == {Piece(k) : k \in 1..(n + 1)}
    <3>1. f \in [1..n -> P]
      BY <2>6
    <3>2. f \in Seq(P) /\ Len(f) = n
      <4> HIDE DEF f, P
      <4> QED
        BY <2>6, <3>1, SeqDef, LenProperties
    <3> QED
      BY <2>6, <3>2
  <2> QED
    BY <1>8, <2>2, <2>5, <2>7 DEF n, c
<1>11. CASE ~Spoken(t, m, c)
  <2>1. Below(S, c + 1) = Below(S, c)
    <3>1. c \notin S
      BY <1>5, <1>11
    <3>2. \A b \in S : b < c + 1 <=> b < c
      BY <1>1, <1>2, <3>1
    <3> QED
      BY <3>2 DEF Below
  <2>2. Pieces(t, s) = s.list
    BY <1>0, <1>11, Zenon DEF Pieces
  <2> QED
    BY <1>2, <1>7, <1>8, <2>1, <2>2 DEF c
<1> QED
  BY <1>2, <1>10, <1>11

-----------------------------------------------------------------------------
(* The rounds *)

(* A semicolon in code is a token of its own.                              *)
LEMMA SemicolonApart ==
    ASSUME NEW V, NEW t \in Seq(V), NEW p \in 1..Len(t), t[p] = Semicolon
    PROVE  InCode(t, p) = Step(Code, 1) /\ TokenEnd(t, p) = p
<1>1. Semicolon \notin {"-", "/", "#", "$", "'", "\""}
  BY Zenon DEF Semicolon
<1>2. p \in Int
  OBVIOUS
<1>3. LineDelimiter(t, p) \in {0, 1, 2} /\ ~(LineDelimiter(t, p) > 0)
  BY <1>1, LineDelimiters
<1>4. ~HasPrefix(t, p, OpenComment)
  BY <1>1, <1>2, Two DEF OpenComment
<1>5. HeredocDelimiter(t, p) = <<>>
  BY <1>1, Delimiters
<1>6. t[p] \notin QuoteMark
  BY <1>1 DEF QuoteMark
<1>7. TokenEnd(t, p) = p
  BY <1>3, <1>4, <1>5, <1>6, TokenBegins
<1>8. InCode(t, p) = Step(Code, 1)
  BY <1>3, <1>4, <1>5, <1>6 DEF InCode
<1> QED
  BY <1>7, <1>8

(* A mark that ends a quotation, or begins one, is a word.                 *)
LEMMA QuoteIsWord ==
    ASSUME NEW V, NEW t \in Seq(V), NEW p \in Tokens(t), t[p] \in QuoteMark
    PROVE  p \in Words(t) /\ t[p] # Semicolon
<1>1. t[p] \notin {" ", NL, Semicolon}
  <2>1. t[p] \in {"'", "\""}
    BY DEF QuoteMark
  <2>2. "'" \notin {" ", NL, Semicolon} /\ "\"" \notin {" ", NL, Semicolon}
    BY Zenon DEF NL, Semicolon
  <2> QED
    BY <2>1, <2>2
<1>2. p \in 1..Len(t)
  BY TokensFollow
<1>3. LineDelimiter(t, p) = 0 /\ ~HasPrefix(t, p, OpenComment)
  <2>1. LineDelimiter(t, p) \in {0, 1, 2}
    BY <1>2, LineDelimiters
  <2>2. ~(LineDelimiter(t, p) > 0) /\ ~HasPrefix(t, p, OpenComment)
    BY <1>2, Beginnings
  <2> QED
    BY <2>1, <2>2
<1>4. p \in Words(t)
  BY <1>1, <1>3, Zenon DEF Words
<1> QED
  BY <1>1, <1>4

(* The round takes everything up to j, and the tokens that begin there are *)
(* those of K.                                                             *)
LEMMA ReadOn ==
    ASSUME NEW V, NEW t \in Seq(V), NEW m, NEW i \in Nat, NEW j \in Nat, i < j,
           SinceCut(t, m, i), NEW K \in SUBSET Tokens(t),
           \A q \in Tokens(t) : (i <= q /\ q < j) => q \in K,
           \A q \in K : i <= q /\ q < j /\ t[q] # Semicolon
    PROVE  /\ SinceCut(t, m, j)
           /\ Spoken(t, m, j) <=> (Spoken(t, m, i) \/ \E w \in K : w \in Words(t))
<1>1. /\ m \in Int /\ 1 <= m /\ m <= i
      /\ m = 1 \/ (m - 1 \in Tokens(t) /\ t[m - 1] = Semicolon)
      /\ \A q \in Tokens(t) : (m <= q /\ q < i) => t[q] # Semicolon
  BY DEF SinceCut
<1>2. /\ \A q \in Tokens(t) : q \in Int
      /\ Words(t) \subseteq Tokens(t)
  BY CutsTyped DEF Words
<1>3. \A q \in Tokens(t) : (m <= q /\ q < j) => t[q] # Semicolon
  <2> SUFFICES ASSUME NEW q \in Tokens(t), m <= q, q < j
               PROVE  t[q] # Semicolon
    OBVIOUS
  <2>1. q < i \/ i <= q
    BY <1>2
  <2> QED
    BY <1>1, <2>1
<1>4. SinceCut(t, m, j)
  BY <1>1, <1>3 DEF SinceCut
<1>5. \A w \in Words(t) : (m <= w /\ w < j) <=> ((m <= w /\ w < i) \/ w \in K)
  <2> SUFFICES ASSUME NEW w \in Words(t)
               PROVE  (m <= w /\ w < j) <=> ((m <= w /\ w < i) \/ w \in K)
    OBVIOUS
  <2>1. w \in Tokens(t) /\ w \in Int
    BY <1>2
  <2>2. (i <= w /\ w < j) <=> w \in K
    BY <2>1
  <2> QED
    BY <1>1, <2>1, <2>2
<1>6. Spoken(t, m, j) <=> (Spoken(t, m, i) \/ \E w \in K : w \in Words(t))
  BY <1>5 DEF Spoken
<1> QED
  BY <1>4, <1>6

(* Inside a token the mode is not that of code.                            *)
LEMMA WithinIsNotCode ==
    ASSUME NEW t, NEW p, NEW i, NEW m, Within(t, p, i, m)
    PROVE  m # Code
<1>1. Code.is = "code" /\ Line.is = "line"
  BY DEF Code, Line
<1>2. \A n \in Nat \ {0} : Block(n).is = "block"
  BY DEF Block
<1>3. \A d : Heredoc(d).is = "heredoc"
  BY DEF Heredoc
<1>4. \A c : Quote(c).is = "quote"
  BY DEF Quote
<1>5. m = Line \/ (\E n \in Nat \ {0} : m = Block(n)) \/ (\E d : m = Heredoc(d))
                \/ (\E c : m = Quote(c))
  BY DEF Within
<1> QED
  BY <1>1, <1>2, <1>3, <1>4, <1>5

(* A round that is not a semicolon's: it is read on to where the round     *)
(* goes, and a statement is spoken of when a word began.                   *)
LEMMA ReadMoves ==
    ASSUME NEW V, NEW t \in Seq(V), NEW s, Read(t, s), s.at <= Len(t),
           ~(s.mode = Code /\ t[s.at] = Semicolon),
           NEW n, n = Lex(t, s.at, s.mode), n.take \in Nat \ {0},
           NEW K \in SUBSET Tokens(t),
           \A q \in Tokens(t) : (s.at <= q /\ q < s.at + n.take) => q \in K,
           \A q \in K : s.at <= q /\ q < s.at + n.take /\ t[q] # Semicolon,
           (Spoken(t, s.from, s.at) \/ MakesStatement(t, s.at, s.mode))
             <=> (Spoken(t, s.from, s.at) \/ \E w \in K : w \in Words(t)),
           \/ n.mode = Code /\ Between(t, s.at + n.take)
           \/ \E p \in Tokens(t) : s.from <= p /\ Within(t, p, s.at + n.take, n.mode)
    PROVE  Read(t, Round(t, s)) /\ Round(t, s).at = s.at + n.take
<1> DEFINE j == s.at + n.take
           made == MakesStatement(t, s.at, s.mode)
           r == Round(t, s)
<1>1. /\ IsState(s) /\ SinceCut(t, s.from, s.at) /\ s.at \in Nat /\ Len(t) \in Nat
      /\ s.code <=> Spoken(t, s.from, s.at)
      /\ s.list = Listed(t, s.from)
  BY DEF Read, IsState
<1>2. j \in Nat /\ s.at < j
  BY <1>1
<1>4. r = [at |-> j, mode |-> n.mode, list |-> s.list, from |-> s.from,
           code |-> (s.code \/ made)]
  <2>1. ~(s.at > Len(t))
    BY <1>1
  <2> QED
    BY <2>1, Zenon DEF Round
<1>5. SinceCut(t, s.from, j) /\ (Spoken(t, s.from, j) <=>
                                   (Spoken(t, s.from, s.at) \/ \E w \in K : w \in Words(t)))
  BY <1>1, <1>2, ReadOn
<1> DEFINE said == s.code \/ made
<1>6. said <=> Spoken(t, s.from, j)
  BY <1>1, <1>5, Zenon
<1> HIDE DEF r, j, made, said
<1>7. /\ r.at = j /\ r.mode = n.mode /\ r.list = s.list /\ r.from = s.from
      /\ r = [at |-> r.at, mode |-> r.mode, list |-> r.list, from |-> r.from, code |-> r.code]
  BY <1>4 DEF said
<1>8. r.code = said
  BY <1>4, Zenon DEF said
<1>9. IsState(r) /\ SinceCut(t, r.from, r.at) /\ r.list = Listed(t, r.from)
  BY <1>1, <1>2, <1>5, <1>7 DEF IsState
<1>10. Placed(t, r)
  BY <1>7 DEF Placed, j
<1>11. r.code <=> Spoken(t, r.from, r.at)
  BY <1>6, <1>7, <1>8, Zenon
<1>12. Read(t, r)
  BY <1>9, <1>10, <1>11, Zenon DEF Read
<1> QED
  BY <1>7, <1>12 DEF r, j

(* A round at a semicolon cuts off what came before it.                    *)
LEMMA RoundCuts ==
    ASSUME NEW V, NEW t \in Seq(V), NEW s, Read(t, s), s.at <= Len(t),
           s.mode = Code, t[s.at] = Semicolon
    PROVE  Read(t, Round(t, s)) /\ Round(t, s).at = s.at + 1
<1> DEFINE i == s.at
           r == Round(t, s)
<1>1. i \in Nat /\ Len(t) \in Nat /\ Placed(t, s)
  BY DEF Read, IsState
<1>2. Between(t, i)
  BY <1>1, WithinIsNotCode DEF Placed
<1>3. i \in Tokens(t) /\ i \in 1..Len(t)
  BY <1>1, <1>2 DEF Between
<1>4. TokenEnd(t, i) = i
  BY <1>3, SemicolonApart
<1>5. Between(t, i + 1)
  BY <1>3, <1>4, TokenOver
<1>6. Pieces(t, s) = Listed(t, i + 1)
  BY <1>3, CutHere DEF Cuts
<1>7. r = [at |-> i + 1, mode |-> Code, list |-> Pieces(t, s), from |-> i + 1, code |-> FALSE]
  <2>1. ~(s.at > Len(t))
    BY <1>1
  <2> QED
    BY <2>1, Zenon DEF Round
<1>8. \A q \in Tokens(t) : q \in Int /\ ~(i + 1 <= q /\ q < i + 1)
  BY <1>1, CutsTyped
<1> HIDE DEF r, i
<1>9. /\ r.at = i + 1 /\ r.mode = Code /\ r.list = Pieces(t, s) /\ r.from = i + 1
      /\ r = [at |-> r.at, mode |-> r.mode, list |-> r.list, from |-> r.from, code |-> r.code]
  BY <1>7
<1>10. ~r.code
  BY <1>7, Zenon
<1>11. SinceCut(t, i + 1, i + 1)
  <2>1. i + 1 \in 1..(i + 1) /\ (i + 1) - 1 = i
    BY <1>1
  <2> QED
    BY <1>3, <1>8, <2>1 DEF SinceCut, i
<1>12. ~Spoken(t, i + 1, i + 1)
  <2>1. Words(t) \subseteq Tokens(t)
    BY DEF Words
  <2> QED
    BY <1>8, <2>1 DEF Spoken
<1>13. IsState(r) /\ SinceCut(t, r.from, r.at) /\ r.list = Listed(t, r.from)
  BY <1>1, <1>6, <1>9, <1>11 DEF IsState
<1>14. Placed(t, r)
  BY <1>5, <1>9 DEF Placed
<1>15. r.code <=> Spoken(t, r.from, r.at)
  BY <1>9, <1>10, <1>12, Zenon
<1>16. Read(t, r)
  BY <1>13, <1>14, <1>15, Zenon DEF Read
<1> QED
  BY <1>9, <1>16 DEF r, i

(* Any other round in code reads on,                                       *)
LEMMA RoundInCode ==
    ASSUME NEW V, NEW t \in Seq(V), NEW s, Read(t, s), s.at <= Len(t),
           s.mode = Code, t[s.at] # Semicolon
    PROVE  Read(t, Round(t, s)) /\ Round(t, s).at >= s.at + 1
<1> DEFINE i == s.at
           m == s.from
           n == Lex(t, i, s.mode)
           j == i + n.take
           K == {i}
<1>1. i \in Nat /\ Len(t) \in Nat /\ Placed(t, s) /\ SinceCut(t, m, i)
  BY DEF Read, IsState
<1>2. Between(t, i)
  BY <1>1, WithinIsNotCode DEF Placed
<1>3. i \in Tokens(t) /\ i \in 1..Len(t)
  BY <1>1, <1>2 DEF Between
<1>4. n = InCode(t, i)
  BY DEF Lex, Code
<1>5. /\ n.take \in Nat \ {0}
      /\ \/ Within(t, i, j, n.mode)
         \/ n.mode = Code /\ n.take = 1 /\ TokenEnd(t, i) = i
      /\ InCode(t, i).mode.is \in {"code", "quote", "heredoc"} <=> Solid(t, i)
  BY <1>3, <1>4, InCodeStep
<1>6. MakesStatement(t, i, s.mode) <=> i \in Words(t)
  <2>1. MakesStatement(t, i, s.mode) <=> (Solid(t, i) /\ t[i] \notin {" ", NL})
    BY <1>5, Zenon DEF MakesStatement
  <2>2. t[i] \notin {" ", NL, Semicolon} <=> t[i] \notin {" ", NL}
    OBVIOUS
  <2>3. i \in Words(t) <=> (Solid(t, i) /\ t[i] \notin {" ", NL})
    BY <1>3, <2>2, Zenon DEF Words, Solid
  <2> QED
    BY <2>1, <2>3, Zenon
<1>7. \A q \in Tokens(t) : q \in Int
  BY CutsTyped
<1>8. m \in Int /\ m <= i
  BY <1>1 DEF SinceCut
<1> HIDE DEF n
<1>9. j \in Nat /\ i < j
  BY <1>1, <1>5
<1>10. /\ \A q \in Tokens(t) : ~(i < q /\ q < j)
       /\ \/ n.mode = Code /\ Between(t, j)
          \/ Within(t, i, j, n.mode)
  <2>1. CASE Within(t, i, j, n.mode)
    BY <1>3, <1>9, <2>1, NoneWithin
  <2>2. CASE n.mode = Code /\ n.take = 1 /\ TokenEnd(t, i) = i
    <3>1. j = i + 1
      BY <2>2
    <3>2. Between(t, i + 1)
      BY <1>3, <2>2, TokenOver
    <3> QED
      BY <1>1, <1>7, <2>2, <3>1, <3>2
  <2> QED
    BY <1>5, <2>1, <2>2
<1>11. \A q \in Tokens(t) : (i <= q /\ q < j) => q \in K
  BY <1>1, <1>7, <1>10
<1>12. \A q \in K : i <= q /\ q < j /\ t[q] # Semicolon
  BY <1>1, <1>9
<1>13. (Spoken(t, m, i) \/ MakesStatement(t, i, s.mode))
         <=> (Spoken(t, m, i) \/ \E w \in K : w \in Words(t))
  BY <1>6
<1>14. \/ n.mode = Code /\ Between(t, j)
       \/ \E p \in Tokens(t) : m <= p /\ Within(t, p, j, n.mode)
  BY <1>3, <1>8, <1>10
<1>15. K \in SUBSET Tokens(t)
  BY <1>3
<1>16. n = Lex(t, s.at, s.mode)
  BY DEF n
<1> HIDE DEF K
<1>17. Read(t, Round(t, s)) /\ Round(t, s).at = i + n.take
  BY <1>5, <1>11, <1>12, <1>13, <1>14, <1>15, <1>16, ReadMoves
<1> QED
  BY <1>1, <1>5, <1>17

(* and so does a round inside a token.                                     *)
LEMMA RoundInToken ==
    ASSUME NEW V, NEW t \in Seq(V), NEW s, Read(t, s), s.at <= Len(t),
           NEW p \in Tokens(t), s.from <= p, Within(t, p, s.at, s.mode)
    PROVE  Read(t, Round(t, s)) /\ Round(t, s).at >= s.at + 1
<1> DEFINE i == s.at
           m == s.from
           n == Lex(t, i, s.mode)
           j == i + n.take
<1>1. i \in Nat /\ Len(t) \in Nat /\ SinceCut(t, m, i)
  BY DEF Read, IsState
<1>2. /\ \A q \in Tokens(t) : q \in Int /\ q \in 1..Len(t)
      /\ p < i
  BY CutsTyped DEF Within
<1>3. i \in 1..Len(t) /\ p \in 1..Len(t)
  BY <1>1, <1>2
<1>4. m \in Int /\ m <= i
  BY <1>1 DEF SinceCut
<1>5. s.mode # Code
  BY WithinIsNotCode
<1>6. ~MakesStatement(t, i, s.mode) /\ ~(s.mode = Code /\ t[s.at] = Semicolon)
  BY <1>5 DEF MakesStatement
<1>7. /\ n.take \in Nat \ {0}
      /\ \/ Within(t, p, j, n.mode)
         \/ n.mode = Code /\ TokenEnd(t, p) = j - 1 /\ j - 1 <= Len(t)
         \/ /\ TokenEnd(t, p) = i /\ i < Len(t)
            /\ t[p] \in QuoteMark /\ t[i + 1] \in QuoteMark
            /\ Within(t, i + 1, j, n.mode)
  BY <1>3, LexStep
<1>8. n = Lex(t, s.at, s.mode)
  OBVIOUS
<1> HIDE DEF n
<1>9. j \in Nat /\ i < j
  BY <1>1, <1>7
<1>10. CASE \/ Within(t, p, j, n.mode)
            \/ n.mode = Code /\ TokenEnd(t, p) = j - 1 /\ j - 1 <= Len(t)
  <2>1. /\ \A q \in Tokens(t) : ~(p < q /\ q < j)
        /\ \/ n.mode = Code /\ Between(t, j)
           \/ Within(t, p, j, n.mode)
    <3>1. CASE Within(t, p, j, n.mode)
      BY <1>9, <3>1, NoneWithin
    <3>2. CASE n.mode = Code /\ TokenEnd(t, p) = j - 1 /\ j - 1 <= Len(t)
      <4>1. Between(t, (j - 1) + 1) /\ \A q \in Tokens(t) : ~(p < q /\ q <= j - 1)
        BY <3>2, TokenOver
      <4> QED
        BY <1>2, <1>9, <3>2, <4>1
    <3> QED
      BY <1>10, <3>1, <3>2
  <2> DEFINE K == {}
  <2>2. \A q \in Tokens(t) : (i <= q /\ q < j) => q \in K
    <3> SUFFICES ASSUME NEW q \in Tokens(t), i <= q, q < j
                 PROVE  FALSE
      OBVIOUS
    <3>1. p < q
      BY <1>1, <1>2
    <3> QED
      BY <2>1, <3>1
  <2>3. (Spoken(t, m, i) \/ MakesStatement(t, i, s.mode))
          <=> (Spoken(t, m, i) \/ \E w \in K : w \in Words(t))
    BY <1>6
  <2>4. K \in SUBSET Tokens(t) /\ \A q \in K : i <= q /\ q < j /\ t[q] # Semicolon
    OBVIOUS
  <2> HIDE DEF K
  <2>5. Read(t, Round(t, s)) /\ Round(t, s).at = i + n.take
    BY <1>6, <1>7, <1>8, <2>1, <2>2, <2>3, <2>4, ReadMoves
  <2> QED
    BY <1>1, <1>7, <2>5
<1>11. CASE /\ TokenEnd(t, p) = i /\ i < Len(t)
            /\ t[p] \in QuoteMark /\ t[i + 1] \in QuoteMark
            /\ Within(t, i + 1, j, n.mode)
  <2> DEFINE K == {i + 1}
  <2>1. i + 1 \in Tokens(t) /\ m <= i + 1
    BY <1>1, <1>4, <1>11, TokensFollow
  <2>2. i + 1 < j
    BY <1>11 DEF Within
  <2>3. \A q \in Tokens(t) : ~(p < q /\ q <= i) /\ ~(i + 1 < q /\ q < j)
    BY <1>1, <1>9, <1>11, <2>1, TokenOver, NoneWithin
  <2>4. \A q \in Tokens(t) : (i <= q /\ q < j) => q \in K
    BY <1>1, <1>2, <2>3
  <2>5. t[i + 1] # Semicolon /\ p \in Words(t)
    BY <1>11, <2>1, QuoteIsWord
  <2>6. Spoken(t, m, i)
    BY <1>2, <2>5 DEF Spoken
  <2>7. (Spoken(t, m, i) \/ MakesStatement(t, i, s.mode))
          <=> (Spoken(t, m, i) \/ \E w \in K : w \in Words(t))
    BY <2>6
  <2>8. K \in SUBSET Tokens(t) /\ \A q \in K : i <= q /\ q < j /\ t[q] # Semicolon
    BY <1>1, <2>1, <2>2, <2>5
  <2>9. \E q \in Tokens(t) : m <= q /\ Within(t, q, j, n.mode)
    BY <1>11, <2>1
  <2> HIDE DEF K
  <2>10. Read(t, Round(t, s)) /\ Round(t, s).at = i + n.take
    BY <1>6, <1>7, <1>8, <2>4, <2>7, <2>8, <2>9, ReadMoves
  <2> QED
    BY <1>1, <1>7, <2>10
<1> QED
  BY <1>7, <1>10, <1>11

(* So a round keeps what was read right, and takes a character at least.   *)
LEMMA RoundStep ==
    ASSUME NEW V, NEW t \in Seq(V), NEW s, Read(t, s), s.at <= Len(t)
    PROVE  Read(t, Round(t, s)) /\ Round(t, s).at >= s.at + 1
<1>1. s.at \in Int /\ Placed(t, s)
  BY DEF Read, IsState
<1>2. CASE s.mode = Code /\ t[s.at] = Semicolon
  BY <1>1, <1>2, RoundCuts
<1>3. CASE s.mode = Code /\ t[s.at] # Semicolon
  BY <1>3, RoundInCode
<1>4. CASE s.mode # Code
  <2>1. PICK p \in Tokens(t) : s.from <= p /\ Within(t, p, s.at, s.mode)
    BY <1>1, <1>4 DEF Placed
  <2> QED
    BY <2>1, RoundInToken
<1> QED
  BY <1>2, <1>3, <1>4

(* Before the first round nothing is read.                                 *)
LEMMA StartRead ==
    ASSUME NEW V, NEW t \in Seq(V)
    PROVE  Read(t, Start)
<1>1. /\ Len(t) \in Nat
      /\ \A q \in Tokens(t) : q \in Int /\ 1 <= q /\ q <= Len(t)
      /\ \A c \in StatementCuts(t) : c \in Int /\ 1 <= c
  BY CutsTyped
<1>2. /\ Start = [at |-> 1, mode |-> Code, list |-> <<>>, from |-> 1, code |-> FALSE]
      /\ Start.at = 1 /\ Start.mode = Code /\ Start.list = <<>> /\ Start.from = 1
  BY DEF Start
<1>3. IsState(Start)
  <2>1. Start = [at |-> Start.at, mode |-> Start.mode, list |-> Start.list,
                 from |-> Start.from, code |-> Start.code]
    BY <1>2
  <2> QED
    BY <1>2, <2>1 DEF IsState
<1>4. Between(t, 1)
  BY <1>1, TokensFollow DEF Between
<1>5. Placed(t, Start)
  BY <1>2, <1>4 DEF Placed
<1>6. SinceCut(t, 1, 1)
  BY <1>1 DEF SinceCut
<1>7. Start.code <=> Spoken(t, 1, 1)
  <2>1. ~Start.code
    BY Zenon DEF Start
  <2>2. \A w \in Words(t) : ~(1 <= w /\ w < 1)
    <3>1. Words(t) \subseteq Tokens(t)
      BY DEF Words
    <3> QED
      BY <1>1, <3>1
  <2>3. ~Spoken(t, 1, 1)
    BY <2>2 DEF Spoken
  <2> QED
    BY <2>1, <2>3, Zenon
<1>8. Listed(t, 1) = <<>>
  <2>1. Below(StatementCuts(t), 1) = {}
    BY <1>1 DEF Below
  <2>2. Cardinality(Below(StatementCuts(t), 1)) = 0
    BY <2>1, FS_EmptySet
  <2> DEFINE Piece(k) == LET c == Nth(StatementCuts(t), k)
                         IN Trim(SubSeq(t, CutBefore(t, c) + 1, c - 1))
  <2>3. Listed(t, 1) = [k \in 1..0 |-> Piece(k)]
    BY <2>2 DEF Listed
  <2> HIDE DEF Piece
  <2>4. [k \in 1..0 |-> Piece(k)] = <<>>
    OBVIOUS
  <2> QED
    BY <2>3, <2>4
<1>9. SinceCut(t, Start.from, Start.at) /\ Start.list = Listed(t, Start.from)
  BY <1>2, <1>6, <1>8
<1>10. Start.code <=> Spoken(t, Start.from, Start.at)
  BY <1>2, <1>7, Zenon
<1> QED
  BY <1>3, <1>5, <1>9, <1>10, Zenon DEF Read

(* The rounds are a function of their number.                              *)
LEMMA RoundFunction ==
    ASSUME NEW t, Len(t) \in Nat
    PROVE  \E f : /\ f = [n \in 0..Len(t) |-> IF n = 0 THEN Start ELSE Round(t, f[n - 1])]
                  /\ Scan(t) = f[Len(t)]
<1> DEFINE Is(f, N) == f = [n \in 0..N |-> IF n = 0 THEN Start ELSE Round(t, f[n - 1])]
           S == {N \in 0..Len(t) : \E f : Is(f, N)}
<1>1. 0 \in S
  <2>1. Is([n \in 0..0 |-> Start], 0)
    OBVIOUS
  <2>2. \E f : Is(f, 0)
    <3> HIDE DEF Is
    <3> QED
      BY <2>1
  <2>3. 0 \in 0..Len(t)
    OBVIOUS
  <2> HIDE DEF Is
  <2> QED
    BY <2>2, <2>3
<1>2. ASSUME NEW n \in 0..(Len(t) - 1), n \in S
      PROVE  n + 1 \in S
  <2>1. PICK f : Is(f, n)
    BY <1>2
  <2> DEFINE g == [k \in 0..(n + 1) |-> IF k = n + 1 THEN Round(t, f[n]) ELSE f[k]]
  <2>2. ASSUME NEW k \in 0..(n + 1)
        PROVE  g[k] = IF k = 0 THEN Start ELSE Round(t, g[k - 1])
    <3>1. CASE k = n + 1
      BY <3>1
    <3>2. CASE k \in 0..n
      <4>1. g[k] = f[k] /\ (k # 0 => k - 1 \in 0..n /\ g[k - 1] = f[k - 1])
        BY <3>2
      <4>2. f[k] = IF k = 0 THEN Start ELSE Round(t, f[k - 1])
        BY <2>1, <3>2
      <4> QED
        BY <4>1, <4>2
    <3> QED
      BY <3>1, <3>2
  <2>3. Is(g, n + 1)
    <3>1. g = [k \in 0..(n + 1) |-> g[k]]
      OBVIOUS
    <3> HIDE DEF g
    <3> QED
      BY <2>2, <3>1
  <2> HIDE DEF g, Is
  <2> QED
    BY <2>3
<1>3. Len(t) \in S
  <2> HIDE DEF S
  <2>1. 0..Len(t) \subseteq S
    BY <1>1, <1>2, UpTo
  <2> QED
    BY <2>1
<1>4. \E f : Is(f, Len(t))
  BY <1>3
<1> DEFINE F == CHOOSE f : Is(f, Len(t))
<1>5. Is(F, Len(t))
  <2> HIDE DEF Is
  <2> QED
    BY <1>4
<1>6. Scan(t) = F[Len(t)]
  BY DEF Scan
<1> HIDE DEF F
<1> QED
  BY <1>5, <1>6

(* The loop has read the whole text: a round takes a character at least.   *)
LEMMA ScanReads ==
    ASSUME NEW V, NEW t \in Seq(V)
    PROVE  Read(t, Scan(t)) /\ Scan(t).at >= Len(t) + 1
<1> DEFINE L == Len(t)
<1>1. L \in Nat
  OBVIOUS
<1>2. PICK f : /\ f = [n \in 0..L |-> IF n = 0 THEN Start ELSE Round(t, f[n - 1])]
               /\ Scan(t) = f[L]
  BY <1>1, RoundFunction
<1>3. f[0] = Start
  BY <1>1, <1>2
<1>4. \A n \in 0..(L - 1) : f[n + 1] = Round(t, f[n])
  <2> SUFFICES ASSUME NEW n \in 0..(L - 1)
               PROVE  f[n + 1] = Round(t, f[n])
    OBVIOUS
  <2>1. n + 1 \in 0..L /\ n + 1 # 0 /\ (n + 1) - 1 = n
    BY <1>1
  <2>2. \A k \in 0..L : f[k] = IF k = 0 THEN Start ELSE Round(t, f[k - 1])
    BY <1>2
  <2>3. f[n + 1] = Round(t, f[(n + 1) - 1])
    BY <2>1, <2>2
  <2> QED
    BY <2>1, <2>3
<1> HIDE DEF L
<1> DEFINE S == {n \in 0..L : Read(t, f[n]) /\ (f[n].at >= L + 1 \/ f[n].at >= n + 1)}
<1>5. 0 \in S
  <2>1. Start.at = 1
    BY DEF Start
  <2>2. Read(t, f[0]) /\ f[0].at = 1
    BY <1>3, <2>1, StartRead, Zenon
  <2> QED
    BY <1>1, <2>2
<1>6. ASSUME NEW n \in 0..(L - 1), n \in S
      PROVE  n + 1 \in S
  <2>1. /\ n + 1 \in 0..L /\ f[n + 1] = Round(t, f[n]) /\ Read(t, f[n])
        /\ f[n].at >= L + 1 \/ f[n].at >= n + 1
    BY <1>1, <1>4, <1>6
  <2>2. f[n].at \in Nat
    BY <2>1 DEF Read, IsState
  <2>3. CASE f[n].at > L
    <3>1. Round(t, f[n]) = f[n]
      BY <2>3, Zenon DEF Round, L
    <3> QED
      BY <1>1, <2>1, <2>2, <2>3, <3>1
  <2>4. CASE f[n].at <= L
    <3>1. Read(t, Round(t, f[n])) /\ Round(t, f[n]).at >= f[n].at + 1
      BY <2>1, <2>4, RoundStep DEF L
    <3>2. Round(t, f[n]).at \in Nat
      BY <3>1 DEF Read, IsState
    <3>3. Round(t, f[n]).at >= (n + 1) + 1
      BY <1>1, <2>1, <2>2, <2>4, <3>1, <3>2
    <3> QED
      BY <2>1, <3>1, <3>3
  <2> QED
    BY <1>1, <2>2, <2>3, <2>4
<1>7. 0..L \subseteq S
  <2> HIDE DEF S
  <2> QED
    BY <1>1, <1>5, <1>6, UpTo
<1>8. L \in S
  BY <1>1, <1>7
<1> QED
  BY <1>2, <1>8 DEF L

(* At the end the loop is in code or in a line comment just if every token *)
(* ended.                                                                  *)
LEMMA ReadToTheEnd ==
    ASSUME NEW V, NEW t \in Seq(V), NEW s, Read(t, s), s.at >= Len(t) + 1
    PROVE  /\ s.mode \in {Code, Line} <=> Terminated(t)
           /\ s.mode \in {Code, Line} => Pieces(t, s) = Statements(t)
<1> DEFINE i == s.at
<1>1. /\ i \in Nat /\ Len(t) \in Nat /\ i >= Len(t) + 1 /\ Placed(t, s)
      /\ \A q \in Tokens(t) : q \in Int /\ q \in 1..Len(t) /\ TokenEnd(t, q) \in Int
  BY CutsTyped, EndIsFirst DEF Read, IsState
<1>2. ASSUME i = Len(t) + 1
      PROVE  Pieces(t, s) = Statements(t)
  <2>1. i \in Cuts(t)
    BY <1>2 DEF Cuts
  <2>2. Pieces(t, s) = Listed(t, i + 1)
    BY <2>1, CutHere
  <2>3. \A c \in StatementCuts(t) : c < i + 1
    BY <1>1, <1>2, CutsTyped
  <2>4. Below(StatementCuts(t), i + 1) = StatementCuts(t)
    BY <2>3 DEF Below
  <2>5. Listed(t, i + 1) = Statements(t)
    BY <2>4 DEF Listed, Statements
  <2> QED
    BY <2>2, <2>5
<1>3. CASE s.mode = Code /\ Between(t, i)
  <2>1. i = Len(t) + 1
    BY <1>1, <1>3 DEF Between
  <2>2. \A q \in Tokens(t) : TokenEnd(t, q) < i
    BY <1>1, <1>3, <2>1 DEF Between
  <2>3. Terminated(t)
    BY <1>1, <2>1, <2>2 DEF Terminated
  <2> QED
    BY <1>2, <1>3, <2>1, <2>3
<1>4. ASSUME NEW p \in Tokens(t), Within(t, p, i, s.mode)
      PROVE  /\ s.mode \in {Code, Line} <=> Terminated(t)
             /\ s.mode \in {Code, Line} => Pieces(t, s) = Statements(t)
  <2>1. p < i /\ s.mode # Code
    BY <1>4, WithinIsNotCode DEF Within
  <2>2. CASE s.mode = Line
    <3>1. LineWithin(t, p, i)
      <4>1. Line.is = "line" /\ (\A n \in Nat \ {0} : Block(n).is = "block")
            /\ (\A d : Heredoc(d).is = "heredoc") /\ \A c : Quote(c).is = "quote"
        BY DEF Line, Block, Heredoc, Quote
      <4> QED
        BY <1>4, <2>2, <4>1 DEF Within
    <3>2. i = Len(t) + 1
      BY <1>1, <3>1 DEF LineWithin
    <3>3. TokenEnd(t, p) = Len(t)
      BY <1>1, <3>1, <3>2, LineAtEnd
    <3>4. \A q \in Tokens(t) : ~(p < q)
      BY <1>1, <1>4, <3>2, NoneWithin
    <3>5. \A q \in Tokens(t) : q < p => TokenEnd(t, q) < p
      BY TokensFollow
    <3>6. Terminated(t)
      <4> SUFFICES ASSUME NEW q \in Tokens(t)
                   PROVE  TokenEnd(t, q) <= Len(t)
        BY DEF Terminated
      <4>1. q = p \/ q < p
        BY <1>1, <3>4
      <4> QED
        BY <1>1, <3>3, <3>5, <4>1
    <3> QED
      BY <1>2, <2>2, <3>2, <3>6
  <2>3. CASE s.mode # Line
    <3>1. \A j \in Ends(t, p) : i <= j
      BY <1>1, <1>4, <2>3, EndsAhead
    <3>2. TokenEnd(t, p) \in Ends(t, p) \cup {Len(t) + 1}
      BY <1>1, EndIsFirst
    <3>3. TokenEnd(t, p) > Len(t)
      BY <1>1, <3>1, <3>2
    <3>4. ~Terminated(t)
      BY <1>1, <3>3 DEF Terminated
    <3> QED
      BY <2>1, <2>3, <3>4
  <2> QED
    BY <2>2, <2>3
<1> QED
  BY <1>1, <1>3, <1>4 DEF Placed

(* The lexer and the grammar agree on every text.                          *)
LEMMA SplitIsLexed ==
    ASSUME NEW V, NEW t \in Seq(V)
    PROVE  /\ SplitStatements(t).err <=> ~Terminated(t)
           /\ SplitStatements(t).list = IF Terminated(t) THEN Statements(t) ELSE <<>>
           /\ Terminated(t) => SplitStatements(t) = [err |-> FALSE, list |-> Statements(t)]
<1> DEFINE s == Scan(t)
<1>1. /\ s.mode \in {Code, Line} <=> Terminated(t)
      /\ s.mode \in {Code, Line} => Pieces(t, s) = Statements(t)
  BY ScanReads, ReadToTheEnd
<1>2. SplitStatements(t) = IF s.mode \in {Code, Line} THEN [err |-> FALSE, list |-> Pieces(t, s)]
                                                      ELSE [err |-> TRUE, list |-> <<>>]
  BY DEF SplitStatements
<1> HIDE DEF s
<1>3. CASE Terminated(t)
  <2>1. SplitStatements(t) = [err |-> FALSE, list |-> Statements(t)]
    BY <1>1, <1>2, <1>3
  <2>2. SplitStatements(t).err = FALSE
    BY <2>1
  <2>3. SplitStatements(t).list = Statements(t)
    BY <2>1
  <2> QED
    BY <1>3, <2>1, <2>2, <2>3, Zenon
<1>4. CASE ~Terminated(t)
  <2>1. SplitStatements(t) = [err |-> TRUE, list |-> <<>>]
    BY <1>1, <1>2, <1>4
  <2>2. SplitStatements(t).err = TRUE
    BY <2>1
  <2>3. SplitStatements(t).list = <<>>
    BY <2>1
  <2> QED
    BY <1>4, <2>2, <2>3, Zenon
<1> QED
  BY <1>3, <1>4

-----------------------------------------------------------------------------
(* leadingTriviaLength finds the first word, as SplitStatements does.      *)

(* The loop in a comment follows the grammar's comment, too: its two       *)
(* functions exist,                                                        *)
LEMMA NestFunction ==
    ASSUME NEW V, NEW t \in Seq(V), NEW i \in Nat \ {0}
    PROVE  \E f : /\ f[0] = [at |-> i, depth |-> 1]
                  /\ \A n \in 0..(Len(t) - 1) : f[n + 1] = Nest(t, f[n])
                  /\ \A n \in 0..Len(t) : f[n] \in [at : Nat \ {0}, depth : Nat]
                  /\ CommentEnd(t, i) = f[Len(t)].at
<1> DEFINE L == Len(t)
           x == [at |-> i, depth |-> 1]
           D == [at : Nat \ {0}, depth : Nat]
           G == [s \in D |-> Nest(t, s)]
           Is(f) == f = [n \in 0..L |-> IF n = 0 THEN x ELSE Nest(t, f[n - 1])]
<1>1. L \in Nat /\ x \in D
  OBVIOUS
<1>2. G \in [D -> D]
  <2> SUFFICES ASSUME NEW s \in D PROVE Nest(t, s) \in D
    OBVIOUS
  <2>1. s.at \in Nat \ {0} /\ s.depth \in Nat /\ (s.depth # 0 => s.depth - 1 \in Nat)
    OBVIOUS
  <2> QED
    BY <2>1 DEF Nest
<1>3. PICK f \in [0..L -> D] : Iterated(f, L, x, G)
  <2> HIDE DEF L, G, D, x
  <2> QED
    BY <1>1, <1>2, Iterates
<1>4. \A n \in 0..L : f[n] = IF n = 0 THEN x ELSE Nest(t, f[n - 1])
  <2> SUFFICES ASSUME NEW n \in 0..L, n # 0 PROVE f[n] = Nest(t, f[n - 1])
    BY <1>3 DEF Iterated
  <2>1. n - 1 \in 0..L
    BY <1>1
  <2> QED
    BY <1>3, <2>1 DEF Iterated
<1>5. Is(f)
  <2> HIDE DEF x
  <2> QED
    BY <1>4
<1> DEFINE F == CHOOSE g : Is(g)
<1>6. Is(F)
  <2> HIDE DEF Is
  <2> QED
    BY <1>5
<1>7. CommentEnd(t, i) = F[L].at
  BY DEF CommentEnd
<1> HIDE DEF F, x
<1>8. F[0] = x /\ \A n \in 0..(L - 1) : F[n + 1] = Nest(t, F[n])
  <2>1. \A n \in 0..L : F[n] = IF n = 0 THEN x ELSE Nest(t, F[n - 1])
    BY <1>6
  <2>2. F[0] = x
    BY <1>1, <2>1
  <2>3. ASSUME NEW n \in 0..(L - 1) PROVE F[n + 1] = Nest(t, F[n])
    <3>1. n + 1 \in 0..L /\ n + 1 # 0 /\ (n + 1) - 1 = n
      BY <1>1
    <3>2. F[n + 1] = Nest(t, F[(n + 1) - 1])
      BY <2>1, <3>1
    <3> QED
      BY <3>1, <3>2
  <2> QED
    BY <2>2, <2>3
<1>9. \A n \in 0..L : F[n] \in D
  <2> DEFINE S == {n \in 0..L : F[n] \in D}
  <2>1. 0 \in S /\ \A n \in 0..(L - 1) : n \in S => n + 1 \in S
    <3> HIDE DEF D
    <3>1. \A s \in D : Nest(t, s) \in D
      BY <1>2
    <3> QED
      BY <1>1, <1>8, <3>1
  <2>2. 0..L \subseteq S
    <3> HIDE DEF S
    <3> QED
      BY <1>1, <2>1, UpTo
  <2> QED
    BY <2>2
<1> QED
  BY <1>7, <1>8, <1>9 DEF x

(* AfterTrivia applies Skip from the first character on.                   *)
LEMMA SkipFunction ==
    ASSUME NEW V, NEW t \in Seq(V)
    PROVE  \E f : /\ f[0] = 1
                  /\ \A n \in 0..(Len(t) - 1) : f[n + 1] = Skip(t, f[n])
                  /\ AfterTrivia(t) = f[Len(t)]
<1> DEFINE L == Len(t)
           D == Nat \ {0}
           G == [i \in D |-> Skip(t, i)]
           Is(f) == f = [n \in 0..L |-> IF n = 0 THEN 1 ELSE Skip(t, f[n - 1])]
<1>1. L \in Nat /\ 1 \in D
  OBVIOUS
<1>2. G \in [D -> D]
  <2> SUFFICES ASSUME NEW i \in D PROVE Skip(t, i) \in D
    OBVIOUS
  <2>1. i + 1 \in D /\ i + 2 \in D
    OBVIOUS
  <2>2. CASE i > L
    BY <2>2 DEF Skip
  <2>3. CASE i <= L
    <3>1. i \in 1..L
      BY <1>1, <2>3
    <3>2. CommentEnd(t, i + 2) \in D
      <4>1. PICK f : /\ \A n \in 0..L : f[n] \in [at : Nat \ {0}, depth : Nat]
                     /\ CommentEnd(t, i + 2) = f[L].at
        BY <2>1, NestFunction
      <4> QED
        BY <1>1, <4>1
    <3>3. LineEnd(t, i + LineDelimiter(t, i)) \in D
      <4> DEFINE S == {j \in (i + LineDelimiter(t, i))..L : t[j] = NL} \cup {L + 1}
      <4>1. LineDelimiter(t, i) \in {0, 1, 2}
        BY <3>1, LineDelimiters
      <4>2. S \in SUBSET D /\ S \in SUBSET Nat /\ S # {}
        BY <1>1, <4>1
      <4>3. Min(S) \in S
        <5> HIDE DEF S
        <5> QED
          BY <4>2, MinLeast
      <4> QED
        BY <4>2, <4>3 DEF LineEnd
    <3> QED
      BY <1>1, <2>1, <2>3, <3>2, <3>3 DEF Skip
  <2> QED
    BY <1>1, <2>2, <2>3
<1>3. PICK f \in [0..L -> D] : Iterated(f, L, 1, G)
  <2> HIDE DEF L, G, D
  <2> QED
    BY <1>1, <1>2, Iterates
<1>4. \A n \in 0..L : f[n] = IF n = 0 THEN 1 ELSE Skip(t, f[n - 1])
  <2> SUFFICES ASSUME NEW n \in 0..L, n # 0 PROVE f[n] = Skip(t, f[n - 1])
    BY <1>3 DEF Iterated
  <2>1. n - 1 \in 0..L
    BY <1>1
  <2> QED
    BY <1>3, <2>1 DEF Iterated
<1>5. Is(f)
  BY <1>4
<1> DEFINE F == CHOOSE g : Is(g)
<1>6. Is(F)
  <2> HIDE DEF Is
  <2> QED
    BY <1>5
<1>7. AfterTrivia(t) = F[L]
  BY DEF AfterTrivia
<1> HIDE DEF F
<1>8. F[0] = 1 /\ \A n \in 0..(L - 1) : F[n + 1] = Skip(t, F[n])
  <2>1. \A n \in 0..L : F[n] = IF n = 0 THEN 1 ELSE Skip(t, F[n - 1])
    BY <1>6
  <2>2. F[0] = 1
    BY <1>1, <2>1
  <2>3. ASSUME NEW n \in 0..(L - 1) PROVE F[n + 1] = Skip(t, F[n])
    <3>1. n + 1 \in 0..L /\ n + 1 # 0 /\ (n + 1) - 1 = n
      BY <1>1
    <3>2. F[n + 1] = Skip(t, F[(n + 1) - 1])
      BY <2>1, <3>1
    <3> QED
      BY <3>1, <3>2
  <2> QED
    BY <2>2, <2>3
<1> QED
  BY <1>7, <1>8

(* and leave a comment right after its end.                                *)
LEMMA CommentSkipped ==
    ASSUME NEW V, NEW t \in Seq(V), NEW p \in 1..Len(t),
           HasPrefix(t, p, OpenComment), TokenEnd(t, p) <= Len(t)
    PROVE  CommentEnd(t, p + 2) = TokenEnd(t, p) + 1
<1> DEFINE L == Len(t)
           e == TokenEnd(t, p)
<1>1. L \in Nat /\ p \in Nat /\ e \in p..L
  BY EndIsFirst
<1>2. Ends(t, p) = CommentEnds(t, p) /\ e \in CommentEnds(t, p)
  BY <1>1, EndsOf, EndIsFirst
<1>3. PICK f : /\ f[0] = [at |-> p + 2, depth |-> 1]
               /\ \A n \in 0..(L - 1) : f[n + 1] = Nest(t, f[n])
               /\ \A n \in 0..L : f[n] \in [at : Nat \ {0}, depth : Nat]
               /\ CommentEnd(t, p + 2) = f[L].at
  <2>1. p + 2 \in Nat \ {0}
    BY <1>1
  <2> QED
    BY <2>1, NestFunction
<1> HIDE DEF L, e
<1> DEFINE In(s, n) == s.depth # 0 /\ CommentWithin(t, p, s.at, s.depth) /\ s.at >= n + 1
           Out(s) == s.depth = 0 /\ s.at = e + 1
           S == {n \in 0..L : In(f[n], n) \/ Out(f[n])}
<1>4. 0 \in S
  <2>1. CommentWithin(t, p, p + 2, 1)
    BY TokenBegins
  <2>2. f[0].at = p + 2 /\ f[0].depth = 1
    BY <1>3
  <2> QED
    BY <1>1, <2>1, <2>2
<1>5. ASSUME NEW n \in 0..(L - 1), n \in S
      PROVE  n + 1 \in S
  <2> DEFINE s == f[n]
             k == f[n + 1]
  <2>1. /\ n \in 0..L /\ n + 1 \in 0..L /\ k = Nest(t, s)
        /\ s.at \in Nat /\ s.depth \in Nat
    <3>1. n \in 0..L /\ n + 1 \in 0..L
      BY <1>1
    <3>2. k = Nest(t, s)
      BY <1>3
    <3>3. s \in [at : Nat \ {0}, depth : Nat]
      BY <1>3, <3>1
    <3> HIDE DEF s, k
    <3>4. s.at \in Nat /\ s.depth \in Nat
      BY <3>3
    <3> QED
      BY <3>1, <3>2, <3>4
  <2>2. In(s, n) \/ Out(s)
    BY <1>5
  <2> HIDE DEF s, k
  <2>3. CASE Out(s)
    <3>1. Nest(t, s) = s
      BY <2>3 DEF Nest
    <3> QED
      BY <2>1, <2>3, <3>1 DEF k
  <2>4. CASE In(s, n)
    <3>1. s.at \in 1..L /\ s.depth \in Nat \ {0}
      <4>1. p <= s.at /\ s.at <= e
        BY <1>2, <2>4 DEF CommentWithin
      <4> QED
        BY <1>1, <2>1, <2>4, <4>1
    <3>2. ~(s.depth = 0 \/ s.at > Len(t))
      BY <1>1, <3>1 DEF L
    <3>3. CASE HasPrefix(t, s.at, OpenComment)
      <4>1. k = [at |-> s.at + 2, depth |-> s.depth + 1]
        BY <2>1, <3>2, <3>3 DEF Nest
      <4>2. CommentWithin(t, p, s.at + 2, s.depth + 1)
        BY <2>4, <3>1, <3>3, CommentOpens DEF L
      <4>3. In(k, n + 1)
        BY <2>1, <2>4, <4>1, <4>2
      <4> QED
        BY <2>1, <4>3 DEF k
    <3>4. CASE ~HasPrefix(t, s.at, OpenComment) /\ HasPrefix(t, s.at, CloseComment)
      <4>1. k = [at |-> s.at + 2, depth |-> s.depth - 1]
        BY <2>1, <3>2, <3>4 DEF Nest
      <4>2. IF s.depth = 1 THEN e = s.at + 1
                           ELSE CommentWithin(t, p, s.at + 2, s.depth - 1)
        BY <2>4, <3>1, <3>4, CommentCloses DEF L, e
      <4>3. In(k, n + 1) \/ Out(k)
        BY <2>1, <2>4, <3>1, <4>1, <4>2
      <4> QED
        BY <2>1, <4>3 DEF k
    <3>5. CASE ~HasPrefix(t, s.at, OpenComment) /\ ~HasPrefix(t, s.at, CloseComment)
      <4>1. k = [at |-> s.at + 1, depth |-> s.depth]
        BY <2>1, <3>2, <3>5 DEF Nest
      <4>2. CommentWithin(t, p, s.at + 1, s.depth)
        BY <2>4, <3>1, <3>5, CommentGoesOn DEF L
      <4>3. In(k, n + 1)
        BY <2>1, <2>4, <4>1, <4>2
      <4> QED
        BY <2>1, <4>3 DEF k
    <3> QED
      BY <3>3, <3>4, <3>5
  <2> QED
    BY <2>2, <2>3, <2>4
<1>6. 0..L \subseteq S
  <2> HIDE DEF S
  <2> QED
    BY <1>1, <1>4, <1>5, UpTo
<1>7. In(f[L], L) \/ Out(f[L])
  BY <1>1, <1>6
<1>8. ~In(f[L], L)
  <2>1. CommentWithin(t, p, f[L].at, f[L].depth) => f[L].at <= e
    BY <1>2 DEF CommentWithin
  <2>2. f[L].at \in Nat
    BY <1>1, <1>3
  <2> QED
    BY <1>1, <2>1, <2>2
<1> QED
  BY <1>3, <1>7, <1>8 DEF e

(* A line comment is left at its line end, or at the end of the text.      *)
LEMMA LineSkipped ==
    ASSUME NEW V, NEW t \in Seq(V), NEW p \in 1..Len(t), LineDelimiter(t, p) > 0
    PROVE  LET i == LineEnd(t, p + LineDelimiter(t, p))
           IN \/ i = TokenEnd(t, p) + 1
              \/ i = TokenEnd(t, p) /\ t[i] = NL /\ p < i
<1> DEFINE d == LineDelimiter(t, p)
           A == {j \in (p + d)..Len(t) : t[j] = NL}
           i == LineEnd(t, p + d)
           e == TokenEnd(t, p)
<1>1. /\ Len(t) \in Nat /\ d \in {1, 2} /\ p + d - 1 <= Len(t)
      /\ \A k \in p..(p + d - 1) : t[k] # NL
  BY LineDelimiters
<1>2. i = Min(A \cup {Len(t) + 1})
  BY DEF LineEnd
<1>3. /\ e \in LineEnds(t, p) \cup {Len(t) + 1} /\ e \in Int
      /\ \A j \in LineEnds(t, p) : e <= j
  BY EndsOf, EndIsFirst
<1>4. Len(t) \in LineEnds(t, p)
  BY <1>1 DEF LineEnds
<1>5. e \in LineEnds(t, p)
  BY <1>1, <1>3, <1>4
<1>6. p <= e /\ e <= Len(t) /\ (t[e] = NL \/ e = Len(t))
  BY <1>1, <1>5 DEF LineEnds
<1>7. t[e] = NL => e \in A /\ p < e
  <2> HIDE DEF e, d
  <2>1. t[e] = NL => ~(e \in p..(p + d - 1))
    BY <1>1
  <2> QED
    BY <1>1, <1>3, <1>6, <2>1
<1>8. A \subseteq LineEnds(t, p) /\ A \in SUBSET Nat
  BY <1>1 DEF LineEnds
<1>9. i \in A \cup {Len(t) + 1} /\ \A j \in A : i <= j
  <2> DEFINE B == A \cup {Len(t) + 1}
  <2>1. B \in SUBSET Nat /\ B # {}
    BY <1>1, <1>8
  <2> HIDE DEF A, i
  <2>2. Min(B) \in B /\ \A j \in B : Min(B) <= j
    <3> HIDE DEF B
    <3> QED
      BY <2>1, MinLeast
  <2> QED
    BY <1>2, <2>2
<1> HIDE DEF A, i, e, d
<1>10. CASE t[e] = NL
  <2>1. e \in A /\ i <= e /\ i \in A \cup {Len(t) + 1}
    BY <1>7, <1>9, <1>10
  <2>2. i \in A => e <= i /\ i \in Int
    BY <1>3, <1>8
  <2>3. i = e
    BY <1>1, <1>3, <1>6, <2>1, <2>2
  <2> QED
    BY <1>7, <1>10, <2>3 DEF i, e, d
<1>11. CASE t[e] # NL
  <2>1. e = Len(t)
    BY <1>6, <1>11
  <2>2. A = {}
    <3> SUFFICES ASSUME NEW j \in A PROVE FALSE
      OBVIOUS
    <3>1. j \in LineEnds(t, p) /\ t[j] = NL
      BY <1>8 DEF A
    <3>2. j \in Int /\ j <= Len(t) /\ e <= j
      BY <1>1, <1>3, <3>1 DEF LineEnds
    <3>3. j = e
      BY <1>1, <2>1, <3>2
    <3> QED
      BY <1>11, <3>1, <3>3
  <2>3. i = e + 1
    BY <1>9, <2>1, <2>2
  <2> QED
    BY <2>3 DEF i, e, d
<1> QED
  BY <1>10, <1>11

(* A space, or a form feed, is a token of its own; none of the marks is    *)
(* one.                                                                    *)
LEMMA MarksApart ==
    /\ \A c \in Space \cup {Semicolon} : c \notin {"-", "/", "#", "$", "'", "\"", "*", "!"}
    /\ NL \in Space /\ " " \in Space /\ Space = {" ", NL, FF}
BY Zenon DEF Space, NL, FF, Semicolon

(* A space is a token of its own.                                          *)
LEMMA SpaceApart ==
    ASSUME NEW V, NEW t \in Seq(V), NEW p \in 1..Len(t), t[p] \in Space
    PROVE  TokenEnd(t, p) = p
<1>1. t[p] \notin {"-", "/", "#", "$", "'", "\"", "*", "!"}
  BY MarksApart
<1>2. p \in Int
  OBVIOUS
<1>3. LineDelimiter(t, p) \in {0, 1, 2} /\ ~(LineDelimiter(t, p) > 0)
  BY <1>1, LineDelimiters
<1>4. ~HasPrefix(t, p, OpenComment)
  BY <1>1, <1>2, Two DEF OpenComment
<1>5. HeredocDelimiter(t, p) = <<>>
  BY <1>1, Delimiters
<1>6. t[p] \notin QuoteMark
  BY <1>1 DEF QuoteMark
<1> QED
  BY <1>3, <1>4, <1>5, <1>6, TokenBegins

(* A step over trivia takes a token; a line comment may leave its line     *)
(* end, a space, for the next.  At a word there is no step.                *)
LEMMA SkipStep ==
    ASSUME NEW V, NEW t \in Seq(V), NEW p \in Tokens(t), TokenEnd(t, p) <= Len(t),
           t[p] # Semicolon
    PROVE  IF p \in Words(t) /\ t[p] # FF THEN Skip(t, p) = p
           ELSE \/ Skip(t, p) = TokenEnd(t, p) + 1
                \/ /\ Skip(t, p) = TokenEnd(t, p) /\ p < Skip(t, p)
                   /\ t[Skip(t, p)] = NL
<1>1. p \in 1..Len(t) /\ Len(t) \in Nat /\ ~(p > Len(t))
  BY TokensFollow
<1>2. LineDelimiter(t, p) \in {0, 1, 2}
  BY <1>1, LineDelimiters
<1>3. CASE p \in Words(t) /\ t[p] # FF
  <2>1. t[p] \notin Space /\ LineDelimiter(t, p) = 0 /\ ~HasPrefix(t, p, OpenComment)
    BY <1>3, MarksApart, Zenon DEF Words
  <2>2. ~(LineDelimiter(t, p) > 0)
    BY <2>1
  <2>3. Skip(t, p) = p
    BY <1>1, <2>1, <2>2, Zenon DEF Skip
  <2> QED
    BY <1>3, <2>3
<1>4. CASE ~(p \in Words(t) /\ t[p] # FF)
  <2>1. CASE t[p] \in Space
    <3>1. Skip(t, p) = p + 1
      BY <1>1, <2>1 DEF Skip
    <3> QED
      BY <1>1, <1>4, <2>1, <3>1, SpaceApart
  <2>2. CASE t[p] \notin Space /\ LineDelimiter(t, p) > 0
    <3>1. Skip(t, p) = LineEnd(t, p + LineDelimiter(t, p))
      BY <1>1, <2>2 DEF Skip
    <3> QED
      BY <1>1, <1>4, <2>2, <3>1, LineSkipped
  <2>3. CASE t[p] \notin Space /\ ~(LineDelimiter(t, p) > 0) /\ HasPrefix(t, p, OpenComment)
    <3>1. Skip(t, p) = CommentEnd(t, p + 2)
      BY <1>1, <2>3 DEF Skip
    <3> QED
      BY <1>1, <1>4, <2>3, <3>1, CommentSkipped
  <2>4. CASE t[p] \notin Space /\ ~(LineDelimiter(t, p) > 0) /\ ~HasPrefix(t, p, OpenComment)
    <3>1. LineDelimiter(t, p) = 0
      BY <1>2, <2>4
    <3>2. t[p] \notin {" ", NL, Semicolon} /\ t[p] # FF
      BY <2>4, MarksApart
    <3>3. p \in Words(t)
      BY <2>4, <3>1, <3>2, Zenon DEF Words
    <3> QED
      BY <1>4, <3>2, <3>3
  <2> QED
    BY <2>1, <2>2, <2>3, <2>4
<1> QED
  BY <1>3, <1>4

(* So the loop ends at the first word that is not a form feed.             *)
LEMMA TriviaSkipped ==
    ASSUME NEW V, NEW t \in Seq(V), Terminated(t),
           \A q \in Tokens(t) : t[q] # Semicolon,
           NEW w \in Words(t), t[w] # FF,
           \A j \in Words(t) : t[j] # FF => w <= j
    PROVE  AfterTrivia(t) = w
<1> DEFINE L == Len(t)
<1>1. /\ L \in Nat
      /\ \A q \in Tokens(t) : q \in Int /\ 1 <= q /\ q <= L
      /\ \A q \in Tokens(t) : TokenEnd(t, q) \in Int /\ TokenEnd(t, q) <= L
      /\ w \in Tokens(t)
  <2>1. L \in Nat /\ \A q \in Tokens(t) : q \in 1..L
    BY TokensFollow
  <2>2. \A q \in Tokens(t) : TokenEnd(t, q) \in Int
    BY <2>1, EndIsFirst
  <2>3. w \in Tokens(t)
    BY Zenon DEF Words
  <2>4. \A q \in Tokens(t) : TokenEnd(t, q) <= L
    BY DEF Terminated
  <2> QED
    BY <2>1, <2>2, <2>3, <2>4
<1>2. PICK f : /\ f[0] = 1
               /\ \A n \in 0..(L - 1) : f[n + 1] = Skip(t, f[n])
               /\ AfterTrivia(t) = f[L]
  BY SkipFunction
<1> DEFINE AtToken(i) == i \in Tokens(t) /\ i < w
           AtLineEnd(i) == \E q \in Tokens(t) : q < w /\ i = TokenEnd(t, q) /\ t[i] = NL
           Reached(i, n) == i = w \/ ((AtToken(i) \/ AtLineEnd(i)) /\ i >= n + 1)
           S == {n \in 0..L : Reached(f[n], n)}
<1> HIDE DEF L
<1>3. ASSUME NEW q \in Tokens(t), q < w
      PROVE  /\ TokenEnd(t, q) < w
             /\ TokenEnd(t, q) + 1 = w \/ AtToken(TokenEnd(t, q) + 1)
  <2>1. TokenEnd(t, q) < w
    BY <1>1, <1>3, TokensFollow
  <2>2. TokenEnd(t, q) < Len(t)
    BY <1>1, <2>1 DEF L
  <2>3. TokenEnd(t, q) + 1 \in Tokens(t)
    BY <2>2, TokensFollow
  <2> QED
    BY <1>1, <2>1, <2>3
<1>4. 0 \in S
  <2>1. 1 \in Tokens(t)
    <3>1. 1 <= Len(t)
      BY <1>1 DEF L
    <3> QED
      BY <3>1, TokensFollow
  <2> QED
    BY <1>1, <1>2, <2>1
<1>5. ASSUME NEW n \in 0..(L - 1), n \in S
      PROVE  n + 1 \in S
  <2> DEFINE i == f[n]
             k == f[n + 1]
  <2>1. /\ n + 1 \in 0..L /\ k = Skip(t, i) /\ Reached(i, n)
    BY <1>1, <1>2, <1>5
  <2> HIDE DEF i, k
  <2>2. CASE i = w
    <3>1. Skip(t, w) = w
      BY <1>1, SkipStep DEF L
    <3> QED
      BY <2>1, <2>2, <3>1 DEF k
  <2>3. CASE AtToken(i) /\ i >= n + 1
    <3>1. ~(i \in Words(t) /\ t[i] # FF)
      BY <1>1, <2>3
    <3>2. /\ i \in Int /\ i < w /\ TokenEnd(t, i) \in Int /\ TokenEnd(t, i) >= i
      BY <1>1, <2>3, EndIsFirst DEF L
    <3>3. \/ k = TokenEnd(t, i) + 1
          \/ k = TokenEnd(t, i) /\ i < k /\ t[k] = NL
      BY <1>1, <2>1, <2>3, <3>1, SkipStep DEF L
    <3>4. CASE k = TokenEnd(t, i) + 1
      <4>1. k = w \/ AtToken(k)
        BY <1>3, <2>3, <3>4
      <4>2. k >= n + 2
        BY <2>3, <3>2, <3>4
      <4> QED
        BY <2>1, <4>1, <4>2 DEF k
    <3>5. CASE k = TokenEnd(t, i) /\ i < k /\ t[k] = NL
      <4>1. AtLineEnd(k)
        BY <2>3, <3>5
      <4>2. k >= n + 2
        BY <2>3, <3>2, <3>5
      <4> QED
        BY <2>1, <4>1, <4>2 DEF k
    <3> QED
      BY <3>3, <3>4, <3>5
  <2>4. CASE AtLineEnd(i) /\ i >= n + 1
    <3>1. PICK q \in Tokens(t) : q < w /\ i = TokenEnd(t, q) /\ t[i] = NL
      BY <2>4
    <3>0. t[i] \in Space
      BY <3>1, MarksApart
    <3>2. i \in Int /\ ~(i > Len(t)) /\ t[i] \in Space
      BY <1>1, <3>0, <3>1 DEF L
    <3>3. k = i + 1
      BY <2>1, <3>2 DEF Skip
    <3>4. k = w \/ AtToken(k)
      BY <1>3, <3>1, <3>3
    <3>5. k >= n + 2
      BY <2>4, <3>2, <3>3
    <3> QED
      BY <2>1, <3>4, <3>5 DEF k
  <2> QED
    BY <2>1, <2>2, <2>3, <2>4
<1>6. 0..L \subseteq S
  <2> HIDE DEF S
  <2> QED
    BY <1>1, <1>4, <1>5, UpTo
<1>7. Reached(f[L], L)
  BY <1>1, <1>6
<1>8. ~(AtToken(f[L]) /\ f[L] >= L + 1)
  BY <1>1
<1>9. ~(AtLineEnd(f[L]) /\ f[L] >= L + 1)
  BY <1>1
<1> QED
  BY <1>2, <1>7, <1>8, <1>9

-----------------------------------------------------------------------------
(* A piece on its own is what it was in the text.                          *)

(* Max of a bounded set of naturals is its greatest element.               *)
LEMMA MaxGreatest ==
    ASSUME NEW S \in SUBSET Nat, S # {}, NEW B \in Nat, \A k \in S : k <= B
    PROVE  Max(S) \in S /\ \A k \in S : Max(S) >= k
<1> DEFINE T == {B - k : k \in S}
<1>1. T \in SUBSET Nat /\ T # {}
  <2>1. \A k \in S : B - k \in Nat
    OBVIOUS
  <2>2. PICK k \in S : TRUE
    OBVIOUS
  <2>3. B - k \in T
    OBVIOUS
  <2> QED
    BY <2>1, <2>3
<1>2. PICK m \in T : \A k \in T : m <= k
  <2> HIDE DEF T
  <2> QED
    BY <1>1, Least
<1>3. PICK a \in S : m = B - a
  BY <1>2
<1>4. \A k \in S : a >= k
  <2> SUFFICES ASSUME NEW k \in S PROVE a >= k
    OBVIOUS
  <2>1. B - k \in T
    OBVIOUS
  <2>2. B - a <= B - k
    BY <1>2, <1>3, <2>1
  <2>3. a \in Int /\ k \in Int
    OBVIOUS
  <2> QED
    BY <2>2, <2>3
<1> QED
  BY <1>4 DEF Max

(* What Trim leaves: nothing, or from the first to the last character that *)
(* is not a space.                                                         *)
LEMMA TrimLeaves ==
    ASSUME NEW V, NEW s \in Seq(V), Trim(s) # <<>>
    PROVE  \E lo, hi \in 1..Len(s) :
               /\ lo <= hi /\ s[lo] \notin Space /\ s[hi] \notin Space
               /\ \A k \in 1..Len(s) : (k < lo \/ hi < k) => s[k] \in Space
               /\ Trim(s) = SubSeq(s, lo, hi)
<1> DEFINE Ink == {i \in DOMAIN s : s[i] \notin Space}
<1>1. Len(s) \in Nat /\ DOMAIN s = 1..Len(s)
  OBVIOUS
<1>2. Trim(s) = IF Ink = {} THEN <<>> ELSE SubSeq(s, Min(Ink), Max(Ink))
  BY DEF Trim
<1>3. Ink \subseteq 1..Len(s) /\ Ink \in SUBSET Nat /\ Ink # {}
  BY <1>1, <1>2
<1>4. \A i \in Ink : i <= Len(s)
  BY <1>1, <1>3
<1>5. \A k \in 1..Len(s) : k \in Ink <=> s[k] \notin Space
  BY <1>1
<1> HIDE DEF Ink
<1>6. /\ Min(Ink) \in Ink /\ \A k \in Ink : Min(Ink) <= k
      /\ Max(Ink) \in Ink /\ \A k \in Ink : Max(Ink) >= k
  BY <1>1, <1>3, <1>4, MinLeast, MaxGreatest
<1> DEFINE lo == Min(Ink)
           hi == Max(Ink)
<1>7. lo \in 1..Len(s) /\ hi \in 1..Len(s) /\ lo <= hi /\ Trim(s) = SubSeq(s, lo, hi)
  BY <1>2, <1>3, <1>6
<1>8. s[lo] \notin Space /\ s[hi] \notin Space
  BY <1>5, <1>6, <1>7
<1>9. \A k \in 1..Len(s) : (k < lo \/ hi < k) => s[k] \in Space
  <2> SUFFICES ASSUME NEW k \in 1..Len(s), s[k] \notin Space
               PROVE  lo <= k /\ k <= hi
    BY <1>7
  <2>1. k \in Ink
    BY <1>5
  <2>2. lo <= k /\ hi >= k
    BY <1>6, <2>1
  <2> QED
    BY <1>7, <2>2
<1> HIDE DEF lo, hi
<1> QED
  BY <1>7, <1>8, <1>9

(* A text without spaces at its ends is trimmed already.                   *)
LEMMA TrimmedStays ==
    ASSUME NEW V, NEW u \in Seq(V), Len(u) >= 1, u[1] \notin Space, u[Len(u)] \notin Space
    PROVE  Trim(u) = u
<1> DEFINE Ink == {i \in DOMAIN u : u[i] \notin Space}
<1>1. Len(u) \in Nat /\ DOMAIN u = 1..Len(u)
  OBVIOUS
<1>2. Trim(u) = IF Ink = {} THEN <<>> ELSE SubSeq(u, Min(Ink), Max(Ink))
  BY DEF Trim
<1>3. /\ Ink \subseteq 1..Len(u) /\ Ink \in SUBSET Nat /\ 1 \in Ink /\ Len(u) \in Ink
      /\ \A i \in Ink : 1 <= i /\ i <= Len(u)
  BY <1>1
<1> HIDE DEF Ink
<1>4. /\ Min(Ink) \in Ink /\ Min(Ink) <= 1
      /\ Max(Ink) \in Ink /\ Max(Ink) >= Len(u)
  BY <1>1, <1>3, MinLeast, MaxGreatest
<1> DEFINE lo == Min(Ink)
           hi == Max(Ink)
<1>5. lo = 1 /\ hi = Len(u)
  <2>1. lo \in Ink /\ lo <= 1 /\ hi \in Ink /\ hi >= Len(u)
    BY <1>4
  <2> HIDE DEF lo, hi
  <2>2. lo \in 1..Len(u) /\ hi \in 1..Len(u)
    BY <1>3, <2>1
  <2> DEFINE n == Len(u)
  <2>3. n \in Nat /\ lo \in 1..n /\ hi \in 1..n /\ lo <= 1 /\ hi >= n
    BY <1>1, <2>1, <2>2
  <2> HIDE DEF n
  <2>4. lo = 1 /\ hi = n
    BY <2>3
  <2> QED
    BY <2>4 DEF n
<1>6. SubSeq(u, 1, Len(u)) = u
  OBVIOUS
<1> QED
  BY <1>2, <1>3, <1>5, <1>6

(* A text without a semicolon is one statement.                            *)
LEMMA AloneSplits ==
    ASSUME NEW V, NEW u \in Seq(V), Terminated(u), Trim(u) = u,
           \A q \in Tokens(u) : u[q] # Semicolon, NEW w \in Words(u)
    PROVE  SplitStatements(u) = [err |-> FALSE, list |-> <<u>>]
<1> DEFINE L == Len(u)
           c == L + 1
           S == StatementCuts(u)
<1>1. /\ L \in Nat /\ \A q \in Tokens(u) : q \in Int /\ 1 <= q /\ q <= L
      /\ w \in Tokens(u)
      /\ \A x : IsFiniteSet(Below(S, x))
  <2>1. w \in Tokens(u)
    BY Zenon DEF Words
  <2> QED
    BY <2>1, CutsTyped
<1>2. Cuts(u) = {c}
  BY DEF Cuts
<1>3. CutBefore(u, c) = 0
  <2>1. Below(Cuts(u), c) = {}
    BY <1>1, <1>2 DEF Below
  <2>2. Max({0}) = 0
    <3>1. {0} \in SUBSET Nat /\ {0} # {} /\ 0 \in Nat /\ \A k \in {0} : k <= 0
      OBVIOUS
    <3>2. Max({0}) \in {0}
      BY <3>1, MaxGreatest
    <3> QED
      BY <3>2
  <2>3. {0} \cup Below(Cuts(u), c) = {0}
    BY <2>1
  <2> QED
    BY <2>2, <2>3 DEF CutBefore
<1>4. S = {c}
  <2>1. CutBefore(u, c) < w /\ w < c
    BY <1>1, <1>3
  <2> QED
    BY <1>2, <2>1 DEF StatementCuts
<1>5. Cardinality(Below(S, c)) = 0 /\ Cardinality(S) = 1
  <2>1. Below(S, c) = {}
    BY <1>1, <1>4 DEF Below
  <2> QED
    BY <1>4, <2>1, FS_EmptySet, FS_Singleton
<1>6. Nth(S, 1) = c
  <2>1. S \in SUBSET Nat /\ c \in S
    BY <1>1, <1>4
  <2>2. Nth(S, Cardinality(Below(S, c)) + 1) = c
    <3> HIDE DEF S, c
    <3> QED
      BY <1>1, <2>1, NthIs
  <2> QED
    BY <1>5, <2>2
<1>7. SubSeq(u, CutBefore(u, c) + 1, c - 1) = u
  <2>1. CutBefore(u, c) + 1 = 1 /\ c - 1 = L
    BY <1>1, <1>3
  <2>2. SubSeq(u, 1, L) = u
    OBVIOUS
  <2> QED
    BY <2>1, <2>2
<1> DEFINE Piece(k) == Trim(SubSeq(u, CutBefore(u, Nth(S, k)) + 1, Nth(S, k) - 1))
<1>8. Statements(u) = [k \in 1..1 |-> Piece(k)]
  BY <1>5 DEF Statements
<1>9. Piece(1) = u
  BY <1>6, <1>7
<1> HIDE DEF Piece
<1>10. Statements(u) = <<u>>
  BY <1>8, <1>9
<1> QED
  BY <1>10, SplitIsLexed

(* The elements of a finite set are numbered without gaps.                 *)
LEMMA NthInSet ==
    ASSUME NEW S \in SUBSET Nat, IsFiniteSet(S), NEW k \in 1..Cardinality(S)
    PROVE  Nth(S, k) \in S /\ Cardinality(Below(S, Nth(S, k))) = k - 1
<1> DEFINE N == Cardinality(S) - 1
           P == {n \in Nat : \E c \in S : Cardinality(Below(S, c)) = n}
<1>1. Cardinality(S) \in Nat /\ N \in Nat /\ k - 1 \in 0..N
  BY FS_CardinalityType
<1>2. \A x : IsFiniteSet(Below(S, x))
  BY FS_Subset DEF Below
<1>3. 0 \in P
  <2>1. S # {}
    BY <1>1, FS_EmptySet
  <2>2. PICK c \in S : \A j \in S : c <= j
    BY <2>1, Least
  <2>3. Below(S, c) = {}
    <3> SUFFICES ASSUME NEW b \in Below(S, c) PROVE FALSE
      OBVIOUS
    <3>1. b \in S /\ b < c
      BY DEF Below
    <3>2. c <= b /\ b \in Int /\ c \in Int
      BY <2>2, <3>1
    <3> QED
      BY <3>1, <3>2
  <2>4. Cardinality(Below(S, c)) = 0
    BY <2>3, FS_EmptySet
  <2> QED
    BY <2>4
<1>4. \A n \in 0..(N - 1) : n \in P => n + 1 \in P
  <2> SUFFICES ASSUME NEW n \in 0..(N - 1), n \in P PROVE n + 1 \in P
    OBVIOUS
  <2>1. PICK c \in S : Cardinality(Below(S, c)) = n
    OBVIOUS
  <2> DEFINE B == Below(S, c)
             R == S \ (B \cup {c})
  <2>2. c \notin B /\ c \in Int
    BY DEF Below
  <2>3. Cardinality(B \cup {c}) = n + 1
    BY <1>2, <2>1, <2>2, FS_AddElement
  <2>4. B \cup {c} \subseteq S
    BY DEF Below
  <2>5. R # {}
    <3>1. SUFFICES ASSUME R = {} PROVE FALSE
      OBVIOUS
    <3>2. S = B \cup {c}
      BY <2>4, <3>1
    <3>3. Cardinality(S) = n + 1
      BY <2>3, <3>2
    <3> QED
      BY <1>1, <3>3
  <2>6. PICK d \in R : \A j \in R : d <= j
    BY <2>5, Least
  <2>7. d \in S /\ d \in Int /\ c < d
    BY <2>2 DEF Below
  <2>8. Below(S, d) = B \cup {c}
    <3>1. ASSUME NEW b \in S, b < d PROVE b \in B \cup {c}
      <4>1. b \in Int /\ ~(d <= b)
        BY <2>7, <3>1
      <4> QED
        BY <2>6, <3>1, <4>1
    <3>2. ASSUME NEW b \in B \cup {c} PROVE b \in S /\ b < d
      <4>1. b \in S /\ (b < c \/ b = c) /\ b \in Int
        BY <2>4 DEF Below
      <4> QED
        BY <2>2, <2>7, <4>1
    <3> QED
      BY <3>1, <3>2 DEF Below
  <2> QED
    BY <2>3, <2>7, <2>8
<1>5. 0..N \subseteq P
  <2> HIDE DEF P
  <2> QED
    BY <1>1, <1>3, <1>4, UpTo
<1>6. \E c \in S : Cardinality(Below(S, c)) = k - 1
  BY <1>1, <1>5
<1> QED
  BY <1>6 DEF Nth

(* u is in the text t after o characters; only spaces follow, up to the    *)
(* semicolon, or the end of the text, at c.                                *)
Piece(t, u, o, c) ==
    /\ Len(u) >= 1 /\ u[1] \notin Space /\ u[Len(u)] \notin Space
    /\ o \in Nat /\ c \in Nat /\ o + Len(u) < c /\ c <= Len(t) + 1
    /\ \A k \in 1..Len(u) : u[k] = t[o + k]
    /\ \A k \in (o + Len(u) + 1)..(c - 1) : t[k] \in Space
    /\ c <= Len(t) => t[c] = Semicolon
    /\ o + 1 \in Tokens(t)
    /\ \A q \in Tokens(t) : q < c => TokenEnd(t, q) < c
    /\ \A q \in Tokens(t) : (o < q /\ q < c) => t[q] # Semicolon

(* Spaces are tokens of one character.                                     *)
LEMMA AfterSpaces ==
    ASSUME NEW V, NEW t \in Seq(V), NEW a \in 1..Len(t), a \in Tokens(t),
           NEW b \in a..Len(t), \A k \in a..(b - 1) : t[k] \in Space
    PROVE  b \in Tokens(t)
<1> DEFINE N == b - a
           P == {n \in Nat : a + n \in Tokens(t)}
<1>1. N \in Nat /\ Len(t) \in Nat /\ 0 \in P
  OBVIOUS
<1>2. \A n \in 0..(N - 1) : n \in P => n + 1 \in P
  <2> SUFFICES ASSUME NEW n \in 0..(N - 1), n \in P PROVE n + 1 \in P
    OBVIOUS
  <2>1. a + n \in 1..Len(t) /\ a + n \in a..(b - 1) /\ a + n < Len(t) /\ a + n \in Tokens(t)
    OBVIOUS
  <2>2. TokenEnd(t, a + n) = a + n
    BY <2>1, SpaceApart
  <2>3. (a + n) + 1 \in Tokens(t)
    BY <2>1, <2>2, TokensFollow
  <2>4. (a + n) + 1 = a + (n + 1)
    OBVIOUS
  <2> QED
    BY <2>3, <2>4
<1>3. 0..N \subseteq P
  <2> HIDE DEF P
  <2> QED
    BY <1>1, <1>2, UpTo
<1>4. N \in P /\ a + N = b
  BY <1>1, <1>3
<1> QED
  BY <1>4

(* The statement that a semicolon, or the end of the text, cuts off is a   *)
(* piece.                                                                  *)
LEMMA PieceCut ==
    ASSUME NEW V, NEW t \in Seq(V), Terminated(t), NEW c \in StatementCuts(t), NEW u,
           u = Trim(SubSeq(t, CutBefore(t, c) + 1, c - 1)), u # <<>>
    PROVE  /\ u \in Seq(V) /\ Trim(u) = u
           /\ \E o \in Nat : Piece(t, u, o, c)
<1> DEFINE B == {0} \cup Below(Cuts(t), c)
           b == CutBefore(t, c)
           s == SubSeq(t, b + 1, c - 1)
<1>1. /\ Len(t) \in Nat /\ c \in Nat /\ 1 <= c /\ c <= Len(t) + 1
      /\ \A q \in Tokens(t) : q \in Nat /\ 1 <= q /\ q <= Len(t)
      /\ \A q \in Cuts(t) : q \in Nat /\ 1 <= q /\ q <= Len(t) + 1
      /\ c \in Cuts(t)
  BY CutsTyped
<1>2. B \in SUBSET Nat /\ B # {} /\ \A k \in B : k < c /\ k <= c
  <2>1. \A k \in Below(Cuts(t), c) : k \in Nat /\ k < c
    BY <1>1 DEF Below
  <2>2. 0 < c /\ \A k \in Nat : k < c => k <= c
    BY <1>1
  <2> QED
    BY <2>1, <2>2
<1>3. b \in B /\ \A k \in B : b >= k
  <2>1. Max(B) \in B /\ \A k \in B : Max(B) >= k
    <3> HIDE DEF B
    <3> QED
      BY <1>1, <1>2, MaxGreatest
  <2> QED
    BY <2>1 DEF CutBefore
<1>4. b \in Nat /\ b < c
  <2> HIDE DEF B, b
  <2> QED
    BY <1>2, <1>3
<1> HIDE DEF b
<1>5. s \in Seq(V) /\ Len(s) = c - 1 - b /\ \A k \in 1..Len(s) : s[k] = t[b + k]
  <2>1. \A k \in (b + 1)..(c - 1) : t[k] \in V
    BY <1>1, <1>4
  <2>2. /\ SubSeq(t, b + 1, c - 1) \in Seq(V)
        /\ Len(SubSeq(t, b + 1, c - 1)) = c - 1 - b
        /\ \A k \in 1..(c - 1 - b) : SubSeq(t, b + 1, c - 1)[k] = t[b + k]
    BY <1>1, <1>4
  <2> QED
    BY <2>2
<1>6. u = Trim(s) /\ Trim(s) # <<>>
  BY DEF b
<1> HIDE DEF s
<1>7. PICK lo \in 1..Len(s), hi \in 1..Len(s) :
        /\ lo <= hi /\ s[lo] \notin Space /\ s[hi] \notin Space
        /\ \A k \in 1..Len(s) : (k < lo \/ hi < k) => s[k] \in Space
        /\ Trim(s) = SubSeq(s, lo, hi)
  BY <1>5, <1>6, TrimLeaves
<1> DEFINE o == b + lo - 1
<1>8. o \in Nat /\ lo \in Nat /\ hi \in Nat /\ 1 <= lo /\ hi <= c - 1 - b
  BY <1>1, <1>4, <1>5
<1>9. /\ u \in Seq(V) /\ Len(u) = hi - lo + 1
      /\ \A k \in 1..Len(u) : u[k] = s[lo + k - 1]
  <2>1. \A k \in lo..hi : s[k] \in V
    BY <1>5, <1>7, <1>8
  <2>2. /\ SubSeq(s, lo, hi) \in Seq(V)
        /\ Len(SubSeq(s, lo, hi)) = hi - lo + 1
        /\ \A k \in 1..(hi - lo + 1) : SubSeq(s, lo, hi)[k] = s[lo + k - 1]
    BY <1>7, <1>8, <2>1
  <2>3. u = SubSeq(s, lo, hi)
    BY <1>6, <1>7
  <2> QED
    BY <2>2, <2>3
<1>10. \A k \in 1..Len(u) : u[k] = t[o + k]
  <2> SUFFICES ASSUME NEW k \in 1..Len(u) PROVE u[k] = t[o + k]
    OBVIOUS
  <2>1. lo + k - 1 \in 1..Len(s) /\ b + (lo + k - 1) = o + k
    BY <1>4, <1>5, <1>7, <1>8, <1>9
  <2> QED
    BY <1>5, <1>9, <2>1
<1>11. /\ Len(u) >= 1 /\ u[1] \notin Space /\ u[Len(u)] \notin Space
       /\ 1 \in 1..Len(u) /\ Len(u) \in 1..Len(u)
  <2>1. Len(u) >= 1 /\ 1 \in 1..Len(u) /\ Len(u) \in 1..Len(u)
    BY <1>7, <1>8, <1>9
  <2>2. lo + 1 - 1 = lo /\ lo + Len(u) - 1 = hi
    BY <1>8, <1>9
  <2> QED
    BY <1>7, <1>9, <2>1, <2>2
<1>12. \A k \in (o + Len(u) + 1)..(c - 1) : t[k] \in Space
  <2> SUFFICES ASSUME NEW k \in (o + Len(u) + 1)..(c - 1) PROVE t[k] \in Space
    OBVIOUS
  <2>1. k - b \in 1..Len(s) /\ hi < k - b /\ b + (k - b) = k
    BY <1>1, <1>4, <1>5, <1>8, <1>9
  <2> QED
    BY <1>5, <1>7, <2>1
<1>13. c <= Len(t) => c \in Tokens(t) /\ t[c] = Semicolon
  BY <1>1 DEF Cuts
<1>14. \A q \in Tokens(t) : q < c => TokenEnd(t, q) < c
  <2> SUFFICES ASSUME NEW q \in Tokens(t), q < c PROVE TokenEnd(t, q) < c
    OBVIOUS
  <2>1. TokenEnd(t, q) <= Len(t) /\ TokenEnd(t, q) \in Int
    <3>1. q \in 1..Len(t)
      BY <1>1
    <3> QED
      BY <1>1, <3>1, EndIsFirst DEF Terminated
  <2>2. CASE c <= Len(t)
    BY <1>13, <2>2, TokensFollow
  <2>3. CASE ~(c <= Len(t))
    BY <1>1, <2>1, <2>3
  <2> QED
    BY <2>2, <2>3
<1>15. \A q \in Tokens(t) : (b < q /\ q < c) => t[q] # Semicolon
  <2> SUFFICES ASSUME NEW q \in Tokens(t), b < q, q < c, t[q] = Semicolon PROVE FALSE
    OBVIOUS
  <2>1. q \in B
    BY DEF Below, Cuts
  <2>2. b >= q /\ q \in Nat
    BY <1>1, <1>3, <2>1
  <2> QED
    BY <1>4, <2>2
<1>16. b + 1 \in Tokens(t) /\ b + 1 \in 1..Len(t)
  <2>1. b + 1 \in 1..Len(t)
    BY <1>1, <1>4, <1>8, <1>7
  <2>2. CASE b = 0
    BY <2>1, <2>2, TokensFollow
  <2>3. CASE b # 0
    <3>1. b \in Cuts(t) /\ b < Len(t) + 1
      BY <1>1, <1>3, <1>4, <2>3 DEF Below
    <3>2. b \in Tokens(t) /\ t[b] = Semicolon /\ b \in 1..Len(t)
      BY <1>1, <3>1 DEF Cuts
    <3>3. TokenEnd(t, b) = b
      BY <3>2, SemicolonApart
    <3> QED
      BY <2>1, <3>2, <3>3, TokensFollow
  <2> QED
    BY <2>2, <2>3
<1>17. o + 1 \in Tokens(t)
  <2>1. o + 1 \in (b + 1)..Len(t)
    BY <1>1, <1>4, <1>7, <1>8
  <2>2. \A k \in (b + 1)..((o + 1) - 1) : t[k] \in Space
    <3> SUFFICES ASSUME NEW k \in (b + 1)..((o + 1) - 1) PROVE t[k] \in Space
      OBVIOUS
    <3>1. k - b \in 1..Len(s) /\ k - b < lo /\ b + (k - b) = k
      BY <1>1, <1>4, <1>5, <1>7, <1>8
    <3> QED
      BY <1>5, <1>7, <3>1
  <2> HIDE DEF o
  <2> QED
    BY <1>16, <2>1, <2>2, AfterSpaces
<1>18. o + Len(u) < c /\ b <= o
  BY <1>1, <1>4, <1>7, <1>8, <1>9
<1>19. Piece(t, u, o, c)
  <2>1. \A q \in Tokens(t) : (o < q /\ q < c) => t[q] # Semicolon
    BY <1>1, <1>4, <1>8, <1>15, <1>18
  <2> HIDE DEF o
  <2> QED
    BY <1>1, <1>8, <1>10, <1>11, <1>12, <1>13, <1>14, <1>17, <1>18, <2>1, Zenon DEF Piece
<1>20. Trim(u) = u
  BY <1>9, <1>11, TrimmedStays
<1> QED
  BY <1>8, <1>9, <1>19, <1>20

-----------------------------------------------------------------------------
(* Code reads the same in a piece as in the text it is from.               *)

(* Where a piece is: a space or a semicolon follows, or the end.           *)
LEMMA AfterPiece ==
    ASSUME NEW V, NEW t \in Seq(V), NEW u \in Seq(V), NEW o, NEW c, Piece(t, u, o, c)
    PROVE  /\ o \in Nat /\ c \in Nat /\ Len(u) \in Nat /\ Len(t) \in Nat
           /\ o + Len(u) < c /\ c <= Len(t) + 1 /\ o + Len(u) <= Len(t)
           /\ o + Len(u) + 1 <= Len(t) => t[o + Len(u) + 1] \in Space \cup {Semicolon}
<1>1. /\ o \in Nat /\ c \in Nat /\ Len(u) \in Nat /\ Len(t) \in Nat
      /\ o + Len(u) < c /\ c <= Len(t) + 1 /\ o + Len(u) <= Len(t)
  BY DEF Piece
<1>2. ASSUME o + Len(u) + 1 <= Len(t)
      PROVE  t[o + Len(u) + 1] \in Space \cup {Semicolon}
  <2>1. CASE o + Len(u) + 1 = c
    <3>1. t[c] = Semicolon
      BY <1>2, <2>1 DEF Piece
    <3> QED
      BY <2>1, <3>1
  <2>2. CASE o + Len(u) + 1 # c
    <3>1. o + Len(u) + 1 \in (o + Len(u) + 1)..(c - 1)
      BY <1>1, <2>2
    <3>2. t[o + Len(u) + 1] \in Space
      BY <3>1 DEF Piece
    <3> QED
      BY <3>2
  <2> QED
    BY <2>1, <2>2
<1> QED
  BY <1>1, <1>2

(* A mark without spaces and semicolons is whole in the piece.             *)
LEMMA PrefixSame ==
    ASSUME NEW V, NEW t \in Seq(V), NEW u \in Seq(V), NEW o, NEW c, Piece(t, u, o, c),
           NEW j \in 1..Len(u), NEW d, Len(d) \in Nat, DOMAIN d = 1..Len(d),
           \A k \in 1..Len(d) : d[k] \notin Space \cup {Semicolon}
    PROVE  HasPrefix(u, j, d) <=> HasPrefix(t, o + j, d)
<1>1. /\ o \in Nat /\ c \in Nat /\ Len(u) \in Nat /\ Len(t) \in Nat
      /\ o + Len(u) < c /\ c <= Len(t) + 1 /\ o + Len(u) <= Len(t)
      /\ o + Len(u) + 1 <= Len(t) => t[o + Len(u) + 1] \in Space \cup {Semicolon}
  BY AfterPiece
<1>2. \A k \in 1..Len(u) : u[k] = t[o + k]
  BY DEF Piece
<1>3. ASSUME j + Len(d) - 1 <= Len(u)
      PROVE  \A k \in 1..Len(d) : u[j + k - 1] = t[(o + j) + k - 1]
  <2> SUFFICES ASSUME NEW k \in 1..Len(d) PROVE u[j + k - 1] = t[(o + j) + k - 1]
    OBVIOUS
  <2>1. j + k - 1 \in 1..Len(u) /\ o + (j + k - 1) = (o + j) + k - 1
    BY <1>1, <1>3
  <2> QED
    BY <1>2, <2>1
<1>4. ASSUME HasPrefix(t, o + j, d) PROVE j + Len(d) - 1 <= Len(u)
  <2> SUFFICES ASSUME ~(j + Len(d) - 1 <= Len(u)) PROVE FALSE
    OBVIOUS
  <2> DEFINE k == Len(u) + 2 - j
  <2>1. /\ k \in 1..Len(d) /\ (o + j) + k - 1 = o + Len(u) + 1
        /\ (o + j) + Len(d) - 1 <= Len(t)
    BY <1>1, <1>4 DEF HasPrefix
  <2>2. t[(o + j) + k - 1] = d[k]
    BY <1>4, <2>1 DEF HasPrefix
  <2>3. o + Len(u) + 1 <= Len(t)
    BY <1>1, <2>1
  <2> QED
    BY <1>1, <2>1, <2>2, <2>3
<1>5. CASE j + Len(d) - 1 <= Len(u)
  <2>1. (o + j) + Len(d) - 1 <= Len(t)
    BY <1>1, <1>5
  <2> QED
    BY <1>3, <1>5, <2>1 DEF HasPrefix
<1>6. CASE ~(j + Len(d) - 1 <= Len(u))
  BY <1>4, <1>6 DEF HasPrefix
<1> QED
  BY <1>5, <1>6

(* The marks of comments and quotations are such marks.                    *)
LEMMA MarksSame ==
    ASSUME NEW V, NEW t \in Seq(V), NEW u \in Seq(V), NEW o, NEW c, Piece(t, u, o, c),
           NEW j \in 1..Len(u)
    PROVE  /\ HasPrefix(u, j, OpenComment) <=> HasPrefix(t, o + j, OpenComment)
           /\ HasPrefix(u, j, CloseComment) <=> HasPrefix(t, o + j, CloseComment)
           /\ \A d \in {<<"-", "-">>, <<"/", "/">>, <<"#", "!">>} :
                  HasPrefix(u, j, d) <=> HasPrefix(t, o + j, d)
           /\ \A q \in QuoteMark : HasPrefix(u, j + 1, <<q>>) <=> HasPrefix(t, o + j + 1, <<q>>)
<1>1. /\ o \in Nat /\ c \in Nat /\ Len(u) \in Nat /\ Len(t) \in Nat
      /\ o + Len(u) < c /\ c <= Len(t) + 1 /\ o + Len(u) <= Len(t)
      /\ o + Len(u) + 1 <= Len(t) => t[o + Len(u) + 1] \in Space \cup {Semicolon}
  BY AfterPiece
<1>2. ASSUME NEW a, NEW b, a \notin Space \cup {Semicolon}, b \notin Space \cup {Semicolon}
      PROVE  HasPrefix(u, j, <<a, b>>) <=> HasPrefix(t, o + j, <<a, b>>)
  <2> DEFINE d == <<a, b>>
  <2>1. Len(d) = 2 /\ DOMAIN d = 1..2 /\ d[1] = a /\ d[2] = b
    OBVIOUS
  <2>2. Len(d) \in Nat /\ DOMAIN d = 1..Len(d)
        /\ \A k \in 1..Len(d) : d[k] \notin Space \cup {Semicolon}
    BY <1>2, <2>1
  <2> HIDE DEF d
  <2>3. HasPrefix(u, j, d) <=> HasPrefix(t, o + j, d)
    BY <2>2, PrefixSame
  <2> QED
    BY <2>3 DEF d
<1>3. \A b \in {"-", "/", "#", "$", "'", "\"", "*", "!"} : b \notin Space \cup {Semicolon}
  BY MarksApart
<1>4. /\ HasPrefix(u, j, OpenComment) <=> HasPrefix(t, o + j, OpenComment)
      /\ HasPrefix(u, j, CloseComment) <=> HasPrefix(t, o + j, CloseComment)
      /\ \A d \in {<<"-", "-">>, <<"/", "/">>, <<"#", "!">>} :
             HasPrefix(u, j, d) <=> HasPrefix(t, o + j, d)
  BY <1>2, <1>3 DEF OpenComment, CloseComment
<1>5. ASSUME NEW q \in QuoteMark
      PROVE  HasPrefix(u, j + 1, <<q>>) <=> HasPrefix(t, o + j + 1, <<q>>)
  <2> DEFINE d == <<q>>
  <2>1. Len(d) = 1 /\ DOMAIN d = 1..1 /\ d[1] = q
    OBVIOUS
  <2>2. q \notin Space \cup {Semicolon}
    BY <1>3 DEF QuoteMark
  <2>3. Len(d) \in Nat /\ DOMAIN d = 1..Len(d)
        /\ \A k \in 1..Len(d) : d[k] \notin Space \cup {Semicolon}
    BY <2>1, <2>2
  <2> HIDE DEF d
  <2>4. o + (j + 1) = o + j + 1 /\ j \in Int
    BY <1>1
  <2>5. CASE j < Len(u)
    <3>1. j + 1 \in 1..Len(u)
      BY <1>1, <2>5
    <3>2. HasPrefix(u, j + 1, d) <=> HasPrefix(t, o + (j + 1), d)
      BY <2>3, <3>1, PrefixSame
    <3> QED
      BY <2>4, <3>2 DEF d
  <2>6. CASE j = Len(u)
    <3>1. ~HasPrefix(u, j + 1, d)
      BY <1>1, <2>1, <2>6 DEF HasPrefix
    <3>2. ~HasPrefix(t, o + j + 1, d)
      <4>1. SUFFICES ASSUME HasPrefix(t, o + j + 1, d) PROVE FALSE
        OBVIOUS
      <4>2. o + Len(u) + 1 <= Len(t) /\ t[o + Len(u) + 1] = q
        <5>1. 1 \in DOMAIN d /\ (o + j + 1) + 1 - 1 = o + Len(u) + 1
              /\ (o + j + 1) + Len(d) - 1 = o + Len(u) + 1
          BY <1>1, <2>1, <2>6
        <5> QED
          BY <2>1, <4>1, <5>1 DEF HasPrefix
      <4> QED
        BY <1>1, <2>2, <4>2
    <3> QED
      BY <3>1, <3>2 DEF d
  <2>7. j < Len(u) \/ j = Len(u)
    BY <1>1
  <2> QED
    BY <2>5, <2>6, <2>7
<1> QED
  BY <1>4, <1>5

(* A line comment may begin with the space that Trim took off, after "#".  *)
LEMMA LineSame ==
    ASSUME NEW V, NEW t \in Seq(V), NEW u \in Seq(V), NEW o, NEW c, Piece(t, u, o, c),
           NEW j \in 1..Len(u)
    PROVE  \/ LineDelimiter(u, j) = LineDelimiter(t, o + j)
           \/ j = Len(u) /\ u[j] = "#" /\ LineDelimiter(u, j) = 0
<1>1. /\ o \in Nat /\ c \in Nat /\ Len(u) \in Nat /\ Len(t) \in Nat
      /\ o + Len(u) < c /\ c <= Len(t) + 1 /\ o + Len(u) <= Len(t)
  BY AfterPiece
<1>2. \A d \in {<<"-", "-">>, <<"/", "/">>, <<"#", "!">>} :
          HasPrefix(u, j, d) <=> HasPrefix(t, o + j, d)
  BY MarksSame
<1> DEFINE P == HasPrefix(u, j, <<"#", " ">>)
           Q == HasPrefix(t, o + j, <<"#", " ">>)
<1>3. /\ P <=> (j + 1 <= Len(u) /\ u[j] = "#" /\ u[j + 1] = " ")
      /\ Q <=> (o + j + 1 <= Len(t) /\ t[o + j] = "#" /\ t[o + j + 1] = " ")
  <2>1. j \in Int /\ o + j \in Int
    BY <1>1
  <2> QED
    BY <2>1, Two
<1>4. u[j] = t[o + j]
  BY DEF Piece
<1>5. CASE \E d \in {<<"-", "-">>, <<"/", "/">>, <<"#", "!">>} : HasPrefix(u, j, d)
  <2>1. LineDelimiter(u, j) = 2 /\ LineDelimiter(t, o + j) = 2
    BY <1>2, <1>5 DEF LineDelimiter
  <2> QED
    BY <2>1
<1>6. CASE ~\E d \in {<<"-", "-">>, <<"/", "/">>, <<"#", "!">>} : HasPrefix(u, j, d)
  <2>1. /\ LineDelimiter(u, j) = IF P THEN 1 ELSE 0
        /\ LineDelimiter(t, o + j) = IF Q THEN 1 ELSE 0
    BY <1>2, <1>6 DEF LineDelimiter
  <2> HIDE DEF P, Q
  <2>2. CASE j < Len(u)
    <3>1. j + 1 \in 1..Len(u) /\ o + (j + 1) = o + j + 1 /\ o + j + 1 <= Len(t)
          /\ j + 1 <= Len(u)
      BY <1>1, <2>2
    <3>2. u[j + 1] = t[o + j + 1]
      BY <3>1 DEF Piece
    <3>3. P <=> Q
      BY <1>3, <1>4, <3>1, <3>2, Zenon
    <3> QED
      BY <2>1, <3>3
  <2>3. CASE j = Len(u)
    <3>1. ~(j + 1 <= Len(u))
      BY <1>1, <2>3
    <3>2. ~P /\ (Q => u[j] = "#")
      BY <1>3, <1>4, <3>1, Zenon
    <3> QED
      BY <2>1, <2>3, <3>2
  <2>4. j < Len(u) \/ j = Len(u)
    BY <1>1
  <2> QED
    BY <2>2, <2>3, <2>4
<1> QED
  BY <1>5, <1>6

(* What a heredoc begins and ends with.                                    *)
LEMMA TagMarks ==
    ASSUME NEW V, NEW t \in Seq(V), NEW i \in 1..Len(t), NEW d,
           d = HeredocDelimiter(t, i), d # <<>>
    PROVE  /\ Len(d) \in Nat /\ Len(d) >= 2 /\ DOMAIN d = 1..Len(d)
           /\ d[Len(d)] = "$"
           /\ \A k \in 1..Len(d) : d[k] \notin Space \cup {Semicolon}
<1> DEFINE closing == {j \in (i + 1)..Len(t) :
                         t[j] = "$" /\ \A k \in (i + 1)..(j - 1) : t[k] \in Letter}
           m == Min(closing)
<1>1. Len(t) \in Nat /\ i \in Nat
  OBVIOUS
<1>2. t[i] = "$" /\ closing # {} /\ d = SubSeq(t, i, m)
  BY DEF HeredocDelimiter
<1>3. closing \in SUBSET Nat
  BY <1>1
<1>4. m \in closing
  <2> HIDE DEF closing
  <2> QED
    BY <1>2, <1>3, MinLeast
<1>5. m \in (i + 1)..Len(t) /\ t[m] = "$" /\ \A k \in (i + 1)..(m - 1) : t[k] \in Letter
  BY <1>4
<1> HIDE DEF m, closing
<1>6. Len(d) = m - i + 1 /\ DOMAIN d = 1..Len(d) /\ \A k \in 1..Len(d) : d[k] = t[i + k - 1]
  BY <1>1, <1>2, <1>5
<1>7. Letter = {"s", "i", "d", "g"}
  BY DEF Letter, Verb
<1>8. \A x \in Letter \cup {"$"} : x \notin Space \cup {Semicolon}
  BY <1>7, Zenon DEF Space, NL, FF, Semicolon
<1>9. Len(d) \in Nat /\ Len(d) >= 2 /\ Len(d) \in 1..Len(d) /\ i + Len(d) - 1 = m
  BY <1>1, <1>5, <1>6
<1>10. \A k \in 1..Len(d) : d[k] \in Letter \cup {"$"}
  <2> SUFFICES ASSUME NEW k \in 1..Len(d) PROVE t[i + k - 1] \in Letter \cup {"$"}
    BY <1>6
  <2>1. i + k - 1 = i \/ i + k - 1 = m \/ i + k - 1 \in (i + 1)..(m - 1)
    BY <1>1, <1>5, <1>6
  <2> QED
    BY <1>2, <1>5, <2>1
<1>11. d[Len(d)] = "$"
  BY <1>5, <1>6, <1>9
<1> QED
  BY <1>6, <1>8, <1>9, <1>10, <1>11

(* A heredoc begins in the piece as it does in the text.                   *)
LEMMA HeredocSame ==
    ASSUME NEW V, NEW t \in Seq(V), NEW u \in Seq(V), NEW o, NEW c, Piece(t, u, o, c),
           NEW j \in 1..Len(u)
    PROVE  HeredocDelimiter(u, j) = HeredocDelimiter(t, o + j)
<1> DEFINE A == {m \in (j + 1)..Len(u) :
                   u[m] = "$" /\ \A k \in (j + 1)..(m - 1) : u[k] \in Letter}
           B == {m \in (o + j + 1)..Len(t) :
                   t[m] = "$" /\ \A k \in (o + j + 1)..(m - 1) : t[k] \in Letter}
<1>1. /\ o \in Nat /\ c \in Nat /\ Len(u) \in Nat /\ Len(t) \in Nat
      /\ o + Len(u) < c /\ c <= Len(t) + 1 /\ o + Len(u) <= Len(t)
      /\ o + Len(u) + 1 <= Len(t) => t[o + Len(u) + 1] \in Space \cup {Semicolon}
      /\ j \in Nat /\ 1 <= j /\ j <= Len(u)
  BY AfterPiece
<1>2. \A k \in 1..Len(u) : u[k] = t[o + k]
  BY DEF Piece
<1>3. /\ HeredocDelimiter(u, j) =
           IF u[j] = "$" /\ A # {} THEN SubSeq(u, j, Min(A)) ELSE <<>>
      /\ HeredocDelimiter(t, o + j) =
           IF t[o + j] = "$" /\ B # {} THEN SubSeq(t, o + j, Min(B)) ELSE <<>>
  BY DEF HeredocDelimiter
<1>4. ASSUME NEW m \in A PROVE o + m \in B
  <2>1. m \in (j + 1)..Len(u) /\ u[m] = "$" /\ \A k \in (j + 1)..(m - 1) : u[k] \in Letter
    OBVIOUS
  <2>2. o + m \in (o + j + 1)..Len(t) /\ m \in 1..Len(u)
    BY <1>1, <2>1
  <2>3. ASSUME NEW k \in (o + j + 1)..((o + m) - 1) PROVE t[k] \in Letter
    <3>1. k - o \in (j + 1)..(m - 1) /\ k - o \in 1..Len(u) /\ o + (k - o) = k
      BY <1>1, <2>1
    <3> QED
      BY <1>2, <2>1, <3>1
  <2>4. t[o + m] = "$"
    BY <1>2, <2>1, <2>2
  <2> QED
    BY <2>2, <2>3, <2>4
<1>5. ASSUME NEW m \in B PROVE m - o \in A
  <2>1. m \in (o + j + 1)..Len(t) /\ t[m] = "$"
        /\ \A k \in (o + j + 1)..(m - 1) : t[k] \in Letter
    OBVIOUS
  <2>2. m <= o + Len(u)
    <3>1. SUFFICES ASSUME ~(m <= o + Len(u)) PROVE FALSE
      OBVIOUS
    <3> DEFINE e == o + Len(u) + 1
    <3>2. e <= Len(t) /\ (e = m \/ e \in (o + j + 1)..(m - 1))
      BY <1>1, <2>1, <3>1
    <3>3. t[e] \in Space \cup {Semicolon}
      BY <1>1, <3>2
    <3> HIDE DEF e
    <3>4. t[e] \in Letter \cup {"$"}
      BY <2>1, <3>2
    <3>5. Letter = {"s", "i", "d", "g"}
      BY DEF Letter, Verb
    <3> QED
      BY <3>3, <3>4, <3>5, Zenon DEF Space, NL, FF, Semicolon
  <2>3. m - o \in (j + 1)..Len(u) /\ m - o \in 1..Len(u) /\ o + (m - o) = m
    BY <1>1, <2>1, <2>2
  <2>4. ASSUME NEW k \in (j + 1)..((m - o) - 1) PROVE u[k] \in Letter
    <3>1. o + k \in (o + j + 1)..(m - 1) /\ k \in 1..Len(u)
      BY <1>1, <2>1, <2>2
    <3> QED
      BY <1>2, <2>1, <3>1
  <2>5. u[m - o] = "$"
    BY <1>2, <2>1, <2>3
  <2> QED
    BY <2>3, <2>4, <2>5
<1>6. /\ A \in SUBSET Nat /\ B \in SUBSET Nat
      /\ A \subseteq (j + 1)..Len(u) /\ B \subseteq (o + j + 1)..Len(t)
  BY <1>1
<1>7. u[j] = t[o + j]
  BY <1>2
<1> HIDE DEF A, B
<1>8. CASE A = {}
  <2>1. B = {}
    BY <1>5, <1>8
  <2> QED
    BY <1>3, <1>8, <2>1
<1>9. CASE A # {}
  <2>1. B # {}
    BY <1>4, <1>9
  <2> DEFINE a == Min(A)
             b == Min(B)
  <2>2. a \in A /\ (\A k \in A : a <= k) /\ b \in B /\ (\A k \in B : b <= k)
    BY <1>6, <1>9, <2>1, MinLeast
  <2> HIDE DEF a, b
  <2>3. b <= o + a /\ a <= b - o /\ a \in (j + 1)..Len(u) /\ b \in (o + j + 1)..Len(t)
    BY <1>4, <1>5, <1>6, <2>2
  <2>4. b = o + a
    BY <1>1, <2>3
  <2>5. SubSeq(u, j, a) = SubSeq(t, o + j, b)
    <3> DEFINE x == SubSeq(u, j, a)
               y == SubSeq(t, o + j, b)
    <3>1. /\ x \in Seq(V) /\ Len(x) = a - j + 1
          /\ \A k \in 1..Len(x) : x[k] = u[j + k - 1]
      <4>1. \A k \in j..a : u[k] \in V
        BY <1>1, <2>3
      <4>2. j \in Int /\ a \in Int /\ a - j + 1 \in Nat
        BY <1>1, <2>3
      <4> QED
        BY <4>1, <4>2
    <3>2. /\ y \in Seq(V) /\ Len(y) = b - (o + j) + 1
          /\ \A k \in 1..Len(y) : y[k] = t[(o + j) + k - 1]
      <4>1. \A k \in (o + j)..b : t[k] \in V
        BY <1>1, <2>3
      <4>2. o + j \in Int /\ b \in Int /\ b - (o + j) + 1 \in Nat
        BY <1>1, <2>3
      <4> QED
        BY <4>1, <4>2
    <3> HIDE DEF x, y
    <3>3. Len(x) = Len(y)
      BY <1>1, <2>3, <2>4, <3>1, <3>2
    <3>4. ASSUME NEW k \in 1..Len(x) PROVE x[k] = y[k]
      <4>1. j + k - 1 \in 1..Len(u) /\ o + (j + k - 1) = (o + j) + k - 1
        BY <1>1, <2>3, <3>1
      <4> QED
        BY <1>2, <3>1, <3>2, <3>3, <4>1
    <3>5. x = y
      BY <3>1, <3>2, <3>3, <3>4
    <3> QED
      BY <3>5 DEF x, y
  <2> QED
    BY <1>3, <1>7, <1>9, <2>1, <2>5 DEF a, b
<1> QED
  BY <1>8, <1>9

(* A token begins in the piece as in the text; only "# " is no comment when *)
(* Trim took the space.                                                    *)
LEMMA InCodeSame ==
    ASSUME NEW V, NEW t \in Seq(V), NEW u \in Seq(V), NEW o, NEW c, Piece(t, u, o, c),
           NEW j \in 1..Len(u)
    PROVE  InCode(u, j) = InCode(t, o + j) \/ (j = Len(u) /\ InCode(u, j) = Step(Code, 1))
<1> DEFINE i == o + j
           d == HeredocDelimiter(t, i)
<1>1. HasPrefix(u, j, OpenComment) <=> HasPrefix(t, i, OpenComment)
  BY MarksSame
<1>2. HeredocDelimiter(u, j) = d
  BY HeredocSame
<1>3. u[j] = t[i]
  BY DEF Piece
<1>4. /\ InCode(u, j) =
           CASE LineDelimiter(u, j) > 0 -> Step(Line, LineDelimiter(u, j))
             [] HasPrefix(t, i, OpenComment) -> Step(Block(1), 2)
             [] d # <<>> -> Step(Heredoc(d), Len(d))
             [] t[i] \in QuoteMark -> Step(Quote(t[i]), 1)
             [] OTHER -> Step(Code, 1)
      /\ InCode(t, i) =
           CASE LineDelimiter(t, i) > 0 -> Step(Line, LineDelimiter(t, i))
             [] HasPrefix(t, i, OpenComment) -> Step(Block(1), 2)
             [] d # <<>> -> Step(Heredoc(d), Len(d))
             [] t[i] \in QuoteMark -> Step(Quote(t[i]), 1)
             [] OTHER -> Step(Code, 1)
  BY <1>1, <1>2, <1>3 DEF InCode
<1>5. \/ LineDelimiter(u, j) = LineDelimiter(t, i)
      \/ j = Len(u) /\ u[j] = "#" /\ LineDelimiter(u, j) = 0
  BY LineSame
<1>6. CASE LineDelimiter(u, j) = LineDelimiter(t, i)
  BY <1>4, <1>6
<1>7. CASE j = Len(u) /\ u[j] = "#" /\ LineDelimiter(u, j) = 0
  <2>1. d = <<>>
    BY <1>2, <1>7, Delimiters
  <2>2. ~HasPrefix(t, i, OpenComment)
    BY <1>1, <1>7, Two DEF OpenComment
  <2>3. t[i] \notin QuoteMark
    BY <1>3, <1>7 DEF QuoteMark
  <2>4. ~(LineDelimiter(u, j) > 0)
    BY <1>7
  <2> HIDE DEF d, i
  <2>5. InCode(u, j) = Step(Code, 1)
    BY <1>4, <2>1, <2>2, <2>3, <2>4
  <2> QED
    BY <1>7, <2>5
<1> QED
  BY <1>5, <1>6, <1>7

(* In a token, too.                                                        *)
LEMMA LexSame ==
    ASSUME NEW V, NEW t \in Seq(V), NEW u \in Seq(V), NEW o, NEW c, Piece(t, u, o, c),
           NEW j \in 1..Len(u), NEW p \in 1..Len(t), NEW m, Within(t, p, o + j, m)
    PROVE  Lex(u, j, m) = Lex(t, o + j, m)
<1> DEFINE i == o + j
<1>1. u[j] = t[i]
  BY DEF Piece
<1>2. /\ HasPrefix(u, j, OpenComment) <=> HasPrefix(t, i, OpenComment)
      /\ HasPrefix(u, j, CloseComment) <=> HasPrefix(t, i, CloseComment)
      /\ \A q \in QuoteMark : HasPrefix(u, j + 1, <<q>>) <=> HasPrefix(t, i + 1, <<q>>)
  BY MarksSame
<1>3. ASSUME NEW x, NEW k
      PROVE  Lex(x, k, m) = CASE m.is = "code" -> InCode(x, k)
               [] m.is = "line" -> Step(IF x[k] = NL THEN Code ELSE Line, 1)
               [] m.is = "block" -> InBlock(x, k, m.depth)
               [] m.is = "quote" -> InQuote(x, k, m.mark)
               [] m.is = "heredoc" ->
                      IF HasPrefix(x, k, m.tag) THEN Step(Code, Len(m.tag)) ELSE Step(m, 1)
  BY DEF Lex
<1>4. CASE m = Line
  <2>1. m.is = "line"
    BY <1>4 DEF Line
  <2>2. \A x, k : Lex(x, k, m) = Step(IF x[k] = NL THEN Code ELSE Line, 1)
    BY <1>3, <2>1
  <2> QED
    BY <1>1, <2>2
<1>5. ASSUME NEW n \in Nat \ {0}, m = Block(n) PROVE Lex(u, j, m) = Lex(t, i, m)
  <2>1. m.is = "block" /\ m.depth = n
    BY <1>5 DEF Block
  <2>2. \A x, k : Lex(x, k, m) = InBlock(x, k, n)
    BY <1>3, <2>1
  <2>3. \A x, k : InBlock(x, k, n) =
                    CASE HasPrefix(x, k, OpenComment) -> Step(Block(n + 1), 2)
                      [] HasPrefix(x, k, CloseComment) -> Step(Block(n - 1), 2)
                      [] OTHER -> Step(Block(n), 1)
    BY DEF InBlock
  <2>4. InBlock(u, j, n) = InBlock(t, i, n)
    BY <1>2, <2>3
  <2> QED
    BY <2>2, <2>4
<1>6. ASSUME NEW q \in QuoteMark, m = Quote(q) PROVE Lex(u, j, m) = Lex(t, i, m)
  <2>1. m.is = "quote" /\ m.mark = q
    BY <1>6 DEF Quote
  <2>2. \A x, k : Lex(x, k, m) = InQuote(x, k, q)
    BY <1>3, <2>1
  <2>3. HasPrefix(u, j + 1, <<q>>) <=> HasPrefix(t, i + 1, <<q>>)
    BY <1>2, <1>6
  <2>4. InQuote(u, j, q) = InQuote(t, i, q)
    BY <1>1, <2>3 DEF InQuote
  <2> QED
    BY <2>2, <2>4
<1>7. ASSUME NEW d, m = Heredoc(d), HeredocWithin(t, p, i, d) PROVE Lex(u, j, m) = Lex(t, i, m)
  <2>1. m.is = "heredoc" /\ m.tag = d
    BY <1>7 DEF Heredoc
  <2>2. \A x, k : Lex(x, k, m) = IF HasPrefix(x, k, d) THEN Step(Code, Len(d)) ELSE Step(m, 1)
    BY <1>3, <2>1
  <2>3. d = HeredocDelimiter(t, p) /\ d # <<>>
    BY <1>7 DEF HeredocWithin
  <2>4. Len(d) \in Nat /\ DOMAIN d = 1..Len(d)
        /\ \A k \in 1..Len(d) : d[k] \notin Space \cup {Semicolon}
    BY <2>3, TagMarks
  <2>5. HasPrefix(u, j, d) <=> HasPrefix(t, i, d)
    BY <2>4, PrefixSame
  <2> QED
    BY <2>2, <2>5
<1>8. \/ m = Line
      \/ \E n \in Nat \ {0} : m = Block(n)
      \/ \E d : m = Heredoc(d) /\ HeredocWithin(t, p, i, d)
      \/ \E q \in QuoteMark : m = Quote(q)
  BY DEF Within
<1> QED
  BY <1>4, <1>5, <1>6, <1>7, <1>8

(* In the loop over a piece, at an offset: the token of the text there; at *)
(* its end, none but a line comment.                                       *)
ReadsPiece(t, u, o, c, s) ==
    /\ s.from = 1
    /\ s.at <= Len(u) =>
           \/ s.mode = Code /\ o + s.at \in Tokens(t)
           \/ \E p \in Tokens(t) : p < c /\ Within(t, p, o + s.at, s.mode)
    /\ s.at > Len(u) => s.mode \in {Code, Line}

(* What is under way at the end of a piece is a line comment: the spaces   *)
(* that follow end nothing else.                                           *)
LEMMA LineLeft ==
    ASSUME NEW V, NEW t \in Seq(V), NEW u \in Seq(V), NEW o, NEW c, Piece(t, u, o, c),
           NEW p \in Tokens(t), p < c, NEW i \in Nat, o + Len(u) < i, NEW m,
           Within(t, p, i, m)
    PROVE  m = Line
<1> DEFINE e == TokenEnd(t, p)
<1>1. /\ o \in Nat /\ c \in Nat /\ Len(u) \in Nat /\ Len(t) \in Nat
      /\ o + Len(u) < c /\ c <= Len(t) + 1 /\ p \in 1..Len(t)
  BY AfterPiece, CutsTyped
<1>2. e < c /\ e \in Int
  BY <1>1, EndIsFirst DEF Piece
<1>3. e \in Ends(t, p)
  <2>1. e \in Ends(t, p) \cup {Len(t) + 1} /\ e # Len(t) + 1
    BY <1>1, <1>2, EndIsFirst
  <2> QED
    BY <2>1
<1> SUFFICES ASSUME m # Line PROVE FALSE
  OBVIOUS
<1>4. i <= e
  BY <1>3, EndsAhead
<1>5. t[e] \in Space
  <2>1. e \in (o + Len(u) + 1)..(c - 1)
    BY <1>1, <1>2, <1>4
  <2> QED
    BY <2>1 DEF Piece
<1>6. e \in 1..Len(t)
  BY <1>1, <1>3, EndIsFirst
<1> DEFINE d == HeredocDelimiter(t, p)
<1>7. /\ HasPrefix(t, p, OpenComment) => Ends(t, p) = CommentEnds(t, p)
      /\ d # <<>> => Ends(t, p) = HeredocEnds(t, p, d)
      /\ t[p] \in QuoteMark => Ends(t, p) = QuoteEnds(t, p)
  BY <1>1, EndsOf
<1> HIDE DEF e, d
<1>8. t[e] \notin {"/", "$", "'", "\""}
  BY <1>5, MarksApart
<1>9. ASSUME NEW n \in Nat \ {0}, CommentWithin(t, p, i, n) PROVE FALSE
  <2>1. e \in CommentEnds(t, p)
    BY <1>3, <1>7, <1>9 DEF CommentWithin
  <2>2. e - 1 \in Pairs(t) /\ t[e - 1] = "*"
    BY <2>1 DEF CommentEnds, Marks
  <2>3. {t[e - 1], t[e]} = {"/", "*"}
    <3>1. (e - 1) + 1 = e
      BY <1>2
    <3>2. {t[e - 1], t[(e - 1) + 1]} = {"/", "*"}
      BY <2>2, Zenon DEF Pairs
    <3> QED
      BY <3>1, <3>2, Zenon
  <2>4. t[e] = "/"
    BY <2>2, <2>3
  <2> QED
    BY <1>8, <2>4
<1>10. ASSUME HeredocWithin(t, p, i, d), d # <<>> PROVE FALSE
  <2>1. e \in HeredocEnds(t, p, d)
    BY <1>3, <1>7, <1>10
  <2>2. HasPrefix(t, e - Len(d) + 1, d)
    BY <2>1 DEF HeredocEnds
  <2>3. Len(d) \in Nat /\ Len(d) >= 2 /\ DOMAIN d = 1..Len(d) /\ d[Len(d)] = "$"
    BY <1>1, <1>10, TagMarks DEF d
  <2>4. Len(d) \in DOMAIN d /\ (e - Len(d) + 1) + Len(d) - 1 = e
    BY <1>2, <2>3
  <2>5. t[e] = "$"
    BY <2>2, <2>3, <2>4 DEF HasPrefix
  <2> QED
    BY <1>8, <2>5
<1>11. ASSUME NEW q \in QuoteMark, QuoteWithin(t, p, i, q) PROVE FALSE
  <2>1. t[p] = q
    BY <1>11 DEF QuoteWithin
  <2>2. e \in QuoteEnds(t, p)
    BY <1>3, <1>7, <2>1
  <2>3. t[e] = q
    BY <2>1, <2>2 DEF QuoteEnds
  <2> QED
    BY <1>8, <2>3 DEF QuoteMark
<1>12. \/ \E n \in Nat \ {0} : CommentWithin(t, p, i, n)
       \/ \E x : HeredocWithin(t, p, i, x)
       \/ \E q \in QuoteMark : QuoteWithin(t, p, i, q)
  BY DEF Within
<1>13. ASSUME NEW x, HeredocWithin(t, p, i, x) PROVE FALSE
  <2>1. x = d /\ x # <<>>
    BY <1>13 DEF HeredocWithin, d
  <2> QED
    BY <1>10, <1>13, <2>1
<1> QED
  BY <1>9, <1>11, <1>12, <1>13

(* Inside a token, and after one, a piece is read so.                      *)
LEMMA PieceReadOn ==
    ASSUME NEW V, NEW t \in Seq(V), NEW u \in Seq(V), NEW o, NEW c, Piece(t, u, o, c),
           NEW s, s.from = 1, s.at \in Nat \ {0},
           \/ s.mode = Code /\ (Between(t, o + s.at) \/ s.at > Len(u))
           \/ \E p \in Tokens(t) : p < c /\ Within(t, p, o + s.at, s.mode)
    PROVE  ReadsPiece(t, u, o, c, s)
<1>1. /\ o \in Nat /\ c \in Nat /\ Len(u) \in Nat /\ Len(t) \in Nat
      /\ o + Len(u) < c /\ c <= Len(t) + 1 /\ o + s.at \in Nat
  BY AfterPiece
<1>2. CASE s.mode = Code /\ (Between(t, o + s.at) \/ s.at > Len(u))
  <2>1. s.at <= Len(u) => o + s.at \in Tokens(t)
    <3> SUFFICES ASSUME s.at <= Len(u) PROVE o + s.at \in Tokens(t)
      OBVIOUS
    <3>1. o + s.at # Len(t) + 1 /\ ~(s.at > Len(u))
      BY <1>1
    <3> QED
      BY <1>2, <3>1 DEF Between
  <2> QED
    BY <1>2, <2>1 DEF ReadsPiece
<1>3. ASSUME NEW p \in Tokens(t), p < c, Within(t, p, o + s.at, s.mode)
      PROVE  ReadsPiece(t, u, o, c, s)
  <2>1. s.at > Len(u) => s.mode = Line
    <3> SUFFICES ASSUME s.at > Len(u) PROVE s.mode = Line
      OBVIOUS
    <3>1. o + Len(u) < o + s.at
      BY <1>1
    <3> QED
      BY <1>1, <1>3, <3>1, LineLeft
  <2> QED
    BY <1>3, <2>1 DEF ReadsPiece
<1> QED
  BY <1>2, <1>3

(* A round over a piece cuts nothing off and reads as in the text.         *)
LEMMA PieceStep ==
    ASSUME NEW V, NEW t \in Seq(V), NEW u \in Seq(V), NEW o, NEW c, Piece(t, u, o, c),
           NEW s, s.at \in Nat \ {0}, s.at <= Len(u), ReadsPiece(t, u, o, c, s)
    PROVE  ReadsPiece(t, u, o, c, Round(u, s))
<1> DEFINE j == s.at
           i == o + j
           n == Lex(u, j, s.mode)
           r == Round(u, s)
<1>1. /\ o \in Nat /\ c \in Nat /\ Len(u) \in Nat /\ Len(t) \in Nat
      /\ o + Len(u) < c /\ c <= Len(t) + 1 /\ o + Len(u) <= Len(t)
      /\ j \in 1..Len(u) /\ i \in 1..Len(t) /\ i < c /\ i \in Nat /\ o < i
      /\ o + Len(u) + 1 <= Len(t) => t[o + Len(u) + 1] \in Space \cup {Semicolon}
  BY AfterPiece
<1>2. u[j] = t[i] /\ s.from = 1
  BY <1>1 DEF Piece, ReadsPiece
<1>3. \/ s.mode = Code /\ i \in Tokens(t)
      \/ \E p \in Tokens(t) : p < c /\ Within(t, p, i, s.mode)
  BY <1>1 DEF ReadsPiece
<1>4. \A q \in Tokens(t) : q \in 1..Len(t) /\ q \in Int
  BY CutsTyped
<1>5. ~(s.mode = Code /\ u[j] = Semicolon)
  <2>1. CASE s.mode = Code /\ i \in Tokens(t)
    <3>1. t[i] # Semicolon
      BY <1>1, <2>1 DEF Piece
    <3> QED
      BY <1>2, <3>1
  <2>2. CASE \E p \in Tokens(t) : p < c /\ Within(t, p, i, s.mode)
    BY <2>2, WithinIsNotCode
  <2> QED
    BY <1>3, <2>1, <2>2
<1>6. r.at = j + n.take /\ r.mode = n.mode /\ r.from = 1
  <2>1. r = [at |-> j + n.take, mode |-> n.mode, list |-> s.list, from |-> s.from,
             code |-> (s.code \/ MakesStatement(u, j, s.mode))]
    <3>1. ~(j > Len(u))
      BY <1>1
    <3> HIDE DEF n
    <3> QED
      BY <1>5, <3>1, Zenon DEF Round, n
  <2> HIDE DEF r, n
  <2> QED
    BY <1>2, <2>1
<1> SUFFICES ReadsPiece(t, u, o, c, r)
  OBVIOUS
<1> HIDE DEF r, n, i
<1>0. \A k \in Nat \ {0} : i + k = o + (j + k) /\ j + k \in Nat \ {0}
  <2>1. o \in Nat /\ j \in Nat /\ i = o + j
    BY <1>1 DEF i
  <2> HIDE DEF j
  <2> QED
    BY <2>1
<1>7. ASSUME NEW p \in Tokens(t), p < c, n.take \in Nat \ {0},
             Within(t, p, i + n.take, n.mode)
      PROVE  ReadsPiece(t, u, o, c, r)
  <2>1. i + n.take = o + r.at /\ r.at \in Nat \ {0}
    BY <1>0, <1>6, <1>7, Zenon
  <2>2. Within(t, p, o + r.at, r.mode)
    BY <1>6, <1>7, <2>1
  <2> QED
    BY <1>6, <1>7, <2>1, <2>2, PieceReadOn
<1>8. ASSUME n.mode = Code, n.take \in Nat \ {0},
             Between(t, i + n.take) \/ j + n.take > Len(u)
      PROVE  ReadsPiece(t, u, o, c, r)
  <2>1. i + n.take = o + r.at /\ r.at \in Nat \ {0}
    BY <1>0, <1>6, <1>8, Zenon
  <2>2. r.mode = Code /\ (Between(t, o + r.at) \/ r.at > Len(u))
    BY <1>6, <1>8, <2>1
  <2> QED
    BY <1>6, <2>1, <2>2, PieceReadOn
<1>9. CASE s.mode = Code /\ i \in Tokens(t)
  <2>1. n = InCode(u, j)
    <3>1. s.mode.is = "code"
      BY <1>9 DEF Code
    <3> QED
      BY <3>1 DEF Lex, n
  <2>2. n = InCode(t, i) \/ (j = Len(u) /\ n = Step(Code, 1))
    BY <1>1, <2>1, InCodeSame DEF i
  <2>3. CASE n = InCode(t, i)
    <3>1. /\ n.take \in Nat \ {0}
          /\ \/ Within(t, i, i + n.take, n.mode)
             \/ n.mode = Code /\ n.take = 1 /\ TokenEnd(t, i) = i
      BY <1>1, <2>3, InCodeStep
    <3>2. CASE Within(t, i, i + n.take, n.mode)
      BY <1>1, <1>7, <1>9, <3>1, <3>2
    <3>3. CASE n.mode = Code /\ n.take = 1 /\ TokenEnd(t, i) = i
      <4>1. Between(t, i + 1)
        BY <1>1, <1>9, <3>3, TokenOver
      <4> QED
        BY <1>8, <3>1, <3>3, <4>1
    <3> QED
      BY <3>1, <3>2, <3>3
  <2>4. CASE j = Len(u) /\ n = Step(Code, 1)
    <3>1. n.mode = Code /\ n.take = 1
      BY <2>4 DEF Step
    <3>2. n.take \in Nat \ {0} /\ j + n.take > Len(u)
      BY <1>1, <2>4, <3>1
    <3> QED
      BY <1>8, <3>1, <3>2
  <2> QED
    BY <2>2, <2>3, <2>4
<1>10. ASSUME NEW p \in Tokens(t), p < c, Within(t, p, i, s.mode)
       PROVE  ReadsPiece(t, u, o, c, r)
  <2>1. n = Lex(t, i, s.mode)
    BY <1>1, <1>4, <1>10, LexSame DEF i, n
  <2>2. /\ n.take \in Nat \ {0}
        /\ \/ Within(t, p, i + n.take, n.mode)
           \/ /\ n.mode = Code
              /\ TokenEnd(t, p) = i + n.take - 1 /\ i + n.take - 1 <= Len(t)
           \/ /\ TokenEnd(t, p) = i /\ i < Len(t)
              /\ t[p] \in QuoteMark /\ t[i + 1] \in QuoteMark
              /\ Within(t, i + 1, i + n.take, n.mode)
    BY <1>1, <1>4, <1>10, <2>1, LexStep
  <2>3. CASE Within(t, p, i + n.take, n.mode)
    BY <1>7, <1>10, <2>2, <2>3
  <2>4. CASE n.mode = Code /\ TokenEnd(t, p) = i + n.take - 1 /\ i + n.take - 1 <= Len(t)
    <3>1. TokenEnd(t, p) <= Len(t) /\ TokenEnd(t, p) + 1 = i + n.take
      BY <1>1, <2>2, <2>4
    <3>2. Between(t, i + n.take)
      BY <3>1, TokenOver
    <3> QED
      BY <1>8, <2>2, <2>4, <3>2
  <2>5. CASE /\ TokenEnd(t, p) = i /\ i < Len(t)
             /\ t[p] \in QuoteMark /\ t[i + 1] \in QuoteMark
             /\ Within(t, i + 1, i + n.take, n.mode)
    <3>1. i + 1 \in Tokens(t)
      BY <2>5, TokensFollow
    <3>2. i + 1 < c
      <4>1. SUFFICES ASSUME i + 1 = c PROVE FALSE
        BY <1>1
      <4>2. t[c] = Semicolon
        BY <1>1, <2>5, <4>1 DEF Piece
      <4>3. t[i + 1] \in {"'", "\""}
        BY <2>5 DEF QuoteMark
      <4> QED
        BY <4>1, <4>2, <4>3, MarksApart
    <3> QED
      BY <1>7, <2>2, <2>5, <3>1, <3>2
  <2> QED
    BY <2>2, <2>3, <2>4, <2>5
<1> QED
  BY <1>3, <1>9, <1>10

(* So a piece is terminated, and has no semicolon of its own.              *)
LEMMA PieceAlone ==
    ASSUME NEW V, NEW t \in Seq(V), NEW u \in Seq(V), NEW o, NEW c, Piece(t, u, o, c)
    PROVE  Terminated(u) /\ \A q \in Tokens(u) : u[q] # Semicolon
<1> DEFINE L == Len(u)
<1>1. L \in Nat /\ 1 <= L
  BY DEF Piece
<1>2. PICK f : /\ f = [n \in 0..L |-> IF n = 0 THEN Start ELSE Round(u, f[n - 1])]
               /\ Scan(u) = f[L]
  BY <1>1, RoundFunction
<1>3. f[0] = Start
  BY <1>1, <1>2
<1>4. \A n \in 0..(L - 1) : f[n + 1] = Round(u, f[n])
  <2> SUFFICES ASSUME NEW n \in 0..(L - 1)
               PROVE  f[n + 1] = Round(u, f[n])
    OBVIOUS
  <2>1. n + 1 \in 0..L /\ n + 1 # 0 /\ (n + 1) - 1 = n
    BY <1>1
  <2>2. \A k \in 0..L : f[k] = IF k = 0 THEN Start ELSE Round(u, f[k - 1])
    BY <1>2
  <2>3. f[n + 1] = Round(u, f[(n + 1) - 1])
    BY <2>1, <2>2
  <2> QED
    BY <2>1, <2>3
<1> HIDE DEF L
<1> DEFINE S == {n \in 0..L : Read(u, f[n]) /\ ReadsPiece(t, u, o, c, f[n])}
<1>5. 0 \in S
  <2>1. Start.at = 1 /\ Start.mode = Code /\ Start.from = 1
    BY DEF Start
  <2>2. ReadsPiece(t, u, o, c, Start)
    <3>1. o + 1 \in Tokens(t)
      BY DEF Piece
    <3>2. ~(1 > Len(u))
      BY <1>1 DEF L
    <3> QED
      BY <2>1, <3>1, <3>2 DEF ReadsPiece
  <2> QED
    BY <1>1, <1>3, <2>2, StartRead
<1>6. ASSUME NEW n \in 0..(L - 1), n \in S
      PROVE  n + 1 \in S
  <2>1. /\ n + 1 \in 0..L /\ f[n + 1] = Round(u, f[n]) /\ Read(u, f[n])
        /\ ReadsPiece(t, u, o, c, f[n])
    BY <1>1, <1>4, <1>6
  <2>2. f[n].at \in Nat \ {0}
    BY <2>1 DEF Read, IsState, SinceCut
  <2>3. CASE f[n].at > L
    <3>1. Round(u, f[n]) = f[n]
      BY <2>3, Zenon DEF Round, L
    <3> QED
      BY <2>1, <3>1
  <2>4. CASE f[n].at <= L
    <3>1. Read(u, Round(u, f[n]))
      BY <2>1, <2>4, RoundStep DEF L
    <3>2. ReadsPiece(t, u, o, c, Round(u, f[n]))
      BY <2>1, <2>2, <2>4, PieceStep DEF L
    <3> QED
      BY <2>1, <3>1, <3>2
  <2> QED
    BY <1>1, <2>2, <2>3, <2>4
<1>7. 0..L \subseteq S
  <2> HIDE DEF S
  <2> QED
    BY <1>1, <1>5, <1>6, UpTo
<1> DEFINE s == f[L]
<1>8. ReadsPiece(t, u, o, c, s) /\ Read(u, s) /\ s.at >= L + 1
  <2>1. L \in S
    BY <1>1, <1>7
  <2>2. f[L].at >= L + 1
    BY <1>2, ScanReads DEF L
  <2> QED
    BY <2>1, <2>2
<1> HIDE DEF s, S
<1>9. s.at \in Nat /\ s.from = 1
  BY <1>8 DEF Read, IsState, ReadsPiece
<1>10. s.mode \in {Code, Line}
  <2>1. s.at > Len(u)
    BY <1>1, <1>8, <1>9 DEF L
  <2> QED
    BY <1>8, <2>1 DEF ReadsPiece
<1>11. Terminated(u)
  BY <1>8, <1>10, ReadToTheEnd DEF L
<1>12. ASSUME NEW q \in Tokens(u) PROVE u[q] # Semicolon
  <2>1. q \in Int /\ 1 <= q /\ q <= L
    BY CutsTyped DEF L
  <2>2. 1 <= q /\ q < s.at
    BY <1>1, <1>8, <1>9, <2>1
  <2>3. \A x \in Tokens(u) : (s.from <= x /\ x < s.at) => u[x] # Semicolon
    BY <1>8 DEF Read, SinceCut
  <2> QED
    BY <1>9, <2>2, <2>3
<1> QED
  BY <1>11, <1>12

(* Each statement of a batch is a single one, and begins with its first    *)
(* word.                                                                   *)
LEMMA PieceClassified ==
    ASSUME NEW V, NEW t \in Seq(V)
    PROVE  \A k \in DOMAIN SplitStatements(t).list :
               LET u == SplitStatements(t).list[k]
                   W == {j \in Words(u) : u[j] # FF}
               IN W # {} => /\ SplitStatements(u) = [err |-> FALSE, list |-> <<u>>]
                            /\ AfterTrivia(u) = Min(W)
<1> SUFFICES ASSUME NEW k \in DOMAIN SplitStatements(t).list, NEW u,
                    u = SplitStatements(t).list[k],
                    NEW W, W = {j \in Words(u) : u[j] # FF}, W # {}
             PROVE  SplitStatements(u) = [err |-> FALSE, list |-> <<u>>] /\ AfterTrivia(u) = Min(W)
  BY Zenon
<1> DEFINE S == StatementCuts(t)
           c == Nth(S, k)
<1>1. SplitStatements(t).list = IF Terminated(t) THEN Statements(t) ELSE <<>>
  BY SplitIsLexed
<1>2. Terminated(t) /\ SplitStatements(t).list = Statements(t)
  <2>1. DOMAIN <<>> = {}
    OBVIOUS
  <2> QED
    BY <1>1, <2>1
<1>3. /\ k \in 1..Cardinality(S)
      /\ u = Trim(SubSeq(t, CutBefore(t, c) + 1, c - 1))
  <2>1. Statements(t) = [n \in 1..Cardinality(S) |->
                           LET x == Nth(S, n) IN Trim(SubSeq(t, CutBefore(t, x) + 1, x - 1))]
    BY DEF Statements
  <2> HIDE DEF S
  <2>2. k \in 1..Cardinality(S)
    BY <1>2, <2>1
  <2>3. Statements(t)[k] = Trim(SubSeq(t, CutBefore(t, c) + 1, c - 1))
    BY <2>1, <2>2
  <2> QED
    BY <1>2, <2>2, <2>3
<1>4. c \in S
  <2>1. /\ Len(t) \in Nat /\ \A x \in Cuts(t) : x \in Int /\ 1 <= x /\ x <= Len(t) + 1
        /\ S \subseteq Cuts(t) /\ \A x : IsFiniteSet(Below(S, x))
    BY CutsTyped
  <2> HIDE DEF S
  <2>2. S \in SUBSET Nat /\ \A x \in S : x < Len(t) + 2
    BY <2>1
  <2>3. Below(S, Len(t) + 2) = S
    BY <2>2 DEF Below
  <2>4. IsFiniteSet(S)
    BY <2>1, <2>3
  <2> QED
    BY <1>3, <2>2, <2>4, NthInSet
<1>5. u # <<>>
  <2>1. SUFFICES ASSUME u = <<>> PROVE FALSE
    OBVIOUS
  <2>2. u \in Seq({}) /\ Len(u) = 0
    BY <2>1
  <2>3. \A q \in Tokens(u) : 1 <= q /\ q <= 0 /\ q \in Int
    BY <2>2, CutsTyped
  <2>4. Words(u) \subseteq Tokens(u)
    BY DEF Words
  <2> QED
    BY <2>3, <2>4
<1> HIDE DEF c, S
<1>6. u \in Seq(V) /\ Trim(u) = u /\ \E o \in Nat : Piece(t, u, o, c)
  <2>1. c \in StatementCuts(t)
    BY <1>4 DEF S
  <2> QED
    BY <1>2, <1>3, <1>5, <2>1, PieceCut
<1>7. Terminated(u) /\ \A q \in Tokens(u) : u[q] # Semicolon
  BY <1>6, PieceAlone
<1>8. W \in SUBSET Nat /\ W \subseteq Words(u)
  <2>1. \A q \in Tokens(u) : q \in Int /\ 1 <= q
    BY <1>6, CutsTyped
  <2>2. Words(u) \subseteq Tokens(u)
    BY DEF Words
  <2> QED
    BY <2>1, <2>2
<1> DEFINE w == Min(W)
<1>9. w \in W /\ \A j \in W : w <= j
  BY <1>8, MinLeast
<1> HIDE DEF w
<1>10. w \in Words(u) /\ u[w] # FF /\ \A j \in Words(u) : u[j] # FF => w <= j
  BY <1>9
<1>11. SplitStatements(u) = [err |-> FALSE, list |-> <<u>>]
  BY <1>6, <1>7, <1>10, AloneSplits
<1>12. AfterTrivia(u) = w
  BY <1>6, <1>7, <1>10, TriviaSkipped
<1> QED
  BY <1>11, <1>12 DEF w

(* Whatever an editor writes, of any length, SplitStatements refuses it    *)
(* just if a token is not terminated, and otherwise returns the statements *)
(* of the grammar.                                                         *)
THEOREM SplitsEveryText == Spec => []SplitsAsLexed
<1>1. TypeOK => SplitsAsLexed
  <2> SUFFICES ASSUME TypeOK PROVE SplitsAsLexed
    OBVIOUS
  <2>1. PICK family \in Texts : text \in Seq(family.symbols)
    BY DEF TypeOK
  <2>2. /\ SplitStatements(text).err <=> ~Terminated(text)
        /\ Terminated(text) => SplitStatements(text).list = Statements(text)
    BY <2>1, SplitIsLexed
  <2> QED
    BY <2>2, Zenon DEF SplitsAsLexed
<1> QED
  BY <1>1, BatchTyped, PTL

(* Every piece is a single statement again, whose first word is what       *)
(* Classify takes for its verb, whatever the text it was cut from.         *)
THEOREM PiecesAlone == Spec => []PiecesClassified
<1>1. TypeOK => PiecesClassified
  <2> SUFFICES ASSUME TypeOK PROVE PiecesClassified
    OBVIOUS
  <2>1. PICK family \in Texts : text \in Seq(family.symbols)
    BY DEF TypeOK
  <2> QED
    BY <2>1, PieceClassified, Zenon DEF PiecesClassified
<1> QED
  BY <1>1, BatchTyped, PTL

-----------------------------------------------------------------------------
(* Together: with the code's splitting, ClickHouse is given statements of  *)
(* the grammar, in the order of the text, and nothing of a text in which a *)
(* quotation or a comment was left open.                                   *)
RunsStatements ==
    ran # <<>> =>
        /\ Terminated(text) /\ statements = Statements(text)
        /\ Len(ran) <= Len(Statements(text)) /\ \A i \in DOMAIN ran : ran[i] = i

(* So what is executed is what the grammar reads in the editor's text,     *)
(* whatever fails on the way.                                              *)
THEOREM RunsWhatIsWritten ==
    ASSUME \A t : Split(t) = SplitStatements(t)
    PROVE  Spec => []RunsStatements
<1>1. BatchInv /\ TypeOK => RunsStatements
  <2> SUFFICES ASSUME BatchInv, TypeOK, ran # <<>> PROVE RunsStatements
    BY DEF RunsStatements
  <2>1. phase \in {"running", "done"}
    BY DEF BatchInv, Phase, Untouched
  <2>2. ~SplitStatements(text).err /\ statements = SplitStatements(text).list
    BY <2>1 DEF BatchInv, Begun, Acceptable
  <2>3. PICK family \in Texts : text \in Seq(family.symbols)
    BY DEF TypeOK
  <2>4. Terminated(text) /\ statements = Statements(text)
    BY <2>2, <2>3, SplitIsLexed
  <2>5. \A i \in DOMAIN ran : ran[i] = i
    BY <2>1 DEF BatchInv, Counted, Ended
  <2>6. Len(ran) <= Len(statements)
    BY DEF TypeOK
  <2> QED
    BY <2>4, <2>5, <2>6 DEF RunsStatements
<1> QED
  BY <1>1, BatchAlways, BatchTyped, PTL
=============================================================================
