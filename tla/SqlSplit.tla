------------------------------ MODULE SqlSplit ------------------------------
(***************************************************************************)
(* How a text of several SQL statements is taken apart and each statement  *)
(* classified (internal/clickhouse/client.go), and the lexical grammar it  *)
(* is compared with.  A text is a sequence of characters; a verb is one    *)
(* letter, "s" for SELECT and the other reads, "i" for INSERT, "d" for     *)
(* DROP, "g" for GRANT; ALTER, whose kind depends on the rest of its text, *)
(* has none.  Two quotation marks stand for the three, and the space for   *)
(* the tab.                                                                *)
(***************************************************************************)
EXTENDS Integers, Sequences, FiniteSets, FiniteSetsExt

NL == "\n"
FF == "\f"
Semicolon == ";"
Space == {" ", NL, FF}
QuoteMark == {"'", "\""}
Verb == [s |-> "query", i |-> "dml", d |-> "ddl", g |-> "grant"]
Letter == DOMAIN Verb

HasPrefix(t, i, d) ==
    i + Len(d) - 1 <= Len(t) /\ \A k \in DOMAIN d : t[i + k - 1] = d[k]

OpenComment == <<"/", "*">>
CloseComment == <<"*", "/">>

(* strings.TrimSpace *)
Trim(u) ==
    LET Ink == {i \in DOMAIN u : u[i] \notin Space}
    IN IF Ink = {} THEN <<>> ELSE SubSeq(u, Min(Ink), Max(Ink))

-----------------------------------------------------------------------------
(* SplitStatements: a mode and the characters taken in it                  *)

Code == [is |-> "code"]
Line == [is |-> "line"]
Block(n) == IF n = 0 THEN Code ELSE [is |-> "block", depth |-> n]
Quote(c) == [is |-> "quote", mark |-> c]
Heredoc(d) == [is |-> "heredoc", tag |-> d]
Step(m, n) == [mode |-> m, take |-> n]

(* lineCommentDelimiter: its length *)
LineDelimiter(t, i) ==
    IF \E d \in {<<"-", "-">>, <<"/", "/">>, <<"#", "!">>} : HasPrefix(t, i, d) THEN 2
    ELSE IF HasPrefix(t, i, <<"#", " ">>) THEN 1
    ELSE 0

(* heredocDelimiterAt: $, letters, $ *)
HeredocDelimiter(t, i) ==
    LET closing == {j \in (i + 1)..Len(t) :
                      t[j] = "$" /\ \A k \in (i + 1)..(j - 1) : t[k] \in Letter}
    IN IF t[i] = "$" /\ closing # {} THEN SubSeq(t, i, Min(closing)) ELSE <<>>

\* mutant: comments do not nest
InBlockFlat(t, i, n) ==
    CASE HasPrefix(t, i, CloseComment) -> Step(Code, 2)
      [] OTHER -> Step(Block(n), 1)

InBlock(t, i, n) ==
    CASE HasPrefix(t, i, OpenComment) -> Step(Block(n + 1), 2)
      [] HasPrefix(t, i, CloseComment) -> Step(Block(n - 1), 2)
      [] OTHER -> Step(Block(n), 1)

InQuote(t, i, c) ==
    CASE t[i] = "\\" -> Step(Quote(c), 2)
      [] t[i] = c -> IF HasPrefix(t, i + 1, <<c>>) THEN Step(Quote(c), 2) ELSE Step(Code, 1)
      [] OTHER -> Step(Quote(c), 1)

InCode(t, i) ==
    CASE LineDelimiter(t, i) > 0 -> Step(Line, LineDelimiter(t, i))
      [] HasPrefix(t, i, OpenComment) -> Step(Block(1), 2)
      [] HeredocDelimiter(t, i) # <<>> ->
             LET d == HeredocDelimiter(t, i) IN Step(Heredoc(d), Len(d))
      [] t[i] \in QuoteMark -> Step(Quote(t[i]), 1)
      [] OTHER -> Step(Code, 1)

Lex(t, i, m) ==
    CASE m.is = "code" -> InCode(t, i)
      [] m.is = "line" -> Step(IF t[i] = NL THEN Code ELSE Line, 1)
      [] m.is = "block" -> InBlock(t, i, m.depth)
      [] m.is = "quote" -> InQuote(t, i, m.mark)
      [] m.is = "heredoc" ->
             IF HasPrefix(t, i, m.tag) THEN Step(Code, Len(m.tag)) ELSE Step(m, 1)

(* What makes a statement of a text (hasCode): a quotation, or a character *)
(* of code that is not a space; a form feed counts as one.                 *)
MakesStatement(t, i, m) ==
    /\ m = Code
    /\ InCode(t, i).mode.is \in {"code", "quote", "heredoc"}
    /\ t[i] \notin {" ", NL}

(* The statements so far, what came after the last semicolon among them.   *)
Pieces(t, s) ==
    IF s.code THEN Append(s.list, Trim(SubSeq(t, s.from, s.at - 1))) ELSE s.list

(* The loop: where it is, and what it has cut off.                         *)
Start == [at |-> 1, mode |-> Code, list |-> <<>>, from |-> 1, code |-> FALSE]

Round(t, s) ==
    IF s.at > Len(t) THEN s
    ELSE IF s.mode = Code /\ t[s.at] = Semicolon
    THEN [at |-> s.at + 1, mode |-> Code, list |-> Pieces(t, s), from |-> s.at + 1,
          code |-> FALSE]
    ELSE LET n == Lex(t, s.at, s.mode)
         IN [at |-> s.at + n.take, mode |-> n.mode, list |-> s.list, from |-> s.from,
             code |-> (s.code \/ MakesStatement(t, s.at, s.mode))]

(* A round takes a character at least.                                     *)
Scan(t) ==
    LET round[n \in 0..Len(t)] == IF n = 0 THEN Start ELSE Round(t, round[n - 1])
    IN round[Len(t)]

SplitStatements(t) ==
    LET s == Scan(t)
    IN IF s.mode \in {Code, Line} THEN [err |-> FALSE, list |-> Pieces(t, s)]
       ELSE [err |-> TRUE, list |-> <<>>]

-----------------------------------------------------------------------------
(* Classify *)

(* In a comment: the place and the depth there.                            *)
Nest(t, s) ==
    IF s.depth = 0 \/ s.at > Len(t) THEN s
    ELSE IF HasPrefix(t, s.at, OpenComment) THEN [at |-> s.at + 2, depth |-> s.depth + 1]
    ELSE IF HasPrefix(t, s.at, CloseComment) THEN [at |-> s.at + 2, depth |-> s.depth - 1]
    ELSE [at |-> s.at + 1, depth |-> s.depth]

CommentEnd(t, i) ==
    LET nest[n \in 0..Len(t)] ==
            IF n = 0 THEN [at |-> i, depth |-> 1] ELSE Nest(t, nest[n - 1])
    IN nest[Len(t)].at

\* mutant: a line comment takes its line end with it and the first character after
LineEndLate(t, i) == Min({j \in i..Len(t) : t[j] = NL} \cup {Len(t) - 1}) + 2

LineEnd(t, i) == Min({j \in i..Len(t) : t[j] = NL} \cup {Len(t) + 1})

Skip(t, i) ==
    IF i > Len(t) THEN i
    ELSE IF t[i] \in Space THEN i + 1
    ELSE IF LineDelimiter(t, i) > 0 THEN LineEnd(t, i + LineDelimiter(t, i))
    ELSE IF HasPrefix(t, i, OpenComment) THEN CommentEnd(t, i + 2)
    ELSE i

(* leadingTriviaLength: the first character after spaces and comments      *)
AfterTrivia(t) ==
    LET after[n \in 0..Len(t)] == IF n = 0 THEN 1 ELSE Skip(t, after[n - 1])
    IN after[Len(t)]

(* The kind of the verb, "none" for what Classify refuses.                 *)
Classify(t) ==
    LET all == SplitStatements(t)
        u == all.list[1]
        i == AfterTrivia(u)
        verb == i <= Len(u) /\ u[i] \in Letter
                  /\ ~(i < Len(u) /\ u[i + 1] \in Letter)
    IN IF Len(all.list) = 1 /\ verb THEN Verb[u[i]] ELSE "none"

-----------------------------------------------------------------------------
(* The same by a grammar: the places where the token that begins at i may  *)
(* end.  It ends at the first of them.                                     *)

(* The elements of S right before j, back to i at most, are even in number. *)
EvenRun(S, i, j) ==
    \E n \in 0..(j - i) :
        LET first == j - 2 * n
        IN first >= i /\ first..(j - 1) \subseteq S /\ (first = i \/ first - 1 \notin S)

LineEnds(t, i) == {j \in i..Len(t) : t[j] = NL \/ j = Len(t)}

(* Of "/" and "*" in turn every other one begins a mark of a comment, which *)
(* ends with the mark that closes as many as were opened.                   *)
Pairs(t) == {k \in 1..(Len(t) - 1) : {t[k], t[k + 1]} = {"/", "*"}}
Marks(t, i, c, j) ==
    {k \in Pairs(t) : i <= k /\ k < j /\ t[k] = c /\ EvenRun(Pairs(t), i, k)}
CommentEnds(t, i) ==
    {j \in (i + 1)..Len(t) :
        /\ j - 1 \in Marks(t, i, "*", j)
        /\ Cardinality(Marks(t, i, "/", j)) = Cardinality(Marks(t, i, "*", j))}

(* A mark ends a quotation after an even number of backslashes.  A doubled *)
(* mark is the end of one quotation and the start of another.              *)
Escapes(t) == {k \in 1..Len(t) : t[k] = "\\"}
QuoteEnds(t, i) == {j \in (i + 1)..Len(t) : t[j] = t[i] /\ EvenRun(Escapes(t), i + 1, j)}

HeredocEnds(t, i, d) ==
    {j \in (i + 2 * Len(d) - 1)..Len(t) : HasPrefix(t, j - Len(d) + 1, d)}

Ends(t, i) ==
    LET d == HeredocDelimiter(t, i)
    IN CASE LineDelimiter(t, i) > 0 -> LineEnds(t, i)
         [] HasPrefix(t, i, OpenComment) -> CommentEnds(t, i)
         [] d # <<>> -> HeredocEnds(t, i, d)
         [] t[i] \in QuoteMark -> QuoteEnds(t, i)
         [] OTHER -> {i}

TokenEnd(t, i) == Min(Ends(t, i) \cup {Len(t) + 1})

(* The places where a token begins: the first, and after each token.       *)
AfterToken(t, i) == IF i > Len(t) THEN i ELSE TokenEnd(t, i) + 1
Tokens(t) ==
    LET token[n \in 0..Len(t)] == IF n = 0 THEN 1 ELSE AfterToken(t, token[n - 1])
    IN {token[n] : n \in 0..Len(t)} \cap 1..Len(t)

Terminated(t) == \A i \in Tokens(t) : TokenEnd(t, i) <= Len(t)

(* Tokens that are neither spaces, comments nor semicolons. *)
Words(t) ==
    {i \in Tokens(t) : t[i] \notin {" ", NL, Semicolon} /\ LineDelimiter(t, i) = 0
                         /\ ~HasPrefix(t, i, OpenComment)}

(* A statement is what is between two semicolons, or the last one and the  *)
(* end, if there is a word in it.                                          *)
Cuts(t) == {i \in Tokens(t) : t[i] = Semicolon} \cup {Len(t) + 1}
Below(S, c) == {b \in S : b < c}
CutBefore(t, c) == Max({0} \cup Below(Cuts(t), c))
StatementCuts(t) == {c \in Cuts(t) : \E w \in Words(t) : CutBefore(t, c) < w /\ w < c}
Nth(S, k) == CHOOSE c \in S : Cardinality(Below(S, c)) = k - 1
Statements(t) ==
    [k \in 1..Cardinality(StatementCuts(t)) |->
        LET c == Nth(StatementCuts(t), k)
        IN Trim(SubSeq(t, CutBefore(t, c) + 1, c - 1))]
=============================================================================
