---------------------------- MODULE MCQueryBatch ----------------------------
(* TLC instances of QueryBatch, with the splitting and the classification  *)
(* of SqlSplit over several small alphabets.                               *)
EXTENDS QueryBatch, SqlSplit

Family(symbols, length) == [symbols |-> symbols, length |-> length]
SmallTexts ==
    { Family({"'", "\\", ";", "s"}, 6),             \* escapes and doubled marks
      Family({"'", "\"", ";"}, 6),                  \* one mark within the other
      Family({"/", "*", ";"}, 8),                   \* nested comments
      Family({"-", "#", " ", NL, ";", "s"}, 5),     \* line comments
      Family({"#", "!", NL, ";"}, 5),
      Family({"$", "s", ";"}, 7),                   \* heredocs
      Family({"s", "i", "d", "g", ";"}, 5),         \* batches of every kind
      Family({"s", " ", FF, ";"}, 5),
      Family({FF, "/", "*", "#", " ", ";"}, 5) }

(* SplitStatements finds the statements of the grammar, and refuses what   *)
(* the grammar leaves unterminated (clickhouse/client.go:125-234).         *)
SplitsAsLexed ==
    phase = "edit" =>
        LET batch == SplitStatements(text)
        IN /\ batch.err <=> ~Terminated(text)
           /\ Terminated(text) => batch.list = Statements(text)

(* Each piece with a word is a single statement for Classify, which splits *)
(* it again (client.go:89-98), and the verb Classify looks at is the first *)
(* word that SplitStatements saw: the two scanners agree on what a comment *)
(* is (client.go:261-293).  A piece without one owes itself to form feeds, *)
(* which only SplitStatements takes for words.                             *)
PiecesClassified ==
    phase = "edit" =>
        LET batch == SplitStatements(text).list
        IN \A i \in DOMAIN batch :
             LET u == batch[i]
                 words == {j \in Words(u) : u[j] # FF}
             IN words # {} =>
                  /\ SplitStatements(u) = [err |-> FALSE, list |-> <<u>>]
                  /\ AfterTrivia(u) = Min(words)
=============================================================================
