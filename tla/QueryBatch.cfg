\* A request ends.
SPECIFICATION Spec
CONSTANTS
    Split <- SplitStatements
    Kind <- Classify
    Texts <- SmallTexts
    GrantEnabled = TRUE
    MaxStatements = 3
CHECK_DEADLOCK FALSE
INVARIANTS
    TypeOK
    SplitsAsLexed
    PiecesClassified
    AllowedFirst
    AnswerTellsWhatRan
