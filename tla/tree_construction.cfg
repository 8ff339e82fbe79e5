SPECIFICATION Spec
CONSTANTS
    Vocabularies <- MCVocabularies
    DocTypes = {"html"}
    MaxFormatting = 4
    MaxDispatch = 24
INVARIANTS
    TypeOK
    KnownFailures
    Rooted
    ModeAgrees
    CellNote
    EofStops
    NoahsArk
    MarkersCover
    ContextsNest
    TextMode
CHECK_DEADLOCK FALSE
