SPECIFICATION Spec
CONSTANTS
    Vocabularies <- MCVocabularies
    DocTypes = {"html"}
    MaxFormatting = 4
    MaxDispatch = 24
INVARIANT BookmarkNoted
CHECK_DEADLOCK FALSE
