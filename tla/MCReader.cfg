SPECIFICATION Spec
CONSTANT MaxWord = 4
INVARIANTS
    ReadsTheLanguage
    LinesDoNotMatter
CHECK_DEADLOCK FALSE
