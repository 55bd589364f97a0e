CONSTANTS
    own = own
    others = others
    v1 = v1
    NULL = NULL
    Unset = Unset
    Cedulas = {own, others}
    Taken = {others}
    Sources = {NULL, v1}
    MaxDecisions = 3
    MaxEntries = 2
SPECIFICATION Spec
INVARIANTS
    ConsentIsTheLastWord
    ClosedIsGone
    ListedOnce
PROPERTIES
    ComesBackWhole
