CONSTANTS
    Ids = {i1, i2}
    Lines = {a, b}
    DefaultId = i1
    DefaultLine = a
    Window = 1
    Wrap = 3
    MaxLag = 1
    RevMod = 2
SPECIFICATION Spec
INVARIANTS TypeOK UndoExists TrialIsArmed BoundIsServed
PROPERTIES ImplementsTrial UnconfirmedResolves IdHeals
