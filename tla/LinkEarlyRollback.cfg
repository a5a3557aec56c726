CONSTANTS
    Ids = {i1, i2}
    Lines = {a, b}
    DefaultId = i1
    DefaultLine = a
    Window = 2
    Wrap = 4
    MaxLag = 1
    RevMod = 1
SPECIFICATION Spec
PROPERTY RollbackOnlyAfterWindow
