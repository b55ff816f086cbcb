\* Three calls on one file, of any tools.
CONSTANTS
    Callers = {c1, c2, c3}
    Paths = {p1}
    Cells = {k1, k2}
    NoCell = NoCell
    NoCaller = NoCaller
    Editor = Editor
    NoText = NoText
SPECIFICATION FSpec
PROPERTIES LostOnlyAcrossLocks PatchKeepsSeenSaves
SYMMETRY CallSymmetry
