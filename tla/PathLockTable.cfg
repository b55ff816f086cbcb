\* Three writers on two paths; three cells, so that a wrong release_all
\* has a second mutex to give to a path.
CONSTANTS
    Callers = {c1, c2, c3}
    Paths = {p1, p2}
    Cells = {k1, k2, k3}
    NoCell = NoCell
    NoCaller = NoCaller
SPECIFICATION FairSpec
INVARIANTS TypeOK MutualExclusion
PROPERTIES ImplementsPathLock WaitersAreServed
