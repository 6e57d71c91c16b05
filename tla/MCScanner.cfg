CONSTANTS
    Root = Root
    A = A
    f = f
    g = g
    Dot = Dot
    DotDot = DotDot
    Nodes <- MCNodes
    Parent <- MCParent
    Dirs = {Root, A}
    Dots = {Dot, DotDot}
    MaxRemovals = 1
SPECIFICATION Spec
INVARIANT ScanSound
