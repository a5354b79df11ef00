SPECIFICATION Spec
CONSTANTS
    VMs = {main, a, b}
    Main = main
    MaxAtExit = 2
INVARIANTS
    JoinAlwaysEnds
SYMMETRY Symmetry
