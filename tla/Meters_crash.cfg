SPECIFICATION Spec
CONSTANTS
    Loops = {l1, l2}
    Concurrent = {1}
    Powers <- SomePowers
    DxMax = 1
    Invert = FALSE
    MayCrash = TRUE
    MaxTime = 2
    MaxBoots = 2
SYMMETRY Symmetry
INVARIANTS TypeOK GainBalanced FileNotAhead
