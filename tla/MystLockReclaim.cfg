SPECIFICATION Spec
CONSTANTS
    p1 = p1
    p2 = p2
    p3 = p3
    Procs <- MCProcs
    Grace = 2
    MaxKills = 0
    PromptReclaim = FALSE
    NONE = NONE
SYMMETRY MCSymmetry
INVARIANTS
    NoOverlap
