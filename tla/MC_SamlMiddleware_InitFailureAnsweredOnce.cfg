CONSTANTS
    Threads = {t1, t2, t3}
    MaxRestarts = 1
    Nil = Nil
SPECIFICATION Spec
SYMMETRY MCSymmetry
INVARIANT
    InitFailureAnsweredOnce
CHECK_DEADLOCK FALSE
