CONSTANTS
    Browsers = {b1, b2}
    Threads = {t1, t2, t3, t4}
    MaxAuthn = 2
    MaxRestarts = 1
    Nil = Nil
SPECIFICATION Spec
SYMMETRY MCSymmetry
INVARIANTS
    AcsFailsClosed
CHECK_DEADLOCK FALSE
