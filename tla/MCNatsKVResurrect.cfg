CONSTANTS
    Keys = {k1, k2}
    Users = {u1}
    Owner <- MCOwner
    Watches = {w1}
    Closers = {c1}
    Prefetch = 3
    None = None
SPECIFICATION Spec
INVARIANTS ClosedIsFinal
