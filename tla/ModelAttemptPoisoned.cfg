SPECIFICATION Spec
CONSTANTS
    w1 = w1
    q1 = q1
    q2 = q2
    x = x
    y = y
    z = z
    id1 = id1
    None = None
    MaxRound = 1
    Work <- MCWork
    Request <- MCRequest
    Directive <- MCDirective
    Identity <- MCIdentity
    Usage <- MCUsage
INVARIANTS
    GenuineReturnNotPoisoned
