SPECIFICATION TurnFairSpec
CONSTANTS
    w1 = w1
    p1 = p1
    p2 = p2
    i1 = i1
    i2 = i2
    q1 = q1
    c0 = c0
    c1 = c1
    f2 = f2
    None = None
    Blank = Blank
    MaxRound = 2
    RoundBudget = 2
    Work <- MCWork
    Proc <- MCProc
    Input <- MCInput
    Request <- MCRequest
    Directive <- MCDirective
    Final <- MCFinal
    Identity <- MCIdentity
    Usage <- MCUsage
    Reply <- MCReply
INVARIANTS
    TurnTypeOK
    RoundsInOrder
    OutputBacked
PROPERTIES
    AnswerIsFinal
    RetryOnlyOnProof
    LedgerKept
    EveryCallEnds
