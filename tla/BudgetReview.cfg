SPECIFICATION BudgetSpec
CONSTANTS
    digest = digest
    brief = brief
    memo = memo
    chat = chat
    w1 = w1
    w2 = w2
    Background = {digest, brief}
    Object = {memo, chat}
    Worker = {w1, w2}
    NoPolicy = NoPolicy
    Policy <- MCPolicy
    MaxRounds = 2
    MaxAttempts = 1
    PageSize = 1
    Interval = 1
    Lag = 1
    DayLength = 2
    MaxTime = 3
    MaxReviews = 3
    MaxMetered = 2
    Shape <- MCShape
SYMMETRY Symmetry
INVARIANTS
    BudgetTypeOK
    DayWithinCap
    
PROPERTIES
    GrantFits
CHECK_DEADLOCK FALSE
