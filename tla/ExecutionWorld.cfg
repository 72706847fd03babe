SPECIFICATION ExecutionSpec
CONSTANTS
    None = None
    move = move
    errand = errand
    study = study
    check = check
    walk = walk
    lookout = lookout
    glance = glance
    call = call
    mail = mail
    seen = seen
    told = told
    notes = notes
    view = view
    boast = boast
    gist = gist
    w1 = w1
    w2 = w2
    Goal = {move}
    Task = {errand, study, check, walk, lookout, glance}
    Action = {call, mail}
    Evidence = {seen, told, notes, view, boast, gist}
    Worker = {w1, w2}
    Request <- MCRequest
    KindOf <- MCKindOf
    MembersOf <- MCMembersOf
    AboutTask <- MCAboutTask
    Plan <- MCPlan
SYMMETRY Symmetry
INVARIANTS
    ExecutionTypeOK
PROPERTIES
    LegalLives
    SubmittedInItsRun
    EndsAreEarned
CHECK_DEADLOCK FALSE
