SPECIFICATION CognitionSpec
CONSTANTS
    meal = meal
    nap = nap
    mood = mood
    habit = habit
    trip = trip
    visit = visit
    tact = tact
    day = day
    week = week
    digest = digest
    monday = monday
    tuesday = tuesday
    w1 = w1
    w2 = w2
    Reality = {meal, nap}
    Claim = {mood, habit}
    Event = {trip, visit}
    Policy = {tact}
    Window = {day, week, digest}
    Turn = {monday, tuesday}
    TurnOf <- MCTurnOf
    Scope <- MCScope
    Worker = {w1, w2}
    Plan <- MCPlan
INVARIANTS
    CognitionTypeOK
    NothingCorrectedIsShown
PROPERTIES
    CorrectionReaches
    PoliciesAreLearned
    
CHECK_DEADLOCK FALSE
