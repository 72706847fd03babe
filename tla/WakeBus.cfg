SPECIFICATION BusSpec
CONSTANTS
    steps = steps
    digest = digest
    diary = diary
    walked = walked
    ran = ran
    summed = summed
    recapped = recapped
    weekly = weekly
    noted = noted
    Scope = {steps, digest, weekly, diary}
    Signal = {walked, ran, summed, recapped, noted}
    ScopeOf <- MCScopeOf
    TimeOf <- MCTimeOf
    ClassOf <- MCClassOf
    Contract <- MCContract
    Cooldown <- MCCooldown
    BatchWindow = 1
    Emitters = 2
    MaxBundle = 2
    None = None
SYMMETRY Symmetry
INVARIANTS
    BusTypeOK
    OneLiveWakePerHit
    DeliveredOnce
PROPERTIES
    HitsSettledOnce
    HandledMeansShown
