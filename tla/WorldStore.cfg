SPECIFICATION WorldSpec
CONSTANTS
    a = a
    b = b
    d = d
    e = e
    c1 = c1
    c2 = c2
    begin = begin
    begin2 = begin2
    link = link
    back = back
    revise = revise
    early = early
    Floating = Floating
    None = None
    MaxWorld = 4
    BatchRows = 2
    Object <- MCObject
    Intent <- MCIntent
    Client <- MCClient
    Prunable <- MCPrunable
    KeyOf <- MCKeyOf
    OpOf <- MCOpOf
    Fresh <- MCFresh
    Writes <- MCWrites
SYMMETRY MCSymmetry
INVARIANTS
    WorldTypeOK
    OneEffectPerKey
    HistoryWhole
    CitationsHold
    DependenciesAcyclic
    LostAnswerRecoverable
PROPERTIES
    LogKept
