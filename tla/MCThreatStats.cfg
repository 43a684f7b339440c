SPECIFICATION Spec
CONSTANTS
    Targets = {f1, f2}
    Severities = {high, low}
    Signatures = {s1, s2, s3}
    Tunnels = {k1, k2}
    TopN = 1
    Day = 4
    Hours <- NineToFive
    Scenarios <- EveryScenario
SYMMETRY FleetSymmetry
INVARIANTS
    UndisturbedPollExact
    DownBracketed
    NumbersPossible
    TopListBounded
CHECK_DEADLOCK FALSE
