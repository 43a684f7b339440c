SPECIFICATION Spec
CONSTANTS
    Targets = {f1}
    Severities = {high}
    Signatures = {}
    Tunnels = {}
    TopN = 1
    Day = 4
    Hours <- NineToFive
    Scenarios <- LateLogins
INVARIANT
    OverestimateOnlyBeforeHours
CHECK_DEADLOCK FALSE
