SPECIFICATION Spec
CONSTANTS
    Devices = {d1, d2, d3}
    MaxTargets = 3
    Deadline = 5
    MaxResolve = 2
    MaxSearch = 4
SYMMETRY DeviceSymmetry
INVARIANTS
    EveryDeviceAccounted
    SearchedAtMostOnce
    NotFoundWasAsked
CHECK_DEADLOCK FALSE
