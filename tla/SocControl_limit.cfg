SPECIFICATION Spec
CONSTANTS
    Full = 5
    ChargeStop = 4
    ChargeStarts = {2, 4}
    Calibrate = TRUE
    UserActs = TRUE
    MaxBoots = 3
INVARIANTS TypeOK StopsAtLimit
PROPERTIES OverrideKept CalmEnforced
