SPECIFICATION Spec
CONSTANTS
    Full = 5
    ChargeStop = 4
    ChargeStarts = {2}
    Calibrate = TRUE
    UserActs = FALSE
    MaxBoots = 3
PROPERTIES LimitEnforced
