SPECIFICATION Spec
CONSTANTS
    Drivers <- AllDrivers
    Ttl = 2
    Expiry = 2
    MaxCommands = 2
    MaxChanges = 1
    MaxLost = 1
INVARIANTS TypeOK CatchesUp CommandsHold SilentIsNotSampled
PROPERTIES CommandsEnd
