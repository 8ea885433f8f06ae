SPECIFICATION Spec
CONSTANTS
    sampler = sampler
    commands = commands
    cells = cells
    status = status
    Callers <- Both
    Names = {status}
    Requests <- OneName
    Patient = FALSE
    MaxFutures = 4
INVARIANTS TypeOK FreshAnswer PendingHasOwner
PROPERTIES ImplementsRequestReply
