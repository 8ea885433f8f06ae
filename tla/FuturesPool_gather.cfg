SPECIFICATION Spec
CONSTANTS
    sampler = sampler
    commands = commands
    cells = cells
    status = status
    Callers <- Both
    Names = {cells, status}
    Requests <- JkRequests
    Patient = TRUE
    MaxFutures = 2
PROPERTIES ImplementsRequestReply
