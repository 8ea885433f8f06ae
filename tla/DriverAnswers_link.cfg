SPECIFICATION Spec
CONSTANTS
    Drivers <- AllDrivers
    Forwarding <- Both
    PortMax = 3
    MaxFaults = 2
INVARIANTS TypeOK WholeAnswers AnswerFits
PROPERTIES Recovers
