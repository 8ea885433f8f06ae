SPECIFICATION Spec
CONSTANTS
    Options <- AllOptions
    Members = {a, b}
    Half = 2
    DiscoverPeriod = 6
    MeterPeriod = 3
    AgainAbove = 0
    Cap = 9
    MaxFaults = 1
INVARIANTS TypeOK KeepsAlive Averages Fresh OutageForgotten
PROPERTIES Shows
