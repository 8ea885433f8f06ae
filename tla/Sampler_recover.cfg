SPECIFICATION Spec
CONSTANTS
    Drivers <- DriverKinds
    WaitOf <- ShortWaits
    ErrMax = 2
INVARIANTS TypeOK WaitBounded
PROPERTIES ForgivingRecovers
