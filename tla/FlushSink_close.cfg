SPECIFICATION Spec
CONSTANTS
    p1 = p1
    p2 = p2
    p3 = p3
    Points <- ThreePoints
    QueueMax = 2
    BatchMax = 2
    Enabled = TRUE
PROPERTIES CloseEnds
CHECK_DEADLOCK FALSE
