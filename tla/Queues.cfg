SPECIFICATION Spec
CONSTANTS
    a1 = a1
    a2 = a2
    i1 = i1
    i2 = i2
    i3 = i3
    i4 = i4
    Jobs = {a1, i1, i2, i3, i4}
    ClassOf <- MCClassOf
    QueueCapacity = 3
    MaxWait <- ShortWait
SYMMETRY SameClass
INVARIANTS
    NoJobLost
    BoundedOvertaking
PROPERTIES
    ImplementsLine
CHECK_DEADLOCK FALSE
