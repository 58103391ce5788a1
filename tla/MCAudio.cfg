CONSTANTS
    Interrupts = TRUE
    Failures = TRUE
    MaxLate = 2
    MaxTakes = 6
SPECIFICATION Spec
INVARIANTS
    TypeOK
    NeverBoth
    RunningCanBeStopped
    ButtonsAreRight
PROPERTIES
    RecordComesBack
