CONSTANTS
    Interrupts = TRUE
    Failures = FALSE
    MaxLate = 0
    MaxTakes = 3
SPECIFICATION Spec
INVARIANT StoppedMeansClosed
