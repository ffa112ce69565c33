SPECIFICATION Spec
CONSTANTS
    MaxBytes = 6
    PipeSize = 2
INVARIANTS NothingLeft OnlyWhole
PROPERTIES CallReturns
CHECK_DEADLOCK FALSE
