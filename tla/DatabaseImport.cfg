\* Three uploads, one of them rejected, three faults.
SPECIFICATION Spec
CONSTANTS
    u1 = u1
    u2 = u2
    u3 = u3
    Upload <- MCUpload
    Valid <- MCValid
    None = None
    Foreign = Foreign
    MaxFaults = 3
INVARIANTS
    TypeOK
    OneActiveImport
    ActiveIsValidated
    ActivationIsFinal
    FinishedLeavesNothing
PROPERTIES
    TargetIsNeverReplaced
CHECK_DEADLOCK FALSE
