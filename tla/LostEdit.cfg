\* The user moves a viewport while a transaction is being prepared.
SPECIFICATION Spec
CONSTANTS
    t1 = t1
    t2 = t2
    t3 = t3
    NoTx = NoTx
    Tx = {t1, t2}
    EndTx = {}
    SingleFlight = TRUE
    Faults = {}
    Inputs = {"edit"}
    MaxEdits = 1
INVARIANT
    CommitsKeepViewportEdits
CHECK_DEADLOCK FALSE
