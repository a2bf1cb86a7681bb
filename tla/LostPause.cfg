\* The user pauses while a transaction is painting.
SPECIFICATION Spec
CONSTANTS
    t1 = t1
    t2 = t2
    t3 = t3
    NoTx = NoTx
    Tx = {t1, t2}
    EndTx = {}
    SingleFlight = TRUE
    Faults = {}
    Inputs = {"play", "pause"}
    MaxEdits = 0
PROPERTY
    OnlyUserStartsPlayback
CHECK_DEADLOCK FALSE
