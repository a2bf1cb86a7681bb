\* The production composition: workspace-execution.js lets one intent be in
\* flight, while the user edits viewports, plays, pauses and leaves.
SPECIFICATION FairSpec
CONSTANTS
    t1 = t1
    t2 = t2
    t3 = t3
    NoTx = NoTx
    Tx = {t1, t2}
    EndTx = {t2}
    SingleFlight = TRUE
    Faults = {"port", "paint", "repaint", "view", "write", "finalize", "save"}
    Inputs = {"edit", "play", "pause", "dispose"}
    MaxEdits = 2
INVARIANTS
    ChartAgreesAtRest
    RevisionsAccountForEdits
PROPERTIES
    EveryIntentSettles
CHECK_DEADLOCK FALSE
