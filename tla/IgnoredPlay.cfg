\* Play, clicked while the timer of a cadence that navigation paused is still
\* running, is ignored.
SPECIFICATION Spec
CONSTANTS
    End = 3
    MaxInputs = 3
PROPERTY
    PlayPublishesPlaying
CHECK_DEADLOCK FALSE
