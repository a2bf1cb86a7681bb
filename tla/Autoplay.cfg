\* Autoplay, Next clicks, navigation and history requests over a replay range
\* of three bars.
SPECIFICATION FairSpec
CONSTANTS
    End = 3
    MaxInputs = 6
INVARIANTS
    OneCadence
    ActiveCadenceHasNextTick
PROPERTIES
    StepsOnlyAfterPlay
    NextIsNeverDropped
    NextsAreTaken
    AutoplayEnds
CHECK_DEADLOCK FALSE
