SPECIFICATION Spec
CONSTANTS
    Names = {n1}
    NSlots = 1
    NCtx = 1
    Setups <- MCSavingSetups
    Overlap = FALSE
    MaxNews = 2
PROPERTY AbsentRemoved
\* The threads wait for each other: that is what the run shows.
CHECK_DEADLOCK FALSE
