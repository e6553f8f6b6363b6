SPECIFICATION Spec
CONSTANTS
    Names = {n1, n2}
    NSlots = 2
    NCtx = 2
    Setups <- MCSetups
    Overlap = FALSE
    MaxNews = 4
INVARIANT TypeOK
INVARIANT ContextOwned
INVARIANT BuffersOutlive
PROPERTY RemovalEnds
PROPERTY AbsentRemoved
PROPERTY PresentFound
