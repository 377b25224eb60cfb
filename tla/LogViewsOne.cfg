CONSTANTS
    LogViews = {v1}
    OtherView = OtherView
    ChanCap = 1
    Slots = {}
    ReplaysTail = FALSE
    MaxRequests = 2
    MaxLines = 2
    MaxDepth = 3
SPECIFICATION Spec
INVARIANTS
    TypeOK
    OneMessageInTransit
    RunningRequestIsCancellable
PROPERTIES
    RemovedViewIsDisposed
    
