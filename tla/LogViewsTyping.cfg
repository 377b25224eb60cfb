CONSTANTS
    LogViews = {v1}
    OtherView = OtherView
    ChanCap = 1
    Slots = {}
    ReplaysTail = FALSE
    MaxRequests = 1
    MaxLines = 2
    MaxDepth = 2
SPECIFICATION FairSpec
PROPERTIES
    StreamedLineIsShown
