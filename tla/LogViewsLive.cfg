CONSTANTS
    LogViews = {v1}
    OtherView = OtherView
    ChanCap = 1
    Slots = {1}
    ReplaysTail = TRUE
    MaxRequests = 1
    MaxLines = 3
    MaxDepth = 3
SPECIFICATION FairSpec
PROPERTIES
    BufferedMessageIsShown
    CancelledRequestWindsDown
