SPECIFICATION ReportsSpec
CONSTANTS
    Videos = {1, 2}
    Sessions = {1, 2, 3}
    LastDay = 3
    Month <- MCMonth
    PublishDay <- MCPublishDay
    NoName = 0
    AuthorOf <- MCAuthorOf
    LabelOf <- MCLabelOf
    Live <- MCLive
    Counts = {1, 2}
    PageSize = 1
    Listings = {"video", "live", "source", "search"}
    MaxImports = 3
    MaxLeft = 2
INVARIANTS
    ReportsTypeOK
    ReportsAgree
    
    SyncAddsUp
ACTION_CONSTRAINT OneReader
