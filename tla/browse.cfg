SPECIFICATION BrowseSpec
CONSTANTS
    Rows <- ThreeRows
    Ranges <- WholeOrLate
    Types = {"pr"}
    DefaultPerPage = 1
    MaxPerPage = 2
    RawPages <- PageNumbers
    RawSizes <- PageSizes
    None = None
    Failed = Failed
    CallsMayFail = TRUE
    MaxCalls = 2
    MaxChanges = 2
CHECK_DEADLOCK FALSE
INVARIANTS ViewFollowsListing ReposOfOwner PagesJoin
