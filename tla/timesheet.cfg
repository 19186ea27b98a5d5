SPECIFICATION DocumentsSpec
CONSTANTS
    Inputs <- TimesheetInputs
    GapSeconds = 4
    LeadInSeconds = 1
    SecondsPerMinute = 2
    MinutesPerDay = 3
    SecondsPerHour = 4
    Unit = 12
    GridSize = 4
    Absent = Absent
    Empty = Empty
    NotText = NotText
CHECK_DEADLOCK FALSE
INVARIANTS SessionsAreClusters OffTimeExact BuiltinTotals BadStepStopsAll
    ExportIsDocument CopyRunsAlike
