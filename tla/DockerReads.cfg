SPECIFICATION ReadsSpec
CONSTANTS
    LogTail = 4
    LabelTexts <- MCLabelTexts
    TrimmedLabel <- MCTrimmedLabel
    BadLabels = {"=b"}
    NoLabel = ""
    MillisPerSecond = 2
    PageSize = 2
    MaxPageSize = 3
    MaxUntil = 3
    MaxMillis = 2
    MaxLines = 4
INVARIANTS
    NothingLost
    ShownOnce
    GatewayAgrees
CHECK_DEADLOCK FALSE
