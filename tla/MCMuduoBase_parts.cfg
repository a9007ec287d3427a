SPECIFICATION Spec
CONSTANTS
    kCheapPrepend = 1
    kInitialSize = 2
    ExtraSize = 3
    Bytes = {0, 1}
    IntSizes = {1, 2}
    MaxLen = 3
    MaxSize = 6
    RollSize = 4
    FlushInterval = 1
    CheckEveryN = 3
    RollPerSeconds = 3
    Lens = {1, 3}
    MaxNow = 7
    MaxBytes = 9
    Producers = {p1, p2, p3}
    Consumers = {c1, c2}
    Classes = {"pool", "bounded", "unbounded"}
    Sizes = {0, 1, 2}
    MaxTasks = 3
    BufferSize = 3
    LineLens = {1, 3}
    KeepLimit = 3
    MaxLines = 6
    FirstYear = 1900
    LastYear = 2100
    FirstJulianDay = 2415021
    FirstWeekday = 1
    TimeTYears <- MCYears
    TimesOfDay = {0, 1, 86399}
    Zones <- MCZones
    Step = 1800
    End = 800000
INVARIANT
    TimesAgree
PROPERTIES
    BufferKept
    LinesWritten
    LogRolls
    TasksTaken
CHECK_DEADLOCK FALSE
