SPECIFICATION ThreadsSpec
CONSTANTS
    pri = pri
    Display = {pri}
    MaxCount = 3
    FencesFail = TRUE
    MaxPosts = 2
    Client = {c1, c2}
    Nobody = nobody
    Handle = {h1}
    Main = main
    Externals = {ext}
    Virtual = vir
    EmptiesFirst = TRUE
INVARIANTS EarlierFramesWritten ClientsApart NothingLeft KnownArePlugged
INVARIANTS NoLostSignal SpecialByDevice
PROPERTIES ShortDumpCompletes TimerAnswers
CHECK_DEADLOCK FALSE
