SPECIFICATION FairSpec
CONSTANTS
    pri = pri
    ext = ext
    Display = {pri, ext}
    MaxCount = 2
    FencesFail = TRUE
PROPERTIES TriggerReturns
