\* A cancel while a message is sent.
SPECIFICATION FairSpec
CONSTANTS
    N = 2
    SavePeriod = 2
    Cancels = {x1}
PROPERTY CancelledStays
