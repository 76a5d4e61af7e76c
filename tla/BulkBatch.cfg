\* Three messages, saved every two, and two cancel calls.
SPECIFICATION FairSpec
CONSTANTS
    N = 3
    SavePeriod = 2
    Cancels = {x1, x2}
INVARIANTS TypeOK ResultsMatchCounts ClaimsNoMore ProgressAddsUp CompletedMeansTried
PROPERTIES Promised Ends
