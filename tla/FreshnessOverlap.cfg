\* Two index attempts over one file.
SPECIFICATION FairSpec
CONSTANTS
    Crawls = {1, 2}
    MaxVersion = 2
    MaxFaults = 1
INVARIANT SkipIsSafe
CHECK_DEADLOCK FALSE
