CONSTANTS
    Uses = {"judge", "import"}
    Expected = 1
    Limit = 2
    PipeSize = 2
    MaxOutput = 4
SPECIFICATION FairSpec
INVARIANT VerdictIsDeserved
 
INVARIANT NothingRunsOn
PROPERTY RunsEnd
CHECK_DEADLOCK FALSE
