CONSTANTS
    e1 = e1
    e2 = e2
    Entry = {e1, e2}
    MaxCalls = 2
SPECIFICATION FairSpec
INVARIANT TypeOK
INVARIANT OutOfStepStays
INVARIANT NamesAreNames
PROPERTY CallSpec
PROPERTY CallsEnd
