CONSTANTS
    w1 = w1
    w2 = w2
    s1 = s1
    s2 = s2
    Web = {w1, w2}
    Submission = {s1, s2}
    MaxLives = 2
    NoRow = NoRow
    InQueue = InQueue
    Refused = Refused
SPECIFICATION FairSpec
INVARIANT TypeOK
INVARIANT VerdictIsOwn
INVARIANT ResultsFindTheirRow
INVARIANT ResultInOnePlace
PROPERTY LossesHaveCauses
PROPERTY ResultsLand
CHECK_DEADLOCK FALSE
