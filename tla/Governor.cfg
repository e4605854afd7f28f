CONSTANTS
    Sessions = {s1,s2,s3}
    Interval = 2
    FloodBase = 3
    MaxBackoff = 5
    DialTries = 3
SPECIFICATION FairSpec
INVARIANTS
    TypeOK
    NoOversleep
PROPERTIES
    AdmittedInTime
    WaitersAreServed
