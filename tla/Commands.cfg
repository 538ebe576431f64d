\* Doctor and test, over files that are accepted and files that are not, and
\* test with every combination of its phases.
SPECIFICATION FairSpec
CONSTANTS
    Absent = Absent
    Missing = Missing
    v1 = v1
    v2 = v2
    Path <- MCPath
    Value <- MCValue
    SchemaPaths <- MCPath
    LikeBaseline <- MCLikeBaseline
    Invocations <- MCInvocations
    Responses <- MCResponses
    Exits <- MCExits
INVARIANTS
    TypeOK
    AcceptedRuns
    PassMeansRan
    PassMeansSame
    ExitMeaning
PROPERTIES
    Ends
CHECK_DEADLOCK FALSE
