SPECIFICATION FairSpec
CONSTANTS
    Queries = {q1, q2}
    Uploads = {u1, u2}
    q1 = q1
    q2 = q2
    u1 = u1
    u2 = u2
    FilesOf <- MCFilesOf
    ConfigFiles <- MCConfigFiles
    NotAMapping = NotAMapping
    Boot = Boot
    None = None
    MaxStops = 1
    MaxCalls = 3
    Order <- MCOrder
INVARIANTS
    TypeOK
    ReportedIsIndexed
    SpinnerMeansPending
    SerialScreenIsLast
PROPERTY AcceptedAreAnswered
CHECK_DEADLOCK FALSE
