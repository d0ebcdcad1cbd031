SPECIFICATION Spec
CONSTANTS
    Queries = {q1, q2}
    Uploads = {u1, u2}
    q1 = q1
    q2 = q2
    u1 = u1
    u2 = u2
    FilesOf <- MCFilesOf
    ConfigFiles <- MCConfigFiles
    NotAMapping = NotAMapping
    Boot = Boot
    None = None
    MaxStops = 0
    MaxCalls = 2
    Order <- MCOrder
INVARIANT PipelineIsShared
CHECK_DEADLOCK FALSE
