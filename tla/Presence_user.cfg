\* Two calls at a time, and two events after whatever was before.
SPECIFICATION FairSpec

CONSTANTS
    voice = voice
    video = video
    meeting = meeting
    n1 = n1
    k1 = k1
    None = None
    job = job
    t1 = t1
    t2 = t2
    ClaimIds = {voice, video, meeting}
    Moments = {1}
    Connections = {k1}
    Nodes = {n1}
    NodeOf <- MCNodeOf
    Claims <- EveryClaim
    Ongoing <- OneCall
    Calls = {t1, t2}
    ExpirationJob = job
    Clears = TRUE
    Flaky = {}
    Mortal = {n1}
    MaxEvents = 2

INVARIANTS
    TypeOK
    SettledStatus
    ClaimsFollowCalls

PROPERTIES
    ExpiryEndsOne
    ExpiredEnds
    ConnectedIsShown
    ClosedIsRemoved

CHECK_DEADLOCK FALSE
