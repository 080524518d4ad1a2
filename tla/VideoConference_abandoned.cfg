\* Windows close without a word or freeze, and an instance dies.
SPECIFICATION FairSpec

CONSTANTS
    ClaimIds = {"video-conference"}
    Moments = {}
    None = None
    Users = {u1, u2}
    Calls = {k1}
    Direct = {}
    Reporters = {}
    Frozen = {u1}
    LongRunning = {}
    Tasks = {t1}
    Clock = clock
    Sweeper = sweeper
    MaxTimers = 1
    MaxCrashes = 1

PROPERTIES
    AbandonedMemberLeaves
    SilentCallEnds

CHECK_DEADLOCK FALSE
