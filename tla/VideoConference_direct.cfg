\* A direct call is joined, left, cancelled, swept and expired at once.
SPECIFICATION Spec

CONSTANTS
    ClaimIds = {"video-conference"}
    Moments = {}
    None = None
    Users = {u1, u2}
    Calls = {k1}
    Direct = {k1}
    Reporters = {u2}
    Frozen = {u1}
    LongRunning = {k1}
    Tasks = {t1}
    Clock = clock
    Sweeper = sweeper
    MaxTimers = 1
    MaxCrashes = 0

INVARIANTS
    TypeOK
    
    

CHECK_DEADLOCK FALSE
