\* Crashes, expiry, sweeps and a browser refresh around an answered call.
SPECIFICATION Spec
CONSTANTS
    alice = alice
    bob = bob
    carol = carol
    a1 = a1
    b1 = b1
    b2 = b2
    c1 = c1
    Users <- PairUsers
    Sessions <- PairSessions
    UserOf <- PairUserOf
    Calls = {k1}
    RequestIds = {r1}
    Tasks = {t1, t2}
    None = None
    SentSignals = {"accept", "hangup"}
    TransferTargets = {}
    SentRequests <- AliceCallsBob
    Registrations <- BobRefreshes
    Neglected = {k1}
    Mortal = {t1}
INVARIANTS IInv HistoryAtMostOnce HangupNoticeIsTrue
CHECK_DEADLOCK FALSE
