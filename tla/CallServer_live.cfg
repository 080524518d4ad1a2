\* Who is told what in the end, with transfers and without crashes.
SPECIFICATION FairSpec
CONSTANTS
    alice = alice
    bob = bob
    carol = carol
    a1 = a1
    b1 = b1
    b2 = b2
    c1 = c1
    Users <- TrioUsers
    Sessions <- TrioSessions
    UserOf <- TrioUserOf
    Calls = {k1, k2}
    RequestIds = {r1}
    Tasks = {t1, t2}
    None = None
    SentSignals = {"accept", "transfer"}
    TransferTargets = {carol}
    SentRequests <- AliceCallsBob
    Registrations = {}
    Neglected = {}
    Mortal = {}
PROPERTIES TransferIsSettled  RequestIsAnswered
CHECK_DEADLOCK FALSE
