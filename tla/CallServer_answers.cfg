\* Every kind of signal but a transfer, from two competing sessions of the callee.
SPECIFICATION Spec
CONSTANTS
    alice = alice
    bob = bob
    carol = carol
    a1 = a1
    b1 = b1
    b2 = b2
    c1 = c1
    Users <- PairUsers
    Sessions <- PairSessions
    UserOf <- PairUserOf
    Calls = {k1}
    RequestIds = {r1}
    Tasks = {t1, t2}
    None = None
    SentSignals = {"ack", "accept", "reject", "unavailable", "hangup", "another-client", "error", "service-error", "local-active", "other"}
    TransferTargets = {}
    SentRequests <- AliceCallsBob
    Registrations = {}
    Neglected = {}
    Mortal = {}
SYMMETRY TaskSymmetry
INVARIANTS TypeOK AcceptedNoticeNamesWinner RecordConsistent
PROPERTIES EndIsFinal ImplementsLifecycle
CHECK_DEADLOCK FALSE
