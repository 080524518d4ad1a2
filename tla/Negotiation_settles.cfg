\* One user puts the call on and off hold.
SPECIFICATION FairSpec

CONSTANTS
    MaxNegotiations = 5
    MaxToggles = 2
    Together = FALSE
    Tardy <- Both

INVARIANTS
    PeersAgree

PROPERTIES
    AgreementsAdvance
    FirstExchange
    CallerIsHeard

CHECK_DEADLOCK FALSE
