\* Both users put the call on and off hold.
SPECIFICATION Spec

CONSTANTS
    MaxNegotiations = 6
    MaxToggles = 3
    Together = TRUE
    Tardy <- Nobody

INVARIANTS
    TypeOK
    AnswerFollowsOffer
    AgreedIsRecorded
    AsksInPosition

CHECK_DEADLOCK FALSE
