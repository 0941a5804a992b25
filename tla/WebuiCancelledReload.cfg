SPECIFICATION Spec
CONSTANTS
    a = a
    b = b
    Chats <- MCChats
    MaxSends = 1
    Grace = 1
    Cancelled = TRUE
    NONE = NONE
INVARIANTS
    RecoveryNotLost
