SPECIFICATION Spec
CONSTANTS
    Scanners = {s1, s2}
    MaxAttempts = 2
    MaxMessages = 2
    MaxFaults = 0
PROPERTY
    NoneAfterReply
CHECK_DEADLOCK FALSE
