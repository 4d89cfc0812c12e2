SPECIFICATION MCSpec
CONSTANTS
    m1 = m1
    m2 = m2
    m3 = m3
    c1 = c1
    c2 = c2
    Turns = {t1, t2, t3}
    Messages <- MCMessages
    NoMessage = NoMessage
    RecentRows = 2
    RingSize = 4
    Threads = {h1, h2}
    Clicks = {c1, c2}
    NoClick = NoClick
    EventOrder <- MCEventOrder
    Click <- MCClick
    MaxDeliveries = 2
    MaxLosses = 1
INVARIANTS
    OverlapPaid
    LossNeedsOverlap
    
    RecentIsTail
    AnsweredOnce
    ConversionsOnce
SYMMETRY Symmetry
CHECK_DEADLOCK FALSE
