SPECIFICATION MCSpec
CONSTANTS
    m1 = m1
    m2 = m2
    m3 = m3
    m4 = m4
    l1 = l1
    l2 = l2
    w1 = w1
    w2 = w2
    NoLead = NoLead
    Messages <- MCMessages
    Leads <- MCLeads
    LeadOf <- MCLeadOf
    Workers = {w1, w2}
    Window = 2
    Slack = 1
    Backoff = 1
    Horizon = 5
INVARIANTS
    Accounted
    OneRunPerLead
    InOrder
    WindowComplete
PROPERTIES
    ImplementsPromise
    RunOrStranded
CHECK_DEADLOCK FALSE
