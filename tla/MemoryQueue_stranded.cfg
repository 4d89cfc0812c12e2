SPECIFICATION MCSpec
CONSTANTS
    m1 = m1
    m2 = m2
    m3 = m3
    m4 = m4
    l1 = l1
    l2 = l2
    w1 = w1
    w2 = w2
    NoLead = NoLead
    Messages <- MCMessages
    Leads <- MCLeads
    LeadOf <- MCLeadOf
    Workers = {w1, w2}
    Window = 1
    Slack = 1
    Backoff = 1
    Horizon = 3
PROPERTIES
    EveryMessageRuns
CHECK_DEADLOCK FALSE
