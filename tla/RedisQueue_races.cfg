SPECIFICATION MCSpec
CONSTANTS
    l1 = l1
    NoLead = NoLead
    m1 = m1
    m2 = m2
    Messages <- MCMessages
    Leads = {l1}
    LeadOf <- MCLeadOf
    Workers = {w1, w2}
    MaxFaults = 1
INVARIANTS
    OneRunPerLead
    RunOnce
PROPERTIES
    LossNeedsRaceOrFault
    RunOrLost
    ImplementsPromise
