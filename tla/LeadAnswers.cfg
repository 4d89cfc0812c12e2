\* One requirement of each kind, two products that can be named and one slot, as
\* in lead_conversation but for one external action; the points of a turn one by
\* one and in the pairs that the cases of the planner tell apart; the limits of
\* the message parts to scale.
CONSTANTS
    Informational = {"answer_customer_questions"}
    Persuading = {}
    External = {"unknown_external_action"}
    Counts = {3}
    Recognized = {"answer_customer_questions"}
    Mentionable = {"hibrido", "ventas"}
    Slots = {"business_type"}
    MaxAspects = 1
    MaxPackets = 1
    Combined = {
        {"post_purchase", "deposit_confirmed"}, {"objection_continues", "pricing_question"},
        {"objection_continues", "without_playbook"}, {"hard_objection", "without_playbook"},
        {"objection_resolved", "product_recommendation_question"},
        {"competitor_comparison", "two_products"}, {"pricing_question", "pricing"},
        {"product_recommendation_question", "recommended"}, {"interested", "recommended"},
        {"pricing", "deposit_reference"}, {"platform_process", "demo"}, {"deposit", "pricing"}
    }
    SoftLimit = 6
    HardLimit = 10
    MinChars = 5
    Lengths = {1, 5, 11}
    MaxLength = 2

SPECIFICATION MCSpec

INVARIANTS  NeverShortOfFacts ClosesWithLink SendsWhole
PROPERTY ImplementsConversation
