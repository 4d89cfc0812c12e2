------------------------------ MODULE AnswerPlan ------------------------------
(***************************************************************************)
(* What an answer is to be and what it is given: the cases of the sales plan   *)
(* in the order of the code (planners.py, SalesPolicyPlanner._plan_state), the  *)
(* knowledge plan that a plan calls for (KnowledgePlanner), and the facts that   *)
(* the context of the answer has after they were fetched (graph.py,            *)
(* response.py).  The documents of the retrieval are left out: no text of the   *)
(* code's own is built of them.                                            *)
(*                                                                         *)
(* DiscoveryPlan has the profile and the ends of the plans.  What else decides   *)
(* a plan is a set of points: what the analyzer and the words of the message     *)
(* say, and what earlier turns left that is not in the profile.                *)
(***************************************************************************)
EXTENDS DiscoveryPlan, FiniteSetsExt, Sequences

CONSTANT Combined  \* bound: the sets of two points and more that are considered

\* The intents that decide anything; a turn has one.  "other_question" is one of
\* the process, a policy, an integration or a comparison.
PrimaryIntents ==
    { "greeting", "pricing_question", "channel_question", "product_scope_question",
      "product_recommendation_question", "industry_fit_question", "other_question",
      "unknown" }

\* Topics, one for each effect: "deposit" stands for the topics of a risk,
\* "token_usage" for those of a policy that are none, "industry_use_case" for
\* business_fit too.
Topics ==
    { "pricing", "platform_process", "onboarding", "demo", "competitor_comparison",
      "industry_use_case", "deposit", "token_usage" }

\* Words of the message, and the products it names.
Words ==
    { "pay_to_start", "start", "demo_word", "policy", "instagram", "two_products",
      "deposit_reference", "supplier_reference", "recalled" }

\* Objections, purchases and what was said before.  An objection without_playbook
\* has a type that the playbook has no entry for.
Circumstances ==
    { "hard_objection", "objection_continues", "objection_resolved", "without_playbook",
      "discovering", "recommended", "interested", "existing_client",
      "post_purchase", "deposit_confirmed", "dental" }

Points == PrimaryIntents \cup Topics \cup Words \cup Circumstances

\* The sets of points of a turn: none, one, or several that are combined.
PointSets == { {} } \cup { {point} : point \in Points } \cup Combined

ASSUME CombinedAssumption ==
    /\ Combined \subseteq SUBSET Points
    /\ \A said \in Combined : Cardinality(said \cap PrimaryIntents) <= 1

-----------------------------------------------------------------------------
(***************************************************************************)
(* The sales plan.                                                         *)
(***************************************************************************)

\* A plan: its macro action, the micro action where one matters, the step of an
\* objection, and the end.
Plan(macro, micro, step, end) == [macro |-> macro, micro |-> micro, step |-> step, end |-> end]

OfMacro(macro, end) == {Plan(macro, "other", "none", end)}

OfMicro(macro, micro, end) == {Plan(macro, micro, "none", end)}

\* The step of a live objection follows its earlier one and the words of the
\* message; one of another type takes its place.
ObjectionSteps == {"ask_open_question", "clarify_value", "tie_solution", "provide_proof",
                   "resolved"}

Objecting(steps) ==
    { Plan("handle_objection", "other", step, Ends("objection", "other", NoKey)) : step \in steps }

\* Intents that are answered at once, whatever objection is pending.
Interrupting ==
    {"pricing_question", "channel_question", "product_scope_question", "other_question"}

\* ... and those that are answered once it is resolved.
Resuming == Interrupting \cup {"product_recommendation_question", "industry_fit_question"}

Continues(t, said) ==
    /\ "objection_continues" \in said
    /\ \/ "hard_objection" \in said
       \/ t.start
       \/ said \cap Interrupting = {}

\* Whatever product the lead needs.
MayCloseMutant(lead, t, said) ==
    /\ t.start /\ lead.chosen # None
    /\ ~t.flagged
    /\ said \cap {"hard_objection", "objection_continues"} = {}

\* can_direct_close.  Of the mismatches only the one with the requirements of the
\* profile, which scope_flags tell, keeps the lead from the close.
MayClose(lead, t, said) ==
    /\ t.start /\ lead.chosen # None
    /\ PlannerFit(lead, t) \in {"unknown", lead.chosen}
    /\ ~t.flagged
    /\ said \cap {"hard_objection", "objection_continues"} = {}

\* _is_first_touch_greeting.  met: a turn of the lead was completed before.
FirstGreeting(lead, said, met) ==
    /\ "greeting" \in said /\ ~met
    /\ said \cap Topics = {}
    /\ MayGreet(lead, [start |-> FALSE])

\* Asked by those questions even when the requirement is known.
MustDiscoverMutant(lead, t, said) ==
    \/ said \cap {"product_recommendation_question", "product_scope_question"} # {}
    \/ ~PlannerKnowsNeed(lead, t) /\ "pain_or_goal" \in lead.slots

\* _must_discover_action_requirement.  discovering: the stage is one of discovery.
MustDiscover(lead, t, said) ==
    /\ ~PlannerKnowsNeed(lead, t)
    /\ \/ said \cap {"product_recommendation_question", "product_scope_question"} # {}
       \/ /\ "pain_or_goal" \in lead.slots
          /\ \/ lead.slots \cap {"business_type", "main_channel"} # {}
             \/ "discovering" \in said

\* A point of the past takes a past.
Earlier ==
    { "objection_continues", "objection_resolved", "discovering", "recommended",
      "existing_client", "recalled" }

When(condition, set) == IF condition THEN set ELSE {}

\* The first case that holds, or nothing.
First(cases) ==
    LET holding == { n \in DOMAIN cases : cases[n] # {} }
    IN  IF holding = {} THEN {} ELSE cases[Min(holding)]

\* Support, objections, the close and the greeting, in their order; a case that
\* does not hold has no plan.
FirstCases(lead, t, said, met) ==
    LET has(point) == point \in said
    IN  << When(has("post_purchase") /\ ~has("deposit_confirmed"),
                OfMicro("explain_process", "human_handoff", Ends("none", "other", NoKey))),
           When(has("post_purchase") \/ has("existing_client"),
                OfMacro("handoff_to_miguel", Redirect)),
           When(/\ has("objection_resolved") /\ ~has("hard_objection") /\ ~t.start
                /\ said \cap Resuming = {},
                { Plan("handle_objection", "other", "resolved", SoftAnswer) }),
           When(Continues(t, said), Objecting(ObjectionSteps)),
           When(has("hard_objection"), Objecting({"ask_open_question"})),
           When(MayClose(lead, t, said),
                OfMacro("direct_close", Ends("direct_close", "other", NoKey))),
           When(FirstGreeting(lead, said, met),
                OfMicro("answer_and_advance", "greet", Ends("soft", "other", "entry_intent"))) >>

\* _unsupported_channel_plan, and the answer to a question of the channels.
ChannelPlan(end) == OfMicro("answer_and_advance", "channel", end)

\* _narrow_microaction, whatever is known of the requirement; a comparison of two
\* products ends with what is missing first.
NarrowPlan(cta, key) == OfMicro("narrow_solution", "differentiate", Ends(cta, "other", key))

\* The products that are not sold, and what is answered on the spot.
ExactCases(lead, t, said) ==
    LET missing == MissingKey(lead, t)
        has(point) == point \in said
        fit == PlannerFit(lead, t)
        soft == Ends("soft", "other", missing)
    IN  << When(fit = "unavailable", OfMicro("recommend_solution", "not_available", SoftAnswer)),
           When(fit = "custom", OfMicro("handoff_to_miguel", "custom_scope", Redirect)),
           When(has("pricing_question"), OfMacro("answer_and_advance", soft)),
           When(has("channel_question"), ChannelPlan(soft)),
           When(has("product_scope_question") /\ lead.need # "external_actions_required",
                OfMacro("answer_and_advance", soft)),
           When(has("instagram"), ChannelPlan(soft)),
           When(has("deposit"), OfMacro("risk_reversal", SoftAnswer)),
           When(said \cap {"platform_process", "onboarding"} # {},
                OfMacro("explain_process", Ends("next_step", "other", NoKey))),
           When(has("competitor_comparison") /\ has("two_products"),
                NarrowPlan(IF missing = NoKey THEN "soft" ELSE "discovery", missing)),
           When(has("competitor_comparison"),
                OfMacro("compare_alternative", Ends("discovery", "other", missing))) >>

\* _default_recommendation_microaction: Hibrido for those who need actions, and
\* Captura for all others.
DefaultProduct(lead, t) ==
    IF PlannerFit(lead, t) = "hibrido" \/ lead.need = "external_actions_required"
    THEN "hibrido" ELSE "captura"

\* _recommendable_product_fit: none when the lead named another.
Recommendable(lead, t) == IF t.clash THEN "unknown" ELSE PlannerFit(lead, t)

\* Recovery, discovery, recommendation and what comes after it.
LateCases(lead, t, said) ==
    LET missing == MissingKey(lead, t)
        has(point) == point \in said
        fit == PlannerFit(lead, t)
        discover(key) == OfMacro("discover_need", Discovery(key))
        default == OfMicro("recommend_solution", DefaultProduct(lead, t),
                           Ends("soft_close", "other", NoKey))
    IN  << When(has("unknown") /\ MayRecover(lead, t),
                OfMacro("answer_unknown_safely", Ends("soft", "other", "automation_need"))),
           When(MustDiscover(lead, t, said), discover("action_requirement")),
           When(t.clash, NarrowPlan("discovery", "action_requirement")),
           When(~has("recommended") /\ Recommendable(lead, t) \in Available,
                OfMicro("recommend_solution", Recommendable(lead, t), Link)),
           When(/\ ~has("recommended") /\ lead.need # "unknown"
                /\ has("product_recommendation_question"), default),
           When(missing # NoKey, discover(missing)),
           When(has("interested") /\ has("recommended") /\ fit \in Available
                /\ said \cap {"objection_continues", "objection_resolved"} = {},
                OfMacro("soft_close", Link)),
           When(said \cap {"industry_use_case", "demo"} # {},
                OfMacro("persuade_value", SoftAnswer)),
           default >>

\* The plans of the first case that holds, finalized.
Plans(lead, t, said, met) ==
    LET first == First(FirstCases(lead, t, said, met))
        exact == First(ExactCases(lead, t, said))
        plans == IF first # {} THEN first
                 ELSE IF exact # {} THEN exact ELSE First(LateCases(lead, t, said))
    IN  { [plan EXCEPT !.end = Finalized(lead, plan.end)] : plan \in plans }

-----------------------------------------------------------------------------
(***************************************************************************)
(* The knowledge plan.                                                     *)
(***************************************************************************)

\* The link is not looked up for the answer that must give it.
NeedsMutant(plan, said, linked) ==
    LET closing == plan.macro = "direct_close"
    IN  {"product_fit"}
        \cup (IF closing \/ said \cap {"pricing", "pay_to_start"} # {}
              THEN {"product_pricing"} ELSE {})
        \cup (IF \/ plan.macro \in {"direct_close", "explain_process"}
                 \/ said \cap {"platform_process", "onboarding", "start"} # {}
              THEN {"platform_steps"} ELSE {})

\* _knowledge_needs.  linked: the answer must give the link.  The fit of the
\* product is always needed: the profile has a class of requirements, be it
\* "unknown".
Needs(plan, said, linked) ==
    LET closing == plan.macro = "direct_close"
    IN  {"product_fit"}
        \cup (IF closing \/ said \cap {"pricing", "pay_to_start"} # {}
              THEN {"product_pricing"} ELSE {})
        \cup (IF closing \/ said \cap {"policy", "deposit", "token_usage"} # {}
              THEN {"official_policy"} ELSE {})
        \cup (IF \/ plan.macro \in {"direct_close", "explain_process"}
                 \/ said \cap {"platform_process", "onboarding", "start"} # {}
              THEN {"platform_steps"} ELSE {})
        \cup (IF linked THEN {"official_app_link", "platform_steps"} ELSE {})

\* structured_sources: the tables to read.
Tables(plan, needs) ==
    LET named ==
            When(plan.macro = "handle_objection" \/ needs \cap {"product_pricing", "product_fit"} # {},
                 {"products"})
            \cup When(\/ plan.macro \in {"handle_objection", "risk_reversal"}
                      \/ "official_policy" \in needs, {"policies"})
            \cup When(needs \cap {"platform_steps", "official_app_link"} # {}, {"links"})
        telling == {"answer_and_advance", "recommend_solution", "narrow_solution",
                    "persuade_value", "soft_close"}
    IN  named \cup When(named = {} /\ plan.macro \in telling, {"products"})

\* json_sources: the playbooks.
Playbooks(plan, needs) ==
    When(\/ plan.macro = "risk_reversal"
         \/ needs \cap {"platform_steps", "official_app_link"} # {}, {"steps"})
    \cup When(plan.macro = "handle_objection", {"objection"})
    \cup When(plan.macro = "handoff_to_miguel", {"handoff"})

\* KnowledgePlanner.plan
Sources(plan, said, linked) ==
    LET needs == Needs(plan, said, linked)
    IN  Tables(plan, needs) \cup Playbooks(plan, needs)

\* What the nodes find: each of the sources, but for an objection that the
\* playbook does not have.
Fetched(sources, said) == sources \ When("without_playbook" \in said, {"objection"})

\* Of the tables, the context has what was found (_compact_official_facts).
OfficialFacts(fetched) == fetched \cap {"products", "policies", "links"}

\* Of the playbooks, those of the objection, the process and the handoff; the
\* others hold wording (_compact_playbook_instruction).
PlaybookFacts(fetched) == fetched \cap {"objection", "steps", "handoff"}

\* What the context of the answer holds of all that was fetched for its plan.
ContextFacts(plan, said, linked) ==
    LET fetched == Fetched(Sources(plan, said, linked), said)
    IN  OfficialFacts(fetched) \cup PlaybookFacts(fetched)
=============================================================================
