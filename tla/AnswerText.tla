------------------------------ MODULE AnswerText ------------------------------
(***************************************************************************)
(* The text of an answer: the one that fallback_response builds of the plan   *)
(* and of the context (response.py), the one that the language model may write *)
(* instead, and what sanitize_response_memory (memory.py) leaves of either.    *)
(*                                                                         *)
(* A text is who wrote it, the questions it asks, the slots whose words it     *)
(* holds outside of a question, whether it gives the official link, and the    *)
(* facts that it was built of.                                             *)
(***************************************************************************)
EXTENDS AnswerPlan

Text(by, asks, due) ==
    [by |-> by, asks |-> asks, mentions |-> {}, due |-> due]

Built(asks, due) == { Text("built", asks, due) }

\* Questions of the code's own that ask for the requirement in other words than
\* the slot's: with the link, after a comparison, what the agent is to do after
\* answering (or which process to automate), and which action is needed first.
InOtherWords == {"answer_or_actions", "comparison", "after_answering", "first_action"}

\* The language model's question about a slot, in words of its own.
InOwnWords == [ business_type      |-> "own_business_type",
                main_channel       |-> "own_main_channel",
                pain_or_goal       |-> "own_pain_or_goal",
                action_requirement |-> "own_action_requirement" ]
OwnWords == { InOwnWords[key] : key \in SlotKeys }

\* What a question asks for.  "both" is the one of cta_rules; "other" stands for
\* any that is about no slot.
About(question) ==
    CASE question = "both" -> {"business_type", "main_channel"}
      [] question \in InOtherWords -> {"action_requirement"}
      [] question \in SlotKeys -> {question}
      [] OTHER -> { key \in SlotKeys : InOwnWords[key] = question }

\* The patterns of _response_asks_for_key know fixed phrases, those of the slots'
\* own questions, and none that asks the same in other words.
Recognised(question) == IF question \in SlotKeys \cup {"both"} THEN About(question) ELSE {}

-----------------------------------------------------------------------------
(***************************************************************************)
(* The built text (fallback_response).                                     *)
(***************************************************************************)

Key(end, other) == IF end.key = NoKey THEN other ELSE end.key

\* fallback_reference_response: two of the references have an answer of their
\* own, and any other one what the memory found of it.
ReferenceText(said) ==
    When(said \cap {"deposit_reference", "supplier_reference", "recalled"} # {},
         { Text("reference", {}, {}) })

\* The link goes with the minimal question when that takes the place of the
\* plan's (response_fulfillment_policy).
LinkText(lead, end, resisted) ==
    { Text("link",
           When(end.key \in BroadKeys \cup {NoKey}, {MinimalKey(lead, end, resisted)}),
           {"links"}) }

\* _objection_response: the playbook's question, or the words of the step.
ObjectionText(plan, facts) ==
    When("objection" \in facts, Built(IF plan.step = "provide_proof" THEN {} ELSE {"other"}, {}))

\* Without the products their prices cannot be told.
PricingText(facts) ==
    Built(IF "products" \in facts THEN {} ELSE {"action_requirement"}, {"products"})

\* _narrow_solution_response: the plan's question, or what action is needed first.
NarrowText(end) == Built({Key(end, "first_action")}, {})

\* recommend_product: the product of the plan with its prices, or nothing.
RecommendText(facts) == When("products" \in facts, Built({"action_requirement"}, {"products"}))

\* _selected_cta: the rule of the plan's call to action, the built question when
\* there is none.
CtaText(end) == Built(IF end.cta \in {"soft_close", "link"} THEN {} ELSE {"both"}, {})

\* The plan has a text before the topics of the message do.
PlanTexts(plan, facts) ==
    << When(plan.micro = "custom_scope", Built({"other"}, {})),
       When(plan.macro = "handoff_to_miguel", Built({}, {"handoff"})),
       When(plan.micro = "human_handoff", Built({}, {})),
       When(plan.macro = "direct_close", Built({}, {})),
       When(plan.macro = "handle_objection", ObjectionText(plan, facts)),
       When(plan.macro = "answer_unknown_safely", Built({"pain_or_goal"}, {})),
       When(plan.micro = "greet", Built({"entry_intent"}, {})) >>

\* The topics of the message, the call to action at last.
TopicTexts(plan, said, facts) ==
    LET explains == "platform_process" \in said \/ plan.macro = "explain_process"
        shown == said \cap {"demo", "demo_word"} # {}
    IN  << When(explains /\ shown, Built({}, {})),
           When(explains, Built({"other"}, {"steps"})),
           When(plan.micro = "channel", Built({Key(plan.end, "business_type")}, {})),
           When(plan.macro = "narrow_solution", NarrowText(plan.end)),
           When(plan.macro = "risk_reversal", Built({"other"}, {})),
           When("pricing" \in said, PricingText(facts)),
           When(\/ "competitor_comparison" \in said
                \/ plan.macro = "compare_alternative", Built({"comparison"}, {})),
           When(plan.macro = "persuade_value", Built({"business_type"}, {})),
           When(plan.micro = "not_available" \/ plan.macro = "soft_close",
                Built({IF plan.micro = "not_available" THEN "after_answering" ELSE "other"}, {})),
           When(plan.macro = "discover_need", Built({Key(plan.end, "pain_or_goal")}, {})),
           When(plan.macro = "recommend_solution", RecommendText(facts)),
           CtaText(plan.end) >>

\* linked: the policy says that the answer must give the link.
BuiltText(lead, plan, said, facts, linked, resisted) ==
    CHOOSE text \in
        First(<<ReferenceText(said), When(linked, LinkText(lead, plan.end, resisted))>>
              \o PlanTexts(plan, facts) \o TopicTexts(plan, said, facts)) : TRUE

-----------------------------------------------------------------------------
(***************************************************************************)
(* The model's text, and the sanitizer.                                    *)
(***************************************************************************)

\* What the language model may write: up to two questions, and the words of a
\* slot.  It is told what to ask and what not, and checked for the patterns
\* alone: it may ask about any slot, in their words or in words of its own, which
\* those of the link are when it uses them.
ModelQuestions ==
    LET slots == Slots \cup {"action_requirement"}
    IN  slots \cup { InOwnWords[key] : key \in slots } \cup {"other"}
ModelTexts ==
    { [by |-> "model", asks |-> asks, mentions |-> mentions, due |-> {}] :
        asks \in { q \in SUBSET ModelQuestions : Cardinality(q) <= 2 },
        mentions \in { {}, {"action_requirement"} } }

\* A text of the code's own is taken to ask nothing that is known.
SanitizedTextMutant(text, known) ==
    IF text.by # "model" \/ text.asks = {} THEN text
    ELSE [text EXCEPT !.asks = { q \in @ : Recognised(q) \cap known = {} }]

\* sanitize_response_memory.  The words of a known slot, in a text that asks
\* anything, bring the question of process or demo, after all that asks for a
\* known slot was taken out.
SanitizedText(text, known) ==
    LET words == text.mentions \cup UNION { Recognised(q) : q \in text.asks }
    IN  IF text.asks = {} \/ words \cap known = {} THEN text
        ELSE [text EXCEPT !.asks = { q \in @ : Recognised(q) \cap known = {} }
                                   \cup {"process_or_demo"}]
=============================================================================
