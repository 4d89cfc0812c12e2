------------------------- MODULE LeadAnswersProofs -------------------------
(***************************************************************************)
(* Proofs about LeadAnswers, for every set of capabilities, actions, products, *)
(* facts and combined points: the planner's own cases end a turn as            *)
(* LeadConversation allows, a text of the code's own has the facts it is       *)
(* built of, the close gives the link, a question that is left about a slot     *)
(* that is known is in words that the patterns do not know, and a text, however *)
(* long, is split into parts that hold it whole.                               *)
(***************************************************************************)
EXTENDS LeadAnswers, LeadConversationProofs, SequenceTheorems, WellFoundedInduction

-----------------------------------------------------------------------------
(* The first of several cases. *)

LEMMA UpToIsFinite ==
    ASSUME NEW n \in Nat
    PROVE  IsFiniteSet(0..n)
<1>1. 0 \in Int /\ n \in Int
    OBVIOUS
<1> QED
    BY <1>1, FS_Interval

\* A set of numbers that is not empty has a least one: the least of the sets 0..n.
LEMMA LeastExists ==
    ASSUME NEW T, T \subseteq Nat, T # {}
    PROVE  Min(T) \in T /\ \A k \in T : Min(T) <= k
<1> DEFINE R == StrictSubsetOrdering(Nat)
           P == {0..n : n \in T}
<1>1. IsWellFoundedOn(R, FiniteSubsetsOf(Nat))
    BY FS_StrictSubsetOrderingWellFounded
<1>2. P \subseteq FiniteSubsetsOf(Nat) /\ P # {}
    <2>1. \A n \in T : (0..n) \in SUBSET Nat /\ IsFiniteSet(0..n)
        BY UpToIsFinite
    <2>2. \A n \in T : (0..n) \in FiniteSubsetsOf(Nat)
        BY <2>1 DEF FiniteSubsetsOf
    <2> QED
        BY <2>2
<1>3. \E s \in P : \A p \in P : ~(<<p, s>> \in R)
    <2> HIDE DEF P, R
    <2> QED
        BY <1>1, <1>2, WFMin
<1>4. PICK x \in T : \A n \in T : <<0..n, 0..x>> \notin R
    BY <1>3
<1>5. ASSUME NEW n \in T, n < x PROVE FALSE
    <2>1. (0..n) \subseteq (0..x) /\ x \in (0..x) /\ x \notin (0..n)
        BY <1>5
    <2>2. (0..n) \in SUBSET Nat /\ (0..x) \in SUBSET Nat /\ (0..n) # (0..x)
        BY <2>1
    <2>3. <<0..n, 0..x>> \in R
        BY <2>1, <2>2 DEF StrictSubsetOrdering
    <2> QED
        BY <1>4, <2>3
<1>6. \A y \in T : x <= y
    BY <1>5
<1>7. \E z \in T : \A y \in T : z <= y
    BY <1>6
<1> QED
    BY <1>7, Zenon DEF Min

\* The plans of the first case are those of a case before which none holds.
LEMMA FirstIsACase ==
    ASSUME NEW cases, DOMAIN cases \subseteq Nat, NEW p \in First(cases)
    PROVE  \E n \in DOMAIN cases :
             p \in cases[n] /\ \A k \in DOMAIN cases : k < n => cases[k] = {}
<1> DEFINE holding == { n \in DOMAIN cases : cases[n] # {} }
<1>1. holding # {} /\ First(cases) = cases[Min(holding)]
    BY DEF First
<1>2. Min(holding) \in holding /\ \A k \in holding : Min(holding) <= k
    BY <1>1, LeastExists
<1>3. \A k \in DOMAIN cases : k < Min(holding) => cases[k] = {}
    BY <1>2
<1> QED
    BY <1>1, <1>2, <1>3

LEMMA SomeCase ==
    ASSUME NEW cases, DOMAIN cases \subseteq Nat, NEW n \in DOMAIN cases, cases[n] # {}
    PROVE  First(cases) # {}
<1> DEFINE holding == { k \in DOMAIN cases : cases[k] # {} }
<1>1. Min(holding) \in holding
    BY LeastExists
<1> QED
    BY <1>1 DEF First

-----------------------------------------------------------------------------
(* The facts of the context. *)

\* What an answer is built of was fetched: the link that it must give, the number
\* of the person, the steps of the process, and the prices.
LEMMA FactsAreFetched ==
    ASSUME NEW plan, NEW said, NEW linked \in BOOLEAN
    PROVE  LET facts == ContextFacts(plan, said, linked)
           IN  /\ linked => "links" \in facts
               /\ plan.macro = "handoff_to_miguel" => "handoff" \in facts
               /\ plan.macro = "explain_process" \/ "platform_process" \in said => "steps" \in facts
               /\ "pricing" \in said => "products" \in facts
<1> DEFINE needs == Needs(plan, said, linked)
           sources == Sources(plan, said, linked)
<1>1. /\ linked => "official_app_link" \in needs
      /\ plan.macro = "explain_process" \/ "platform_process" \in said => "platform_steps" \in needs
      /\ "pricing" \in said => "product_pricing" \in needs
    BY DEF Needs
<1>2. sources = Tables(plan, needs) \cup Playbooks(plan, needs)
    BY DEF Sources
<1> HIDE DEF needs
<1>3. linked => "links" \in sources
    BY <1>1, <1>2 DEF Tables, When
<1>4. /\ plan.macro = "handoff_to_miguel" => "handoff" \in sources
      /\ plan.macro = "explain_process" \/ "platform_process" \in said => "steps" \in sources
    BY <1>1, <1>2 DEF Playbooks, When
<1>5. "pricing" \in said => "products" \in sources
    BY <1>1, <1>2 DEF Tables, When
<1> HIDE DEF sources
<1>6. \A x \in sources : x # "objection" => x \in Fetched(sources, said)
    BY DEF Fetched, When
<1>7. \A x \in sources : x \in {"links", "handoff", "steps", "products"} => x \in ContextFacts(plan, said, linked)
    BY <1>6 DEF ContextFacts, OfficialFacts, PlaybookFacts, sources
<1> QED
    BY <1>3, <1>4, <1>5, <1>7

-----------------------------------------------------------------------------
(* The texts. *)

Questions == Keys \cup InOtherWords \cup OwnWords \cup {"other", "both", "process_or_demo"}

TextsOn(facts) ==
    [ by : {"built", "reference", "link", "model"}, asks : SUBSET Questions,
      mentions : SUBSET {"action_requirement"}, due : SUBSET facts ]

LEMMA TextType ==
    ASSUME NEW by \in {"built", "reference", "link"}, NEW asks \in SUBSET Questions,
           NEW facts, NEW due \in SUBSET facts
    PROVE  Text(by, asks, due) \in TextsOn(facts) /\ Built(asks, due) \subseteq TextsOn(facts)
BY DEF Text, Built, TextsOn

LEMMA KeyType ==
    ASSUME NEW end, end.key \in Keys, NEW other \in Questions
    PROVE  Key(end, other) \in Questions
BY DEF Key, Questions

LEMMA WhenSubset ==
    ASSUME NEW condition \in BOOLEAN, NEW set, NEW universe, condition => set \subseteq universe
    PROVE  When(condition, set) \in SUBSET universe
BY DEF When

LEMMA QuestionNames ==
    /\ {"other", "both", "comparison", "after_answering", "first_action", "entry_intent",
        "pain_or_goal", "business_type", "action_requirement", "guide_app_options",
        "answer_or_actions", "automation_need"} \subseteq Questions
    /\ Keys \subseteq Questions
    /\ \A key \in SlotKeys : InOwnWords[key] \in Questions
BY DEF Questions, Keys, SlotKeys, Facts, InOtherWords, OwnWords

LEMMA BuiltType ==
    ASSUME NEW facts, NEW asks \in SUBSET Questions, NEW due \in SUBSET facts
    PROVE  Built(asks, due) \in SUBSET TextsOn(facts) /\ Built(asks, due) # {}
BY TextType DEF Built

\* The texts that go before the topics of the message.
LEMMA PlanTextsType ==
    ASSUME NEW facts, NEW plan, plan.end.key \in Keys,
           plan.macro = "handoff_to_miguel" => "handoff" \in facts
    PROVE  PlanTexts(plan, facts) \in Seq(SUBSET TextsOn(facts))
<1> DEFINE X == SUBSET TextsOn(facts)
<1>1. When(plan.micro = "custom_scope", Built({"other"}, {})) \in X
    BY BuiltType, QuestionNames DEF When
<1>2. When(plan.macro = "handoff_to_miguel", Built({}, {"handoff"})) \in X
    BY BuiltType DEF When
<1>3. When(plan.micro = "human_handoff", Built({}, {})) \in X
    BY BuiltType DEF When
<1>4. When(plan.macro = "direct_close", Built({}, {})) \in X
    BY BuiltType DEF When
<1>5. When(plan.macro = "handle_objection", ObjectionText(plan, facts)) \in X
    BY BuiltType, QuestionNames DEF When, ObjectionText
<1>6. When(plan.macro = "answer_unknown_safely", Built({"pain_or_goal"}, {})) \in X
    BY BuiltType, QuestionNames DEF When
<1>7. When(plan.micro = "greet", Built({"entry_intent"}, {})) \in X
    BY BuiltType, QuestionNames DEF When
<1> HIDE DEF X
<1>8. PlanTexts(plan, facts) \in Seq(X)
    BY <1>1, <1>2, <1>3, <1>4, <1>5, <1>6, <1>7 DEF PlanTexts
<1> QED
    BY <1>8 DEF X

LEMMA TwelveCases ==
    ASSUME NEW X, NEW c1 \in X, NEW c2 \in X, NEW c3 \in X, NEW c4 \in X, NEW c5 \in X,
           NEW c6 \in X, NEW c7 \in X, NEW c8 \in X, NEW c9 \in X, NEW c10 \in X,
           NEW c11 \in X, NEW c12 \in X
    PROVE  LET cases == <<c1, c2, c3, c4, c5, c6, c7, c8, c9, c10, c11, c12>>
           IN  cases \in Seq(X) /\ Len(cases) = 12 /\ cases[12] = c12
OBVIOUS

\* The texts of the topics: the last of them always holds.
LEMMA TopicTextsType ==
    ASSUME NEW facts, NEW plan, plan.end.key \in Keys, NEW said,
           plan.macro = "explain_process" \/ "platform_process" \in said => "steps" \in facts,
           "pricing" \in said => "products" \in facts
    PROVE  /\ TopicTexts(plan, said, facts) \in Seq(SUBSET TextsOn(facts))
           /\ Len(TopicTexts(plan, said, facts)) = 12
           /\ TopicTexts(plan, said, facts)[12] # {}
<1> DEFINE X == SUBSET TextsOn(facts)
           explains == "platform_process" \in said \/ plan.macro = "explain_process"
           shown == said \cap {"demo", "demo_word"} # {}
           c1 == When(explains /\ shown, Built({}, {}))
           c2 == When(explains, Built({"other"}, {"steps"}))
           c3 == When(plan.micro = "channel", Built({Key(plan.end, "business_type")}, {}))
           c4 == When(plan.macro = "narrow_solution", NarrowText(plan.end))
           c5 == When(plan.macro = "risk_reversal", Built({"other"}, {}))
           c6 == When("pricing" \in said, PricingText(facts))
           c7 == When(\/ "competitor_comparison" \in said
                    \/ plan.macro = "compare_alternative", Built({"comparison"}, {}))
           c8 == When(plan.macro = "persuade_value", Built({"business_type"}, {}))
           c9 == When(plan.micro = "not_available" \/ plan.macro = "soft_close",
                      Built({IF plan.micro = "not_available" THEN "after_answering" ELSE "other"}, {}))
           c10 == When(plan.macro = "discover_need", Built({Key(plan.end, "pain_or_goal")}, {}))
           c11 == When(plan.macro = "recommend_solution", RecommendText(facts))
           c12 == CtaText(plan.end)
<1>1. c1 \in X
    BY BuiltType DEF When
<1>2. c2 \in X
    BY BuiltType, QuestionNames DEF When
<1>3. c3 \in X
    BY BuiltType, QuestionNames DEF When, Key
<1>4. c4 \in X
    BY BuiltType, QuestionNames DEF When, NarrowText, Key
<1>5. c5 \in X
    BY BuiltType, QuestionNames DEF When
<1>6. c6 \in X
    BY BuiltType, QuestionNames DEF When, PricingText
<1>7. c7 \in X
    BY BuiltType, QuestionNames DEF When
<1>8. c8 \in X
    BY BuiltType, QuestionNames DEF When
<1>9. c9 \in X
    BY BuiltType, QuestionNames DEF When
<1>10. c10 \in X
    BY BuiltType, QuestionNames DEF When, Key
<1>11. c11 \in X
    BY BuiltType, QuestionNames DEF When, RecommendText
<1>12. c12 \in X /\ c12 # {}
    BY BuiltType, QuestionNames DEF CtaText
<1>13. TopicTexts(plan, said, facts) = <<c1, c2, c3, c4, c5, c6, c7, c8, c9, c10, c11, c12>>
    BY Zenon DEF TopicTexts
<1> HIDE DEF X, c1, c2, c3, c4, c5, c6, c7, c8, c9, c10, c11, c12
<1>14. /\ TopicTexts(plan, said, facts) \in Seq(X)
       /\ Len(TopicTexts(plan, said, facts)) = 12
       /\ TopicTexts(plan, said, facts)[12] = c12
    BY <1>1, <1>2, <1>3, <1>4, <1>5, <1>6, <1>7, <1>8, <1>9, <1>10, <1>11, <1>12, <1>13, TwelveCases
<1> QED
    BY <1>12, <1>14 DEF X

\* A list of such texts, one of which holds, gives one of them.
LEMMA FirstText ==
    ASSUME NEW facts, NEW cases \in Seq(SUBSET TextsOn(facts)), NEW n \in 1..Len(cases), cases[n] # {}
    PROVE  (CHOOSE text \in First(cases) : TRUE) \in TextsOn(facts)
<1>1. DOMAIN cases = 1..Len(cases) /\ DOMAIN cases \subseteq Nat /\ n \in DOMAIN cases
    OBVIOUS
<1>2. First(cases) # {}
    BY <1>1, SomeCase
<1>3. ASSUME NEW p \in First(cases) PROVE p \in TextsOn(facts)
    <2>1. PICK k \in DOMAIN cases : p \in cases[k]
        BY <1>1, FirstIsACase
    <2>2. cases[k] \in SUBSET TextsOn(facts)
        BY <1>1, <2>1
    <2> QED
        BY <2>1, <2>2
<1> QED
    BY <1>2, <1>3

\* The text that the code builds is built of facts that it has.
LEMMA BuiltOnFacts ==
    ASSUME NEW lead, NEW plan, plan.end.key \in Keys, NEW said, NEW linked \in BOOLEAN, NEW resisted
    PROVE  LET facts == ContextFacts(plan, said, linked)
           IN  BuiltText(lead, plan, said, facts, linked, resisted) \in TextsOn(facts)
<1> DEFINE facts == ContextFacts(plan, said, linked)
           X == SUBSET TextsOn(facts)
           a == <<ReferenceText(said), When(linked, LinkText(lead, plan.end, resisted))>>
           b == PlanTexts(plan, facts)
           c == TopicTexts(plan, said, facts)
<1>1. /\ linked => "links" \in facts
      /\ plan.macro = "handoff_to_miguel" => "handoff" \in facts
      /\ plan.macro = "explain_process" \/ "platform_process" \in said => "steps" \in facts
      /\ "pricing" \in said => "products" \in facts
    BY FactsAreFetched
<1> HIDE DEF facts
<1>2. b \in Seq(X) /\ c \in Seq(X) /\ Len(c) = 12 /\ c[12] # {}
    BY <1>1, PlanTextsType, TopicTextsType
<1>3. a \in Seq(X)
    <2>1. ReferenceText(said) \in X
        BY TextType DEF ReferenceText, When
    <2>2. MinimalKey(lead, plan.end, resisted) \in Questions
        BY QuestionNames DEF MinimalKey
    <2>3. When(plan.end.key \in BroadKeys \cup {NoKey}, {MinimalKey(lead, plan.end, resisted)})
              \in SUBSET Questions
        BY <2>2 DEF When
    <2>4. When(linked, LinkText(lead, plan.end, resisted)) \in X
        <3>1. CASE linked
            <4>1. {"links"} \in SUBSET facts
                BY <1>1, <3>1
            <4>2. LinkText(lead, plan.end, resisted) \in X
                BY <2>3, <4>1, TextType DEF LinkText
            <4> QED
                BY <3>1, <4>2 DEF When
        <3>2. CASE ~linked
            BY <3>2 DEF When
        <3> QED
            BY <3>1, <3>2
    <2> HIDE DEF X
    <2> QED
        BY <2>1, <2>4
<1> HIDE DEF X, a, b, c
<1>4. a \o b \in Seq(X) /\ Len(a \o b) \in Nat
    BY <1>2, <1>3, ConcatProperties
<1>5. (a \o b) \o c \in Seq(X) /\ Len((a \o b) \o c) = Len(a \o b) + 12
    <2>1. /\ (a \o b) \o c \in Seq(X)
          /\ Len((a \o b) \o c) = Len(a \o b) + Len(c)
        BY <1>2, <1>4, ConcatProperties, Zenon
    <2> QED
        BY <1>2, <2>1
<1>6. ((a \o b) \o c)[Len(a \o b) + 12] = c[12]
    <2>1. Len(a \o b) + 12 \in 1 .. Len(a \o b) + Len(c)
        BY <1>2, <1>4
    <2>2. ((a \o b) \o c)[Len(a \o b) + 12] =
              IF Len(a \o b) + 12 <= Len(a \o b) THEN (a \o b)[Len(a \o b) + 12]
              ELSE c[(Len(a \o b) + 12) - Len(a \o b)]
        BY <1>2, <1>4, <2>1, ConcatProperties, Zenon
    <2> QED
        BY <1>4, <2>2
<1>7. Len(a \o b) + 12 \in 1 .. Len((a \o b) \o c)
    BY <1>4, <1>5
<1>8. (CHOOSE text \in First((a \o b) \o c) : TRUE) \in TextsOn(facts)
    BY <1>2, <1>5, <1>6, <1>7, FirstText DEF X
<1> QED
    BY <1>8 DEF BuiltText, a, b, c, facts

-----------------------------------------------------------------------------
(* The cases of the planner. *)

\* A plan of the cases, before it is finalized.
IsPlan(p) == p = Plan(p.macro, p.micro, p.step, p.end)

LEMMA PlanParts ==
    ASSUME NEW macro, NEW micro, NEW step, NEW end, NEW p, p = Plan(macro, micro, step, end)
    PROVE  /\ IsPlan(p)
           /\ p.macro = macro /\ p.micro = micro /\ p.step = step /\ p.end = end
BY DEF IsPlan, Plan

LEMMA OfMacroParts ==
    ASSUME NEW macro, NEW end
    PROVE  /\ OfMacro(macro, end) # {}
           /\ \A p \in OfMacro(macro, end) : IsPlan(p) /\ p.macro = macro /\ p.end = end
BY PlanParts DEF OfMacro

LEMMA OfMicroParts ==
    ASSUME NEW macro, NEW micro, NEW end
    PROVE  /\ OfMicro(macro, micro, end) # {}
           /\ \A p \in OfMicro(macro, micro, end) : IsPlan(p) /\ p.macro = macro /\ p.end = end
BY PlanParts DEF OfMicro

LEMMA ObjectingParts ==
    ASSUME NEW steps
    PROVE  \A p \in Objecting(steps) :
             /\ IsPlan(p) /\ p.macro = "handle_objection"
             /\ p.end = Ends("objection", "other", NoKey)
BY PlanParts DEF Objecting

\* After a purchase the plan is the one of the support; the close is one of a lead
\* who may close; any other end is one that PlanEnds has.
EarlyEnds(lead, t) ==
    SpecialEnds \cup (IF t.start /\ lead.chosen # None
                      THEN {Ends("direct_close", "other", NoKey)} ELSE {})
                \cup (IF MayGreet(lead, t) THEN {Ends("soft", "other", "entry_intent")} ELSE {})

LEMMA FirstCasesEnd ==
    ASSUME NEW lead, NEW t, NEW said, NEW before, NEW n \in 1..7,
           NEW p \in FirstCases(lead, t, said, before)[n],
           \A k \in 1..7 : k < n => FirstCases(lead, t, said, before)[k] = {}
    PROVE  /\ IsPlan(p)
           /\ IF "post_purchase" \in said THEN p.end \in PostPurchaseEnds
              ELSE p.end \in EarlyEnds(lead, t)
           /\ p.macro = "direct_close" =>
                /\ MayClose(lead, t, said) /\ "post_purchase" \notin said
                /\ p.end = Ends("direct_close", "other", NoKey)
<1> DEFINE c == FirstCases(lead, t, said, before)
<1>1. /\ c[1] = IF "post_purchase" \in said /\ ~("deposit_confirmed" \in said)
                THEN OfMicro("explain_process", "human_handoff", Ends("none", "other", NoKey)) ELSE {}
      /\ c[2] = IF "post_purchase" \in said \/ "existing_client" \in said
                THEN OfMacro("handoff_to_miguel", Redirect) ELSE {}
    BY DEF FirstCases, When
<1>2. n = 1 => p \in OfMicro("explain_process", "human_handoff", Ends("none", "other", NoKey))
               /\ "post_purchase" \in said
    BY <1>1
<1>3. n = 2 => p \in OfMacro("handoff_to_miguel", Redirect)
    BY <1>1
<1>4. n > 2 => "post_purchase" \notin said
    <2>1. n > 2 => c[2] = {}
        OBVIOUS
    <2> QED
        BY <1>1, <2>1, OfMacroParts
<1>5. n = 3 => p \in { Plan("handle_objection", "other", "resolved", SoftAnswer) }
    BY DEF FirstCases, When
<1>6. n = 4 => p \in Objecting(ObjectionSteps)
    BY DEF FirstCases, When
<1>7. n = 5 => p \in Objecting({"ask_open_question"})
    BY DEF FirstCases, When
<1>8. n = 6 => MayClose(lead, t, said) /\ p \in OfMacro("direct_close", Ends("direct_close", "other", NoKey))
    BY DEF FirstCases, When
<1>9. n = 7 => /\ FirstGreeting(lead, said, before)
               /\ p \in OfMicro("answer_and_advance", "greet", Ends("soft", "other", "entry_intent"))
    BY DEF FirstCases, When
<1>10. CASE n = 1
    BY <1>2, <1>10, OfMicroParts DEF PostPurchaseEnds
<1>11. CASE n = 2
    BY <1>3, <1>11, OfMacroParts DEF PostPurchaseEnds, EarlyEnds, SpecialEnds
<1>12. CASE n = 3
    BY <1>4, <1>5, <1>12, PlanParts DEF EarlyEnds, SpecialEnds
<1>13. CASE n \in {4, 5}
    BY <1>4, <1>6, <1>7, <1>13, ObjectingParts DEF EarlyEnds, SpecialEnds
<1>14. CASE n = 6
    BY <1>4, <1>8, <1>14, OfMacroParts DEF EarlyEnds, MayClose
<1>15. CASE n = 7
    <2>1. MayGreet(lead, t)
        BY <1>9, <1>15 DEF FirstGreeting, MayGreet
    <2> QED
        BY <1>4, <1>9, <1>15, <2>1, OfMicroParts DEF EarlyEnds
<1> QED
    BY <1>10, <1>11, <1>12, <1>13, <1>14, <1>15

\* What is answered on the spot has an end of its own, and so has a product that
\* is not sold.
LEMMA ExactCasesEnd ==
    ASSUME NEW lead, NEW t, NEW said, NEW n \in 1..10,
           NEW p \in ExactCases(lead, t, said)[n],
           \A k \in 1..10 : k < n => ExactCases(lead, t, said)[k] = {}
    PROVE  /\ IsPlan(p) /\ p.macro # "direct_close"
           /\ p.end \in SpecialEnds \cup CommercialEnds(lead, t)
<1> DEFINE c == ExactCases(lead, t, said)
           missing == MissingKey(lead, t)
           soft == Ends("soft", "other", missing)
<1>1. /\ c[1] = IF PlannerFit(lead, t) = "unavailable"
                THEN OfMicro("recommend_solution", "not_available", SoftAnswer) ELSE {}
      /\ c[2] = IF PlannerFit(lead, t) = "custom"
                THEN OfMicro("handoff_to_miguel", "custom_scope", Redirect) ELSE {}
    BY DEF ExactCases, When
<1>2. n > 2 => CommercialEnds(lead, t) = OpenEnds(lead, t)
    <2>1. n > 2 => c[1] = {} /\ c[2] = {}
        OBVIOUS
    <2> QED
        BY <1>1, <2>1, OfMicroParts DEF CommercialEnds
<1>3. {soft, SoftAnswer, Ends("next_step", "other", NoKey), Ends("discovery", "other", missing)}
          \subseteq OpenEnds(lead, t)
    BY DEF OpenEnds, AnswerEnds
<1>4. n = 1 => p \in OfMicro("recommend_solution", "not_available", SoftAnswer)
    BY <1>1
<1>5. n = 2 => p \in OfMicro("handoff_to_miguel", "custom_scope", Redirect)
    BY <1>1
<1>6. n \in {3, 5} => p \in OfMacro("answer_and_advance", soft)
    BY DEF ExactCases, When
<1>7. n \in {4, 6} => p \in OfMicro("answer_and_advance", "channel", soft)
    BY DEF ExactCases, When, ChannelPlan
<1>8. n = 7 => p \in OfMacro("risk_reversal", SoftAnswer)
    BY DEF ExactCases, When
<1>9. n = 8 => p \in OfMacro("explain_process", Ends("next_step", "other", NoKey))
    BY DEF ExactCases, When
<1>10. n = 9 => p \in OfMicro("narrow_solution", "differentiate",
                           Ends(IF missing = NoKey THEN "soft" ELSE "discovery", "other", missing))
    BY DEF ExactCases, When, NarrowPlan
<1>11. n = 10 => p \in OfMacro("compare_alternative", Ends("discovery", "other", missing))
    BY DEF ExactCases, When
<1> HIDE DEF c, missing, soft
<1>12. CASE n \in {1, 2}
    BY <1>4, <1>5, <1>12, OfMicroParts DEF SpecialEnds
<1>13. CASE n \in {3, 5}
    BY <1>2, <1>3, <1>6, <1>13, OfMacroParts
<1>14. CASE n \in {4, 6}
    BY <1>2, <1>3, <1>7, <1>14, OfMicroParts
<1>15. CASE n = 7
    BY <1>2, <1>3, <1>8, <1>15, OfMacroParts
<1>16. CASE n = 8
    BY <1>2, <1>3, <1>9, <1>16, OfMacroParts
<1>17. CASE n = 9
    <2>1. /\ IsPlan(p) /\ p.macro = "narrow_solution"
          /\ p.end = Ends(IF missing = NoKey THEN "soft" ELSE "discovery", "other", missing)
        BY <1>10, <1>17, OfMicroParts
    <2>2. p.end \in {soft, Ends("discovery", "other", missing)}
        BY <2>1 DEF soft
    <2> QED
        BY <1>2, <1>3, <1>17, <2>1, <2>2
<1>18. CASE n = 10
    BY <1>2, <1>3, <1>11, <1>18, OfMacroParts
<1> QED
    BY <1>12, <1>13, <1>14, <1>15, <1>16, <1>17, <1>18

\* The product of the requirements is not one that clashes with them, and the
\* default is recommended with nothing left to ask, or with the need known.
LEMMA LateCasesEnd ==
    ASSUME NEW lead, NEW t, NEW said, NEW n \in 1..9, NEW p \in LateCases(lead, t, said)[n],
           \A k \in 1..9 : k < n => LateCases(lead, t, said)[k] = {},
           CommercialEnds(lead, t) = OpenEnds(lead, t)
    PROVE  /\ IsPlan(p) /\ p.macro # "direct_close"
           /\ p.end \in SpecialEnds \cup CommercialEnds(lead, t)
<1> DEFINE c == LateCases(lead, t, said)
           missing == MissingKey(lead, t)
           default == OfMicro("recommend_solution", DefaultProduct(lead, t),
                              Ends("soft_close", "other", NoKey))
<1>1. c[3] = IF t.clash THEN NarrowPlan("discovery", "action_requirement") ELSE {}
    BY DEF LateCases, When
<1>2. c[6] = IF missing # NoKey THEN OfMacro("discover_need", Discovery(missing)) ELSE {}
    BY DEF LateCases, When
<1>3. n > 3 => ~t.clash
    <2>1. n > 3 => c[3] = {}
        OBVIOUS
    <2> QED
        BY <1>1, <2>1, OfMicroParts DEF NarrowPlan
<1>4. n > 6 => missing = NoKey
    <2>1. n > 6 => c[6] = {}
        OBVIOUS
    <2> QED
        BY <1>2, <2>1, OfMacroParts
<1>5. n = 1 => /\ MayRecover(lead, t)
               /\ p \in OfMacro("answer_unknown_safely", Ends("soft", "other", "automation_need"))
    BY DEF LateCases, When
<1>6. n = 2 => /\ ~PlannerKnowsNeed(lead, t)
               /\ p \in OfMacro("discover_need", Discovery("action_requirement"))
    BY DEF LateCases, When, MustDiscover
<1>7. n = 3 => t.clash /\ p \in NarrowPlan("discovery", "action_requirement")
    BY <1>1
<1>8. n = 4 => /\ Recommendable(lead, t) \in Available
               /\ p \in OfMicro("recommend_solution", Recommendable(lead, t), Link)
    BY DEF LateCases, When
<1>9. n = 5 => lead.need # "unknown" /\ p \in default
    BY DEF LateCases, When
<1>10. n = 6 => missing # NoKey /\ p \in OfMacro("discover_need", Discovery(missing))
    BY <1>2
<1>11. n = 7 => PlannerFit(lead, t) \in Available /\ p \in OfMacro("soft_close", Link)
    BY DEF LateCases, When
<1>12. n = 8 => p \in OfMacro("persuade_value", SoftAnswer)
    BY DEF LateCases, When
<1>13. n = 9 => p \in default
    BY DEF LateCases
<1>14. n > 3 => LateEnds(lead, t, missing) \subseteq OpenEnds(lead, t)
    BY <1>3 DEF OpenEnds
<1>15. \A q \in default : /\ IsPlan(q) /\ q.macro = "recommend_solution"
                          /\ q.end = Ends("soft_close", "other", NoKey)
    BY OfMicroParts
<1> HIDE DEF c, missing, default
<1>16. CASE n = 1
    BY <1>5, <1>16, OfMacroParts DEF OpenEnds
<1>17. CASE n = 2
    BY <1>6, <1>17, OfMacroParts DEF OpenEnds
<1>18. CASE n = 3
    BY <1>7, <1>18, OfMicroParts DEF OpenEnds, NarrowPlan
<1>19. CASE n = 4
    <2>1. PlannerFit(lead, t) \in Available
        BY <1>3, <1>8, <1>19 DEF Recommendable
    <2>2. Link \in LateEnds(lead, t, missing)
        BY <2>1 DEF LateEnds
    <2> QED
        BY <1>8, <1>14, <1>19, <2>2, OfMicroParts
<1>20. CASE n = 5
    <2>1. Ends("soft_close", "other", NoKey) \in LateEnds(lead, t, missing)
        BY <1>9, <1>20 DEF LateEnds
    <2> QED
        BY <1>9, <1>14, <1>15, <1>20, <2>1
<1>21. CASE n = 6
    <2>1. Discovery(missing) \in LateEnds(lead, t, missing)
        BY <1>10, <1>21 DEF LateEnds
    <2> QED
        BY <1>10, <1>14, <1>21, <2>1, OfMacroParts
<1>22. CASE n = 7
    <2>1. Link \in LateEnds(lead, t, missing)
        BY <1>11, <1>22 DEF LateEnds
    <2> QED
        BY <1>11, <1>14, <1>22, <2>1, OfMacroParts
<1>23. CASE n = 8
    BY <1>12, <1>23, OfMacroParts DEF SpecialEnds
<1>24. CASE n = 9
    <2>1. Ends("soft_close", "other", NoKey) \in LateEnds(lead, t, missing)
        BY <1>4, <1>24 DEF LateEnds
    <2> QED
        BY <1>13, <1>14, <1>15, <1>24, <2>1
<1> QED
    BY <1>16, <1>17, <1>18, <1>19, <1>20, <1>21, <1>22, <1>23, <1>24

LEMMA CaseNumbers ==
    ASSUME NEW lead, NEW t, NEW said, NEW before
    PROVE  /\ DOMAIN FirstCases(lead, t, said, before) = 1..7
           /\ DOMAIN ExactCases(lead, t, said) = 1..10
           /\ DOMAIN LateCases(lead, t, said) = 1..9
BY DEF FirstCases, ExactCases, LateCases

\* The plan of the case that comes first, as it is before the end is finalized.
LEMMA ChosenCase ==
    ASSUME NEW lead, NEW t, NEW said, NEW before,
           NEW p \in LET first == First(FirstCases(lead, t, said, before))
                         exact == First(ExactCases(lead, t, said))
                     IN  IF first # {} THEN first
                         ELSE IF exact # {} THEN exact ELSE First(LateCases(lead, t, said))
    PROVE  /\ IsPlan(p)
           /\ IF "post_purchase" \in said THEN p.end \in PostPurchaseEnds
              ELSE p.end \in EarlyEnds(lead, t) \cup CommercialEnds(lead, t)
           /\ p.macro = "direct_close" =>
                /\ MayClose(lead, t, said) /\ "post_purchase" \notin said
                /\ p.end = Ends("direct_close", "other", NoKey)
<1> DEFINE first == First(FirstCases(lead, t, said, before))
           exact == First(ExactCases(lead, t, said))
           late == First(LateCases(lead, t, said))
<1>1. p \in (IF first # {} THEN first ELSE IF exact # {} THEN exact ELSE late)
    OBVIOUS
<1>2. CASE first # {}
    <2>1. p \in first
        BY <1>1, <1>2
    <2>2. PICK n \in 1..7 :
              /\ p \in FirstCases(lead, t, said, before)[n]
              /\ \A k \in 1..7 : k < n => FirstCases(lead, t, said, before)[k] = {}
        BY <2>1, FirstIsACase, CaseNumbers
    <2> HIDE DEF first
    <2> QED
        BY <2>2, FirstCasesEnd
<1>3. CASE first = {}
    <2>1. "post_purchase" \notin said
        <3>1. SUFFICES ASSUME "post_purchase" \in said PROVE FALSE
            OBVIOUS
        <3>2. FirstCases(lead, t, said, before)[2] = OfMacro("handoff_to_miguel", Redirect)
            BY <3>1 DEF FirstCases, When
        <3>3. FirstCases(lead, t, said, before)[2] # {}
            BY <3>2, OfMacroParts
        <3> QED
            BY <1>3, <3>3, SomeCase, CaseNumbers
    <2>2. SpecialEnds \subseteq EarlyEnds(lead, t)
        BY DEF EarlyEnds
    <2>3. CASE exact # {}
        <3>1. p \in exact
            BY <1>1, <1>3, <2>3
        <3>2. PICK n \in 1..10 : /\ p \in ExactCases(lead, t, said)[n]
                                 /\ \A k \in 1..10 : k < n => ExactCases(lead, t, said)[k] = {}
            BY <3>1, FirstIsACase, CaseNumbers
        <3> HIDE DEF first, exact, late
        <3> QED
            BY <2>1, <2>2, <3>2, ExactCasesEnd
    <2>4. CASE exact = {}
        <3>1. p \in late
            BY <1>1, <1>3, <2>4
        <3>2. PICK n \in 1..9 : /\ p \in LateCases(lead, t, said)[n]
                                /\ \A k \in 1..9 : k < n => LateCases(lead, t, said)[k] = {}
            BY <3>1, FirstIsACase, CaseNumbers
        <3>3. \A k \in 1..10 : ExactCases(lead, t, said)[k] = {}
            BY <2>4, SomeCase, CaseNumbers
        <3>4. /\ PlannerFit(lead, t) # "unavailable"
              /\ PlannerFit(lead, t) # "custom"
            <4>1. ExactCases(lead, t, said)[1] =
                      IF PlannerFit(lead, t) = "unavailable"
                      THEN OfMicro("recommend_solution", "not_available", SoftAnswer) ELSE {}
                BY DEF ExactCases, When
            <4>2. ExactCases(lead, t, said)[2] =
                      IF PlannerFit(lead, t) = "custom"
                      THEN OfMicro("handoff_to_miguel", "custom_scope", Redirect) ELSE {}
                BY DEF ExactCases, When
            <4> QED
                BY <3>3, <4>1, <4>2, OfMicroParts
        <3>5. CommercialEnds(lead, t) = OpenEnds(lead, t)
            BY <3>4 DEF CommercialEnds
        <3> HIDE DEF first, exact, late
        <3> QED
            BY <2>1, <2>2, <3>2, <3>5, LateCasesEnd
    <2> QED
        BY <2>3, <2>4
<1> QED
    BY <1>2, <1>3

\* Whatever is said, the planner's own case is one that LeadConversation allows,
\* and the plan that closes is of a lead who may.
LEMMA PlansEnd ==
    ASSUME NEW lead, NEW t, NEW said, NEW before, NEW plan \in Plans(lead, t, said, before)
    PROVE  /\ plan.end \in IF "post_purchase" \in said THEN PostPurchaseEnds
                           ELSE PlanEnds(lead, t)
           /\ plan.macro = "direct_close" =>
                /\ MayClose(lead, t, said) /\ "post_purchase" \notin said
                /\ plan.end = Ends("direct_close", "other", NoKey)
<1> DEFINE first == First(FirstCases(lead, t, said, before))
           exact == First(ExactCases(lead, t, said))
           late == First(LateCases(lead, t, said))
<1>1. PICK p \in (IF first # {} THEN first ELSE IF exact # {} THEN exact ELSE late) :
          plan = [p EXCEPT !.end = Finalized(lead, p.end)]
    BY DEF Plans
<1>2. /\ IsPlan(p)
      /\ IF "post_purchase" \in said THEN p.end \in PostPurchaseEnds
         ELSE p.end \in EarlyEnds(lead, t) \cup CommercialEnds(lead, t)
      /\ p.macro = "direct_close" =>
           /\ MayClose(lead, t, said) /\ "post_purchase" \notin said
           /\ p.end = Ends("direct_close", "other", NoKey)
    BY ChosenCase
<1> HIDE DEF first, exact, late
<1>3. plan.macro = p.macro /\ plan.end = Finalized(lead, p.end)
    BY <1>1, <1>2 DEF IsPlan, Plan
<1>4. ASSUME p.end.cta \notin Asking PROVE plan.end = p.end
    <2>1. Finalized(lead, p.end) = p.end
        BY <1>4 DEF Finalized, Asking
    <2> QED
        BY <1>3, <2>1
<1>5. CASE "post_purchase" \in said
    <2>1. p.end \in PostPurchaseEnds /\ p.end.cta \notin Asking
        BY <1>2, <1>5 DEF PostPurchaseEnds, Redirect, Ends, Asking
    <2> QED
        BY <1>2, <1>3, <1>4, <1>5, <2>1
<1>6. CASE "post_purchase" \notin said
    <2>1. Finalized(lead, p.end) \in PlanEnds(lead, t)
        BY <1>2, <1>6 DEF PlanEnds, EarlyEnds
    <2>2. p.macro = "direct_close" => plan.end = p.end
        BY <1>2, <1>4 DEF Ends, Asking
    <2> QED
        BY <1>2, <1>3, <1>6, <2>1, <2>2
<1> QED
    BY <1>5, <1>6

-----------------------------------------------------------------------------
(* The questions that are left. *)

LEMMA ModelTextType ==
    ASSUME NEW facts
    PROVE  ModelTexts \subseteq TextsOn(facts)
<1> SUFFICES ASSUME NEW text \in ModelTexts PROVE text \in TextsOn(facts)
    OBVIOUS
<1>1. PICK asks \in SUBSET ModelQuestions,
           mentions \in { {}, {"action_requirement"} } :
          text = [by |-> "model", asks |-> asks, mentions |-> mentions, due |-> {}]
    BY DEF ModelTexts
<1>2. Slots \cup {"action_requirement"} \subseteq SlotKeys /\ SlotKeys \subseteq Questions
    BY ReadingAssumption DEF Questions, Keys, SlotKeys
<1>3. ModelQuestions \subseteq Questions
    BY <1>2, QuestionNames DEF ModelQuestions
<1>4. asks \in SUBSET Questions
    BY <1>3
<1> QED
    BY <1>1, <1>4 DEF TextsOn

\* A question of a known slot is left only where the patterns do not know it:
\* either the text asks nothing known in their words, or such questions went.
LEMMA QuestionsLeft ==
    ASSUME NEW facts, NEW text \in TextsOn(facts), NEW known,
           NEW q \in SanitizedText(text, known).asks, About(q) \cap known # {}
    PROVE  q \in InOtherWords \cup OwnWords
<1> DEFINE words == text.mentions \cup UNION { Recognised(r) : r \in text.asks }
<1>1. CASE q \in SlotKeys \cup {"both"}
    <2>1. Recognised(q) \cap known # {}
        BY <1>1 DEF Recognised
    <2>2. q \in text.asks => Recognised(q) \subseteq words
        OBVIOUS
    <2>3. CASE text.asks = {} \/ words \cap known = {}
        <3>1. SanitizedText(text, known) = text
            BY <2>3 DEF SanitizedText
        <3> HIDE DEF words
        <3> QED
            BY <2>1, <2>2, <2>3, <3>1
    <2>4. CASE ~(text.asks = {} \/ words \cap known = {})
        <3>1. SanitizedText(text, known) =
                  [text EXCEPT !.asks = { r \in @ : Recognised(r) \cap known = {} }
                                        \cup {"process_or_demo"}]
            BY <2>4 DEF SanitizedText
        <3>2. SanitizedText(text, known).asks =
                  { r \in text.asks : Recognised(r) \cap known = {} } \cup {"process_or_demo"}
            BY <3>1 DEF TextsOn
        <3>3. q # "process_or_demo"
            BY <1>1 DEF SlotKeys, Facts
        <3> QED
            BY <2>1, <3>2, <3>3
    <2> QED
        BY <2>3, <2>4
<1>2. CASE q \notin SlotKeys \cup {"both"}
    <2>1. SUFFICES ASSUME q \notin InOtherWords PROVE q \in OwnWords
        OBVIOUS
    <2>2. PICK key \in SlotKeys : InOwnWords[key] = q
        BY <1>2, <2>1 DEF About
    <2> QED
        BY <2>2 DEF OwnWords
<1> QED
    BY <1>1, <1>2

-----------------------------------------------------------------------------
(* The conversation. *)

\* A lead whose requirements say what it needs has that fit.
FitFollows == ProductFit(requirements) # "unknown" => fit = ProductFit(requirements)

LEMMA FitFollowsStep ==
    ASSUME FitFollows, [Next]_vars
    PROVE  FitFollows'
<1>1. CASE Understand
    BY <1>1 DEF Understand, Fit, FitFollows
<1>2. CASE Answer \/ TurnFails \/ UNCHANGED vars
    <2>1. UNCHANGED <<requirements, fit>>
        BY <1>2 DEF Answer, TurnFails, vars
    <2> QED
        BY <2>1 DEF FitFollows
<1> QED
    BY <1>1, <1>2 DEF Next

\* The lead who may close starts, needs a product that is sold, and has no
\* requirements that none of them meets.
LEMMA ClosingLinks ==
    ASSUME TypeOK, FitFollows, NEW said, MayClose(Lead, turn, said)
    PROVE  IncludesLink(Lead, turn, Ends("direct_close", "other", NoKey), FALSE)
<1>1. /\ chosen \in Available \cup {None} /\ chosen # None
      /\ PlannerFit(Lead, turn) \in {"unknown", chosen}
      /\ turn.start
    BY DEF TypeOK, MayClose, Lead
<1>2. PlannerFit(Lead, turn) \in {"unknown"} \cup Available
    BY <1>1
<1>3. ~turn.unsold
    BY <1>2 DEF PlannerFit, Available
<1>4. fit # "custom"
    BY <1>2, <1>3 DEF PlannerFit, Lead, Available
<1>5. ProductFit(requirements) # "custom"
    BY <1>4 DEF FitFollows
<1> QED
    BY <1>1, <1>3, <1>5 DEF IncludesLink, Lead, Ends

\* An answer that is planned ends as the lead and its turn allow, gives the link
\* when it closes, and has a text of the facts that were fetched for it.
PlannedFor(a, lead, t) ==
    /\ \E post, resisted \in BOOLEAN :
         \E end \in (IF post THEN PostPurchaseEnds ELSE PlanEnds(lead, t)) :
            a.end = end /\ a.asked = AskedKey(lead, t, end, post, resisted)
    /\ a.closes => a.linked
    /\ a.text \in TextsOn(a.facts)

AnswersInv ==
    /\ Inv
    /\ FitFollows
    /\ answer.step = "planned" => turn # Idle /\ PlannedFor(answer, Lead, turn)
    /\ answer.step = "saved" => answer.reasks \subseteq InOtherWords \cup OwnWords

LEMMA MakePlanKeeps ==
    ASSUME AnswersInv, MakePlan
    PROVE  AnswersInv'
<1>1. /\ turn # Idle
      /\ UNCHANGED vars
      /\ \E said \in PointSets :
            \E plan \in Plans(Lead, turn, said, met) :
              LET post == "post_purchase" \in said
                  resisted == said \cap {"hard_objection", "objection_continues"} # {}
                  linked == IncludesLink(Lead, turn, plan.end, post)
                  facts == ContextFacts(plan, said, linked)
              IN  answer' = [ step   |-> "planned",
                              end    |-> plan.end,
                              asked  |-> AskedKey(Lead, turn, plan.end, post, resisted),
                              closes |-> plan.macro = "direct_close",
                              linked |-> linked,
                              facts  |-> facts,
                              text   |-> BuiltText(Lead, plan, said, facts, linked, resisted),
                              send   |-> Sending(plan, resisted) ]
    BY DEF MakePlan
<1>2. PICK said \in PointSets : \E plan \in Plans(Lead, turn, said, met) :
              LET post == "post_purchase" \in said
                  resisted == said \cap {"hard_objection", "objection_continues"} # {}
                  linked == IncludesLink(Lead, turn, plan.end, post)
                  facts == ContextFacts(plan, said, linked)
              IN  answer' = [ step   |-> "planned",
                              end    |-> plan.end,
                              asked  |-> AskedKey(Lead, turn, plan.end, post, resisted),
                              closes |-> plan.macro = "direct_close",
                              linked |-> linked,
                              facts  |-> facts,
                              text   |-> BuiltText(Lead, plan, said, facts, linked, resisted),
                              send   |-> Sending(plan, resisted) ]
    BY <1>1
<1> DEFINE post == "post_purchase" \in said
           resisted == said \cap {"hard_objection", "objection_continues"} # {}
           linked(plan) == IncludesLink(Lead, turn, plan.end, post)
           facts(plan) == ContextFacts(plan, said, linked(plan))
<1>3. PICK plan \in Plans(Lead, turn, said, met) :
          answer' = [ step   |-> "planned",
                      end    |-> plan.end,
                      asked  |-> AskedKey(Lead, turn, plan.end, post, resisted),
                      closes |-> plan.macro = "direct_close",
                      linked |-> linked(plan),
                      facts  |-> facts(plan),
                      text   |-> BuiltText(Lead, plan, said, facts(plan), linked(plan), resisted),
                      send   |-> Sending(plan, resisted) ]
    BY <1>2
<1>4. TypeOK /\ FitFollows /\ Lead \in LeadTypes
    BY LeadType DEF AnswersInv, Inv
<1>5. plan.end \in IF post THEN PostPurchaseEnds ELSE PlanEnds(Lead, turn)
    BY PlansEnd
<1>6. plan.end.key \in Keys
    <2>1. CASE post
        BY <1>5, <2>1 DEF PostPurchaseEnds, Redirect, Ends, Keys
    <2>2. CASE ~post
        BY <1>4, <1>5, <2>2, PlannedEnd
    <2> QED
        BY <2>1, <2>2
<1>7. linked(plan) \in BOOLEAN
    BY DEF IncludesLink
<1>8. BuiltText(Lead, plan, said, facts(plan), linked(plan), resisted) \in TextsOn(facts(plan))
    BY <1>6, <1>7, BuiltOnFacts
<1>9. plan.macro = "direct_close" => linked(plan)
    <2>1. SUFFICES ASSUME plan.macro = "direct_close" PROVE linked(plan)
        OBVIOUS
    <2>2. /\ MayClose(Lead, turn, said) /\ post = FALSE
          /\ plan.end = Ends("direct_close", "other", NoKey)
        BY <2>1, PlansEnd
    <2>3. IncludesLink(Lead, turn, Ends("direct_close", "other", NoKey), FALSE)
        BY <1>4, <2>2, ClosingLinks
    <2> QED
        BY <2>2, <2>3
<1> HIDE DEF post, resisted, linked, facts
<1>10. /\ answer'.step = "planned" /\ answer'.end = plan.end
       /\ answer'.asked = AskedKey(Lead, turn, plan.end, post, resisted)
       /\ answer'.closes = (plan.macro = "direct_close") /\ answer'.linked = linked(plan)
       /\ answer'.facts = facts(plan)
       /\ answer'.text = BuiltText(Lead, plan, said, facts(plan), linked(plan), resisted)
    BY <1>3, Zenon
<1>11. post \in BOOLEAN /\ resisted \in BOOLEAN
    BY DEF post, resisted
<1>12. PlannedFor(answer', Lead, turn)
    BY <1>5, <1>8, <1>9, <1>10, <1>11 DEF PlannedFor
<1>13. Lead' = Lead /\ turn' = turn /\ requirements' = requirements /\ fit' = fit
    BY <1>1 DEF Lead, vars
<1>14. Inv'
    BY <1>1, InvStep DEF AnswersInv
<1> QED
    BY <1>1, <1>10, <1>12, <1>13, <1>14, <1>4 DEF AnswersInv, FitFollows

LEMMA ReplyKeeps ==
    ASSUME AnswersInv, Reply
    PROVE  AnswersInv' /\ Answer
<1>1. turn # Idle /\ PlannedFor(answer, Lead, turn)
    BY DEF Reply, AnswersInv
<1>2. PICK post \in BOOLEAN, resisted \in BOOLEAN :
         \E end \in (IF post THEN PostPurchaseEnds ELSE PlanEnds(Lead, turn)) :
            answer.end = end /\ answer.asked = AskedKey(Lead, turn, end, post, resisted)
    BY <1>1 DEF PlannedFor
<1>3. PICK end \in (IF post THEN PostPurchaseEnds ELSE PlanEnds(Lead, turn)) :
         answer.end = end /\ answer.asked = AskedKey(Lead, turn, end, post, resisted)
    BY <1>2
<1>4. asked' = AskedKey(Lead, turn, end, post, resisted) /\ frame' = ReplyFrame(Lead, end)
    BY <1>3 DEF Reply
<1>5. Answer
    BY <1>1, <1>2, <1>3, <1>4 DEF Answer, Reply
<1>6. Inv' /\ FitFollows'
    BY <1>5, InvStep, FitFollowsStep DEF AnswersInv, Next
<1>7. PICK text \in Texts :
          answer' = [step |-> "saved", reasks |-> Reasked(text), send |-> answer.send]
    BY DEF Reply
<1>8. text \in TextsOn(answer.facts)
    BY <1>1, <1>7, ModelTextType DEF Texts, PlannedFor, When
<1>9. Reasked(text) \subseteq InOtherWords \cup OwnWords
    BY <1>8, QuestionsLeft DEF Reasked
<1>10. answer'.step = "saved" /\ answer'.reasks = Reasked(text)
    BY <1>7
<1> QED
    BY <1>5, <1>6, <1>9, <1>10 DEF AnswersInv

\* Every step is a turn of LeadConversation, a step of one, or none.
LEMMA AnswersStep ==
    ASSUME AnswersInv, [AnswersNext]_answerVars
    PROVE  AnswersInv' /\ [Next]_vars /\ [turn # Idle => Answer \/ TurnFails]_vars
<1>1. CASE ReadMessage
    <2>1. Understand /\ answer = NoAnswer /\ answer' = NoAnswer /\ turn = Idle
        BY <1>1 DEF ReadMessage, Understand
    <2>2. Inv' /\ FitFollows'
        BY <2>1, InvStep, FitFollowsStep DEF AnswersInv, Next
    <2> QED
        BY <2>1, <2>2 DEF AnswersInv, NoAnswer, Next
<1>2. CASE MakePlan
    BY <1>2, MakePlanKeeps DEF MakePlan
<1>3. CASE Reply
    BY <1>3, ReplyKeeps DEF Next
<1>4. CASE Fail
    <2>1. TurnFails /\ answer' = NoAnswer
        BY <1>4 DEF Fail
    <2>2. Inv' /\ FitFollows'
        BY <2>1, InvStep, FitFollowsStep DEF AnswersInv, Next
    <2> QED
        BY <2>1, <2>2 DEF AnswersInv, NoAnswer, Next
<1>5. CASE SendButtons \/ SendPacket \/ SendText \/ UNCHANGED answerVars
    <2>1. UNCHANGED vars /\ answer' \in {answer, NoAnswer}
        BY <1>5 DEF SendButtons, SendPacket, SendText, answerVars
    <2>2. Inv' /\ FitFollows'
        BY <2>1, InvStep, FitFollowsStep DEF AnswersInv
    <2>3. Lead' = Lead /\ turn' = turn
        BY <2>1 DEF Lead, vars
    <2> QED
        BY <2>1, <2>2, <2>3 DEF AnswersInv, NoAnswer
<1> QED
    BY <1>1, <1>2, <1>3, <1>4, <1>5 DEF AnswersNext

LEMMA AnswersStart == AnswersInit => AnswersInv
<1> SUFFICES ASSUME AnswersInit PROVE AnswersInv
    OBVIOUS
<1>1. Inv
    BY InvStarts DEF AnswersInit
<1>2. ProductFit(requirements) = "unknown"
    BY DEF AnswersInit, Init, EmptyProfile, ProductFit, Class
<1> QED
    BY <1>1, <1>2 DEF AnswersInit, AnswersInv, FitFollows, NoAnswer

LEMMA AnswersInvHolds == AnswersSpec => []AnswersInv
<1>1. AnswersInv /\ [AnswersNext]_answerVars => AnswersInv'
    BY AnswersStep
<1> QED
    BY <1>1, AnswersStart, PTL DEF AnswersSpec

\* A question is saved about a slot that the lead had filled only in words that
\* the patterns of the memory do not know (memory.py, sanitize_response_memory):
\* the model's own, or one of four of the code's questions of the requirement.
THEOREM KnownSlotsInOtherWordsOnly == AnswersSpec => []ReasksInOtherWordsOnly
<1>1. AnswersInv => ReasksInOtherWordsOnly
    BY DEF AnswersInv, ReasksInOtherWordsOnly
<1> QED
    BY <1>1, AnswersInvHolds, PTL

\* Whatever case of the plan and of the topics a text comes of, the context has
\* the facts it is built of (response.py, fallback_response; planners.py,
\* _knowledge_needs).
THEOREM TextsHaveTheirFacts == AnswersSpec => []NeverShortOfFacts
<1>1. AnswersInv => NeverShortOfFacts
    BY DEF AnswersInv, PlannedFor, TextsOn, NeverShortOfFacts
<1> QED
    BY <1>1, AnswersInvHolds, PTL

\* The answer that closes the sale gives the link to the app (planners.py,
\* can_direct_close; fulfillment.py, _should_include_app_link).
THEOREM TheCloseGivesTheLink == AnswersSpec => []ClosesWithLink
<1>1. AnswersInv => ClosesWithLink
    BY DEF AnswersInv, PlannedFor, ClosesWithLink
<1> QED
    BY <1>1, AnswersInvHolds, PTL

\* Whatever is said and planned, a turn ends as module LeadConversation allows
\* (planners.py, SalesPolicyPlanner._plan_state).
THEOREM PlansImplementConversation == AnswersSpec => ImplementsConversation
<1>1. AnswersInv /\ [AnswersNext]_answerVars => [turn # Idle => Answer \/ TurnFails]_vars
    BY AnswersStep
<1> QED
    BY <1>1, AnswersInvHolds, PTL DEF AnswersSpec, ImplementsConversation

\* The planner's answers are conversations: all that is proved of module
\* LeadConversation holds of them (graph.py).
THEOREM AnswersAreConversations == AnswersSpec => Spec
<1>1. AnswersInv /\ [AnswersNext]_answerVars => [Next]_vars
    BY AnswersStep
<1>2. AnswersInit => Init
    BY DEF AnswersInit
<1> QED
    BY <1>1, <1>2, AnswersInvHolds, PTL DEF AnswersSpec, Spec

-----------------------------------------------------------------------------
(* A fold is a run of its steps: what FoldLeft has after each element. *)

\* A property that the first numbers have and each number hands to the next.
LEMMA RunInduction ==
    ASSUME NEW N \in Nat, NEW f, NEW Good, f[0] \in Good[0],
           \A k \in 1 .. N : f[k - 1] \in Good[k - 1] => f[k] \in Good[k]
    PROVE  \A k \in 0 .. N : f[k] \in Good[k]
<1> DEFINE R == OpToRel(<, Nat)
           bad == { k \in 0 .. N : f[k] \notin Good[k] }
<1>1. SUFFICES ASSUME bad # {} PROVE FALSE
    OBVIOUS
<1>2. IsWellFoundedOn(R, Nat)
    BY NatLessThanWellFounded
<1>3. PICK x \in bad : \A y \in bad : ~(<<y, x>> \in R)
    <2> bad \subseteq Nat
        OBVIOUS
    <2> HIDE DEF bad, R
    <2> QED
        BY <1>1, <1>2, WFMin
<1>4. \A y \in bad : ~(y < x)
    <2>1. R = { pair \in Nat \X Nat : pair[1] < pair[2] }
        BY Zenon DEF OpToRel
    <2>2. bad \subseteq Nat
        OBVIOUS
    <2>3. \A y \in bad : y < x => <<y, x>> \in R
        BY <2>1, <2>2
    <2> QED
        BY <1>3, <2>3
<1>5. x # 0 /\ x - 1 \in 0 .. N /\ x \in 1 .. N
    OBVIOUS
<1>6. f[x - 1] \in Good[x - 1]
    BY <1>4, <1>5
<1> QED
    BY <1>5, <1>6

\* The positions of a sequence, and those before one of them.
LEMMA Positions ==
    ASSUME NEW N \in Nat, NEW k \in 1 .. N
    PROVE  k \in 0 .. N /\ k - 1 \in 0 .. N /\ 1 .. k # {} /\ k \in Nat \ {0} /\ 1 .. k \in SUBSET (1 .. N)
OBVIOUS

\* The last of the numbers up to k.
LEMMA MaxOfRange ==
    ASSUME NEW k \in Nat \ {0}
    PROVE  Max(1 .. k) = k /\ (1 .. k) \ {k} = 1 .. (k - 1)
BY DEF Max

\* What a fold does with the sets of positions, and one position after the other.
FoldsOf(States, N, base, step) ==
    { iter \in [SUBSET (1 .. N) -> States] :
        \A s \in SUBSET (1 .. N) :
          iter[s] = IF s = {} THEN base ELSE step[<<Max(s), iter[s \ {Max(s)}]>>] }

RunsOf(States, N, base, step) ==
    { f \in [0 .. N -> States] : f[0] = base /\ \A k \in 1 .. N : f[k] = step[<<k, f[k - 1]>>] }

\* There is a function that folds every part of the positions.
LEMMA FoldExists ==
    ASSUME NEW States, NEW N \in Nat, NEW base \in States, NEW step \in [(1 .. N) \X States -> States]
    PROVE  FoldsOf(States, N, base, step) # {}
<1> DEFINE Runs(k) == { iter \in [SUBSET (1 .. k) -> States] :
                 \A s \in SUBSET (1 .. k) :
                   iter[s] = IF s = {} THEN base ELSE step[<<Max(s), iter[s \ {Max(s)}]>>] }
           f == [k \in 0 .. N |-> Runs(k)]
           Good == [k \in 0 .. N |-> {runs \in {Runs(k)} : runs # {}}]
<1>1. Runs(0) # {}
    <2>1. 1 .. 0 = {}
        OBVIOUS
    <2>2. [s \in SUBSET (1 .. 0) |-> base] \in Runs(0)
        BY <2>1
    <2> QED
        BY <2>2
<1>2. ASSUME NEW k \in 1 .. N, NEW iter \in Runs(k - 1)
      PROVE  Runs(k) # {}
    <2> DEFINE next == [s \in SUBSET (1 .. k) |->
                   IF k \in s THEN step[<<k, iter[s \ {k}]>>] ELSE iter[s]]
    <2>1. \A s \in SUBSET (1 .. k) : k \notin s => s \in SUBSET (1 .. (k - 1))
        OBVIOUS
    <2>2. \A s \in SUBSET (1 .. k) : k \in s => s \ {k} \in SUBSET (1 .. (k - 1)) /\ Max(s) = k
        <3>1. ASSUME NEW s \in SUBSET (1 .. k), k \in s
              PROVE  Max(s) = k
            <4>1. \A y \in s : k >= y
                OBVIOUS
            <4>2. \A x \in s : (\A y \in s : x >= y) => x = k
                BY <3>1
            <4> QED
                BY <3>1, <4>1, <4>2 DEF Max
        <3> QED
            BY <3>1
    <2>3. \A s \in SUBSET (1 .. (k - 1)) : iter[s] \in States
        OBVIOUS
    <2>4. next \in [SUBSET (1 .. k) -> States]
        <3>1. \A s \in SUBSET (1 .. k) : k \in s => <<k, iter[s \ {k}]>> \in (1 .. N) \X States
            BY <2>2, <2>3
        <3>2. \A s \in SUBSET (1 .. k) : k \in s => step[<<k, iter[s \ {k}]>>] \in States
            BY <3>1
        <3> QED
            BY <2>1, <2>3, <3>2
    <2>5. ASSUME NEW s \in SUBSET (1 .. k)
          PROVE  next[s] = IF s = {} THEN base ELSE step[<<Max(s), next[s \ {Max(s)}]>>]
        <3>1. CASE k \in s
            <4>1. Max(s) = k /\ s \ {k} \in SUBSET (1 .. (k - 1)) /\ s \ {k} \in SUBSET (1 .. k)
                BY <2>2, <3>1
            <4>2. next[s \ {k}] = iter[s \ {k}]
                BY <4>1
            <4>3. next[s] = step[<<k, iter[s \ {k}]>>]
                BY <3>1
            <4> HIDE DEF next
            <4> QED
                BY <3>1, <4>1, <4>2, <4>3
        <3>2. CASE k \notin s /\ s # {}
            <4>1. s \in SUBSET (1 .. (k - 1))
                BY <3>2, <2>1
            <4>2. s \ {Max(s)} \in SUBSET (1 .. (k - 1)) /\ s \ {Max(s)} \in SUBSET (1 .. k)
                BY <4>1
            <4>3. k \notin s \ {Max(s)}
                BY <3>2
            <4>4. next[s] = iter[s] /\ next[s \ {Max(s)}] = iter[s \ {Max(s)}]
                BY <3>2, <4>2, <4>3
            <4>5. iter[s] = step[<<Max(s), iter[s \ {Max(s)}]>>]
                BY <3>2, <4>1
            <4> HIDE DEF next
            <4> QED
                BY <3>2, <4>4, <4>5
        <3>3. CASE s = {}
            BY <3>3
        <3> QED
            BY <3>1, <3>2, <3>3
    <2>6. next \in Runs(k)
        BY <2>4, <2>5
    <2> QED
        BY <2>6
<1> HIDE DEF Runs
<1>3. \A k \in 0 .. N : f[k] \in Good[k] <=> Runs(k) # {}
    OBVIOUS
<1>4. \A k \in 1 .. N : f[k - 1] \in Good[k - 1] => f[k] \in Good[k]
    <2>1. \A k \in 1 .. N : k - 1 \in 0 .. N /\ k \in 0 .. N
        OBVIOUS
    <2> HIDE DEF f, Good
    <2> QED
        BY <2>1, <1>2, <1>3
<1>5. f[0] \in Good[0]
    BY <1>1
<1>6. f[N] \in Good[N]
    <2> HIDE DEF f, Good
    <2> QED
        BY <1>4, <1>5, RunInduction
<1>7. Runs(N) # {}
    BY <1>3, <1>6
<1> QED
    BY <1>7 DEF Runs, FoldsOf

\* The same, one position after the other.
LEMMA RunExists ==
    ASSUME NEW States, NEW N \in Nat, NEW base \in States, NEW step \in [(1 .. N) \X States -> States]
    PROVE  RunsOf(States, N, base, step) # {}
<1>1. PICK iter \in [SUBSET (1 .. N) -> States] :
         \A s \in SUBSET (1 .. N) :
           iter[s] = IF s = {} THEN base ELSE step[<<Max(s), iter[s \ {Max(s)}]>>]
    <2>1. FoldsOf(States, N, base, step) # {}
        BY FoldExists
    <2> QED
        BY <2>1 DEF FoldsOf
<1> DEFINE f == [k \in 0 .. N |-> iter[1 .. k]]
<1>2. \A k \in 0 .. N : 1 .. k \in SUBSET (1 .. N)
    OBVIOUS
<1>3. f \in [0 .. N -> States]
    BY <1>2
<1>4. f[0] = base
    <2>1. 1 .. 0 = {} /\ f[0] = iter[1 .. 0]
        OBVIOUS
    <2> QED
        BY <1>1, <2>1
<1>5. ASSUME NEW k \in 1 .. N
      PROVE  f[k] = step[<<k, f[k - 1]>>]
    <2>1. k \in 0 .. N /\ k - 1 \in 0 .. N /\ 1 .. k # {} /\ k \in Nat \ {0}
        OBVIOUS
    <2>2. Max(1 .. k) = k /\ (1 .. k) \ {k} = 1 .. (k - 1)
        BY <2>1, MaxOfRange
    <2>3. iter[1 .. k] = step[<<k, iter[1 .. (k - 1)]>>]
        BY <1>1, <1>2, <2>1, <2>2
    <2> QED
        BY <2>1, <2>3
<1> HIDE DEF f
<1> QED
    BY <1>3, <1>4, <1>5 DEF RunsOf


-----------------------------------------------------------------------------
(* FlattenSeq, by its runs. *)

\* Concatenation is associative, and an element goes to its end.
Associates(X) == \A a, b, c \in Seq(X) : (a \o b) \o c = a \o (b \o c)
Appends(X) == \A a, b \in Seq(X) : \A x \in X : a \o Append(b, x) = Append(a \o b, x)

\* The first of them holds of every set.
LEMMA ConcatAssociates ==
    ASSUME NEW X
    PROVE  Associates(X)
<1> SUFFICES ASSUME NEW a \in Seq(X), NEW b \in Seq(X), NEW c \in Seq(X)
             PROVE  (a \o b) \o c = a \o (b \o c)
    BY DEF Associates
<1> QED
    BY ConcatAssociative

\* And so does the second.
LEMMA ConcatAppends ==
    ASSUME NEW X
    PROVE  Appends(X)
<1> SUFFICES ASSUME NEW a \in Seq(X), NEW b \in Seq(X), NEW x \in X
             PROVE  a \o Append(b, x) = Append(a \o b, x)
    BY DEF Appends
<1> QED
    OBVIOUS

\* What FlattenSeq has put together after each sequence.
LEMMA FlattenRuns ==
    ASSUME NEW X, NEW s \in Seq(Seq(X))
    PROVE  \E f \in [0 .. Len(s) -> Seq(X)] :
             /\ f[0] = <<>>
             /\ \A k \in 1 .. Len(s) : f[k] = f[k - 1] \o s[k]
             /\ FlattenSeq(s) = f[Len(s)]
<1>1. CASE Len(s) = 0
    <2>1. s = <<>> /\ <<>> \in Seq(X)
        BY <1>1
    <2>2. FlattenSeq(s) = <<>>
        BY <1>1, <2>1 DEF FlattenSeq
    <2> WITNESS [k \in 0 .. Len(s) |-> <<>>] \in [0 .. Len(s) -> Seq(X)]
    <2> QED
        BY <1>1, <2>2
<1>2. CASE Len(s) # 0
    <2> DEFINE N == Len(s)
               step == [x \in (1 .. N) \X Seq(X) |-> x[2] \o s[x[1]]]
               rule(g) == [i \in 1 .. Len(s) |-> IF i = 1 THEN s[i] ELSE g[i - 1] \o s[i]]
               flatten == CHOOSE g : g = rule(g)
               f == [k \in 0 .. N |-> IF k = 0 THEN <<>> ELSE flatten[k]]
               Good == [k \in 0 .. N |-> Seq(X)]
    <2>1. N \in Nat \ {0} /\ <<>> \in Seq(X) /\ \A i \in 1 .. N : s[i] \in Seq(X)
        BY <1>2
    <2>2. step \in [(1 .. N) \X Seq(X) -> Seq(X)]
        <3>1. \A x \in (1 .. N) \X Seq(X) : x[2] \in Seq(X) /\ s[x[1]] \in Seq(X)
            BY <2>1
        <3>2. \A x \in (1 .. N) \X Seq(X) : x[2] \o s[x[1]] \in Seq(X)
            BY <3>1, ConcatProperties, Zenon
        <3> QED
            BY <3>2
    <2>3. PICK run \in [0 .. N -> Seq(X)] :
             run[0] = <<>> /\ \A k \in 1 .. N : run[k] = step[<<k, run[k - 1]>>]
        <3> HIDE DEF step, N
        <3> QED
            <4>1. RunsOf(Seq(X), N, <<>>, step) # {}
                BY <2>1, <2>2, RunExists
            <4> QED
                BY <4>1 DEF RunsOf
    <2>4. ASSUME NEW i \in 1 .. N
          PROVE  run[i] = run[i - 1] \o s[i]
        <3>1. i - 1 \in 0 .. N
            OBVIOUS
        <3>2. <<i, run[i - 1]>> \in (1 .. N) \X Seq(X)
            BY <3>1
        <3> QED
            BY <2>3, <3>2
    <2>5. run[1] = s[1]
        <3>1. run[1] = <<>> \o s[1]
            <4>1. 1 \in 1 .. N /\ 1 - 1 = 0
                BY <2>1
            <4>2. run[1] = run[1 - 1] \o s[1]
                BY <2>4, <4>1, Zenon
            <4> HIDE DEF step, rule
            <4> QED
                BY <2>3, <4>1, <4>2, Zenon
        <3> QED
            BY <2>1, <3>1, ConcatEmptySeq
    <2>6. \E g : g = rule(g)
        <3> DEFINE g == [i \in 1 .. N |-> run[i]]
        <3>1. \A i \in 1 .. N : i # 1 => i - 1 \in 1 .. N
            BY <2>1
        <3>2. \A i \in 1 .. N : g[i] = rule(g)[i]
            BY <2>1, <2>4, <2>5, <3>1
        <3>3. g = rule(g)
            BY <3>2
        <3> HIDE DEF g, rule
        <3> QED
            BY <3>3
    <2>7. flatten = rule(flatten)
        <3> HIDE DEF rule
        <3> QED
            BY <2>6
    <2>8. FlattenSeq(s) = flatten[Len(s)]
        BY <1>2 DEF FlattenSeq
    <2>9. \A i \in 1 .. N : flatten[i] = IF i = 1 THEN s[i] ELSE flatten[i - 1] \o s[i]
        <3> HIDE DEF flatten
        <3> QED
            BY <2>7
    <2> HIDE DEF flatten
    <2>10. f[0] = <<>> /\ \A k \in 1 .. N : f[k] = flatten[k]
        BY <2>1
    <2>11. ASSUME NEW k \in 1 .. N
           PROVE  f[k] = f[k - 1] \o s[k]
        <3>1. CASE k = 1
            BY <2>1, <2>9, <2>10, <3>1, ConcatEmptySeq
        <3>2. CASE k # 1
            <4>1. k - 1 \in 1 .. N
                BY <3>2
            <4> QED
                BY <2>9, <2>10, <3>2, <4>1
        <3> QED
            BY <3>1, <3>2
    <2>12. \A k \in 0 .. N : f[k] \in Seq(X)
        <3>1. \A k \in 0 .. N : Good[k] = Seq(X)
            OBVIOUS
        <3>2. ASSUME NEW k \in 1 .. N, f[k - 1] \in Good[k - 1]
              PROVE  f[k] \in Good[k]
            <4>1. k - 1 \in 0 .. N /\ k \in 0 .. N
                OBVIOUS
            <4>2. f[k - 1] \in Seq(X)
                BY <3>1, <3>2, <4>1
            <4>3. f[k - 1] \o s[k] \in Seq(X)
                BY <2>1, <4>2, ConcatProperties, Zenon
            <4> QED
                BY <2>11, <3>1, <4>1, <4>3
        <3>3. f[0] \in Good[0]
            BY <2>1, <2>10
        <3> HIDE DEF f, Good
        <3>4. \A k \in 0 .. N : f[k] \in Good[k]
            BY <2>1, <3>2, <3>3, RunInduction
        <3> QED
            BY <3>1, <3>4
    <2>13. f \in [0 .. N -> Seq(X)]
        BY <2>12
    <2>14. FlattenSeq(s) = f[Len(s)]
        BY <2>1, <2>8, <2>10
    <2> HIDE DEF f
    <2> QED
        BY <2>10, <2>11, <2>13, <2>14
<1> QED
    BY <1>1, <1>2

\* What FlattenSeq gives is a sequence of the elements.
LEMMA FlattenType ==
    ASSUME NEW X, NEW s \in Seq(Seq(X))
    PROVE  FlattenSeq(s) \in Seq(X)
<1>1. Len(s) \in 0 .. Len(s)
    OBVIOUS
<1>2. PICK f \in [0 .. Len(s) -> Seq(X)] : FlattenSeq(s) = f[Len(s)]
    BY FlattenRuns
<1> QED
    BY <1>1, <1>2

\* Nothing is flattened to nothing.
LEMMA FlattenEmpty == FlattenSeq(<<>>) = <<>>
BY DEF FlattenSeq

\* One more sequence goes to the end.
LEMMA FlattenAppend ==
    ASSUME NEW X, NEW s \in Seq(Seq(X)), NEW x \in Seq(X)
    PROVE  FlattenSeq(Append(s, x)) = FlattenSeq(s) \o x
<1> DEFINE N == Len(s)
           t == Append(s, x)
<1>1. N \in Nat /\ t \in Seq(Seq(X)) /\ Len(t) = N + 1 /\ t[N + 1] = x
      /\ \A k \in 1 .. N : t[k] = s[k]
    OBVIOUS
<1> HIDE DEF t
<1>2. PICK f \in [0 .. N -> Seq(X)] :
             /\ f[0] = <<>>
             /\ \A k \in 1 .. N : f[k] = f[k - 1] \o s[k]
             /\ FlattenSeq(s) = f[N]
    BY FlattenRuns
<1>3. PICK g \in [0 .. Len(t) -> Seq(X)] :
             /\ g[0] = <<>>
             /\ \A k \in 1 .. Len(t) : g[k] = g[k - 1] \o t[k]
             /\ FlattenSeq(t) = g[Len(t)]
    BY <1>1, FlattenRuns
<1> DEFINE Good == [k \in 0 .. N |-> {g[k]}]
<1>4. \A k \in 0 .. N : Good[k] = {g[k]}
    OBVIOUS
<1>5. ASSUME NEW k \in 1 .. N, f[k - 1] \in Good[k - 1]
      PROVE  f[k] \in Good[k]
    <2>1. k \in 0 .. N /\ k - 1 \in 0 .. N /\ k \in 1 .. Len(t)
        BY <1>1
    <2>2. f[k - 1] = g[k - 1]
        BY <1>4, <1>5, <2>1
    <2>3. f[k] = g[k]
        BY <1>1, <1>2, <1>3, <2>1, <2>2
    <2> QED
        BY <1>4, <2>1, <2>3
<1>6. f[0] \in Good[0]
    BY <1>1, <1>2, <1>3
<1>7. \A k \in 0 .. N : f[k] \in Good[k]
    <2> HIDE DEF Good
    <2> QED
        BY <1>1, <1>5, <1>6, RunInduction
<1>8. f[N] = g[N]
    <2>1. N \in 0 .. N
        BY <1>1
    <2> QED
        BY <1>4, <1>7, <2>1
<1>9. N + 1 \in 1 .. Len(t) /\ (N + 1) - 1 = N
    BY <1>1
<1>10. g[N + 1] = g[N] \o t[N + 1]
    BY <1>3, <1>9
<1> QED
    BY <1>1, <1>2, <1>3, <1>8, <1>10 DEF t

\* A single sequence is itself.
LEMMA FlattenOne ==
    ASSUME NEW X, NEW x \in Seq(X)
    PROVE  FlattenSeq(<<x>>) = x
<1>1. <<>> \in Seq(Seq(X)) /\ <<x>> = Append(<<>>, x)
    OBVIOUS
<1>2. FlattenSeq(<<x>>) = <<>> \o x
    BY <1>1, FlattenAppend, FlattenEmpty
<1> QED
    BY <1>2, ConcatEmptySeq

\* A sequence is its beginning and the element after it.
LEMMA PrefixStep ==
    ASSUME NEW X, NEW s \in Seq(X), NEW k \in 1 .. Len(s)
    PROVE  /\ SubSeq(s, 1, k - 1) \in Seq(X)
           /\ SubSeq(s, 1, k) = Append(SubSeq(s, 1, k - 1), s[k])
           /\ SubSeq(s, 1, k) = SubSeq(s, 1, k - 1) \o <<s[k]>>
           /\ s[k] \in X /\ <<s[k]>> \in Seq(X)
<1>1. SubSeq(s, 1, k - 1) \in Seq(X) /\ Len(SubSeq(s, 1, k - 1)) = k - 1
    OBVIOUS
<1>2. SubSeq(s, 1, k) \in Seq(X) /\ Len(SubSeq(s, 1, k)) = k
    OBVIOUS
<1>3. s[k] \in X
    OBVIOUS
<1>4. Append(SubSeq(s, 1, k - 1), s[k]) \in Seq(X) /\ Len(Append(SubSeq(s, 1, k - 1), s[k])) = k
    BY <1>1, <1>3
<1>5. \A i \in 1 .. k : SubSeq(s, 1, k)[i] = Append(SubSeq(s, 1, k - 1), s[k])[i]
    BY <1>1
<1>6. SubSeq(s, 1, k) = Append(SubSeq(s, 1, k - 1), s[k])
    BY <1>2, <1>4, <1>5, SeqEqual
<1>7. Append(SubSeq(s, 1, k - 1), s[k]) = SubSeq(s, 1, k - 1) \o <<s[k]>>
    BY <1>1, <1>3, AppendIsConcat
<1>8. <<s[k]>> \in Seq(X)
    BY <1>3
<1> QED
    BY <1>1, <1>3, <1>6, <1>7, <1>8

\* The shortest prefix of a sequence and the longest one.
LEMMA WholePrefix ==
    ASSUME NEW X, NEW s \in Seq(X)
    PROVE  SubSeq(s, 1, 0) = <<>> /\ SubSeq(s, 1, Len(s)) = s
OBVIOUS

\* What holds of the empty sequence, and of a sequence with one more element when it
\* does of it, holds of all: for the sequences of a set, and a set of those.
LEMMA PrefixInduction ==
    ASSUME NEW X, NEW s \in Seq(X), NEW Good,
           <<>> \in Good,
           \A k \in 1 .. Len(s) :
             SubSeq(s, 1, k - 1) \in Good => Append(SubSeq(s, 1, k - 1), s[k]) \in Good
    PROVE  s \in Good
<1> DEFINE N == Len(s)
           f == [k \in 0 .. N |-> SubSeq(s, 1, k)]
           G == [k \in 0 .. N |-> Good]
<1>1. N \in Nat /\ f[0] = <<>> /\ f[N] = s /\ \A k \in 0 .. N : f[k] = SubSeq(s, 1, k) /\ G[k] = Good
    BY WholePrefix
<1>2. ASSUME NEW k \in 1 .. N, f[k - 1] \in G[k - 1]
      PROVE  f[k] \in G[k]
    <2>1. k \in 0 .. N /\ k - 1 \in 0 .. N
        OBVIOUS
    <2>2. SubSeq(s, 1, k - 1) \in Good
        BY <1>1, <1>2, <2>1
    <2>3. SubSeq(s, 1, k) = Append(SubSeq(s, 1, k - 1), s[k])
        BY PrefixStep
    <2> QED
        BY <1>1, <2>1, <2>2, <2>3
<1>3. f[0] \in G[0]
    <2>1. 0 \in 0 .. N
        BY <1>1
    <2> HIDE DEF f, G
    <2> QED
        BY <1>1, <2>1
<1> HIDE DEF f, G
<1>4. \A k \in 0 .. N : f[k] \in G[k]
    BY <1>1, <1>2, <1>3, RunInduction
<1> QED
    BY <1>1, <1>4

\* FlattenSeq distributes over concatenation.
LEMMA FlattenConcat ==
    ASSUME NEW X, NEW s \in Seq(Seq(X)), NEW t \in Seq(Seq(X))
    PROVE  FlattenSeq(s \o t) = FlattenSeq(s) \o FlattenSeq(t)
<1>a. Associates(X) /\ Appends(Seq(X))
    BY ConcatAssociates, ConcatAppends, Zenon
<1> DEFINE Good == { u \in Seq(Seq(X)) : FlattenSeq(s \o u) = FlattenSeq(s) \o FlattenSeq(u) }
<1>1. FlattenSeq(s) \in Seq(X)
    BY FlattenType
<1>2. <<>> \in Good
    <2>1. s \o <<>> = s /\ FlattenSeq(s) \o <<>> = FlattenSeq(s)
        BY <1>1, ConcatEmptySeq
    <2>2. <<>> \in Seq(Seq(X))
        OBVIOUS
    <2> QED
        BY <2>1, <2>2, FlattenEmpty
<1>3. ASSUME NEW k \in 1 .. Len(t), SubSeq(t, 1, k - 1) \in Good
      PROVE  Append(SubSeq(t, 1, k - 1), t[k]) \in Good
    <2> DEFINE u == SubSeq(t, 1, k - 1)
    <2>1. u \in Seq(Seq(X)) /\ t[k] \in Seq(X) /\ FlattenSeq(s \o u) = FlattenSeq(s) \o FlattenSeq(u)
        BY <1>3
    <2> HIDE DEF u
    <2>2. s \o Append(u, t[k]) = Append(s \o u, t[k]) /\ s \o u \in Seq(Seq(X))
          /\ Append(u, t[k]) \in Seq(Seq(X))
        <3>1. s \o u \in Seq(Seq(X)) /\ Append(u, t[k]) \in Seq(Seq(X))
            BY <2>1
        <3>2. s \o Append(u, t[k]) = Append(s \o u, t[k])
            BY <2>1, <1>a, Zenon DEF Appends
        <3> QED
            BY <3>1, <3>2
    <2>3. FlattenSeq(Append(s \o u, t[k])) = FlattenSeq(s \o u) \o t[k]
        BY <2>1, <2>2, FlattenAppend
    <2>4. FlattenSeq(Append(u, t[k])) = FlattenSeq(u) \o t[k]
        BY <2>1, FlattenAppend
    <2>5. FlattenSeq(u) \in Seq(X)
        BY <2>1, FlattenType
    <2>6. (FlattenSeq(s) \o FlattenSeq(u)) \o t[k] = FlattenSeq(s) \o (FlattenSeq(u) \o t[k])
        <3>1. FlattenSeq(s) \in Seq(X) /\ FlattenSeq(u) \in Seq(X) /\ t[k] \in Seq(X)
            BY <1>1, <2>1, <2>5
        <3> QED
            BY <3>1, <1>a, Zenon DEF Associates
    <2>7. Append(u, t[k]) \in Good
        BY <2>1, <2>2, <2>3, <2>4, <2>6
    <2> QED
        BY <2>7 DEF u
<1>4. t \in Good
    <2> HIDE DEF Good
    <2> QED
        BY <1>2, <1>3, PrefixInduction
<1> QED
    BY <1>4

\* The parts of what is put together, and a sequence of one by one.
LEMMA FlattenSingles ==
    ASSUME NEW X, NEW s \in Seq(X)
    PROVE  FlattenSeq([n \in DOMAIN s |-> <<s[n]>>]) = s
<1> DEFINE Singles(u) == [n \in DOMAIN u |-> <<u[n]>>]
           Good == { u \in Seq(X) : FlattenSeq(Singles(u)) = u }
<1>1. <<>> \in Good
    <2>1. Singles(<<>>) = <<>> /\ <<>> \in Seq(X)
        OBVIOUS
    <2> QED
        BY <2>1, FlattenEmpty
<1>2. ASSUME NEW k \in 1 .. Len(s), SubSeq(s, 1, k - 1) \in Good
      PROVE  Append(SubSeq(s, 1, k - 1), s[k]) \in Good
    <2> DEFINE u == SubSeq(s, 1, k - 1)
    <2>1. u \in Seq(X) /\ s[k] \in X /\ FlattenSeq(Singles(u)) = u
        <3> HIDE DEF Singles
        <3> QED
            BY <1>2
    <2> HIDE DEF u
    <2>2. Singles(u) \in Seq(Seq(X)) /\ <<s[k]>> \in Seq(X)
        <3>1. \A n \in DOMAIN u : <<u[n]>> \in Seq(X)
            BY <2>1
        <3>2. DOMAIN u = 1 .. Len(u) /\ Len(u) \in Nat
            BY <2>1
        <3> QED
            BY <2>1, <3>1, <3>2, IsASeq
    <2>3. Singles(Append(u, s[k])) = Append(Singles(u), <<s[k]>>)
        BY <2>1
    <2>4. FlattenSeq(Append(Singles(u), <<s[k]>>)) = FlattenSeq(Singles(u)) \o <<s[k]>>
        <3> HIDE DEF Singles
        <3> QED
            BY <2>2, FlattenAppend
    <2>5. Append(u, s[k]) = u \o <<s[k]>> /\ Append(u, s[k]) \in Seq(X)
        BY <2>1
    <2>6. Append(u, s[k]) \in Good
        <3> HIDE DEF Singles
        <3> QED
            BY <2>1, <2>3, <2>4, <2>5
    <2> QED
        BY <2>6 DEF u
<1>3. s \in Good
    <2> HIDE DEF Good
    <2> QED
        BY <1>1, <1>2, PrefixInduction
<1> QED
    BY <1>3


-----------------------------------------------------------------------------
(* Flattening what a function gives of each element. *)

\* The sequences that a function gives of each element, put together.
MapFlat(g, s) == FlattenSeq([n \in DOMAIN s |-> g[s[n]]])

\* A function is applied to every element.
LEMMA MapType ==
    ASSUME NEW X, NEW Y, NEW g \in [X -> Y], NEW s \in Seq(X)
    PROVE  [n \in DOMAIN s |-> g[s[n]]] \in Seq(Y)
<1>1. DOMAIN s = 1 .. Len(s) /\ Len(s) \in Nat /\ \A n \in DOMAIN s : g[s[n]] \in Y
    OBVIOUS
<1> QED
    BY <1>1, IsASeq

\* The elements of what is put together.
LEMMA MapFlatType ==
    ASSUME NEW X, NEW Y, NEW g \in [X -> Seq(Y)], NEW s \in Seq(X)
    PROVE  MapFlat(g, s) \in Seq(Y)
<1>1. [n \in DOMAIN s |-> g[s[n]]] \in Seq(Seq(Y))
    BY MapType
<1> QED
    BY <1>1, FlattenType DEF MapFlat

\* Of no element there is nothing.
LEMMA MapFlatEmpty ==
    ASSUME NEW g
    PROVE  MapFlat(g, <<>>) = <<>>
<1>1. [n \in DOMAIN <<>> |-> g[<<>>[n]]] = <<>>
    OBVIOUS
<1> QED
    BY <1>1, FlattenEmpty DEF MapFlat

\* Of one element there is what the function gives of it.
LEMMA MapFlatOne ==
    ASSUME NEW X, NEW Y, NEW g \in [X -> Seq(Y)], NEW x \in X
    PROVE  MapFlat(g, <<x>>) = g[x]
<1>1. [n \in DOMAIN <<x>> |-> g[<<x>>[n]]] = <<g[x]>>
    OBVIOUS
<1>2. g[x] \in Seq(Y)
    OBVIOUS
<1> QED
    BY <1>1, <1>2, FlattenOne DEF MapFlat

\* MapFlat distributes over concatenation.
LEMMA MapFlatConcat ==
    ASSUME NEW X, NEW Y, NEW g \in [X -> Seq(Y)], NEW a \in Seq(X), NEW b \in Seq(X)
    PROVE  MapFlat(g, a \o b) = MapFlat(g, a) \o MapFlat(g, b)
<1> DEFINE Of(s) == [n \in DOMAIN s |-> g[s[n]]]
<1>1. Of(a) \in Seq(Seq(Y)) /\ Of(b) \in Seq(Seq(Y))
    BY MapType
<1>2. a \o b \in Seq(X) /\ Len(a \o b) = Len(a) + Len(b)
      /\ DOMAIN a = 1 .. Len(a) /\ DOMAIN b = 1 .. Len(b) /\ DOMAIN (a \o b) = 1 .. Len(a) + Len(b)
      /\ Len(a) \in Nat /\ Len(b) \in Nat
    OBVIOUS
<1>3. Of(a \o b) \in Seq(Seq(Y)) /\ Len(Of(a \o b)) = Len(a) + Len(b)
    <2>1. Of(a \o b) \in Seq(Seq(Y))
        BY <1>2, MapType
    <2>2. DOMAIN Of(a \o b) = 1 .. Len(a) + Len(b)
        BY <1>2
    <2> QED
        BY <1>2, <2>1, <2>2
<1>4. Of(a) \o Of(b) \in Seq(Seq(Y)) /\ Len(Of(a) \o Of(b)) = Len(a) + Len(b)
    <2>1. Len(Of(a)) = Len(a) /\ Len(Of(b)) = Len(b)
        BY <1>1, <1>2
    <2> HIDE DEF Of
    <2>2. Of(a) \o Of(b) \in Seq(Seq(Y)) /\ Len(Of(a) \o Of(b)) = Len(Of(a)) + Len(Of(b))
        BY <1>1, ConcatProperties, Zenon
    <2> QED
        BY <2>1, <2>2
<1>5. ASSUME NEW n \in 1 .. Len(a) + Len(b)
      PROVE  Of(a \o b)[n] = (Of(a) \o Of(b))[n]
    <2>1. Of(a \o b)[n] = g[(a \o b)[n]]
        BY <1>2
    <2>2. Len(Of(a)) = Len(a) /\ Len(Of(b)) = Len(b)
        BY <1>1, <1>2
    <2>3. (Of(a) \o Of(b))[n] = IF n <= Len(a) THEN Of(a)[n] ELSE Of(b)[n - Len(a)]
        <3> HIDE DEF Of
        <3> QED
            BY <1>1, <2>2
    <2>4. (a \o b)[n] = IF n <= Len(a) THEN a[n] ELSE b[n - Len(a)]
        OBVIOUS
    <2>5. CASE n <= Len(a)
        <3>1. n \in DOMAIN a
            BY <1>2, <2>5
        <3>2. Of(a)[n] = g[a[n]]
            BY <3>1
        <3> HIDE DEF Of
        <3> QED
            BY <2>1, <2>3, <2>4, <2>5, <3>2
    <2>6. CASE ~(n <= Len(a))
        <3>1. n - Len(a) \in DOMAIN b
            BY <1>2, <2>6
        <3>2. Of(b)[n - Len(a)] = g[b[n - Len(a)]]
            BY <3>1
        <3> HIDE DEF Of
        <3> QED
            BY <2>1, <2>3, <2>4, <2>6, <3>2
    <2> QED
        BY <2>5, <2>6
<1> HIDE DEF Of
<1>6. Of(a \o b) = Of(a) \o Of(b)
    BY <1>3, <1>4, <1>5, SeqEqual
<1>7. FlattenSeq(Of(a) \o Of(b)) = FlattenSeq(Of(a)) \o FlattenSeq(Of(b))
    BY <1>1, FlattenConcat
<1> QED
    BY <1>6, <1>7 DEF MapFlat, Of

\* The same of lengths, for every function and sequences at once.
LEMMA MapFlatOfLengths ==
    \A X : \A g \in [X -> Seq(Nat)] : \A a, b \in Seq(X) :
      MapFlat(g, a \o b) = MapFlat(g, a) \o MapFlat(g, b)
BY MapFlatConcat


-----------------------------------------------------------------------------
(* The words of parts, and of a draft. *)

WordLength == Nat \ {0}

\* A part of a draft, and one that is sent.
AnyPart == [words : Seq(Nat), size : Nat]
Sent == [words : Seq(Nat), size : Nat, alone : BOOLEAN]

WordsOf(parts) == FlattenSeq([n \in DOMAIN parts |-> parts[n].words])

Pieces(length) == [m \in DOMAIN Cut(length) |-> Cut(length)[m].size]
CutWords(words) == FlattenSeq([n \in DOMAIN words |-> Pieces(words[n])])

\* No parts have no words.
LEMMA WordsOfEmpty == WordsOf(<<>>) = <<>>
<1>1. [n \in DOMAIN <<>> |-> <<>>[n].words] = <<>>
    OBVIOUS
<1> QED
    BY <1>1, FlattenEmpty DEF WordsOf

\* The words of parts, as a function applied to each.
LEMMA WordsOfIsMap ==
    ASSUME NEW P, \A p \in P : p.words \in Seq(Nat), NEW a \in Seq(P)
    PROVE  /\ [p \in P |-> p.words] \in [P -> Seq(Nat)]
           /\ WordsOf(a) = MapFlat([p \in P |-> p.words], a)
<1>1. \A n \in DOMAIN a : a[n] \in P
    OBVIOUS
<1>2. [n \in DOMAIN a |-> [p \in P |-> p.words][a[n]]] = [n \in DOMAIN a |-> a[n].words]
    BY <1>1
<1> QED
    BY <1>2 DEF WordsOf, MapFlat

\* The words of parts are lengths.
LEMMA WordsOfType ==
    ASSUME NEW P, \A p \in P : p.words \in Seq(Nat), NEW a \in Seq(P)
    PROVE  WordsOf(a) \in Seq(Nat)
<1> DEFINE g == [q \in P |-> q.words]
<1>1. g \in [P -> Seq(Nat)] /\ WordsOf(a) = MapFlat(g, a)
    BY WordsOfIsMap
<1> HIDE DEF g
<1>2. MapFlat(g, a) \in Seq(Nat)
    BY <1>1, MapFlatType
<1> QED
    BY <1>1, <1>2

\* The words of one part.
LEMMA WordsOfOne ==
    ASSUME NEW P, \A p \in P : p.words \in Seq(Nat), NEW p \in P
    PROVE  WordsOf(<<p>>) = p.words
<1> DEFINE g == [q \in P |-> q.words]
<1>1. <<p>> \in Seq(P) /\ g[p] = p.words
    OBVIOUS
<1>2. g \in [P -> Seq(Nat)] /\ WordsOf(<<p>>) = MapFlat(g, <<p>>)
    BY <1>1, WordsOfIsMap
<1> HIDE DEF g
<1> QED
    BY <1>1, <1>2, MapFlatOne

\* The words of parts, and of those that follow.
LEMMA WordsOfConcat ==
    ASSUME NEW P, \A p \in P : p.words \in Seq(Nat), NEW a \in Seq(P), NEW b \in Seq(P)
    PROVE  WordsOf(a \o b) = WordsOf(a) \o WordsOf(b)
<1>0. PICK g : g = [q \in P |-> q.words]
    OBVIOUS
<1>1. a \o b \in Seq(P)
    OBVIOUS
<1>2. g \in [P -> Seq(Nat)] /\ WordsOf(a) = MapFlat(g, a) /\ WordsOf(b) = MapFlat(g, b)
      /\ WordsOf(a \o b) = MapFlat(g, a \o b)
    BY <1>0, <1>1, WordsOfIsMap
<1>3. g \in [P -> Seq(Nat)]
    BY <1>2
<1>4. MapFlat(g, a \o b) = MapFlat(g, a) \o MapFlat(g, b)
    BY <1>3, MapFlatOfLengths, Zenon
<1> QED
    BY <1>2, <1>4, Zenon

-----------------------------------------------------------------------------
(* The words that are cut. *)

\* A word is cut into parts within the limit, of one piece each.
LEMMA CutType ==
    ASSUME NEW length \in WordLength
    PROVE  /\ Cut(length) \in Seq(AnyPart)
           /\ \A m \in DOMAIN Cut(length) : Cut(length)[m].size <= HardLimit
           /\ Pieces(length) \in Seq(Nat)
           /\ WordsOf(Cut(length)) = Pieces(length)
<1> DEFINE size(n) == IF n * HardLimit <= length THEN HardLimit ELSE length % HardLimit
           K == (length + HardLimit - 1) \div HardLimit
<1>1. HardLimit \in Nat \ {0}
    BY LimitsAssumption
<1>2. K \in Nat
    BY <1>1 DEF WordLength
<1>3. \A n \in Nat : size(n) \in Nat /\ size(n) <= HardLimit
    BY <1>1 DEF WordLength
<1>4. Cut(length) = [n \in 1 .. K |-> WordPart(size(n))]
    BY DEF Cut
<1> HIDE DEF size, K
<1>5. \A n \in 1 .. K : WordPart(size(n)) \in AnyPart /\ WordPart(size(n)).size = size(n)
                        /\ WordPart(size(n)).words = <<size(n)>>
    BY <1>2, <1>3 DEF WordPart, AnyPart
<1>6. Cut(length) \in Seq(AnyPart)
    BY <1>2, <1>4, <1>5, IsASeq
<1>7. DOMAIN Cut(length) = 1 .. K
    BY <1>4
<1>8. \A m \in DOMAIN Cut(length) : Cut(length)[m].size <= HardLimit
    BY <1>2, <1>3, <1>4, <1>5, <1>7
<1>9. Pieces(length) = [n \in 1 .. K |-> size(n)]
    BY <1>4, <1>5, <1>7 DEF Pieces
<1>10. Pieces(length) \in Seq(Nat)
    BY <1>2, <1>3, <1>9, IsASeq
<1>11. [n \in DOMAIN Cut(length) |-> Cut(length)[n].words] = [n \in DOMAIN Pieces(length) |-> <<Pieces(length)[n]>>]
    BY <1>4, <1>5, <1>7, <1>9
<1> QED
    BY <1>6, <1>8, <1>10, <1>11, FlattenSingles DEF WordsOf

\* A word within the limit stays whole.
LEMMA CutShort ==
    ASSUME NEW length \in 1 .. HardLimit
    PROVE  Pieces(length) = <<length>>
<1>1. HardLimit \in Nat \ {0}
    BY LimitsAssumption
<1>2. (length + HardLimit - 1) \div HardLimit = 1
    BY <1>1
<1>3. 1 * HardLimit <= length => HardLimit = length
    BY <1>1
<1>4. length < HardLimit => length % HardLimit = length
    BY <1>1
<1>5. Cut(length) = [n \in 1 .. 1 |-> WordPart(length)]
    BY <1>1, <1>2, <1>3, <1>4 DEF Cut
<1> QED
    BY <1>5 DEF Pieces, WordPart

\* The cuts of words, as a function applied to each.
LEMMA CutWordsIsMap ==
    ASSUME NEW words \in Seq(WordLength)
    PROVE  /\ [length \in WordLength |-> Pieces(length)] \in [WordLength -> Seq(Nat)]
           /\ CutWords(words) = MapFlat([length \in WordLength |-> Pieces(length)], words)
<1>1. \A n \in DOMAIN words : words[n] \in WordLength
    OBVIOUS
<1>2. [n \in DOMAIN words |-> [length \in WordLength |-> Pieces(length)][words[n]]]
      = [n \in DOMAIN words |-> Pieces(words[n])]
    BY <1>1
<1>3. \A length \in WordLength : Pieces(length) \in Seq(Nat)
    BY CutType
<1> QED
    BY <1>2, <1>3 DEF CutWords, MapFlat

\* The cuts of words are lengths.
LEMMA CutWordsType ==
    ASSUME NEW words \in Seq(WordLength)
    PROVE  CutWords(words) \in Seq(Nat)
<1> DEFINE g == [length \in WordLength |-> Pieces(length)]
<1>1. g \in [WordLength -> Seq(Nat)] /\ CutWords(words) = MapFlat(g, words)
    BY CutWordsIsMap
<1> HIDE DEF g
<1>2. MapFlat(g, words) \in Seq(Nat)
    BY <1>1, MapFlatType
<1> QED
    BY <1>1, <1>2

\* No words have no cuts.
LEMMA CutWordsEmpty == CutWords(<<>>) = <<>>
<1>1. [n \in DOMAIN <<>> |-> Pieces(<<>>[n])] = <<>>
    OBVIOUS
<1> QED
    BY <1>1, FlattenEmpty DEF CutWords

\* The cuts of one word.
LEMMA CutWordsOne ==
    ASSUME NEW length \in WordLength
    PROVE  CutWords(<<length>>) = Pieces(length)
<1>1. [n \in DOMAIN <<length>> |-> Pieces(<<length>>[n])] = <<Pieces(length)>>
    OBVIOUS
<1>2. Pieces(length) \in Seq(Nat)
    BY CutType
<1> QED
    BY <1>1, <1>2, FlattenOne DEF CutWords

\* The cuts of words, and of those that follow.
LEMMA CutWordsConcat ==
    ASSUME NEW a \in Seq(WordLength), NEW b \in Seq(WordLength)
    PROVE  CutWords(a \o b) = CutWords(a) \o CutWords(b)
<1>0. PICK g : g = [length \in WordLength |-> Pieces(length)]
    OBVIOUS
<1>1. a \o b \in Seq(WordLength)
    OBVIOUS
<1>2. g \in [WordLength -> Seq(Nat)] /\ CutWords(a) = MapFlat(g, a) /\ CutWords(b) = MapFlat(g, b)
      /\ CutWords(a \o b) = MapFlat(g, a \o b)
    BY <1>0, <1>1, CutWordsIsMap
<1>3. g \in [WordLength -> Seq(Nat)]
    BY <1>2
<1>4. MapFlat(g, a \o b) = MapFlat(g, a) \o MapFlat(g, b)
    BY <1>3, MapFlatOfLengths, Zenon
<1> QED
    BY <1>2, <1>4, Zenon

\* Words that are not beyond the limit stay as they are.
LEMMA CutWordsShort ==
    ASSUME NEW words \in Seq(Nat), \A n \in DOMAIN words : words[n] \in 1 .. HardLimit
    PROVE  CutWords(words) = words
<1>1. \A n \in DOMAIN words : Pieces(words[n]) = <<words[n]>>
    BY CutShort
<1>2. [n \in DOMAIN words |-> Pieces(words[n])] = [n \in DOMAIN words |-> <<words[n]>>]
    BY <1>1
<1> QED
    BY <1>2, FlattenSingles DEF CutWords


-----------------------------------------------------------------------------
(* The loop of split_long_text. *)

\* A set of positions that is not empty has a last one.
LEMMA MaxOfPart ==
    ASSUME NEW N \in Nat, NEW s \in SUBSET (1 .. N), s # {}
    PROVE  Max(s) \in s
<1> DEFINE above == { n \in Nat : \A x \in s : x <= n }
<1>1. above \subseteq Nat /\ N \in above
    OBVIOUS
<1>2. PICK least \in above : \A n \in above : least <= n
    <2> HIDE DEF above
    <2>1. Min(above) \in above /\ \A k \in above : Min(above) <= k
        BY <1>1, LeastExists
    <2> QED
        BY <2>1
<1>3. least \in s
    <2>1. SUFFICES ASSUME least \notin s PROVE FALSE
        OBVIOUS
    <2>2. least # 0
        <3>1. PICK x \in s : x \in 1 .. N
            OBVIOUS
        <3>2. x <= least
            BY <1>2, <3>1
        <3> QED
            BY <3>1, <3>2
    <2>3. least - 1 \in above
        BY <1>2, <2>1, <2>2
    <2> QED
        BY <1>1, <1>2, <2>3
<1>4. \A y \in s : least >= y
    BY <1>2
<1>5. \E x \in s : \A y \in s : x >= y
    BY <1>3, <1>4
<1> QED
    BY <1>5, Zenon DEF Max

\* The loop of split_long_text, word by word.
LEMMA AddWordRuns ==
    ASSUME NEW States, NEW seq, NEW N \in Nat, DOMAIN seq = 1 .. N, Start \in States,
           \A k \in 1 .. N : \A state \in States : AddWord(state, seq[k]) \in States
    PROVE  \E f : /\ f[0] = Start
                  /\ \A k \in 1 .. N : f[k] = AddWord(f[k - 1], seq[k])
                  /\ FoldLeft(AddWord, Start, seq) = f[N]
<1> DEFINE step == [x \in (1 .. N) \X States |-> AddWord(x[2], seq[x[1]])]
           rule(g) == [s \in SUBSET DOMAIN seq |->
                         IF s = {} THEN Start ELSE AddWord(g[s \ {Max(s)}], seq[Max(s)])]
           iter == CHOOSE g : g = rule(g)
           f == [k \in 0 .. N |-> iter[1 .. k]]
<1>1. step \in [(1 .. N) \X States -> States]
    OBVIOUS
<1>2. \E g : g = rule(g)
    <2>1. FoldsOf(States, N, Start, step) # {}
        <3> HIDE DEF step
        <3> QED
            BY <1>1, FoldExists
    <2>2. PICK g \in [SUBSET (1 .. N) -> States] :
            \A s \in SUBSET (1 .. N) :
              g[s] = IF s = {} THEN Start ELSE step[<<Max(s), g[s \ {Max(s)}]>>]
        BY <2>1 DEF FoldsOf
    <2>3. ASSUME NEW s \in SUBSET (1 .. N), s # {}
          PROVE  step[<<Max(s), g[s \ {Max(s)}]>>] = AddWord(g[s \ {Max(s)}], seq[Max(s)])
        <3>1. Max(s) \in 1 .. N
            BY <2>3, MaxOfPart
        <3>2. g[s \ {Max(s)}] \in States
            OBVIOUS
        <3> QED
            BY <3>1, <3>2
    <2>4. \A s \in SUBSET (1 .. N) : g[s] = rule(g)[s]
        <3> HIDE DEF step
        <3> QED
            BY <2>2, <2>3
    <2>5. g = rule(g)
        BY <2>4
    <2> HIDE DEF rule
    <2> QED
        BY <2>5
<1>3. iter = rule(iter)
    <2> HIDE DEF rule
    <2> QED
        BY <1>2
<1>4. FoldLeft(AddWord, Start, seq) = iter[DOMAIN seq]
    BY DEF FoldLeft, MapThenFoldSet
<1> HIDE DEF iter
<1>5. f[0] = Start
    <2>1. 1 .. 0 = {} /\ f[0] = iter[1 .. 0] /\ {} \in SUBSET DOMAIN seq
        OBVIOUS
    <2> QED
        BY <1>3, <2>1
<1>6. ASSUME NEW k \in 1 .. N
      PROVE  f[k] = AddWord(f[k - 1], seq[k])
    <2>1. k \in 0 .. N /\ k - 1 \in 0 .. N /\ 1 .. k # {} /\ k \in Nat \ {0}
        OBVIOUS
    <2> 1 .. k \in SUBSET DOMAIN seq
        OBVIOUS
    <2>2. Max(1 .. k) = k /\ (1 .. k) \ {k} = 1 .. (k - 1)
        BY <2>1, MaxOfRange
    <2>3. iter[1 .. k] = AddWord(iter[1 .. (k - 1)], seq[k])
        BY <1>3, <2>1, <2>2
    <2>4. f[k] = iter[1 .. k] /\ f[k - 1] = iter[1 .. (k - 1)]
        BY <2>1
    <2> QED
        BY <2>3, <2>4
<1>7. FoldLeft(AddWord, Start, seq) = f[N]
    BY <1>4
<1> HIDE DEF f
<1> QED
    BY <1>5, <1>6, <1>7


-----------------------------------------------------------------------------
(* What the loops of split_oversized_block and split_long_text keep. *)

\* A part that can be a message, and what the loops keep.
Fitting == { part \in AnyPart : part.size <= HardLimit }

OneOf(set) == {<<>>} \cup { <<x>> : x \in set }
SplitStates == [chunks : Seq(Fitting), current : OneOf(Fitting)]

\* The words of what can be a message.
LEMMA FittingWords == \A p \in Fitting : p.words \in Seq(Nat)
BY DEF Fitting, AnyPart

\* Concatenation of words is associative.
LEMMA WordsAssociate == \A x, y, z \in Seq(Nat) : (x \o y) \o z = x \o (y \o z)
<1>1. Associates(Nat)
    BY ConcatAssociates, Zenon
<1> QED
    BY <1>1, Zenon DEF Associates

\* The fields of a part.
LEMMA PartFields ==
    \A w, z : [words |-> w, size |-> z].words = w /\ [words |-> w, size |-> z].size = z
OBVIOUS

\* What a loop has so far can be sent.
LEMMA FlushedType ==
    ASSUME NEW state \in SplitStates
    PROVE  /\ state.chunks \in Seq(Fitting) /\ state.current \in Seq(Fitting)
           /\ Flushed(state) \in Seq(Fitting)
           /\ WordsOf(Flushed(state)) = WordsOf(state.chunks) \o WordsOf(state.current)
           /\ WordsOf(state.chunks) \in Seq(Nat)
           /\ WordsOf(Flushed(state)) \in Seq(Nat)
<1>1. state.chunks \in Seq(Fitting) /\ state.current \in OneOf(Fitting)
    BY DEF SplitStates
<1>2. state.current \in Seq(Fitting)
    <2>1. \A x \in Fitting : <<x>> \in Seq(Fitting)
        OBVIOUS
    <2>2. <<>> \in Seq(Fitting)
        OBVIOUS
    <2> QED
        BY <1>1, <2>1, <2>2 DEF OneOf
<1>3. Flushed(state) \in Seq(Fitting)
    BY <1>1, <1>2 DEF Flushed
<1>4. WordsOf(Flushed(state)) = WordsOf(state.chunks) \o WordsOf(state.current)
    BY <1>1, <1>2, FittingWords, WordsOfConcat DEF Flushed
<1>5. WordsOf(state.chunks) \in Seq(Nat) /\ WordsOf(Flushed(state)) \in Seq(Nat)
    BY <1>1, <1>3, FittingWords, WordsOfType
<1> QED
    BY <1>1, <1>2, <1>3, <1>4, <1>5

\* A candidate is no smaller than the part it is made with.
LEMMA CandidateSize ==
    ASSUME NEW state \in SplitStates, NEW part \in AnyPart
    PROVE  Candidate(state, part).size \in Nat /\ part.size <= Candidate(state, part).size
<1> DEFINE candidate == Candidate(state, part)
<1>1. part.size \in Nat
    BY DEF AnyPart
<1>2. CASE state.current = <<>>
    BY <1>1, <1>2 DEF Candidate
<1>3. CASE state.current # <<>>
    <2>1. PICK c \in Fitting : state.current = <<c>>
        BY <1>3 DEF SplitStates, OneOf
    <2>2. c.size \in Nat
        BY DEF Fitting, AnyPart
    <2>3. candidate.size = c.size + 1 + part.size
        BY <1>3, <2>1 DEF Candidate, Join
    <2> HIDE DEF candidate
    <2>4. candidate.size \in Nat /\ part.size <= candidate.size
        BY <1>1, <2>2, <2>3
    <2> QED
        BY <2>4 DEF candidate
<1> QED
    BY <1>2, <1>3

\* The current chunk takes a part, or gives way to it: nothing is lost.
LEMMA ExtendKeeps ==
    ASSUME NEW state \in SplitStates, NEW part \in AnyPart, Candidate(state, part).size <= HardLimit
    PROVE  /\ Extend(state, Candidate(state, part)) \in SplitStates
           /\ WordsOf(Flushed(Extend(state, Candidate(state, part)))) = WordsOf(Flushed(state)) \o part.words
           /\ part.size <= HardLimit
<1> DEFINE candidate == Candidate(state, part)
           next == Extend(state, candidate)
<1>1. state.chunks \in Seq(Fitting) /\ state.current \in OneOf(Fitting)
      /\ part.words \in Seq(Nat) /\ part.size \in Nat /\ HardLimit \in Nat
    BY LimitsAssumption DEF SplitStates, AnyPart
<1>2. CASE state.current = <<>>
    <2>1. candidate = part
        BY <1>2 DEF Candidate
    <2>2. part \in Fitting
        BY <2>1 DEF Fitting
    <2>3. next = [chunks |-> state.chunks, current |-> <<part>>]
        BY <2>1 DEF Extend, SplitStates
    <2>4. next \in SplitStates
        BY <1>1, <2>2, <2>3 DEF SplitStates, OneOf
    <2>5. WordsOf(Flushed(next)) = WordsOf(state.chunks) \o part.words
        <3>1. WordsOf(<<part>>) = part.words
            BY <2>2, FittingWords, WordsOfOne
        <3>2. WordsOf(Flushed(next)) = WordsOf(next.chunks) \o WordsOf(next.current)
            BY <2>4, FlushedType
        <3>3. next.chunks = state.chunks /\ next.current = <<part>>
            BY <2>3
        <3> HIDE DEF next
        <3> QED
            BY <3>1, <3>2, <3>3
    <2>6. WordsOf(Flushed(state)) = WordsOf(state.chunks)
        <3>1. Flushed(state) = state.chunks
            BY <1>1, <1>2, ConcatEmptySeq DEF Flushed
        <3> QED
            BY <3>1
    <2> QED
        BY <2>2, <2>4, <2>5, <2>6 DEF Fitting
<1>3. CASE state.current # <<>>
    <2>1. PICK c \in Fitting : state.current = <<c>>
        BY <1>1, <1>3 DEF OneOf
    <2>2. c.words \in Seq(Nat) /\ c.size \in Nat
        BY DEF Fitting, AnyPart
    <2>3. candidate = [words |-> c.words \o part.words, size |-> c.size + 1 + part.size]
        BY <1>3, <2>1 DEF Candidate, Join
    <2>4. candidate \in Fitting
        BY <1>1, <2>2, <2>3 DEF Fitting, AnyPart
    <2>5. next = [chunks |-> state.chunks, current |-> <<candidate>>]
        BY DEF Extend, SplitStates
    <2>6. next \in SplitStates
        <3> HIDE DEF candidate, next
        <3> QED
            BY <1>1, <2>4, <2>5 DEF SplitStates, OneOf
    <2>7. WordsOf(Flushed(next)) = WordsOf(state.chunks) \o (c.words \o part.words)
        <3>1. WordsOf(<<candidate>>) = c.words \o part.words
            <4>1. WordsOf(<<candidate>>) = candidate.words
                <5> HIDE DEF candidate
                <5> QED
                    BY <2>4, FittingWords, WordsOfOne
            <4>2. candidate.words = c.words \o part.words
                <5> HIDE DEF candidate
                <5> QED
                    BY <2>3, PartFields, Zenon
            <4> QED
                BY <4>1, <4>2
        <3>2. WordsOf(Flushed(next)) = WordsOf(next.chunks) \o WordsOf(next.current)
            <4> HIDE DEF next
            <4> QED
                BY <2>6, FlushedType
        <3>3. next.chunks = state.chunks /\ next.current = <<candidate>>
            BY <2>5
        <3> HIDE DEF next, candidate
        <3> QED
            BY <3>1, <3>2, <3>3
    <2>8. WordsOf(Flushed(state)) = WordsOf(state.chunks) \o c.words
        <3>1. WordsOf(<<c>>) = c.words
            BY FittingWords, WordsOfOne
        <3> QED
            BY <2>1, <3>1, FlushedType
    <2>9. (WordsOf(state.chunks) \o c.words) \o part.words
          = WordsOf(state.chunks) \o (c.words \o part.words)
        <3>1. WordsOf(state.chunks) \in Seq(Nat)
            BY FlushedType
        <3> QED
            BY <1>1, <2>2, <3>1, WordsAssociate, Zenon
    <2>10. part.size <= HardLimit
        BY <1>1, <2>2, <2>3
    <2> HIDE DEF next, candidate
    <2>11. WordsOf(Flushed(next)) = WordsOf(Flushed(state)) \o part.words
        BY <2>7, <2>8, <2>9
    <2> QED
        BY <2>6, <2>10, <2>11 DEF next, candidate
<1> QED
    BY <1>2, <1>3

\* A part begins a chunk of its own.
LEMMA RenewKeeps ==
    ASSUME NEW state \in SplitStates, NEW part \in Fitting
    PROVE  /\ Renew(state, part) \in SplitStates
           /\ WordsOf(Flushed(Renew(state, part))) = WordsOf(Flushed(state)) \o part.words
<1> DEFINE next == Renew(state, part)
<1>1. next = [chunks |-> Flushed(state), current |-> <<part>>]
    BY DEF Renew
<1>2. Flushed(state) \in Seq(Fitting)
    BY FlushedType
<1>3. next \in SplitStates
    BY <1>1, <1>2 DEF SplitStates, OneOf
<1>4. WordsOf(<<part>>) = part.words
    BY FittingWords, WordsOfOne
<1>5. next.chunks = Flushed(state) /\ next.current = <<part>>
    BY <1>1
<1> HIDE DEF next
<1>6. WordsOf(Flushed(next)) = WordsOf(next.chunks) \o WordsOf(next.current)
    BY <1>3, FlushedType
<1>7. WordsOf(Flushed(next)) = WordsOf(Flushed(state)) \o part.words
    BY <1>4, <1>5, <1>6
<1> QED
    BY <1>3, <1>7 DEF next

\* Chunks are added and none is left open.
LEMMA SetAsideKeeps ==
    ASSUME NEW state \in SplitStates, NEW chunks \in Seq(Fitting)
    PROVE  LET next == [chunks |-> Flushed(state) \o chunks, current |-> <<>>]
           IN  /\ next \in SplitStates
               /\ WordsOf(Flushed(next)) = WordsOf(Flushed(state)) \o WordsOf(chunks)
<1> DEFINE next == [chunks |-> Flushed(state) \o chunks, current |-> <<>>]
<1>1. Flushed(state) \in Seq(Fitting)
    BY FlushedType
<1>2. Flushed(state) \o chunks \in Seq(Fitting)
    BY <1>1
<1>3. next \in SplitStates
    BY <1>2 DEF SplitStates, OneOf
<1>4. Flushed(next) = Flushed(state) \o chunks
    BY <1>2, ConcatEmptySeq DEF Flushed
<1>5. WordsOf(Flushed(state) \o chunks) = WordsOf(Flushed(state)) \o WordsOf(chunks)
    BY <1>1, FittingWords, WordsOfConcat
<1> QED
    BY <1>3, <1>4, <1>5

\* A word is added to what there is, cut when it is beyond the limit.
LEMMA AddWordKeeps ==
    ASSUME NEW state \in SplitStates, NEW length \in WordLength
    PROVE  /\ AddWord(state, length) \in SplitStates
           /\ WordsOf(Flushed(AddWord(state, length))) = WordsOf(Flushed(state)) \o CutWords(<<length>>)
<1> DEFINE part == WordPart(length)
           candidate == Candidate(state, part)
<1>1. /\ part \in AnyPart /\ part.words = <<length>> /\ part.size = length
      /\ HardLimit \in Nat /\ length \in Nat \ {0}
    BY LimitsAssumption DEF WordPart, AnyPart, WordLength
<1>2. candidate.size \in Nat /\ length <= candidate.size
    BY <1>1, CandidateSize
<1>3. length <= HardLimit => CutWords(<<length>>) = <<length>>
    BY <1>1, CutWordsOne, CutShort
<1>4. CutWords(<<length>>) = WordsOf(Cut(length)) /\ Cut(length) \in Seq(Fitting)
    <2>1. CutWords(<<length>>) = WordsOf(Cut(length))
        BY CutWordsOne, CutType DEF WordLength
    <2>2. Cut(length) \in Seq(AnyPart) /\ \A m \in DOMAIN Cut(length) : Cut(length)[m].size <= HardLimit
        BY CutType DEF WordLength
    <2>3. \A m \in DOMAIN Cut(length) : Cut(length)[m] \in Fitting
        BY <2>2 DEF Fitting
    <2>4. DOMAIN Cut(length) = 1 .. Len(Cut(length)) /\ Len(Cut(length)) \in Nat
        BY <2>2
    <2>5. Cut(length) = [m \in 1 .. Len(Cut(length)) |-> Cut(length)[m]]
        BY <2>2, <2>4
    <2> QED
        BY <2>1, <2>3, <2>4, <2>5, IsASeq
<1>5. CASE candidate.size <= HardLimit
    <2>1. AddWord(state, length) = Extend(state, candidate)
        BY <1>1, <1>2, <1>5 DEF AddWord
    <2>2. /\ Extend(state, candidate) \in SplitStates
          /\ WordsOf(Flushed(Extend(state, candidate))) = WordsOf(Flushed(state)) \o part.words
          /\ part.size <= HardLimit
        BY <1>1, <1>5, ExtendKeeps
    <2> QED
        BY <1>1, <1>3, <2>1, <2>2
<1>6. CASE candidate.size > HardLimit /\ length <= HardLimit
    <2>1. AddWord(state, length) = Renew(state, part)
        BY <1>1, <1>2, <1>6 DEF AddWord
    <2>2. part \in Fitting
        BY <1>1, <1>6 DEF Fitting
    <2>3. /\ Renew(state, part) \in SplitStates
          /\ WordsOf(Flushed(Renew(state, part))) = WordsOf(Flushed(state)) \o part.words
        BY <2>2, RenewKeeps
    <2> QED
        BY <1>1, <1>3, <1>6, <2>1, <2>3
<1>7. CASE candidate.size > HardLimit /\ length > HardLimit
    <2>1. AddWord(state, length) = [chunks |-> Flushed(state) \o Cut(length), current |-> <<>>]
        BY <1>1, <1>2, <1>7 DEF AddWord
    <2> QED
        BY <1>4, <2>1, SetAsideKeeps
<1> QED
    BY <1>1, <1>2, <1>5, <1>6, <1>7

\* A loop starts with no words.
LEMMA StartType == Start \in SplitStates /\ Flushed(Start) = <<>> /\ WordsOf(Flushed(Start)) = <<>>
<1>1. Start \in SplitStates
    BY DEF Start, SplitStates, OneOf
<1>2. Flushed(Start) = <<>>
    BY DEF Start, Flushed
<1> QED
    BY <1>1, <1>2, WordsOfEmpty

\* split_long_text keeps the words, all but the cuts, and the limit.
LEMMA LongTextIsSplit ==
    ASSUME NEW sentence \in Seq(WordLength)
    PROVE  LET split == Flushed(FoldLeft(AddWord, Start, sentence))
           IN  split \in Seq(Fitting) /\ WordsOf(split) = CutWords(sentence)
<1> DEFINE N == Len(sentence)
           Good == [k \in 0 .. N |->
                      { state \in SplitStates :
                          WordsOf(Flushed(state)) = CutWords(SubSeq(sentence, 1, k)) }]
<1>1. N \in Nat /\ DOMAIN sentence = 1 .. N /\ \A k \in 1 .. N : sentence[k] \in WordLength
    OBVIOUS
<1>2. PICK f : /\ f[0] = Start
               /\ \A k \in 1 .. N : f[k] = AddWord(f[k - 1], sentence[k])
               /\ FoldLeft(AddWord, Start, sentence) = f[N]
    <2>1. \A k \in 1 .. N : \A state \in SplitStates : AddWord(state, sentence[k]) \in SplitStates
        BY <1>1, AddWordKeeps
    <2> HIDE DEF N
    <2> QED
        BY <1>1, <2>1, StartType, AddWordRuns
<1>3. f[0] \in Good[0]
    <2>1. SubSeq(sentence, 1, 0) = <<>> /\ 0 \in 0 .. N
        BY <1>1
    <2> QED
        BY <1>2, <2>1, StartType, CutWordsEmpty
<1>4. ASSUME NEW k \in 1 .. N, f[k - 1] \in Good[k - 1]
      PROVE  f[k] \in Good[k]
    <2> DEFINE before == SubSeq(sentence, 1, k - 1)
               length == sentence[k]
    <2>1. k \in 0 .. N /\ k - 1 \in 0 .. N
        OBVIOUS
    <2>2. f[k - 1] \in SplitStates /\ WordsOf(Flushed(f[k - 1])) = CutWords(before)
        BY <1>4, <2>1
    <2>3. /\ f[k] \in SplitStates
          /\ WordsOf(Flushed(f[k])) = CutWords(before) \o CutWords(<<length>>)
        BY <1>1, <1>2, <2>2, AddWordKeeps
    <2>4. before \in Seq(WordLength) /\ <<length>> \in Seq(WordLength)
          /\ SubSeq(sentence, 1, k) = before \o <<length>>
        BY PrefixStep
    <2>5. CutWords(SubSeq(sentence, 1, k)) = CutWords(before) \o CutWords(<<length>>)
        <3> HIDE DEF before, length
        <3> QED
            BY <2>4, CutWordsConcat
    <2> HIDE DEF before, length
    <2>6. WordsOf(Flushed(f[k])) = CutWords(SubSeq(sentence, 1, k))
        BY <2>3, <2>5
    <2> QED
        BY <2>1, <2>3, <2>6
<1>5. \A k \in 0 .. N : f[k] \in Good[k]
    <2> HIDE DEF Good, N
    <2> QED
        BY <1>1, <1>3, <1>4, RunInduction
<1>6. f[N] \in SplitStates /\ WordsOf(Flushed(f[N])) = CutWords(sentence)
    <2>1. N \in 0 .. N /\ SubSeq(sentence, 1, N) = sentence
        BY <1>1
    <2> QED
        BY <1>5, <2>1
<1> QED
    BY <1>2, <1>6, FlushedType


-----------------------------------------------------------------------------
(* Parts put together: their words, all of them, and their size. *)

IsJoinRun(f, base, seq, N) ==
    f[0] = base /\ \A k \in 1 .. N : f[k] = Join(f[k - 1], seq[k], 1)

\* The loop that puts parts together.
LEMMA JoinRuns ==
    ASSUME NEW States, NEW base \in States, NEW seq, NEW N \in Nat, DOMAIN seq = 1 .. N,
           NEW parts, Head(parts) = base, Tail(parts) = seq,
           \A k \in 1 .. N : \A state \in States : Join(state, seq[k], 1) \in States
    PROVE  \E f : IsJoinRun(f, base, seq, N) /\ JoinAll(parts) = f[N]
<1> DEFINE step == [x \in (1 .. N) \X States |-> Join(x[2], seq[x[1]], 1)]
           rule(g) == [s \in SUBSET DOMAIN seq |->
                         IF s = {} THEN base ELSE Join(g[s \ {Max(s)}], seq[Max(s)], 1)]
           iter == CHOOSE g : g = rule(g)
           f == [k \in 0 .. N |-> iter[1 .. k]]
<1>1. step \in [(1 .. N) \X States -> States]
    OBVIOUS
<1>2. \E g : g = rule(g)
    <2>1. FoldsOf(States, N, base, step) # {}
        <3> HIDE DEF step
        <3> QED
            BY <1>1, FoldExists
    <2>2. PICK g \in [SUBSET (1 .. N) -> States] :
            \A s \in SUBSET (1 .. N) :
              g[s] = IF s = {} THEN base ELSE step[<<Max(s), g[s \ {Max(s)}]>>]
        BY <2>1 DEF FoldsOf
    <2>3. ASSUME NEW s \in SUBSET (1 .. N), s # {}
          PROVE  step[<<Max(s), g[s \ {Max(s)}]>>] = Join(g[s \ {Max(s)}], seq[Max(s)], 1)
        <3>1. Max(s) \in 1 .. N
            BY <2>3, MaxOfPart
        <3>2. g[s \ {Max(s)}] \in States
            OBVIOUS
        <3> QED
            BY <3>1, <3>2
    <2>4. \A s \in SUBSET (1 .. N) : g[s] = rule(g)[s]
        <3> HIDE DEF step
        <3> QED
            BY <2>2, <2>3
    <2>5. g = rule(g)
        BY <2>4
    <2> HIDE DEF rule
    <2> QED
        BY <2>5
<1>3. iter = rule(iter)
    <2> HIDE DEF rule
    <2> QED
        BY <1>2
<1>4. JoinAll(parts) = iter[DOMAIN seq]
    BY DEF JoinAll, FoldLeft, MapThenFoldSet
<1> HIDE DEF iter
<1>5. f[0] = base
    <2>1. 1 .. 0 = {} /\ f[0] = iter[1 .. 0] /\ {} \in SUBSET DOMAIN seq
        OBVIOUS
    <2> QED
        BY <1>3, <2>1
<1>6. ASSUME NEW k \in 1 .. N
      PROVE  f[k] = Join(f[k - 1], seq[k], 1)
    <2>1. k \in 0 .. N /\ k - 1 \in 0 .. N /\ 1 .. k # {} /\ k \in Nat \ {0}
          /\ 1 .. k \in SUBSET (1 .. N)
        BY Positions
    <2>2. Max(1 .. k) = k /\ (1 .. k) \ {k} = 1 .. (k - 1)
        BY <2>1, MaxOfRange
    <2>3. iter[1 .. k] = Join(iter[1 .. (k - 1)], seq[k], 1)
        BY <1>3, <2>1, <2>2
    <2>4. f[k] = iter[1 .. k] /\ f[k - 1] = iter[1 .. (k - 1)]
        BY <2>1
    <2> QED
        BY <2>3, <2>4
<1>7. JoinAll(parts) = f[N]
    BY <1>4
<1> HIDE DEF f
<1> QED
    BY <1>5, <1>6, <1>7 DEF IsJoinRun

\* The parts that JoinAll puts together, by the runs of its loop.
LEMMA JoinAllRuns ==
    ASSUME NEW States, NEW parts, Head(parts) \in States, NEW N \in Nat, DOMAIN Tail(parts) = 1 .. N,
           \A k \in 1 .. N : \A state \in States : Join(state, Tail(parts)[k], 1) \in States
    PROVE  \E f : IsJoinRun(f, Head(parts), Tail(parts), N) /\ JoinAll(parts) = f[N]
<1>1. PICK seq, base : seq = Tail(parts) /\ base = Head(parts)
    OBVIOUS
<1>2. /\ DOMAIN seq = 1 .. N /\ base \in States /\ Head(parts) = base /\ Tail(parts) = seq
      /\ \A k \in 1 .. N : \A state \in States : Join(state, seq[k], 1) \in States
    BY <1>1
<1>3. \E f : IsJoinRun(f, base, seq, N) /\ JoinAll(parts) = f[N]
    BY <1>2, JoinRuns
<1> QED
    BY <1>1, <1>3

\* The loop of split_oversized_block, sentence by sentence.
LEMMA AddSentenceRuns ==
    ASSUME NEW States, NEW seq, NEW N \in Nat, DOMAIN seq = 1 .. N, Start \in States,
           \A k \in 1 .. N : \A state \in States : AddSentence(state, seq[k]) \in States
    PROVE  \E f : /\ f[0] = Start
                  /\ \A k \in 1 .. N : f[k] = AddSentence(f[k - 1], seq[k])
                  /\ FoldLeft(AddSentence, Start, seq) = f[N]
<1> DEFINE step == [x \in (1 .. N) \X States |-> AddSentence(x[2], seq[x[1]])]
           rule(g) == [s \in SUBSET DOMAIN seq |->
                         IF s = {} THEN Start ELSE AddSentence(g[s \ {Max(s)}], seq[Max(s)])]
           iter == CHOOSE g : g = rule(g)
           f == [k \in 0 .. N |-> iter[1 .. k]]
<1>1. step \in [(1 .. N) \X States -> States]
    OBVIOUS
<1>2. \E g : g = rule(g)
    <2>1. FoldsOf(States, N, Start, step) # {}
        <3> HIDE DEF step
        <3> QED
            BY <1>1, FoldExists
    <2>2. PICK g \in [SUBSET (1 .. N) -> States] :
            \A s \in SUBSET (1 .. N) :
              g[s] = IF s = {} THEN Start ELSE step[<<Max(s), g[s \ {Max(s)}]>>]
        BY <2>1 DEF FoldsOf
    <2>3. ASSUME NEW s \in SUBSET (1 .. N), s # {}
          PROVE  step[<<Max(s), g[s \ {Max(s)}]>>] = AddSentence(g[s \ {Max(s)}], seq[Max(s)])
        <3>1. Max(s) \in 1 .. N
            BY <2>3, MaxOfPart
        <3>2. g[s \ {Max(s)}] \in States
            OBVIOUS
        <3> QED
            BY <3>1, <3>2
    <2>4. \A s \in SUBSET (1 .. N) : g[s] = rule(g)[s]
        <3> HIDE DEF step
        <3> QED
            BY <2>2, <2>3
    <2>5. g = rule(g)
        BY <2>4
    <2> HIDE DEF rule
    <2> QED
        BY <2>5
<1>3. iter = rule(iter)
    <2> HIDE DEF rule
    <2> QED
        BY <1>2
<1>4. FoldLeft(AddSentence, Start, seq) = iter[DOMAIN seq]
    BY DEF FoldLeft, MapThenFoldSet
<1> HIDE DEF iter
<1>5. f[0] = Start
    <2>1. 1 .. 0 = {} /\ f[0] = iter[1 .. 0] /\ {} \in SUBSET DOMAIN seq
        OBVIOUS
    <2> QED
        BY <1>3, <2>1
<1>6. ASSUME NEW k \in 1 .. N
      PROVE  f[k] = AddSentence(f[k - 1], seq[k])
    <2>1. k \in 0 .. N /\ k - 1 \in 0 .. N /\ 1 .. k # {} /\ k \in Nat \ {0}
          /\ 1 .. k \in SUBSET (1 .. N)
        BY Positions
    <2>2. Max(1 .. k) = k /\ (1 .. k) \ {k} = 1 .. (k - 1)
        BY <2>1, MaxOfRange
    <2>3. iter[1 .. k] = AddSentence(iter[1 .. (k - 1)], seq[k])
        BY <1>3, <2>1, <2>2
    <2>4. f[k] = iter[1 .. k] /\ f[k - 1] = iter[1 .. (k - 1)]
        BY <2>1
    <2> QED
        BY <2>3, <2>4
<1>7. FoldLeft(AddSentence, Start, seq) = f[N]
    BY <1>4
<1> HIDE DEF f
<1> QED
    BY <1>5, <1>6, <1>7

\* A part that has whole words: none is longer than the part.
Whole == { part \in [words : Seq(WordLength), size : Nat] :
             \A n \in DOMAIN part.words : part.words[n] <= part.size }

\* The fields of a part of whole words.
LEMMA WholeType ==
    ASSUME NEW part \in Whole
    PROVE  /\ part \in AnyPart /\ part.words \in Seq(WordLength) /\ part.size \in Nat
           /\ part.size <= HardLimit => CutWords(part.words) = part.words
<1>1. part.words \in Seq(WordLength) /\ part.size \in Nat
      /\ part = [words |-> part.words, size |-> part.size]
    BY DEF Whole
<1>2. part.words \in Seq(Nat)
    BY <1>1 DEF WordLength
<1>3. part \in AnyPart
    BY <1>1, <1>2 DEF AnyPart
<1>4. ASSUME part.size <= HardLimit
      PROVE  CutWords(part.words) = part.words
    <2>1. \A n \in DOMAIN part.words : part.words[n] \in WordLength /\ part.words[n] <= part.size
        BY <1>1 DEF Whole
    <2>2. \A n \in DOMAIN part.words : part.words[n] \in 1 .. HardLimit
        BY <1>1, <1>4, <2>1, LimitsAssumption DEF WordLength
    <2> QED
        BY <1>2, <2>2, CutWordsShort
<1> QED
    BY <1>1, <1>3, <1>4

\* A word is such a part.
LEMMA WordPartIsWhole ==
    ASSUME NEW length \in WordLength
    PROVE  WordPart(length) \in Whole
<1>1. WordPart(length) \in [words : Seq(WordLength), size : Nat]
    BY DEF WordPart, WordLength
<1>2. \A n \in DOMAIN WordPart(length).words : WordPart(length).words[n] <= WordPart(length).size
    BY DEF WordPart, WordLength
<1> QED
    BY <1>1, <1>2 DEF Whole

\* An element of a concatenation is of one side or the other.
LEMMA EntryOfConcat ==
    ASSUME NEW X
    PROVE  \A a, b \in Seq(X) : \A n \in DOMAIN (a \o b) :
             \/ n \in DOMAIN a /\ (a \o b)[n] = a[n]
             \/ \E m \in DOMAIN b : (a \o b)[n] = b[m]
<1> SUFFICES ASSUME NEW a \in Seq(X), NEW b \in Seq(X), NEW n \in DOMAIN (a \o b)
             PROVE  \/ n \in DOMAIN a /\ (a \o b)[n] = a[n]
                    \/ \E m \in DOMAIN b : (a \o b)[n] = b[m]
    OBVIOUS
<1>1. n \in 1 .. Len(a) + Len(b) /\ Len(a) \in Nat /\ Len(b) \in Nat
    OBVIOUS
<1>2. CASE n <= Len(a)
    BY <1>1, <1>2
<1>3. CASE ~(n <= Len(a))
    <2>1. n - Len(a) \in DOMAIN b /\ (a \o b)[n] = b[n - Len(a)]
        BY <1>1, <1>3
    <2> QED
        BY <2>1
<1> QED
    BY <1>2, <1>3

\* Two such parts put together are one, with the words of both.
LEMMA JoinIsWhole ==
    ASSUME NEW a \in Whole, NEW b \in Whole, NEW gap \in Nat
    PROVE  /\ Join(a, b, gap) \in Whole
           /\ Join(a, b, gap).words = a.words \o b.words
           /\ Join(a, b, gap).size = a.size + gap + b.size
<1>1. /\ a.words \in Seq(WordLength) /\ a.size \in Nat
      /\ b.words \in Seq(WordLength) /\ b.size \in Nat
    BY WholeType
<1>2. /\ \A n \in DOMAIN a.words : a.words[n] <= a.size
      /\ \A n \in DOMAIN b.words : b.words[n] <= b.size
    BY DEF Whole
<1> DEFINE words == a.words \o b.words
           size == a.size + gap + b.size
<1>3. words \in Seq(WordLength) /\ size \in Nat
    BY <1>1
<1>4. Join(a, b, gap) = [words |-> words, size |-> size]
    BY DEF Join
<1>5. ASSUME NEW n \in DOMAIN words
      PROVE  words[n] <= size
    <2>1. CASE n \in DOMAIN a.words /\ words[n] = a.words[n]
        <3>1. a.words[n] \in Nat /\ a.words[n] <= a.size
            BY <1>1, <1>2, <2>1 DEF WordLength
        <3> HIDE DEF words
        <3> QED
            BY <1>1, <2>1, <3>1
    <2>2. ASSUME NEW m \in DOMAIN b.words, words[n] = b.words[m]
          PROVE  words[n] <= size
        <3>1. b.words[m] \in Nat /\ b.words[m] <= b.size
            BY <1>1, <1>2 DEF WordLength
        <3> HIDE DEF words
        <3> QED
            BY <1>1, <2>2, <3>1
    <2>3. \/ n \in DOMAIN a.words /\ words[n] = a.words[n]
          \/ \E m \in DOMAIN b.words : words[n] = b.words[m]
        <3>1. \A x, y \in Seq(WordLength) : \A k \in DOMAIN (x \o y) :
                \/ k \in DOMAIN x /\ (x \o y)[k] = x[k]
                \/ \E m \in DOMAIN y : (x \o y)[k] = y[m]
            BY EntryOfConcat
        <3> QED
            BY <1>1, <3>1, Zenon
    <2> HIDE DEF words, size
    <2> QED
        BY <2>1, <2>2, <2>3
<1> HIDE DEF words, size
<1>6. [words |-> words, size |-> size] \in Whole
    BY <1>3, <1>5 DEF Whole
<1>7. Join(a, b, gap) \in Whole /\ Join(a, b, gap).words = words /\ Join(a, b, gap).size = size
    BY <1>4, <1>6
<1> QED
    BY <1>7 DEF words, size

\* The words of such a part are lengths.
LEMMA WholeWords == \A p \in Whole : p.words \in Seq(Nat)
BY WholeType DEF AnyPart

\* Parts put together are whole, and have the words of all.
LEMMA JoinAllKeeps ==
    ASSUME NEW parts \in Seq(Whole), parts # <<>>
    PROVE  JoinAll(parts) \in Whole /\ JoinAll(parts).words = WordsOf(parts)
<1>0. PICK seq, base, N : seq = Tail(parts) /\ base = Head(parts) /\ N = Len(seq)
    OBVIOUS
<1> DEFINE Good == [k \in 0 .. N |-> { p \in Whole : p.words = WordsOf(SubSeq(parts, 1, k + 1)) }]
<1>1. /\ base \in Whole /\ seq \in Seq(Whole) /\ N \in Nat /\ DOMAIN seq = 1 .. N
      /\ Len(parts) = N + 1
    BY <1>0
<1>2. \A k \in 1 .. N : seq[k] \in Whole /\ seq[k] = parts[k + 1] /\ k + 1 \in 1 .. Len(parts)
    BY <1>0, <1>1
<1>3. PICK f : IsJoinRun(f, base, seq, N) /\ JoinAll(parts) = f[N]
    <2>1. \A k \in 1 .. N : \A state \in Whole : Join(state, seq[k], 1) \in Whole
        BY <1>2, JoinIsWhole
    <2>2. /\ DOMAIN Tail(parts) = 1 .. N /\ Head(parts) \in Whole
          /\ \A k \in 1 .. N : \A state \in Whole : Join(state, Tail(parts)[k], 1) \in Whole
        BY <1>0, <1>1, <2>1, Zenon
    <2>3. \E f : IsJoinRun(f, Head(parts), Tail(parts), N) /\ JoinAll(parts) = f[N]
        BY <1>1, <2>2, JoinAllRuns, Zenon
    <2> QED
        BY <1>0, <2>3, Zenon
<1>4. f[0] \in Good[0]
    <2>1. 0 \in 0 .. N /\ 0 + 1 = 1
        BY <1>1
    <2>2. SubSeq(parts, 1, 1) = <<base>>
        <3>1. Len(parts) \in Nat /\ 1 \in 1 .. Len(parts) /\ parts[1] = base /\ 1 - 1 = 0
            BY <1>0, <1>1
        <3>2. SubSeq(parts, 1, 1) = SubSeq(parts, 1, 0) \o <<parts[1]>> /\ <<parts[1]>> \in Seq(Whole)
            BY <3>1, PrefixStep
        <3>3. SubSeq(parts, 1, 0) = <<>>
            BY WholePrefix
        <3> QED
            BY <3>1, <3>2, <3>3, ConcatEmptySeq
    <2>3. WordsOf(<<base>>) = base.words
        BY <1>1, WholeWords, WordsOfOne
    <2>4. Good[0] = { p \in Whole : p.words = WordsOf(SubSeq(parts, 1, 1)) }
        BY <2>1
    <2> HIDE DEF Good
    <2> QED
        BY <1>1, <1>3, <2>2, <2>3, <2>4 DEF IsJoinRun
<1>5. ASSUME NEW k \in 1 .. N, f[k - 1] \in Good[k - 1]
      PROVE  f[k] \in Good[k]
    <2>1. k \in 0 .. N /\ k - 1 \in 0 .. N /\ (k - 1) + 1 = k /\ k + 1 \in 1 .. Len(parts)
          /\ (k + 1) - 1 = k
        BY <1>1
    <2>2. f[k - 1] \in Whole /\ f[k - 1].words = WordsOf(SubSeq(parts, 1, k))
        BY <1>5, <2>1
    <2>3. f[k] \in Whole /\ f[k].words = f[k - 1].words \o seq[k].words
        <3>1. Join(f[k - 1], seq[k], 1) \in Whole
              /\ Join(f[k - 1], seq[k], 1).words = f[k - 1].words \o seq[k].words
            <4>1. f[k - 1] \in Whole /\ seq[k] \in Whole /\ 1 \in Nat
                BY <1>2, <2>2
            <4> HIDE DEF Good
            <4> QED
                BY <4>1, JoinIsWhole
        <3> QED
            BY <1>3, <3>1 DEF IsJoinRun
    <2>4. /\ SubSeq(parts, 1, k) \in Seq(Whole) /\ <<parts[k + 1]>> \in Seq(Whole)
          /\ SubSeq(parts, 1, k + 1) = SubSeq(parts, 1, k) \o <<parts[k + 1]>>
        BY <2>1, PrefixStep
    <2>5. WordsOf(SubSeq(parts, 1, k + 1)) = WordsOf(SubSeq(parts, 1, k)) \o WordsOf(<<parts[k + 1]>>)
        BY <2>4, WholeWords, WordsOfConcat
    <2>6. WordsOf(<<parts[k + 1]>>) = seq[k].words
        BY <1>2, WholeWords, WordsOfOne
    <2>7. f[k].words = WordsOf(SubSeq(parts, 1, k + 1))
        BY <2>2, <2>3, <2>5, <2>6
    <2> QED
        BY <2>1, <2>3, <2>7
<1>6. \A k \in 0 .. N : f[k] \in Good[k]
    <2> HIDE DEF Good
    <2> QED
        BY <1>1, <1>4, <1>5, RunInduction
<1>7. f[N] \in Whole /\ f[N].words = WordsOf(parts)
    <2>1. N \in 0 .. N /\ SubSeq(parts, 1, N + 1) = parts
        BY <1>1
    <2> QED
        BY <1>6, <2>1
<1> QED
    BY <1>3, <1>7

Sentences == Seq(WordLength) \ {<<>>}
Blocks == Seq(Sentences) \ {<<>>}

\* A sentence is a part that has its words.
LEMMA SentenceParts ==
    ASSUME NEW sentence \in Sentences
    PROVE  SentencePart(sentence) \in Whole /\ SentencePart(sentence).words = sentence
<1> DEFINE parts == [n \in DOMAIN sentence |-> WordPart(sentence[n])]
<1>1. sentence \in Seq(WordLength) /\ sentence # <<>> /\ DOMAIN sentence = 1 .. Len(sentence)
      /\ Len(sentence) \in Nat /\ Len(sentence) # 0
    BY DEF Sentences
<1>2. \A n \in DOMAIN sentence : WordPart(sentence[n]) \in Whole
    BY <1>1, WordPartIsWhole
<1>3. parts \in Seq(Whole) /\ parts # <<>>
    <2>1. parts \in Seq(Whole)
        BY <1>1, <1>2, IsASeq
    <2>2. DOMAIN parts = 1 .. Len(sentence) /\ DOMAIN <<>> = 1 .. 0
        BY <1>1
    <2> QED
        BY <1>1, <2>1, <2>2
<1>4. WordsOf(parts) = sentence
    <2>1. [n \in DOMAIN parts |-> parts[n].words] = [n \in DOMAIN sentence |-> <<sentence[n]>>]
        BY DEF WordPart
    <2> QED
        BY <1>1, <2>1, FlattenSingles DEF WordsOf
<1>5. JoinAll(parts) \in Whole /\ JoinAll(parts).words = WordsOf(parts)
    <2> HIDE DEF parts
    <2> QED
        BY <1>3, JoinAllKeeps
<1> QED
    BY <1>4, <1>5 DEF SentencePart

\* A block is a part that has the words of its sentences.
LEMMA BlockParts ==
    ASSUME NEW block \in Blocks
    PROVE  BlockPart(block) \in Whole /\ BlockPart(block).words = FlattenSeq(block)
<1> DEFINE parts == [n \in DOMAIN block |-> SentencePart(block[n])]
<1>1. block \in Seq(Sentences) /\ block # <<>> /\ DOMAIN block = 1 .. Len(block)
      /\ Len(block) \in Nat /\ Len(block) # 0
    BY DEF Blocks
<1>2. \A n \in DOMAIN block : SentencePart(block[n]) \in Whole /\ SentencePart(block[n]).words = block[n]
    BY <1>1, SentenceParts
<1>3. parts \in Seq(Whole) /\ parts # <<>>
    <2>1. parts \in Seq(Whole)
        BY <1>1, <1>2, IsASeq
    <2>2. DOMAIN parts = 1 .. Len(block) /\ DOMAIN <<>> = 1 .. 0
        BY <1>1
    <2> QED
        BY <1>1, <2>1, <2>2
<1>4. WordsOf(parts) = FlattenSeq(block)
    <2>1. [n \in DOMAIN parts |-> parts[n].words] = [n \in DOMAIN block |-> block[n]]
        BY <1>2
    <2>2. [n \in DOMAIN block |-> block[n]] = block
        BY <1>1
    <2> QED
        BY <2>1, <2>2 DEF WordsOf
<1>5. JoinAll(parts) \in Whole /\ JoinAll(parts).words = WordsOf(parts)
    <2> HIDE DEF parts
    <2> QED
        BY <1>3, JoinAllKeeps
<1> QED
    BY <1>4, <1>5 DEF BlockPart


-----------------------------------------------------------------------------
(* A block is split into what can be sent. *)

\* A block is a sequence of words in sentences.
LEMMA SentencesOfBlocks ==
    ASSUME NEW block \in Seq(Sentences)
    PROVE  block \in Seq(Seq(WordLength))
<1>1. Sentences \subseteq Seq(WordLength)
    BY DEF Sentences
<1> QED
    BY <1>1, SeqMonotonic

\* A sentence is added to what there is, split when it is beyond the limit.
LEMMA AddSentenceKeeps ==
    ASSUME NEW state \in SplitStates, NEW sentence \in Sentences
    PROVE  /\ AddSentence(state, sentence) \in SplitStates
           /\ WordsOf(Flushed(AddSentence(state, sentence)))
              = WordsOf(Flushed(state)) \o CutWords(sentence)
<1> DEFINE part == SentencePart(sentence)
           candidate == Candidate(state, part)
           split == Flushed(FoldLeft(AddWord, Start, sentence))
<1>1. /\ part \in Whole /\ part \in AnyPart /\ part.words = sentence /\ part.size \in Nat
      /\ HardLimit \in Nat /\ SoftLimit \in Nat /\ SoftLimit <= HardLimit
      /\ sentence \in Seq(WordLength)
    BY SentenceParts, WholeType, LimitsAssumption DEF Sentences
<1>2. candidate.size \in Nat /\ part.size <= candidate.size
    BY <1>1, CandidateSize
<1>3. part.size <= HardLimit => CutWords(sentence) = part.words
    BY <1>1, WholeType
<1>4. CASE part.size > HardLimit
    <2>1. AddSentence(state, sentence) = [chunks |-> Flushed(state) \o split, current |-> <<>>]
        BY <1>4 DEF AddSentence
    <2>2. split \in Seq(Fitting) /\ WordsOf(split) = CutWords(sentence)
        BY <1>1, LongTextIsSplit
    <2> HIDE DEF split
    <2> QED
        BY <2>1, <2>2, SetAsideKeeps
<1>5. CASE ~(part.size > HardLimit) /\ candidate.size <= SoftLimit
    <2>1. AddSentence(state, sentence) = Extend(state, candidate)
        BY <1>5 DEF AddSentence
    <2>2. candidate.size <= HardLimit
        BY <1>1, <1>2, <1>5
    <2>3. /\ Extend(state, candidate) \in SplitStates
          /\ WordsOf(Flushed(Extend(state, candidate))) = WordsOf(Flushed(state)) \o part.words
          /\ part.size <= HardLimit
        BY <1>1, <2>2, ExtendKeeps
    <2> QED
        BY <1>3, <2>1, <2>3
<1>6. CASE ~(part.size > HardLimit) /\ ~(candidate.size <= SoftLimit)
    <2>1. AddSentence(state, sentence) = Renew(state, part)
        BY <1>6 DEF AddSentence
    <2>2. part \in Fitting /\ part.size <= HardLimit
        BY <1>1, <1>6 DEF Fitting
    <2>3. /\ Renew(state, part) \in SplitStates
          /\ WordsOf(Flushed(Renew(state, part))) = WordsOf(Flushed(state)) \o part.words
        BY <2>2, RenewKeeps
    <2> QED
        BY <1>3, <2>1, <2>2, <2>3
<1> QED
    BY <1>4, <1>5, <1>6

\* split_oversized_block keeps the words, all but the cuts, and the limit.
LEMMA BlockIsSplit ==
    ASSUME NEW block \in Seq(Sentences)
    PROVE  LET split == Flushed(FoldLeft(AddSentence, Start, block))
           IN  split \in Seq(Fitting) /\ WordsOf(split) = CutWords(FlattenSeq(block))
<1>0. PICK N : N = Len(block)
    OBVIOUS
<1> DEFINE Good == [k \in 0 .. N |->
                      { state \in SplitStates :
                          WordsOf(Flushed(state)) = CutWords(FlattenSeq(SubSeq(block, 1, k))) }]
<1>1. N \in Nat /\ DOMAIN block = 1 .. N /\ \A k \in 1 .. N : block[k] \in Sentences
    BY <1>0
<1>2. PICK f : /\ f[0] = Start
               /\ \A k \in 1 .. N : f[k] = AddSentence(f[k - 1], block[k])
               /\ FoldLeft(AddSentence, Start, block) = f[N]
    <2>1. \A k \in 1 .. N : \A state \in SplitStates : AddSentence(state, block[k]) \in SplitStates
        BY <1>1, AddSentenceKeeps
    <2> QED
        BY <1>1, <2>1, StartType, AddSentenceRuns
<1>3. f[0] \in Good[0]
    <2>1. SubSeq(block, 1, 0) = <<>> /\ 0 \in 0 .. N
        BY <1>1
    <2> QED
        BY <1>2, <2>1, StartType, CutWordsEmpty, FlattenEmpty
<1>4. ASSUME NEW k \in 1 .. N, f[k - 1] \in Good[k - 1]
      PROVE  f[k] \in Good[k]
    <2>0. PICK before, sentence : before = SubSeq(block, 1, k - 1) /\ sentence = block[k]
        OBVIOUS
    <2>1. k \in 0 .. N /\ k - 1 \in 0 .. N
        BY <1>1
    <2>2. f[k - 1] \in SplitStates /\ WordsOf(Flushed(f[k - 1])) = CutWords(FlattenSeq(before))
        BY <1>4, <2>0, <2>1
    <2>3. /\ f[k] \in SplitStates
          /\ WordsOf(Flushed(f[k])) = CutWords(FlattenSeq(before)) \o CutWords(sentence)
        BY <1>1, <1>2, <2>0, <2>2, AddSentenceKeeps
    <2>4. before \in Seq(Sentences) /\ sentence \in Sentences
          /\ SubSeq(block, 1, k) = Append(before, sentence)
        BY <1>0, <2>0, PrefixStep
    <2>5. before \in Seq(Seq(WordLength)) /\ sentence \in Seq(WordLength)
        BY <2>4, SentencesOfBlocks DEF Sentences
    <2>6. FlattenSeq(SubSeq(block, 1, k)) = FlattenSeq(before) \o sentence
        BY <2>4, <2>5, FlattenAppend
    <2>7. CutWords(FlattenSeq(before) \o sentence) = CutWords(FlattenSeq(before)) \o CutWords(sentence)
        <3>1. FlattenSeq(before) \in Seq(WordLength)
            BY <2>5, FlattenType
        <3> QED
            BY <2>5, <3>1, CutWordsConcat
    <2>8. WordsOf(Flushed(f[k])) = CutWords(FlattenSeq(SubSeq(block, 1, k)))
        BY <2>3, <2>6, <2>7, Zenon
    <2> QED
        BY <2>1, <2>3, <2>8
<1>5. \A k \in 0 .. N : f[k] \in Good[k]
    <2> HIDE DEF Good
    <2> QED
        BY <1>1, <1>3, <1>4, RunInduction
<1>6. f[N] \in SplitStates /\ WordsOf(Flushed(f[N])) = CutWords(FlattenSeq(block))
    <2>1. N \in 0 .. N /\ SubSeq(block, 1, N) = block
        BY <1>0, <1>1
    <2> QED
        BY <1>5, <2>1
<1> QED
    BY <1>2, <1>6, FlushedType

\* What is closed by the next block can be sent, and has its words.
LEMMA SplitBlockKeeps ==
    ASSUME NEW part \in Whole, NEW block \in Blocks,
           part.size <= SoftLimit \/ part = BlockPart(block)
    PROVE  SplitBlock(part, block) \in Seq(Fitting) /\ WordsOf(SplitBlock(part, block)) = CutWords(part.words)
<1>1. part \in AnyPart /\ part.size \in Nat
      /\ HardLimit \in Nat /\ SoftLimit \in Nat /\ SoftLimit <= HardLimit
    BY WholeType, LimitsAssumption
<1>2. CASE part.size <= SoftLimit
    <2>1. SplitBlock(part, block) = <<part>>
        BY <1>2 DEF SplitBlock
    <2>2. part \in Fitting /\ CutWords(part.words) = part.words
        BY <1>1, <1>2, WholeType DEF Fitting
    <2>3. WordsOf(<<part>>) = part.words /\ <<part>> \in Seq(Fitting)
        BY <2>2, FittingWords, WordsOfOne
    <2> QED
        BY <2>1, <2>2, <2>3
<1>3. CASE ~(part.size <= SoftLimit)
    <2>1. SplitBlock(part, block) = Flushed(FoldLeft(AddSentence, Start, block))
        BY <1>3 DEF SplitBlock
    <2>2. part.words = FlattenSeq(block)
        BY <1>3, BlockParts
    <2>3. block \in Seq(Sentences)
        BY DEF Blocks
    <2> QED
        BY <2>1, <2>2, <2>3, BlockIsSplit
<1> QED
    BY <1>2, <1>3


-----------------------------------------------------------------------------
(* The loop over blocks. *)

LastBlock(base, seq) == FoldLeft(AddBlock, base, seq)

IsBlockRun(f, base, seq, N) ==
    f[0] = base /\ \A k \in 1 .. N : f[k] = AddBlock(f[k - 1], seq[k])

\* The loop of split_whatsapp_messages, block by block.
LEMMA AddBlockRuns ==
    ASSUME NEW States, NEW base \in States, NEW seq, NEW N \in Nat, DOMAIN seq = 1 .. N,
           \A k \in 1 .. N : \A state \in States : AddBlock(state, seq[k]) \in States
    PROVE  \E f : IsBlockRun(f, base, seq, N) /\ LastBlock(base, seq) = f[N]
<1> DEFINE step == [x \in (1 .. N) \X States |-> AddBlock(x[2], seq[x[1]])]
           rule(g) == [s \in SUBSET DOMAIN seq |->
                         IF s = {} THEN base ELSE AddBlock(g[s \ {Max(s)}], seq[Max(s)])]
           iter == CHOOSE g : g = rule(g)
           f == [k \in 0 .. N |-> iter[1 .. k]]
<1>1. step \in [(1 .. N) \X States -> States]
    OBVIOUS
<1>2. \E g : g = rule(g)
    <2>1. FoldsOf(States, N, base, step) # {}
        <3> HIDE DEF step
        <3> QED
            BY <1>1, FoldExists
    <2>2. PICK g \in [SUBSET (1 .. N) -> States] :
            \A s \in SUBSET (1 .. N) :
              g[s] = IF s = {} THEN base ELSE step[<<Max(s), g[s \ {Max(s)}]>>]
        BY <2>1 DEF FoldsOf
    <2>3. ASSUME NEW s \in SUBSET (1 .. N), s # {}
          PROVE  step[<<Max(s), g[s \ {Max(s)}]>>] = AddBlock(g[s \ {Max(s)}], seq[Max(s)])
        <3>1. Max(s) \in 1 .. N
            BY <2>3, MaxOfPart
        <3>2. g[s \ {Max(s)}] \in States
            OBVIOUS
        <3> QED
            BY <3>1, <3>2
    <2>4. \A s \in SUBSET (1 .. N) : g[s] = rule(g)[s]
        <3> HIDE DEF step
        <3> QED
            BY <2>2, <2>3
    <2>5. g = rule(g)
        BY <2>4
    <2> HIDE DEF rule
    <2> QED
        BY <2>5
<1>3. iter = rule(iter)
    <2> HIDE DEF rule
    <2> QED
        BY <1>2
<1>4. LastBlock(base, seq) = iter[DOMAIN seq]
    BY DEF LastBlock, FoldLeft, MapThenFoldSet
<1> HIDE DEF iter
<1>5. f[0] = base
    <2>1. 1 .. 0 = {} /\ f[0] = iter[1 .. 0] /\ {} \in SUBSET DOMAIN seq
        OBVIOUS
    <2> QED
        BY <1>3, <2>1
<1>6. ASSUME NEW k \in 1 .. N
      PROVE  f[k] = AddBlock(f[k - 1], seq[k])
    <2>1. k \in 0 .. N /\ k - 1 \in 0 .. N /\ 1 .. k # {} /\ k \in Nat \ {0}
          /\ 1 .. k \in SUBSET (1 .. N)
        BY Positions
    <2>2. Max(1 .. k) = k /\ (1 .. k) \ {k} = 1 .. (k - 1)
        BY <2>1, MaxOfRange
    <2>3. iter[1 .. k] = AddBlock(iter[1 .. (k - 1)], seq[k])
        BY <1>3, <2>1, <2>2
    <2>4. f[k] = iter[1 .. k] /\ f[k - 1] = iter[1 .. (k - 1)]
        BY <2>1
    <2> QED
        BY <2>3, <2>4
<1>7. LastBlock(base, seq) = f[N]
    BY <1>4
<1> HIDE DEF f
<1> QED
    BY <1>5, <1>6, <1>7 DEF IsBlockRun

BlockStates ==
    { state \in [chunks : Seq(Fitting), part : Whole, block : Blocks] :
        state.part.size <= SoftLimit \/ state.part = BlockPart(state.block) }

\* The words of the chunks so far and of the block that is still open.
Carried(state) == WordsOf(state.chunks) \o CutWords(state.part.words)

\* The fields of what the loop over blocks has.
LEMMA BlockStateType ==
    ASSUME NEW state \in BlockStates
    PROVE  /\ state.chunks \in Seq(Fitting) /\ state.part \in Whole /\ state.block \in Blocks
           /\ state.part.size <= SoftLimit \/ state.part = BlockPart(state.block)
           /\ WordsOf(state.chunks) \in Seq(Nat) /\ CutWords(state.part.words) \in Seq(Nat)
           /\ state.part.words \in Seq(WordLength)
<1>1. /\ state.chunks \in Seq(Fitting) /\ state.part \in Whole /\ state.block \in Blocks
      /\ state.part.size <= SoftLimit \/ state.part = BlockPart(state.block)
    BY DEF BlockStates
<1>2. WordsOf(state.chunks) \in Seq(Nat)
    BY <1>1, FittingWords, WordsOfType
<1>3. state.part.words \in Seq(WordLength)
    BY <1>1, WholeType
<1>4. CutWords(state.part.words) \in Seq(Nat)
    BY <1>3, CutWordsType
<1> QED
    BY <1>1, <1>2, <1>3, <1>4

\* The same of a record that is written out.
LEMMA BlockFields ==
    \A c, p, b : LET state == [chunks |-> c, part |-> p, block |-> b]
                 IN  state.chunks = c /\ state.part = p /\ state.block = b
OBVIOUS

\* A block is put with the one that is open, or that one is split.
LEMMA AddBlockKeeps ==
    ASSUME NEW state \in BlockStates, NEW block \in Blocks
    PROVE  /\ AddBlock(state, block) \in BlockStates
           /\ Carried(AddBlock(state, block)) = Carried(state) \o CutWords(FlattenSeq(block))
<1> DEFINE part == BlockPart(block)
           joined == Join(state.part, part, 2)
           next == AddBlock(state, block)
           words == CutWords(part.words)
<1>1. part \in Whole /\ part.words = FlattenSeq(block) /\ part.words \in Seq(WordLength)
      /\ words \in Seq(Nat)
    BY BlockParts, WholeType, CutWordsType
<1>2. /\ joined \in Whole /\ joined.words = state.part.words \o part.words
    <2>1. state.part \in Whole /\ 2 \in Nat
        BY BlockStateType
    <2> HIDE DEF part
    <2> QED
        BY <1>1, <2>1, JoinIsWhole
<1>3. Carried(state) = WordsOf(state.chunks) \o CutWords(state.part.words)
    BY DEF Carried
<1>4. CASE joined.size <= SoftLimit
    <2>1. next = [chunks |-> state.chunks, part |-> joined, block |-> state.block]
        BY <1>4 DEF AddBlock, BlockStates
    <2>2. next.chunks = state.chunks /\ next.part = joined
        BY <2>1
    <2>3. next \in BlockStates
        <3> HIDE DEF next, joined
        <3> QED
            BY <1>2, <1>4, <2>1, BlockStateType DEF BlockStates
    <2>4. CutWords(joined.words) = CutWords(state.part.words) \o words
        <3>1. state.part.words \in Seq(WordLength)
            BY BlockStateType
        <3>2. CutWords(state.part.words \o part.words) = CutWords(state.part.words) \o words
            BY <1>1, <3>1, CutWordsConcat
        <3> QED
            BY <1>2, <3>2, Zenon
    <2>5. Carried(next) = WordsOf(state.chunks) \o (CutWords(state.part.words) \o words)
        <3> HIDE DEF next, joined, words
        <3> QED
            BY <2>2, <2>4, Zenon DEF Carried
    <2>6. (WordsOf(state.chunks) \o CutWords(state.part.words)) \o words
          = WordsOf(state.chunks) \o (CutWords(state.part.words) \o words)
        <3>1. WordsOf(state.chunks) \in Seq(Nat) /\ CutWords(state.part.words) \in Seq(Nat)
            BY BlockStateType
        <3> HIDE DEF words
        <3> QED
            BY <1>1, <3>1, WordsAssociate, Zenon
    <2>7. Carried(next) = Carried(state) \o words
        <3> HIDE DEF next, words
        <3> QED
            BY <1>3, <2>5, <2>6, Zenon
    <2> QED
        BY <1>1, <2>3, <2>7, Zenon
<1>5. CASE ~(joined.size <= SoftLimit)
    <2> DEFINE split == SplitBlock(state.part, state.block)
    <2>1. next = [chunks |-> state.chunks \o split, part |-> part, block |-> block]
        BY <1>5 DEF AddBlock
    <2>2. next.chunks = state.chunks \o split /\ next.part = part /\ next.block = block
        <3> HIDE DEF next, split, part
        <3> QED
            BY <2>1, BlockFields, Zenon
    <2>3. split \in Seq(Fitting) /\ WordsOf(split) = CutWords(state.part.words)
        BY BlockStateType, SplitBlockKeeps
    <2>4. state.chunks \in Seq(Fitting)
        BY BlockStateType
    <2>5. state.chunks \o split \in Seq(Fitting)
        <3> HIDE DEF split
        <3> QED
            BY <2>3, <2>4, ConcatProperties, Zenon
    <2>6. WordsOf(state.chunks \o split) = WordsOf(state.chunks) \o WordsOf(split)
        <3> HIDE DEF split
        <3> QED
            BY <2>3, <2>4, FittingWords, WordsOfConcat
    <2>7. next \in BlockStates
        <3>1. part.size <= SoftLimit \/ part = BlockPart(block)
            OBVIOUS
        <3> HIDE DEF next, part, split
        <3> QED
            BY <1>1, <2>1, <2>5, <3>1 DEF BlockStates
    <2>8. Carried(next) = Carried(state) \o words
        <3>1. Carried(next) = WordsOf(next.chunks) \o CutWords(next.part.words)
            BY DEF Carried
        <3> HIDE DEF next, split
        <3> QED
            BY <1>3, <2>2, <2>3, <2>6, <3>1, Zenon
    <2> QED
        BY <1>1, <2>7, <2>8, Zenon
<1> QED
    BY <1>4, <1>5

AllDrafts == Seq(Blocks) \ {<<>>}

\* A draft is a sequence of blocks of sentences.
LEMMA BlocksOfDrafts ==
    ASSUME NEW draft \in Seq(Blocks)
    PROVE  draft \in Seq(Seq(Seq(WordLength)))
<1>1. \A block \in Blocks : block \in Seq(Seq(WordLength))
    BY SentencesOfBlocks DEF Blocks
<1>2. Blocks \subseteq Seq(Seq(WordLength))
    BY <1>1
<1> QED
    BY <1>2, SeqMonotonic

\* The words of the first blocks, and of one more.
LEMMA WordsOfOneMoreBlock ==
    ASSUME NEW draft \in Seq(Blocks), NEW k \in 1 .. Len(draft)
    PROVE  CutWords(FlattenSeq(FlattenSeq(SubSeq(draft, 1, k))))
           = CutWords(FlattenSeq(FlattenSeq(SubSeq(draft, 1, k - 1)))) \o CutWords(FlattenSeq(draft[k]))
<1>0. PICK before, block : before = SubSeq(draft, 1, k - 1) /\ block = draft[k]
    OBVIOUS
<1>1. before \in Seq(Blocks) /\ block \in Blocks /\ SubSeq(draft, 1, k) = Append(before, block)
    BY <1>0, PrefixStep
<1>2. before \in Seq(Seq(Seq(WordLength))) /\ block \in Seq(Seq(WordLength))
    BY <1>1, BlocksOfDrafts, SentencesOfBlocks DEF Blocks
<1>3. FlattenSeq(Append(before, block)) = FlattenSeq(before) \o block
    BY <1>2, FlattenAppend
<1>4. FlattenSeq(before) \in Seq(Seq(WordLength))
    BY <1>2, FlattenType
<1>5. FlattenSeq(FlattenSeq(before) \o block) = FlattenSeq(FlattenSeq(before)) \o FlattenSeq(block)
    BY <1>2, <1>4, FlattenConcat
<1>6. FlattenSeq(FlattenSeq(before)) \in Seq(WordLength) /\ FlattenSeq(block) \in Seq(WordLength)
    BY <1>2, <1>4, FlattenType
<1>7. CutWords(FlattenSeq(FlattenSeq(before)) \o FlattenSeq(block))
      = CutWords(FlattenSeq(FlattenSeq(before))) \o CutWords(FlattenSeq(block))
    BY <1>6, CutWordsConcat
<1> QED
    BY <1>0, <1>1, <1>3, <1>5, <1>7, Zenon

\* The chunks of a draft: its words, all but the cuts, and the limit.
LEMMA ChunksKeep ==
    ASSUME NEW draft \in AllDrafts
    PROVE  Chunks(draft) \in Seq(Fitting) /\ WordsOf(Chunks(draft)) = DraftWords(draft)
<1>0. PICK seq, base, N : /\ seq = Tail(draft) /\ N = Len(Tail(draft))
                          /\ base = [chunks |-> <<>>, part |-> BlockPart(Head(draft)), block |-> Head(draft)]
    OBVIOUS
<1>1. /\ draft \in Seq(Blocks) /\ Head(draft) \in Blocks /\ Head(draft) = draft[1]
      /\ N \in Nat /\ DOMAIN seq = 1 .. N /\ Len(draft) = N + 1
    BY <1>0 DEF AllDrafts
<1>2. \A k \in 1 .. N : seq[k] \in Blocks /\ seq[k] = draft[k + 1] /\ k + 1 \in 1 .. Len(draft)
    BY <1>0, <1>1 DEF AllDrafts
<1> DEFINE Held(k) == CutWords(FlattenSeq(FlattenSeq(SubSeq(draft, 1, k))))
           Good == [k \in 0 .. N |-> { state \in BlockStates : Carried(state) = Held(k + 1) }]
<1>3. base \in BlockStates /\ Carried(base) = CutWords(FlattenSeq(draft[1]))
    <2>1. BlockPart(Head(draft)) \in Whole /\ BlockPart(Head(draft)).words = FlattenSeq(draft[1])
        BY <1>1, BlockParts
    <2>2. base.chunks = <<>> /\ base.part = BlockPart(Head(draft)) /\ base.block = Head(draft)
          /\ <<>> \in Seq(Fitting)
        BY <1>0
    <2>3. base \in BlockStates
        BY <1>0, <1>1, <2>1, <2>2 DEF BlockStates
    <2>4. Carried(base) = <<>> \o CutWords(base.part.words)
        BY <2>2, WordsOfEmpty DEF Carried
    <2>5. CutWords(base.part.words) \in Seq(Nat)
        BY <2>3, BlockStateType
    <2>6. Carried(base) = CutWords(base.part.words)
        BY <2>4, <2>5, ConcatEmptySeq
    <2> QED
        BY <2>1, <2>2, <2>3, <2>6
<1>4. PICK f : IsBlockRun(f, base, seq, N) /\ LastBlock(base, seq) = f[N]
    <2>1. \A k \in 1 .. N : \A state \in BlockStates : AddBlock(state, seq[k]) \in BlockStates
        BY <1>2, AddBlockKeeps
    <2>2. base \in BlockStates /\ N \in Nat /\ DOMAIN seq = 1 .. N
        BY <1>1, <1>3
    <2> QED
        BY <2>1, <2>2, AddBlockRuns
<1>5. f[0] \in Good[0]
    <2>1. 0 \in 0 .. N /\ 1 \in 1 .. Len(draft)
        BY <1>1
    <2>2. Held(1) = Held(0) \o CutWords(FlattenSeq(draft[1]))
        <3>1. 1 - 1 = 0
            OBVIOUS
        <3> QED
            BY <1>1, <2>1, <3>1, WordsOfOneMoreBlock
    <2>3. Held(0) = <<>>
        <3>1. SubSeq(draft, 1, 0) = <<>>
            BY <1>1, WholePrefix
        <3> QED
            BY <3>1, FlattenEmpty, CutWordsEmpty
    <2>4. Held(1) = Carried(base)
        <3>1. CutWords(FlattenSeq(draft[1])) \in Seq(Nat)
            <4>1. FlattenSeq(draft[1]) \in Seq(WordLength)
                BY <1>1, SentencesOfBlocks, FlattenType DEF Blocks
            <4> QED
                BY <4>1, CutWordsType
        <3> HIDE DEF Held
        <3> QED
            BY <1>3, <2>2, <2>3, <3>1, ConcatEmptySeq
    <2>5. Good[0] = { state \in BlockStates : Carried(state) = Held(1) }
        BY <2>1
    <2> HIDE DEF Good, Held
    <2> QED
        BY <1>3, <1>4, <2>4, <2>5 DEF IsBlockRun
<1>6. ASSUME NEW k \in 1 .. N, f[k - 1] \in Good[k - 1]
      PROVE  f[k] \in Good[k]
    <2>1. k \in 0 .. N /\ k - 1 \in 0 .. N /\ (k - 1) + 1 = k /\ (k + 1) - 1 = k
          /\ k + 1 \in 1 .. Len(draft)
        BY <1>1
    <2>2. \A j \in 0 .. N : Good[j] = { state \in BlockStates : Carried(state) = Held(j + 1) }
        OBVIOUS
    <2>3. f[k - 1] \in BlockStates /\ Carried(f[k - 1]) = Held(k)
        <3> HIDE DEF Good, Held
        <3> QED
            BY <1>6, <2>1, <2>2
    <2>4. /\ f[k] \in BlockStates
          /\ Carried(f[k]) = Carried(f[k - 1]) \o CutWords(FlattenSeq(draft[k + 1]))
        BY <1>2, <1>4, <2>3, AddBlockKeeps DEF IsBlockRun
    <2>5. Held(k + 1) = Held(k) \o CutWords(FlattenSeq(draft[k + 1]))
        BY <1>1, <2>1, WordsOfOneMoreBlock
    <2> HIDE DEF Good, Held
    <2>6. Carried(f[k]) = Held(k + 1)
        BY <2>3, <2>4, <2>5, Zenon
    <2> QED
        BY <2>1, <2>2, <2>4, <2>6
<1>7. \A k \in 0 .. N : f[k] \in Good[k]
    <2> HIDE DEF Good
    <2> QED
        BY <1>1, <1>5, <1>6, RunInduction
<1>8. f[N] \in BlockStates /\ Carried(f[N]) = DraftWords(draft)
    <2>1. N \in 0 .. N /\ SubSeq(draft, 1, N + 1) = draft
        BY <1>1
    <2>2. Held(N + 1) = DraftWords(draft)
        BY <2>1 DEF DraftWords, CutWords, Pieces
    <2>3. Good[N] = { state \in BlockStates : Carried(state) = Held(N + 1) }
        BY <2>1
    <2> HIDE DEF Good, Held
    <2> QED
        BY <1>7, <2>1, <2>2, <2>3
<1>9. Chunks(draft) = f[N].chunks \o SplitBlock(f[N].part, f[N].block)
    BY <1>0, <1>4 DEF Chunks, LastBlock
<1>10. /\ f[N].chunks \in Seq(Fitting)
       /\ SplitBlock(f[N].part, f[N].block) \in Seq(Fitting)
       /\ WordsOf(SplitBlock(f[N].part, f[N].block)) = CutWords(f[N].part.words)
    BY <1>8, BlockStateType, SplitBlockKeeps
<1>11. WordsOf(Chunks(draft)) = WordsOf(f[N].chunks) \o CutWords(f[N].part.words)
    BY <1>9, <1>10, FittingWords, WordsOfConcat
<1>12. Chunks(draft) \in Seq(Fitting)
    BY <1>9, <1>10
<1> QED
    BY <1>8, <1>11, <1>12 DEF Carried


-----------------------------------------------------------------------------
(* The loop of merge_short_chunks. *)

LastMerge(chunks, base, seq) ==
    FoldLeft(LAMBDA state, n : MergeStep(chunks, state, n), base, seq)

IsMergeRun(f, chunks, base, seq, N) ==
    f[0] = base /\ \A k \in 1 .. N : f[k] = MergeStep(chunks, f[k - 1], seq[k])

\* The loop of merge_short_chunks, chunk by chunk.
LEMMA MergeRuns ==
    ASSUME NEW States, NEW chunks, NEW base \in States, NEW seq, NEW N \in Nat, DOMAIN seq = 1 .. N,
           \A k \in 1 .. N : \A state \in States : MergeStep(chunks, state, seq[k]) \in States
    PROVE  \E f : IsMergeRun(f, chunks, base, seq, N) /\ LastMerge(chunks, base, seq) = f[N]
<1> DEFINE step == [x \in (1 .. N) \X States |-> MergeStep(chunks, x[2], seq[x[1]])]
           rule(g) == [s \in SUBSET DOMAIN seq |->
                         IF s = {} THEN base ELSE MergeStep(chunks, g[s \ {Max(s)}], seq[Max(s)])]
           iter == CHOOSE g : g = rule(g)
           f == [k \in 0 .. N |-> iter[1 .. k]]
<1>1. step \in [(1 .. N) \X States -> States]
    OBVIOUS
<1>2. \E g : g = rule(g)
    <2>1. FoldsOf(States, N, base, step) # {}
        <3> HIDE DEF step
        <3> QED
            BY <1>1, FoldExists
    <2>2. PICK g \in [SUBSET (1 .. N) -> States] :
            \A s \in SUBSET (1 .. N) :
              g[s] = IF s = {} THEN base ELSE step[<<Max(s), g[s \ {Max(s)}]>>]
        BY <2>1 DEF FoldsOf
    <2>3. ASSUME NEW s \in SUBSET (1 .. N), s # {}
          PROVE  step[<<Max(s), g[s \ {Max(s)}]>>] = MergeStep(chunks, g[s \ {Max(s)}], seq[Max(s)])
        <3>1. Max(s) \in 1 .. N
            BY <2>3, MaxOfPart
        <3>2. g[s \ {Max(s)}] \in States
            OBVIOUS
        <3> QED
            BY <3>1, <3>2
    <2>4. \A s \in SUBSET (1 .. N) : g[s] = rule(g)[s]
        <3> HIDE DEF step
        <3> QED
            BY <2>2, <2>3
    <2>5. g = rule(g)
        BY <2>4
    <2> HIDE DEF rule
    <2> QED
        BY <2>5
<1>3. iter = rule(iter)
    <2> HIDE DEF rule
    <2> QED
        BY <1>2
<1>4. LastMerge(chunks, base, seq) = iter[DOMAIN seq]
    BY DEF LastMerge, FoldLeft, MapThenFoldSet
<1> HIDE DEF iter
<1>5. f[0] = base
    <2>1. 1 .. 0 = {} /\ f[0] = iter[1 .. 0] /\ {} \in SUBSET DOMAIN seq
        OBVIOUS
    <2> QED
        BY <1>3, <2>1
<1>6. ASSUME NEW k \in 1 .. N
      PROVE  f[k] = MergeStep(chunks, f[k - 1], seq[k])
    <2>1. k \in 0 .. N /\ k - 1 \in 0 .. N /\ 1 .. k # {} /\ k \in Nat \ {0}
          /\ 1 .. k \in SUBSET (1 .. N)
        BY Positions
    <2>2. Max(1 .. k) = k /\ (1 .. k) \ {k} = 1 .. (k - 1)
        BY <2>1, MaxOfRange
    <2>3. iter[1 .. k] = MergeStep(chunks, iter[1 .. (k - 1)], seq[k])
        BY <1>3, <2>1, <2>2
    <2>4. f[k] = iter[1 .. k] /\ f[k - 1] = iter[1 .. (k - 1)]
        BY <2>1
    <2> QED
        BY <2>3, <2>4
<1>7. LastMerge(chunks, base, seq) = f[N]
    BY <1>4
<1> HIDE DEF f
<1> QED
    BY <1>5, <1>6, <1>7 DEF IsMergeRun

Sendable == { part \in Sent : part.size <= HardLimit }

\* Two messages of which none is a chunk left alone that would fit with the other.
Beside(a, b) ==
    a.size + 2 + b.size <= HardLimit => \A part \in {a, b} : part.alone => part.size >= MinChars

NoneLeftAlone(parts) == \A n \in 1 .. Len(parts) - 1 : Beside(parts[n], parts[n + 1])

\* The fields of what is sent.
LEMMA SendableType ==
    /\ \A p \in Sendable : /\ p.words \in Seq(Nat) /\ p.size \in Nat /\ p.alone \in BOOLEAN
                           /\ p.size <= HardLimit
    /\ \A p \in Sendable : p.words \in Seq(Nat)
BY DEF Sendable, Sent

\* The fields of a chunk.
LEMMA FittingType ==
    \A p \in Fitting : p.words \in Seq(Nat) /\ p.size \in Nat /\ p.size <= HardLimit
BY DEF Fitting, AnyPart

\* A chunk can be sent as it is.
LEMMA AloneType ==
    ASSUME NEW part \in Fitting
    PROVE  /\ Alone(part) \in Sendable /\ Alone(part).words = part.words
           /\ Alone(part).size = part.size /\ Alone(part).alone = TRUE
BY FittingType DEF Alone, Sendable, Sent

\* Two parts that fit in one message can be sent together.
LEMMA TogetherType ==
    ASSUME NEW a, a.words \in Seq(Nat), a.size \in Nat,
           NEW b, b.words \in Seq(Nat), b.size \in Nat
    PROVE  /\ Together(a, b).words = a.words \o b.words
           /\ Together(a, b).size = a.size + 2 + b.size /\ Together(a, b).alone = FALSE
           /\ Together(a, b).size <= HardLimit => Together(a, b) \in Sendable
<1> DEFINE words == a.words \o b.words
           size == a.size + 2 + b.size
<1>1. words \in Seq(Nat) /\ size \in Nat
    BY DEF words
<1>2. Together(a, b) = [words |-> words, size |-> size, alone |-> FALSE]
    BY DEF Together, Join
<1> HIDE DEF words, size
<1>3. /\ Together(a, b).words = words /\ Together(a, b).size = size /\ Together(a, b).alone = FALSE
    BY <1>2
<1>4. size <= HardLimit => [words |-> words, size |-> size, alone |-> FALSE] \in Sendable
    BY <1>1 DEF Sendable, Sent
<1> QED
    BY <1>2, <1>3, <1>4 DEF words, size

\* One more message, and one less.
LEMMA OneMorePart ==
    ASSUME NEW parts \in Seq(Sendable), NEW part \in Sendable, NoneLeftAlone(parts),
           parts # <<>> => Beside(Last(parts), part)
    PROVE  /\ Append(parts, part) \in Seq(Sendable)
           /\ NoneLeftAlone(Append(parts, part))
           /\ Last(Append(parts, part)) = part /\ Append(parts, part) # <<>>
           /\ WordsOf(Append(parts, part)) = WordsOf(parts) \o part.words
<1> DEFINE more == Append(parts, part)
<1>1. /\ more \in Seq(Sendable) /\ Len(more) = Len(parts) + 1 /\ Len(parts) \in Nat
      /\ more[Len(parts) + 1] = part
      /\ \A n \in 1 .. Len(parts) : more[n] = parts[n]
      /\ more = parts \o <<part>>
    BY AppendIsConcat
<1>2. <<part>> \in Seq(Sendable) /\ WordsOf(<<part>>) = part.words
    BY SendableType, WordsOfOne
<1>3. WordsOf(more) = WordsOf(parts) \o part.words
    BY <1>1, <1>2, SendableType, WordsOfConcat
<1> HIDE DEF more
<1>4. ASSUME NEW n \in 1 .. Len(more) - 1
      PROVE  Beside(more[n], more[n + 1])
    <2>1. CASE n < Len(parts)
        <3>1. n \in 1 .. Len(parts) - 1 /\ n \in 1 .. Len(parts) /\ n + 1 \in 1 .. Len(parts)
            BY <1>1, <2>1
        <3> QED
            BY <1>1, <3>1 DEF NoneLeftAlone
    <2>2. CASE ~(n < Len(parts))
        <3>1. n = Len(parts) /\ n \in 1 .. Len(parts) /\ parts # <<>>
            BY <1>1, <2>2
        <3>2. more[n] = Last(parts) /\ more[n + 1] = part
            BY <1>1, <3>1 DEF Last
        <3> QED
            BY <3>1, <3>2
    <2> QED
        BY <2>1, <2>2
<1>5. Last(more) = part /\ more # <<>>
    BY <1>1 DEF Last
<1> QED
    BY <1>1, <1>3, <1>4, <1>5 DEF NoneLeftAlone, more

\* The parts but the last one.
LEMMA OneLessPart ==
    ASSUME NEW parts \in Seq(Sendable), parts # <<>>, NoneLeftAlone(parts)
    PROVE  /\ Front(parts) \in Seq(Sendable) /\ Last(parts) \in Sendable
           /\ NoneLeftAlone(Front(parts))
           /\ Front(parts) # <<>> => Last(Front(parts)) \in Sendable /\ Beside(Last(Front(parts)), Last(parts))
           /\ WordsOf(parts) = WordsOf(Front(parts)) \o Last(parts).words
<1>0. PICK less, last, N : less = Front(parts) /\ last = Last(parts) /\ N = Len(parts)
    OBVIOUS
<1>1. /\ N \in Nat /\ N # 0 /\ N \in 1 .. Len(parts)
      /\ last = parts[N] /\ last \in Sendable
      /\ less = SubSeq(parts, 1, N - 1)
    BY <1>0 DEF Front, Last
<1>2. /\ less \in Seq(Sendable) /\ Len(less) = N - 1
      /\ \A n \in 1 .. N - 1 : less[n] = parts[n]
    BY <1>0, <1>1
<1>3. parts = less \o <<last>> /\ <<last>> \in Seq(Sendable)
    <2>1. /\ SubSeq(parts, 1, N) = SubSeq(parts, 1, N - 1) \o <<parts[N]>>
          /\ <<parts[N]>> \in Seq(Sendable)
        BY <1>1, PrefixStep
    <2>2. SubSeq(parts, 1, N) = parts
        BY <1>0, WholePrefix
    <2> QED
        BY <1>1, <2>1, <2>2
<1>4. WordsOf(parts) = WordsOf(less) \o last.words
    <2>1. WordsOf(<<last>>) = last.words
        BY <1>1, SendableType, WordsOfOne
    <2>2. WordsOf(less \o <<last>>) = WordsOf(less) \o WordsOf(<<last>>)
        BY <1>2, <1>3, SendableType, WordsOfConcat
    <2> QED
        BY <1>3, <2>1, <2>2, Zenon
<1>5. NoneLeftAlone(less)
    <2>1. ASSUME NEW n \in 1 .. Len(less) - 1
          PROVE  Beside(less[n], less[n + 1])
        <3>1. n \in 1 .. N - 1 /\ n + 1 \in 1 .. N - 1 /\ n \in 1 .. Len(parts) - 1
            BY <1>0, <1>1, <1>2
        <3> QED
            BY <1>2, <3>1 DEF NoneLeftAlone
    <2> QED
        BY <2>1 DEF NoneLeftAlone
<1>6. ASSUME less # <<>>
      PROVE  Last(less) \in Sendable /\ Beside(Last(less), last)
    <2>1. N - 1 \in 1 .. N - 1 /\ N - 1 \in 1 .. Len(parts) - 1 /\ (N - 1) + 1 = N
        BY <1>0, <1>1, <1>2, <1>6
    <2>2. Last(less) = parts[N - 1]
        BY <1>2, <2>1 DEF Last
    <2>3. parts[N - 1] \in Sendable
        BY <1>0, <2>1
    <2> QED
        BY <1>1, <2>1, <2>2, <2>3 DEF NoneLeftAlone
<1> QED
    BY <1>0, <1>1, <1>2, <1>4, <1>5, <1>6

MergeStates == [merged : Seq(Sendable), skip : BOOLEAN]

\* What a step of merge_short_chunks finds, by its four outcomes.
LEMMA MergeCases ==
    ASSUME NEW chunks \in Seq(Fitting), NEW n \in 1 .. Len(chunks), NEW state \in MergeStates
    PROVE  LET chunk == chunks[n]
               next == Together(chunk, chunks[n + 1])
               before == Together(Last(state.merged), chunk)
               after == MergeStep(chunks, state, n)
               joins == chunk.size < MinChars /\ n < Len(chunks) /\ next.size <= HardLimit
               joined == chunk.size < MinChars /\ state.merged # <<>> /\ before.size <= HardLimit
           IN  \/ state.skip /\ after = [merged |-> state.merged, skip |-> FALSE]
               \/ ~state.skip /\ joins /\ after = [merged |-> Append(state.merged, next), skip |-> TRUE]
               \/ ~state.skip /\ ~joins /\ joined
                  /\ after = [merged |-> Append(Front(state.merged), before), skip |-> FALSE]
               \/ ~state.skip /\ ~joins /\ ~joined
                  /\ after = [merged |-> Append(state.merged, Alone(chunk)), skip |-> FALSE]
<1> DEFINE chunk == chunks[n]
           next == Together(chunk, chunks[n + 1])
           before == Together(Last(state.merged), chunk)
           after == MergeStep(chunks, state, n)
           joins == chunk.size < MinChars /\ n < Len(chunks) /\ next.size <= HardLimit
           joined == chunk.size < MinChars /\ state.merged # <<>> /\ before.size <= HardLimit
<1>1. state = [merged |-> state.merged, skip |-> state.skip] /\ state.skip \in BOOLEAN
    BY DEF MergeStates
<1>2. CASE state.skip
    BY <1>1, <1>2 DEF MergeStep
<1>3. CASE ~state.skip /\ joins
    BY <1>3 DEF MergeStep
<1>4. CASE ~state.skip /\ ~joins /\ joined
    <2>1. after = [state EXCEPT !.merged = Append(Front(@), before)]
        BY <1>4 DEF MergeStep
    <2>2. after = [merged |-> Append(Front(state.merged), before), skip |-> FALSE]
        BY <1>1, <1>4, <2>1
    <2> QED
        BY <1>4, <2>2
<1>5. CASE ~state.skip /\ ~joins /\ ~joined
    <2>1. after = [state EXCEPT !.merged = Append(@, Alone(chunk))]
        BY <1>5 DEF MergeStep
    <2>2. after = [merged |-> Append(state.merged, Alone(chunk)), skip |-> FALSE]
        BY <1>1, <1>5, <2>1
    <2> QED
        BY <1>5, <2>2
<1> QED
    BY <1>2, <1>3, <1>4, <1>5

\* How many chunks the messages so far are made of.
Taken(state, n) == IF state.skip THEN n + 1 ELSE n

\* What merge_short_chunks keeps: the words of the chunks it has taken; no short chunk
\* left alone that would fit; and a short one that is the last so far does not fit with
\* the chunk that comes next.
MergeInv(chunks, state, n) ==
    /\ state \in MergeStates
    /\ state.skip => n < Len(chunks) /\ state.merged # <<>> /\ Last(state.merged).alone = FALSE
    /\ WordsOf(state.merged) = WordsOf(SubSeq(chunks, 1, Taken(state, n)))
    /\ NoneLeftAlone(state.merged)
    /\ ~state.skip /\ n < Len(chunks) /\ state.merged # <<>>
       /\ Last(state.merged).alone /\ Last(state.merged).size < MinChars
       => Last(state.merged).size + 2 + chunks[n + 1].size > HardLimit

\* The fields of what the loop has.
LEMMA MergeFields ==
    \A m, s : [merged |-> m, skip |-> s].merged = m
OBVIOUS

\* The last element is one of the elements.
LEMMA LastType ==
    ASSUME NEW States, NEW s \in Seq(States), s # <<>>
    PROVE  Last(s) \in States
BY DEF Last

\* The words of one more chunk.
LEMMA WordsOfNextChunk ==
    ASSUME NEW chunks \in Seq(Fitting), NEW n \in 1 .. Len(chunks)
    PROVE  WordsOf(SubSeq(chunks, 1, n)) = WordsOf(SubSeq(chunks, 1, n - 1)) \o chunks[n].words
<1>1. /\ SubSeq(chunks, 1, n - 1) \in Seq(Fitting) /\ <<chunks[n]>> \in Seq(Fitting)
      /\ SubSeq(chunks, 1, n) = SubSeq(chunks, 1, n - 1) \o <<chunks[n]>>
      /\ chunks[n] \in Fitting
    BY PrefixStep
<1>2. WordsOf(<<chunks[n]>>) = chunks[n].words
    BY <1>1, FittingWords, WordsOfOne
<1>3. WordsOf(SubSeq(chunks, 1, n - 1) \o <<chunks[n]>>)
      = WordsOf(SubSeq(chunks, 1, n - 1)) \o WordsOf(<<chunks[n]>>)
    BY <1>1, FittingWords, WordsOfConcat
<1> QED
    BY <1>1, <1>2, <1>3, Zenon

\* A message that may follow: it fits beside no chunk left alone that is short.
LEMMA MayFollow ==
    ASSUME NEW last \in Sendable, NEW part \in Sendable, NEW size \in Nat, MinChars \in Nat, HardLimit \in Nat,
           size <= part.size,
           last.alone /\ last.size < MinChars => last.size + 2 + size > HardLimit,
           part.alone /\ part.size < MinChars => last.size + 2 + part.size > HardLimit
    PROVE  Beside(last, part)
<1>1. /\ last.size \in Nat /\ part.size \in Nat /\ last.alone \in BOOLEAN /\ part.alone \in BOOLEAN
    BY SendableType
<1> QED
    BY <1>1 DEF Beside

\* The step keeps the type of what the loop has.
LEMMA MergeStepType ==
    ASSUME NEW chunks \in Seq(Fitting), NEW n \in 1 .. Len(chunks), NEW state \in MergeStates
    PROVE  MergeStep(chunks, state, n) \in MergeStates
<1> DEFINE chunk == chunks[n]
           next == Together(chunk, chunks[n + 1])
           before == Together(Last(state.merged), chunk)
           after == MergeStep(chunks, state, n)
<1>1. /\ state.merged \in Seq(Sendable)
      /\ chunk \in Fitting /\ Alone(chunk) \in Sendable /\ chunk.words \in Seq(Nat) /\ chunk.size \in Nat
    <2>1. state.merged \in Seq(Sendable)
        BY DEF MergeStates
    <2>2. chunk \in Fitting
        OBVIOUS
    <2>3. Alone(chunk) \in Sendable
        BY <2>2, AloneType
    <2>4. chunk.words \in Seq(Nat) /\ chunk.size \in Nat
        BY <2>2, FittingType
    <2> QED
        BY <2>1, <2>2, <2>3, <2>4
<1>2. n < Len(chunks) /\ next.size <= HardLimit => next \in Sendable
    <2>1. SUFFICES ASSUME n < Len(chunks), next.size <= HardLimit PROVE next \in Sendable
        OBVIOUS
    <2>2. chunks[n + 1] \in Fitting
        BY <2>1
    <2>3. chunks[n + 1].words \in Seq(Nat) /\ chunks[n + 1].size \in Nat
        BY <2>2, FittingType
    <2> QED
        BY <1>1, <2>1, <2>3, TogetherType
<1>3. state.merged # <<>> /\ before.size <= HardLimit => before \in Sendable
    <2>1. SUFFICES ASSUME state.merged # <<>>, before.size <= HardLimit PROVE before \in Sendable
        OBVIOUS
    <2>2. Last(state.merged) \in Sendable
        BY <1>1, <2>1, LastType
    <2>3. Last(state.merged).words \in Seq(Nat) /\ Last(state.merged).size \in Nat
        BY <2>2, SendableType
    <2> QED
        BY <1>1, <2>1, <2>3, TogetherType
<1>4. state.merged # <<>> => Front(state.merged) \in Seq(Sendable)
    BY <1>1 DEF Front
<1>5. \A parts \in Seq(Sendable) : \A part \in Sendable : \A skip \in BOOLEAN :
        [merged |-> Append(parts, part), skip |-> skip] \in MergeStates
    BY DEF MergeStates
<1>6. [merged |-> state.merged, skip |-> FALSE] \in MergeStates
    BY <1>1 DEF MergeStates
<1>7. /\ state.skip /\ after = [merged |-> state.merged, skip |-> FALSE] => after \in MergeStates
      /\ n < Len(chunks) /\ next.size <= HardLimit
         /\ after = [merged |-> Append(state.merged, next), skip |-> TRUE] => after \in MergeStates
      /\ state.merged # <<>> /\ before.size <= HardLimit
         /\ after = [merged |-> Append(Front(state.merged), before), skip |-> FALSE]
         => after \in MergeStates
      /\ after = [merged |-> Append(state.merged, Alone(chunk)), skip |-> FALSE] => after \in MergeStates
    <2> HIDE DEF after, before, next, chunk
    <2> QED
        BY <1>1, <1>2, <1>3, <1>4, <1>5, <1>6
<1> QED
    BY <1>7, MergeCases

\* The step keeps MergeInv: each of its four outcomes does.
LEMMA MergeStepKeeps ==
    ASSUME NEW chunks \in Seq(Fitting), NEW n \in 1 .. Len(chunks), NEW state,
           MergeInv(chunks, state, n - 1)
    PROVE  MergeInv(chunks, MergeStep(chunks, state, n), n)
<1>0. PICK chunk, merged, after, N : /\ chunk = chunks[n] /\ merged = state.merged
                                     /\ after = MergeStep(chunks, state, n) /\ N = Len(chunks)
    OBVIOUS
<1> DEFINE next == Together(chunk, chunks[n + 1])
           before == Together(Last(merged), chunk)
           joins == chunk.size < MinChars /\ n < N /\ next.size <= HardLimit
           joined == chunk.size < MinChars /\ merged # <<>> /\ before.size <= HardLimit
<1>1. /\ state \in MergeStates /\ merged \in Seq(Sendable) /\ NoneLeftAlone(merged)
      /\ state.skip \in BOOLEAN
      /\ N \in Nat /\ n \in 1 .. N /\ n \in Nat /\ n - 1 \in Nat /\ (n - 1) + 1 = n /\ n - 1 < N
      /\ MinChars \in Nat /\ HardLimit \in Nat
    BY <1>0, LimitsAssumption DEF MergeInv, MergeStates
<1>2. /\ chunk \in Fitting /\ chunk.words \in Seq(Nat) /\ chunk.size \in Nat
      /\ Alone(chunk) \in Sendable /\ Alone(chunk).words = chunk.words
      /\ Alone(chunk).size = chunk.size /\ Alone(chunk).alone = TRUE
    <2>1. chunk \in Fitting
        BY <1>0
    <2>2. chunk.words \in Seq(Nat) /\ chunk.size \in Nat
        BY <2>1, FittingType
    <2> QED
        BY <2>1, <2>2, AloneType
<1>3. /\ state.skip => n - 1 < N /\ merged # <<>> /\ Last(merged).alone = FALSE
      /\ WordsOf(merged) = WordsOf(SubSeq(chunks, 1, Taken(state, n - 1)))
      /\ ~state.skip /\ merged # <<>> /\ Last(merged).alone /\ Last(merged).size < MinChars
         => Last(merged).size + 2 + chunk.size > HardLimit
    BY <1>0, <1>1 DEF MergeInv
<1>4. /\ state.skip => Taken(state, n - 1) = n
      /\ ~state.skip => Taken(state, n - 1) = n - 1
    BY <1>1 DEF Taken
<1>5. after \in MergeStates
    BY <1>0, <1>1, MergeStepType
<1>6. ~state.skip => WordsOf(SubSeq(chunks, 1, n)) = WordsOf(merged) \o chunk.words
    BY <1>0, <1>3, <1>4, WordsOfNextChunk
<1>7. WordsOf(merged) \in Seq(Nat)
    BY <1>1, SendableType, WordsOfType
<1>8. merged # <<>> =>
        /\ Last(merged) \in Sendable /\ Last(merged).words \in Seq(Nat) /\ Last(merged).size \in Nat
        /\ before.words = Last(merged).words \o chunk.words
        /\ before.size = Last(merged).size + 2 + chunk.size /\ before.alone = FALSE
        /\ before.size <= HardLimit => before \in Sendable
    <2>1. SUFFICES ASSUME merged # <<>>
                   PROVE  /\ Last(merged) \in Sendable /\ Last(merged).words \in Seq(Nat)
                          /\ Last(merged).size \in Nat
                          /\ before.words = Last(merged).words \o chunk.words
                          /\ before.size = Last(merged).size + 2 + chunk.size /\ before.alone = FALSE
                          /\ before.size <= HardLimit => before \in Sendable
        OBVIOUS
    <2>2. Last(merged) \in Sendable
        BY <1>1, <2>1, LastType
    <2>3. Last(merged).words \in Seq(Nat) /\ Last(merged).size \in Nat
        BY <2>2, SendableType
    <2>4. /\ before.words = Last(merged).words \o chunk.words
          /\ before.size = Last(merged).size + 2 + chunk.size /\ before.alone = FALSE
          /\ before.size <= HardLimit => before \in Sendable
        BY <1>2, <2>3, TogetherType
    <2> HIDE DEF before
    <2> QED
        BY <2>2, <2>3, <2>4
<1>9. n < N =>
        /\ n + 1 \in 1 .. N /\ chunks[n + 1].words \in Seq(Nat) /\ chunks[n + 1].size \in Nat
        /\ next.words = chunk.words \o chunks[n + 1].words
        /\ next.size = chunk.size + 2 + chunks[n + 1].size /\ next.alone = FALSE
        /\ next.size <= HardLimit => next \in Sendable
    <2>1. SUFFICES ASSUME n < N
                   PROVE  /\ n + 1 \in 1 .. N /\ chunks[n + 1].words \in Seq(Nat)
                          /\ chunks[n + 1].size \in Nat
                          /\ next.words = chunk.words \o chunks[n + 1].words
                          /\ next.size = chunk.size + 2 + chunks[n + 1].size /\ next.alone = FALSE
                          /\ next.size <= HardLimit => next \in Sendable
        OBVIOUS
    <2>2. n + 1 \in 1 .. N /\ chunks[n + 1] \in Fitting
        BY <1>0, <1>1, <2>1
    <2>3. chunks[n + 1].words \in Seq(Nat) /\ chunks[n + 1].size \in Nat
        BY <2>2, FittingType
    <2>4. /\ next.words = chunk.words \o chunks[n + 1].words
          /\ next.size = chunk.size + 2 + chunks[n + 1].size /\ next.alone = FALSE
          /\ next.size <= HardLimit => next \in Sendable
        BY <1>2, <2>3, TogetherType
    <2> HIDE DEF next
    <2> QED
        BY <2>2, <2>3, <2>4
<1>10. CASE state.skip /\ after = [merged |-> merged, skip |-> FALSE]
    <2>1. after.merged = merged /\ after.skip = FALSE
        BY <1>10
    <2>2. Taken(after, n) = n /\ WordsOf(after.merged) = WordsOf(SubSeq(chunks, 1, n))
        BY <1>3, <1>4, <1>10, <2>1 DEF Taken
    <2> QED
        BY <1>0, <1>1, <1>3, <1>5, <1>10, <2>1, <2>2 DEF MergeInv
<1>11. CASE ~state.skip /\ joins /\ after = [merged |-> Append(merged, next), skip |-> TRUE]
    <2>1. after.merged = Append(merged, next) /\ after.skip = TRUE
        BY <1>11
    <2>2. next \in Sendable /\ next.alone = FALSE /\ chunk.size <= next.size
        BY <1>2, <1>9, <1>11
    <2> HIDE DEF next, before
    <2>3. merged # <<>> => Beside(Last(merged), next)
        BY <1>1, <1>2, <1>3, <1>8, <1>11, <2>2, MayFollow
    <2>4. /\ NoneLeftAlone(after.merged) /\ Last(after.merged) = next /\ after.merged # <<>>
          /\ WordsOf(after.merged) = WordsOf(merged) \o next.words
        BY <1>1, <2>1, <2>2, <2>3, OneMorePart
    <2>5. WordsOf(SubSeq(chunks, 1, n + 1)) = WordsOf(SubSeq(chunks, 1, n)) \o chunks[n + 1].words
        <3>1. n + 1 \in 1 .. Len(chunks) /\ (n + 1) - 1 = n
            BY <1>0, <1>1, <1>9, <1>11
        <3> QED
            BY <3>1, WordsOfNextChunk
    <2>6. (WordsOf(merged) \o chunk.words) \o chunks[n + 1].words
          = WordsOf(merged) \o (chunk.words \o chunks[n + 1].words)
        BY <1>2, <1>7, <1>9, <1>11, WordsAssociate, Zenon
    <2>7. WordsOf(after.merged) = WordsOf(SubSeq(chunks, 1, n + 1))
        BY <1>6, <1>9, <1>11, <2>4, <2>5, <2>6, Zenon
    <2>8. Taken(after, n) = n + 1
        BY <2>1 DEF Taken
    <2> QED
        BY <1>0, <1>5, <1>11, <2>1, <2>2, <2>4, <2>7, <2>8 DEF MergeInv
<1>12. CASE ~state.skip /\ ~joins /\ joined
            /\ after = [merged |-> Append(Front(merged), before), skip |-> FALSE]
    <2> DEFINE less == Front(merged)
    <2>1. after.merged = Append(less, before) /\ after.skip = FALSE
        BY <1>12
    <2>2. before \in Sendable /\ before.alone = FALSE /\ Last(merged).size <= before.size
        BY <1>2, <1>8, <1>12
    <2>3. /\ less \in Seq(Sendable) /\ NoneLeftAlone(less)
          /\ less # <<>> => Last(less) \in Sendable /\ Beside(Last(less), Last(merged))
          /\ WordsOf(merged) = WordsOf(less) \o Last(merged).words
        BY <1>1, <1>12, OneLessPart
    <2> HIDE DEF next, before, less
    <2>4. less # <<>> => Beside(Last(less), before)
        <3>1. SUFFICES ASSUME less # <<>>, Last(less).size + 2 + before.size <= HardLimit, Last(less).alone
                       PROVE  Last(less).size >= MinChars
            BY <2>2 DEF Beside
        <3>2. Last(less).size \in Nat /\ Last(merged).size \in Nat /\ before.size \in Nat
            BY <1>8, <1>12, <2>2, <2>3, <3>1, SendableType
        <3>3. Last(less).size + 2 + Last(merged).size <= HardLimit
            BY <1>1, <2>2, <3>1, <3>2
        <3> QED
            BY <2>3, <3>1, <3>3 DEF Beside
    <2>5. /\ NoneLeftAlone(after.merged) /\ Last(after.merged) = before /\ after.merged # <<>>
          /\ WordsOf(after.merged) = WordsOf(less) \o before.words
        BY <2>1, <2>2, <2>3, <2>4, OneMorePart
    <2>6. (WordsOf(less) \o Last(merged).words) \o chunk.words
          = WordsOf(less) \o (Last(merged).words \o chunk.words)
        <3>1. WordsOf(less) \in Seq(Nat)
            BY <2>3, SendableType, WordsOfType
        <3> QED
            BY <1>2, <1>8, <1>12, <3>1, WordsAssociate, Zenon
    <2>7. WordsOf(after.merged) = WordsOf(SubSeq(chunks, 1, n))
        BY <1>6, <1>8, <1>12, <2>3, <2>5, <2>6, Zenon
    <2>8. Taken(after, n) = n
        BY <2>1 DEF Taken
    <2> QED
        BY <1>0, <1>5, <2>1, <2>2, <2>5, <2>7, <2>8 DEF MergeInv
<1>13. CASE ~state.skip /\ ~joins /\ ~joined
            /\ after = [merged |-> Append(merged, Alone(chunk)), skip |-> FALSE]
    <2>1. after.merged = Append(merged, Alone(chunk)) /\ after.skip = FALSE
        BY <1>13
    <2>2. merged # <<>> /\ chunk.size < MinChars => Last(merged).size + 2 + chunk.size > HardLimit
        <3>1. merged # <<>> /\ chunk.size < MinChars => ~(before.size <= HardLimit)
            BY <1>13
        <3>2. merged # <<>> => /\ Last(merged).size \in Nat
                               /\ before.size = Last(merged).size + 2 + chunk.size
            BY <1>8
        <3> HIDE DEF before
        <3> QED
            BY <1>1, <1>2, <3>1, <3>2
    <2>3. merged # <<>> => Beside(Last(merged), Alone(chunk))
        <3> HIDE DEF before, next
        <3> QED
            BY <1>1, <1>2, <1>3, <1>8, <1>13, <2>2, MayFollow
    <2>4. /\ NoneLeftAlone(after.merged) /\ Last(after.merged) = Alone(chunk) /\ after.merged # <<>>
          /\ WordsOf(after.merged) = WordsOf(merged) \o chunk.words
        BY <1>1, <1>2, <2>1, <2>3, OneMorePart
    <2>5. n < N /\ chunk.size < MinChars => chunk.size + 2 + chunks[n + 1].size > HardLimit
        <3>1. n < N /\ chunk.size < MinChars => ~(next.size <= HardLimit)
            BY <1>13
        <3>2. n < N => /\ chunks[n + 1].size \in Nat
                       /\ next.size = chunk.size + 2 + chunks[n + 1].size
            BY <1>9
        <3> HIDE DEF next
        <3> QED
            BY <1>1, <1>2, <3>1, <3>2
    <2>6. Taken(after, n) = n
        BY <2>1 DEF Taken
    <2>7. WordsOf(after.merged) = WordsOf(SubSeq(chunks, 1, n))
        BY <1>6, <1>13, <2>4
    <2> QED
        BY <1>0, <1>2, <1>5, <2>1, <2>4, <2>5, <2>6, <2>7 DEF MergeInv
<1>14. \/ state.skip /\ after = [merged |-> merged, skip |-> FALSE]
       \/ ~state.skip /\ joins /\ after = [merged |-> Append(merged, next), skip |-> TRUE]
       \/ ~state.skip /\ ~joins /\ joined
          /\ after = [merged |-> Append(Front(merged), before), skip |-> FALSE]
       \/ ~state.skip /\ ~joins /\ ~joined
          /\ after = [merged |-> Append(merged, Alone(chunk)), skip |-> FALSE]
    BY <1>0, <1>1, MergeCases
<1> HIDE DEF next, before, joins, joined
<1> QED
    BY <1>10, <1>11, <1>12, <1>13, <1>14


-----------------------------------------------------------------------------
(* Every draft is split as it must be. *)

\* MergeInv holds before the first chunk.
LEMMA MergeStart ==
    ASSUME NEW chunks \in Seq(Fitting)
    PROVE  MergeInv(chunks, [merged |-> <<>>, skip |-> FALSE], 0)
<1>0. PICK start : start = [merged |-> <<>>, skip |-> FALSE]
    OBVIOUS
<1>1. start.merged = <<>> /\ start.skip = FALSE /\ <<>> \in Seq(Sendable)
    BY <1>0
<1>2. start \in MergeStates
    BY <1>0, <1>1 DEF MergeStates
<1>3. Taken(start, 0) = 0
    BY <1>1 DEF Taken
<1>4. SubSeq(chunks, 1, 0) = <<>>
    BY WholePrefix
<1>5. NoneLeftAlone(<<>>)
    BY DEF NoneLeftAlone
<1>6. MergeInv(chunks, start, 0)
    BY <1>1, <1>2, <1>3, <1>4, <1>5 DEF MergeInv
<1> QED
    BY <1>0, <1>6

\* merge_short_chunks keeps the words and the limit, and leaves no short chunk alone
\* beside one that it would fit with.
LEMMA MergedKeeps ==
    ASSUME NEW chunks \in Seq(Fitting)
    PROVE  /\ Merged(chunks) \in Seq(Sendable)
           /\ WordsOf(Merged(chunks)) = WordsOf(chunks)
           /\ NoneLeftAlone(Merged(chunks))
<1>0. PICK seq, base, N : /\ seq = [n \in DOMAIN chunks |-> n] /\ N = Len(chunks)
                          /\ base = [merged |-> <<>>, skip |-> FALSE]
    OBVIOUS
<1>1. N \in Nat /\ DOMAIN seq = 1 .. N /\ \A k \in 1 .. N : seq[k] = k
    BY <1>0
<1>2. base \in MergeStates /\ MergeInv(chunks, base, 0)
    BY <1>0, MergeStart DEF MergeInv
<1>3. PICK f : IsMergeRun(f, chunks, base, seq, N) /\ LastMerge(chunks, base, seq) = f[N]
    <2>1. \A k \in 1 .. N : \A state \in MergeStates : MergeStep(chunks, state, seq[k]) \in MergeStates
        BY <1>0, <1>1, MergeStepType
    <2>2. base \in MergeStates /\ N \in Nat /\ DOMAIN seq = 1 .. N
        BY <1>1, <1>2
    <2> QED
        BY <2>1, <2>2, MergeRuns
<1> DEFINE Good == [k \in 0 .. N |-> { state \in MergeStates : MergeInv(chunks, state, k) }]
<1>4. f[0] \in Good[0]
    <2>1. 0 \in 0 .. N
        BY <1>1
    <2> QED
        BY <1>2, <1>3, <2>1 DEF IsMergeRun
<1>5. ASSUME NEW k \in 1 .. N, f[k - 1] \in Good[k - 1]
      PROVE  f[k] \in Good[k]
    <2>1. k \in 0 .. N /\ k - 1 \in 0 .. N /\ k \in 1 .. Len(chunks)
        BY <1>0, <1>1
    <2>2. f[k - 1] \in MergeStates /\ MergeInv(chunks, f[k - 1], k - 1)
        BY <1>5, <2>1
    <2>3. f[k] = MergeStep(chunks, f[k - 1], k)
        BY <1>1, <1>3 DEF IsMergeRun
    <2>4. f[k] \in MergeStates
        BY <2>1, <2>2, <2>3, MergeStepType
    <2>5. MergeInv(chunks, f[k], k)
        BY <2>1, <2>2, <2>3, MergeStepKeeps
    <2> QED
        BY <2>1, <2>4, <2>5
<1>6. \A k \in 0 .. N : f[k] \in Good[k]
    <2> HIDE DEF Good
    <2> QED
        BY <1>1, <1>4, <1>5, RunInduction
<1>7. f[N] \in MergeStates /\ MergeInv(chunks, f[N], N)
    <2>1. N \in 0 .. N
        BY <1>1
    <2> QED
        BY <1>6, <2>1
<1>8. Merged(chunks) = f[N].merged
    BY <1>0, <1>3 DEF Merged, LastMerge
<1>9. f[N].skip = FALSE
    BY <1>0, <1>1, <1>7 DEF MergeInv, MergeStates
<1>10. Taken(f[N], N) = N /\ SubSeq(chunks, 1, N) = chunks
    <2>1. SubSeq(chunks, 1, N) = chunks
        BY <1>0, WholePrefix
    <2> QED
        BY <1>9, <2>1 DEF Taken
<1> QED
    BY <1>7, <1>8, <1>10 DEF MergeInv, MergeStates

\* Every draft, of whatever length and of words of whatever length, is split into
\* parts that hold its words, that fit in a message, and none of which is a short
\* chunk left alone beside one it would fit with (split_whatsapp_messages).
THEOREM DraftIsSplit ==
    ASSUME NEW draft \in AllDrafts
    PROVE  WellSplit(draft)
<1>0. PICK parts : parts = Parts(draft)
    OBVIOUS
<1>1. Chunks(draft) \in Seq(Fitting) /\ WordsOf(Chunks(draft)) = DraftWords(draft)
    BY ChunksKeep
<1>2. parts \in Seq(Sendable) /\ WordsOf(parts) = DraftWords(draft) /\ NoneLeftAlone(parts)
    BY <1>0, <1>1, MergedKeeps DEF Parts
<1>3. \A n \in DOMAIN parts : parts[n].size <= HardLimit
    BY <1>2, SendableType
<1>4. FlattenSeq([n \in DOMAIN parts |-> parts[n].words]) = DraftWords(draft)
    BY <1>2 DEF WordsOf
<1> QED
    BY <1>0, <1>2, <1>3, <1>4 DEF WellSplit, NoneLeftAlone, Beside

\* The bounded sequences are sequences.
LEMMA UpToIsSeq ==
    ASSUME NEW set, NEW wider, set \subseteq wider
    PROVE  UpTo(set) \subseteq Seq(wider) \ {<<>>}
<1>1. ASSUME NEW n \in 1 .. MaxLength, NEW s \in [1 .. n -> set]
      PROVE  s \in Seq(wider) \ {<<>>}
    <2>1. n \in Nat /\ n # 0
        BY LimitsAssumption
    <2>2. s \in Seq(wider)
        BY <2>1
    <2>3. s # <<>>
        BY <2>1
    <2> QED
        BY <2>2, <2>3
<1> QED
    BY <1>1 DEF UpTo

\* The drafts TLC enumerates are drafts.
LEMMA DraftsAreDrafts == Drafts \subseteq AllDrafts
<1>1. Lengths \subseteq WordLength
    BY LimitsAssumption DEF WordLength
<1>2. UpTo(Lengths) \subseteq Sentences
    BY <1>1, UpToIsSeq DEF Sentences
<1>3. UpTo(UpTo(Lengths)) \subseteq Blocks
    BY <1>2, UpToIsSeq DEF Blocks
<1>4. UpTo(UpTo(UpTo(Lengths))) \subseteq AllDrafts
    BY <1>3, UpToIsSeq DEF AllDrafts
<1> QED
    BY <1>4 DEF Drafts

\* What was saved is what the lead is sent: however the text of an answer falls into
\* paragraphs, sentences and words, its parts hold it whole and in its order
\* (send_text, split_whatsapp_messages).
THEOREM AnswersAreSentWhole == AnswersSpec => []SendsWhole
<1>1. AllWellSplit
    BY DraftsAreDrafts, DraftIsSplit DEF AllWellSplit
<1>2. SendsWhole
    BY <1>1 DEF SendsWhole
<1> QED
    BY <1>2, PTL
=============================================================================
