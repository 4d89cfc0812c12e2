---------------------------- MODULE DiscoveryPlan ----------------------------
(***************************************************************************)
(* The question that ends an answer of the agent, and what the reply to it is *)
(* taken for: the discovery slots (memory.py), the question of the sales plan  *)
(* (planners.py), the one that goes with the link (fulfillment.py) and the     *)
(* reply frame that a plan leaves for the next message (reply_frame.py).       *)
(*                                                                         *)
(* A lead is a record of its profile: requirements, need (action_requirement), *)
(* fit (known_product_fit), chosen (selected_product), active (the product      *)
(* talked about) and slots.  A turn t is a reading with what became of it.      *)
(*                                                                         *)
(* As in module SalesStages, the cases of the planner are taken in their       *)
(* order, and one that depends on intent, topics, stage or objection may hold   *)
(* or not.  Those on a sceptical tone and on a continuation are dead: no        *)
(* analysis that reaches the planner has the tone, no question the key.         *)
(***************************************************************************)
EXTENDS TurnReading

NoKey == "none"

SlotKeys == Facts \cup {"action_requirement"}

Keys == SlotKeys \cup {NoKey, "entry_intent", "automation_need", "objection_clarification",
                       "guide_app_options", "answer_or_actions"}

-----------------------------------------------------------------------------
(***************************************************************************)
(* Memory.                                                                 *)
(***************************************************************************)

\* _action_requirement_is_known: also by a declared number of actions.
RememberedNeed(lead) ==
    \/ lead.need # "unknown"
    \/ Class(lead.requirements) # "unknown"
    \/ lead.requirements.count # NoCount

\* The slots that must not be asked for.
KnownSlots(lead) ==
    lead.slots \cup (IF RememberedNeed(lead) THEN {"action_requirement"} ELSE {})

\* The first of the slots, in the order of the code.
FirstOf(missing) ==
    CASE "business_type" \in missing -> "business_type"
      [] "business_type" \notin missing /\ "main_channel" \in missing -> "main_channel"
      [] missing \cap {"business_type", "main_channel"} = {} /\ "pain_or_goal" \in missing ->
             "pain_or_goal"
      [] missing = {"action_requirement"} -> "action_requirement"
      [] missing = {} -> NoKey

NextQuestion(lead) == FirstOf((Slots \cup {"action_requirement"}) \ KnownSlots(lead))

-----------------------------------------------------------------------------
(***************************************************************************)
(* The planner.                                                            *)
(***************************************************************************)

PlannerFit(lead, t) == IF t.unsold THEN "unavailable" ELSE lead.fit

\* _known_action_requirement: unlike the memory, the planner also takes Hibrido
\* for an answer, and a declared number for none.
PlannerKnowsNeed(lead, t) ==
    \/ lead.need # "unknown"
    \/ Class(lead.requirements) # "unknown"
    \/ PlannerFit(lead, t) = "hibrido"
    \/ lead.active = "hibrido"

MissingKey(lead, t) ==
    FirstOf((Slots \ lead.slots)
            \cup (IF PlannerKnowsNeed(lead, t) THEN {} ELSE {"action_requirement"}))

\* What a plan says of the answer's end: the call to action, whether the micro
\* action asks for the requirement or for the permission to send the link, and
\* the question.
Ends(cta, micro, key) == [cta |-> cta, micro |-> micro, key |-> key]

Asking == {"discovery", "soft", "objection"}

\* A question is asked whether or not its slot is known.
FinalizedMutant(lead, end) ==
    CASE end.cta \notin Asking -> end
      [] end.cta \in Asking /\ end.key # NoKey -> end
      [] end.cta = "objection" /\ end.key = NoKey ->
             [end EXCEPT !.key = "objection_clarification"]
      [] end.cta \in Asking \ {"objection"} /\ end.key = NoKey ->
             IF NextQuestion(lead) = NoKey THEN [end EXCEPT !.cta = "none"]
             ELSE [end EXCEPT !.key = NextQuestion(lead)]

\* _finalize_plan: a question that is missing, or whose slot the memory knows, is
\* replaced by the next one, or dropped with the call to action.  The micro
\* action stays what it was.
Finalized(lead, end) ==
    CASE \/ end.cta \notin Asking
         \/ end.key # NoKey /\ end.key \notin KnownSlots(lead) -> end
      [] end.cta = "objection" /\ end.key = NoKey ->
             [end EXCEPT !.key = "objection_clarification"]
      [] /\ end.cta \in Asking
         /\ end.key \in KnownSlots(lead) \/ (end.cta # "objection" /\ end.key = NoKey) ->
             IF NextQuestion(lead) = NoKey THEN [end EXCEPT !.cta = "none", !.key = NoKey]
             ELSE [end EXCEPT !.key = NextQuestion(lead)]

Discovery(key) ==
    Ends("discovery", IF key = "action_requirement" THEN "ask_need" ELSE "other", key)

Link == Ends("link", "link", NoKey)

Redirect == Ends("redirect", "other", NoKey)

SoftAnswer == Ends("soft", "other", NoKey)

\* A message nobody understands, unless it answers the question before it.
MayRecover(lead, t) ==
    /\ Class(lead.requirements) = "unknown"
    /\ lead.need = "unknown"
    /\ PlannerFit(lead, t) \notin Available
    /\ ~t.replies

MayGreet(lead, t) ==
    /\ KnownSlots(lead) = {}
    /\ lead.fit = "unknown" /\ lead.active = None /\ lead.chosen = None

PostPurchaseEnds == { Ends("none", "other", NoKey), Redirect }

\* Support and objections, whatever is known.
SpecialEnds == { Redirect, SoftAnswer, Ends("objection", "other", NoKey) }

\* Questions answered on the spot: price, channel and scope; policies; the
\* process; comparisons, with a question or a soft one.
AnswerEnds(missing) ==
    { Ends("soft", "other", missing), SoftAnswer, Ends("next_step", "other", NoKey),
      Ends("discovery", "other", missing) }

\* From the recommendation on.  Whether it was communicated, and whether the lead
\* shows interest, is not kept.
LateEnds(lead, t, missing) ==
    (IF missing = NoKey \/ lead.need # "unknown"
     THEN {Ends("soft_close", "other", NoKey)} ELSE {})
    \cup (IF PlannerFit(lead, t) \in Available THEN {Link} ELSE {})
    \cup (IF missing # NoKey THEN {Discovery(missing)} ELSE {SoftAnswer})

OpenEnds(lead, t) ==
    AnswerEnds(MissingKey(lead, t))
    \cup (IF MayRecover(lead, t) THEN {Ends("soft", "other", "automation_need")} ELSE {})
    \cup (IF ~PlannerKnowsNeed(lead, t) THEN {Discovery("action_requirement")} ELSE {})
    \cup (IF t.clash THEN {Ends("discovery", "other", "action_requirement")}
          ELSE LateEnds(lead, t, MissingKey(lead, t)))

CommercialEnds(lead, t) ==
    CASE PlannerFit(lead, t) = "unavailable" -> {SoftAnswer}
      [] PlannerFit(lead, t) = "custom"      -> {Redirect}
      [] OTHER                               -> OpenEnds(lead, t)

\* The ends of all plans but those after a purchase.  Module SalesStages has the guard of the close.
PlanEnds(lead, t) ==
    { Finalized(lead, end) :
        end \in SpecialEnds \cup CommercialEnds(lead, t)
                \cup (IF t.start /\ lead.chosen # None
                      THEN {Ends("direct_close", "other", NoKey)} ELSE {})
                \cup (IF MayGreet(lead, t) THEN {Ends("soft", "other", "entry_intent")}
                      ELSE {}) }

-----------------------------------------------------------------------------
(***************************************************************************)
(* The link and the reply frame.                                           *)
(***************************************************************************)

BroadKeys == SlotKeys \cup {"automation_need"}

\* _should_include_app_link: no purchase was made (post), no person is needed, and
\* neither scope flag of the turn is set, product_unavailable or unsupported_scope.
IncludesLink(lead, t, end, post) ==
    /\ t.start /\ ~post
    /\ end.cta # "redirect"
    /\ ~t.unsold
    /\ ProductFit(lead.requirements) # "custom"

\* With the link goes a smaller question: whether to help in the app, or, when
\* no product is talked about, which one to take.  resisted: a hard objection is
\* live.
MinimalKey(lead, end, resisted) ==
    IF resisted \/ lead.chosen # None \/ end.cta = "direct_close" \/ lead.active \in Available
    THEN "guide_app_options"
    ELSE "answer_or_actions"

AskedKey(lead, t, end, post, resisted) ==
    IF /\ IncludesLink(lead, t, end, post)
       /\ end.key \in BroadKeys \cup {NoKey}
    THEN MinimalKey(lead, end, resisted) ELSE end.key

NoFrame == [type |-> "none", target |-> None]

\* The frame is made of the plan alone, whatever question the answer ends with.
ReplyFrame(lead, end) ==
    IF end.key = NoKey /\ end.cta = "none" THEN NoFrame
    ELSE [ type |-> CASE end.micro = "ask_need" -> "action"
                      [] end.micro = "link"     -> "link"
                      [] OTHER                  -> "context",
           target |-> CASE lead.chosen # None -> lead.chosen
                        [] /\ lead.chosen = None
                           /\ ProductFit(lead.requirements) # "unknown" ->
                               ProductFit(lead.requirements)
                        [] OTHER -> lead.active ]

\* "unclear" stands for "unrelated" too: no code tells the two apart.
ReplyActs == {"accept", "decline", "provide_answer", "ask_followup", "unclear"}

\* What a message may be taken for as a reply: the resolver is asked of every
\* message after the two questions, and else of one that says nothing itself.
\* Without an answer, or without literal evidence, the reply is unclear.
Acts(frame, remarks) ==
    IF frame.type \in {"action", "link"} \/ (frame.type = "context" /\ remarks.sparse)
    THEN ReplyActs ELSE {"unclear"}
=============================================================================
