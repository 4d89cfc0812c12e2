--------------------------- MODULE LeadConversation ---------------------------
(***************************************************************************)
(* What a lead's agent knows and asks over a conversation: a turn reads a     *)
(* message (TurnReading), relates it to the question before it, merges the     *)
(* requirements (RequirementProfile) and the product talked about into the     *)
(* saved profile, and answers with a question (DiscoveryPlan).                *)
(*                                                                         *)
(* A turn is two steps, as it is two writes: update_lead_state saves the        *)
(* profile, and save_memory the answer with its reply frame.  A turn that       *)
(* fails in between leaves the new profile and the old frame.  The turns of a   *)
(* lead do not overlap here; module LeadTurns is about those that do.          *)
(***************************************************************************)
EXTENDS DiscoveryPlan

VARIABLES
    requirements,  \* requirement_profile of profile_data
    need,          \* action_requirement of profile_data
    fit,           \* known_product_fit
    chosen,        \* selected_product
    active,        \* active_product_context of product_context
    slots,         \* the discovery facts of the lead
    frame,         \* the reply frame saved with the last answer
    turn,          \* the turn between its two writes, or Idle
    asked,         \* the question of the last answer, until the next message
    invented       \* history: what the profile took from no message and no offer

vars == <<requirements, need, fit, chosen, active, slots, frame, turn, asked, invented>>

Idle == [start |-> FALSE, unsold |-> FALSE, clash |-> FALSE, flagged |-> FALSE,
         replies |-> FALSE, step |-> "idle"]

Lead == [requirements |-> requirements, need |-> need, fit |-> fit, chosen |-> chosen,
         active |-> active, slots |-> slots]

Init ==
    /\ requirements = EmptyProfile
    /\ need = "unknown"
    /\ fit = "unknown"
    /\ chosen = None
    /\ active = None
    /\ slots = {}
    /\ frame = NoFrame
    /\ turn = Idle
    /\ asked = NoKey
    /\ invented = {}

-----------------------------------------------------------------------------
(***************************************************************************)
(* The reply (normalize_and_derive_turn).                                  *)
(***************************************************************************)

\* The link was offered for the product of the frame, or else for the one that
\* fits.
Offered == IF frame.target # None THEN frame.target ELSE fit

AcceptsLink(act) == frame.type = "link" /\ act = "accept"

Starts(remarks, act) ==
    \/ AcceptsLink(act)
    \/ remarks.start /\ ~(frame.type = "link" /\ act = "decline")

\* Declining takes the start back, and leaves the product that was selected
\* because of it.
Selected(remarks, act) ==
    IF AcceptsLink(act) /\ Offered \in Available THEN Offered ELSE remarks.selected

\* A reply to the question of the requirement that names none stands for some
\* action.
Contextual(remarks, act) ==
    frame.type = "action" /\ act \in {"accept", "provide_answer"} /\ ~remarks.requires

-----------------------------------------------------------------------------
(***************************************************************************)
(* The profile (update_lead_state).                                        *)
(***************************************************************************)

\* The profiles that one reading may make of another, with the answers of the
\* delta resolver.
MergedProfiles(profile, answers, reading, contextual) ==
    LET r == reading.requirements
    IN  { Merge(profile, Delta(profile, r.items, r.update, r.count,
                               IF contextual THEN {Unnamed} ELSE {}, resolution)) :
            resolution \in {{}} \cup
                IF ShouldResolve(profile, r.update, r.items, reading.hint)
                THEN answers ELSE {} }

\* The readings with the same remarks.
Groups ==
    { [remarks |-> remarks, readings |-> { r \in Readings : r.remarks = remarks }] :
      remarks \in Remarks }

\* What may become of a profile: the remarks of a message, whether it names some
\* action by replying to the question before it, and the profiles that its
\* readings may then make.
Outcomes(profile, answers) ==
    { [ remarks |-> g.remarks, contextual |-> contextual,
        profiles |-> UNION { MergedProfiles(profile, answers, reading, contextual) :
                             reading \in g.readings } ] :
      g \in Groups, contextual \in BOOLEAN }

Understandings ==
    { [of |-> profile, outcomes |-> Outcomes(profile, Resolved(profile))] :
      profile \in Profiles }

OutcomesOf(profile) == UNION { u.outcomes : u \in { v \in Understandings : v.of = profile } }

\* resolve_product_context.  confirmed_product, which goes before all, is never
\* set by the code.
ActiveProduct(remarks, act) ==
    LET replied == act \in {"accept", "provide_answer", "ask_followup"}
                   /\ frame.target \in Available \cup {"ventas"}
    IN  CASE Selected(remarks, act) # None -> Selected(remarks, act)
          [] Selected(remarks, act) = None /\ remarks.subject # None -> remarks.subject
          [] /\ Selected(remarks, act) = None /\ remarks.subject = None
             /\ remarks.requested # None -> remarks.requested
          [] /\ Selected(remarks, act) = None /\ remarks.subject = None
             /\ remarks.requested = None /\ replied -> frame.target
          [] OTHER -> IF active = None /\ fit \in Available THEN fit ELSE active

ChosenProduct(remarks, act) ==
    IF Selected(remarks, act) # None THEN Selected(remarks, act) ELSE chosen

\* A choice is a fit of its own.
FitMutant(profile, choice) ==
    IF choice # None THEN choice
    ELSE IF ProductFit(profile) # "unknown" THEN ProductFit(profile) ELSE fit

\* The requirements give the fit; without any, the choice; else the fit of an
\* earlier turn stays.
Fit(profile, choice) ==
    CASE ProductFit(profile) # "unknown"                    -> ProductFit(profile)
      [] ProductFit(profile) = "unknown" /\ choice # None   -> choice
      [] ProductFit(profile) = "unknown" /\ choice = None   -> fit

Need(profile) ==
    IF ActionRequirement(Class(profile)) # "unknown"
    THEN ActionRequirement(Class(profile)) ELSE need

\* What the profile takes up that neither the message nor the question before it
\* holds: its first requirements, and a new choice.
TakenFromNowhere(remarks, act, profile) ==
    LET items == IF remarks.requires \/ Contextual(remarks, act) THEN remarks.unsaid
                 ELSE Items
        products == IF remarks.selected # None \/ AcceptsLink(act) THEN remarks.unsaid
                    ELSE Available
    IN  (IF requirements.active = {} THEN profile.active \cap items ELSE {})
        \cup (({ChosenProduct(remarks, act)} \ {chosen}) \cap products)

\* What the planner needs of the turn, besides the profile: whether the lead
\* starts, the product it names is not sold, or clashes with the requirements of
\* this message or of the profile, and whether it replies to the question before.
TurnOf(remarks, act) ==
    [ start   |-> Starts(remarks, act),
      unsold  |-> remarks.requested = "ventas",
      clash   |-> \/ remarks.mismatch
                  \/ remarks.requested = "captura" /\ need' = "external_actions_required"
                  \/ remarks.requested = "hibrido" /\ need' = "answers_only",
      flagged |-> Flagged(requirements', remarks.requested),
      replies |-> act \in {"accept", "decline", "provide_answer", "ask_followup"},
      step    |-> "understood" ]

\* A message: update_lead_state and all that goes before it.
Understand ==
    /\ turn = Idle
    /\ \E outcome \in OutcomesOf(requirements) :
       LET remarks == outcome.remarks
       IN  \E act \in Acts(frame, remarks) :
         /\ outcome.contextual = Contextual(remarks, act)
         /\ requirements' \in outcome.profiles
         /\ need' = Need(requirements')
         /\ chosen' = ChosenProduct(remarks, act)
         /\ fit' = Fit(requirements', chosen')
         /\ active' = ActiveProduct(remarks, act)
         /\ slots' = slots \cup remarks.facts
         /\ turn' = TurnOf(remarks, act)
         /\ invented' = invented \cup TakenFromNowhere(remarks, act, requirements')
    /\ asked' = NoKey
    /\ UNCHANGED frame

\* The planner, the answer and save_memory.
Answer ==
    /\ turn # Idle
    /\ \E post, resisted \in BOOLEAN :
         \E end \in (IF post THEN PostPurchaseEnds ELSE PlanEnds(Lead, turn)) :
             /\ asked' = AskedKey(Lead, turn, end, post, resisted)
             /\ frame' = ReplyFrame(Lead, end)
    /\ turn' = Idle
    /\ UNCHANGED <<requirements, need, fit, chosen, active, slots, invented>>

\* The turn fails between its two writes.
TurnFails ==
    /\ turn # Idle
    /\ turn' = Idle
    /\ UNCHANGED <<requirements, need, fit, chosen, active, slots, frame, asked, invented>>

Next == Understand \/ Answer \/ TurnFails

Spec == Init /\ [][Next]_vars

-----------------------------------------------------------------------------
TurnTypes ==
    [ start : BOOLEAN, unsold : BOOLEAN, clash : BOOLEAN, flagged : BOOLEAN,
      replies : BOOLEAN, step : {"idle", "understood"} ]

TypeOK ==
    /\ requirements \in Profiles
    /\ need \in RequirementNeeds
    /\ fit \in Available \cup {"unknown", "unavailable", "custom"}
    /\ chosen \in Available \cup {None}
    /\ active \in Available \cup {"ventas", None}
    /\ slots \subseteq Slots
    /\ frame \in [ type : {"none", "action", "link", "context"},
                   target : Available \cup {"ventas", "unavailable", "custom", None} ]
    /\ turn \in TurnTypes
    /\ asked \in Keys
    /\ invented \subseteq Items \cup Available

\* No requirement is the lead's first, and no product its choice, unless a
\* message holds a word for it or replies to the question that offered it: what
\* the language model claims beyond that is dropped
\* (_sanitize_requested_actions_payload and its like, _derive_selected_product).
NothingInvented == invented = {}

\* docs/implementation/PHASE_V3_3_REPORT.md: known slots are never asked again.
\* The planner and the memory disagree on what is known, and the question of the
\* link comes after both; a question asked all the same is one of the memory's
\* unknowns, or the link's, in a turn that first says what it asks.
NeverAsksKnown == asked \notin KnownSlots(Lead)

\* The class of the requirements, as module SalesStages has it.
StagesNeed(profile) ==
    IF Class(profile) = "external" /\ OverLimit(profile) THEN "over_limit" ELSE Class(profile)

\* The profile of module SalesStages.
S == INSTANCE SalesStages WITH
    Needs <- {"unknown", "informational", "external", "over_limit", "mixed", "sales"},
    PurchaseStatuses <- {"not_checked"},
    stage <- "new", before <- "none", mode <- "normal", last <- "none",
    objection <- [status |-> "none", step |-> "none", before |-> "none"],
    profile <- [fit |-> fit, chosen |-> chosen]

\* A turn of module SalesStages (its TurnFails), with the requirements that the
\* lead has after the message.
StagesTurn ==
    \E choice \in S!Choices :
        [fit |-> fit', chosen |-> chosen'] = S!UpdatedProfile(StagesNeed(requirements'), choice)

\* What module SalesStages takes for granted: whatever the messages said, were
\* read as and replied to, every turn changes the fit and the choice as a turn of
\* that module does.  Its guarantees on the close rest on this (graph.py,
\* update_lead_state).
ImplementsStages == S!Init /\ [][StagesTurn]_<<requirements, fit, chosen>>
=============================================================================
