----------------------------- MODULE SalesStages -----------------------------
(***************************************************************************)
(* What one turn of the agent does to a lead's commercial state: the product *)
(* profile (graph.py, requirements.py, memory.py), the plan of              *)
(* SalesPolicyPlanner (planners.py), the stage SalesStageTransitionService    *)
(* gives it (stages.py) and the objection ObjectionFlowService keeps          *)
(* (objections.py).  The turns of a lead do not overlap here: when they can,   *)
(* modules MemoryQueue and RedisQueue say.                                   *)
(*                                                                         *)
(* A turn's message is what the analyzer makes of it: any reading it may     *)
(* return.  The planner is a list of cases, and the first that holds gives    *)
(* the plan.  Of what the cases ask, the intent and topics of the message,    *)
(* the discovery slots filled so far, the buying signal and the product      *)
(* talked about are not kept: a case that depends on them may hold or not.    *)
(* The cases that depend on what is kept (stage, objection, last action,      *)
(* profile) are taken in the order of the code.                             *)
(*                                                                         *)
(* A definition named ...Mutant is a deliberate mistake that PROJECT.json     *)
(* puts in the place of the definition after it.                            *)
(***************************************************************************)
EXTENDS FiniteSets

CONSTANTS
    Needs,            \* the requirement classes a message may leave the lead in
    PurchaseStatuses  \* what the purchase status service may answer

AllNeeds == {"unknown", "informational", "external", "over_limit", "mixed", "sales"}

ASSUME SalesAssumption ==
    /\ Needs \subseteq AllNeeds
    /\ PurchaseStatuses \subseteq {"not_checked", "deposit_confirmed", "paid_in_full"}

Stages == {"new", "discovery", "educating", "comparing", "qualified",
           "solution_recommended", "ready_to_start", "closing",
           "post_purchase", "handoff", "unknown_recovery"}
Products == {"captura", "hibrido"}
Fits == Products \cup {"unknown", "unavailable", "custom"}

VARIABLES
    stage,      \* current_stage
    before,     \* stage_before_objection, "none" until there is one
    mode,       \* conversation_mode
    objection,  \* active_objection
    last,       \* last_action: "none", "recommend_solution" or "other"
    profile     \* known_product_fit and selected_product of profile_data

vars == <<stage, before, mode, objection, last, profile>>

NoObjection == [status |-> "none", step |-> "none", before |-> "none"]

\* An objection is kept only when it is hard (_starts_or_replaces_objection).
Live(o) == o.status \in {"active", "paused"}

Init ==
    /\ stage = "new"
    /\ before = "none"
    /\ mode = "normal"
    /\ objection = NoObjection
    /\ last = "none"
    /\ profile = [fit |-> "unknown", chosen |-> "none"]

-----------------------------------------------------------------------------
(***************************************************************************)
(* The message.                                                            *)
(***************************************************************************)

\* What the message says of objections: a candidate of its own, whether that
\* is of another type than the live objection, and whether the relation to the
\* live one is "resolved".  Without a live one the relation is none or new.
Readings ==
    { r \in [candidate : {"none", "soft", "hard"}, other : BOOLEAN, resolved : BOOLEAN] :
        /\ r.candidate = "none" => ~r.other
        /\ ~Live(objection) => ~r.other /\ ~r.resolved }

\* The product that the message commits to: the one product it names as
\* committed, with the intention to start, or the one of the link question it
\* accepts.  Declining that question takes the start back and leaves the choice.
Choices == {"none"} \cup Products

\* How the product the message names goes with the requirements: it "differs"
\* when the planner sees another product preferred, and is "flagged" when the
\* known requirements rule it out.
Namings(need) ==
    {"plain", "differs", "unavailable"} \cup
    (IF need \in {"unknown", "sales"} THEN {} ELSE {"flagged"})

-----------------------------------------------------------------------------
(***************************************************************************)
(* update_lead_state.                                                      *)
(***************************************************************************)

\* derive_product_fit
FitOf(need) ==
    CASE need = "informational"            -> "captura"
      [] need = "external"                 -> "hibrido"
      [] need \in {"over_limit", "mixed"}  -> "custom"
      [] need = "sales"                    -> "unavailable"
      [] OTHER                             -> "unknown"

\* The choice of an earlier turn stays until there is a new one.
Chosen(choice) == IF choice # "none" THEN choice ELSE profile.chosen

\* The fit of an earlier turn is left out.
UpdatedProfileMutant(need, choice) ==
    [ fit    |-> IF FitOf(need) # "unknown" THEN FitOf(need) ELSE Chosen(choice),
      chosen |-> Chosen(choice) ]

\* The profile after the message.  Requirements, when there are any, give the
\* fit; without them the committed product does, and without that the fit of an
\* earlier turn stays: what a turn does not set is merged away, never cleared.
UpdatedProfile(need, choice) ==
    [ fit    |-> IF FitOf(need) # "unknown" THEN FitOf(need)
                 ELSE IF Chosen(choice) # "none" THEN Chosen(choice) ELSE profile.fit,
      chosen |-> Chosen(choice) ]

\* The profiles that a message may make of the stored one.
UpdatedProfiles == { UpdatedProfile(need, choice) : need \in Needs, choice \in Choices }

\* A turn as the planner reads it, with the profile already updated.
Turns ==
    UNION { { [need |-> need, start |-> start, naming |-> naming,
               fit |-> IF naming = "unavailable" THEN "unavailable"
                       ELSE UpdatedProfile(need, choice).fit,
               chosen |-> UpdatedProfile(need, choice).chosen,
               profile |-> UpdatedProfile(need, choice)] :
              choice \in Choices, naming \in Namings(need) } :
            need \in Needs, start \in BOOLEAN }

-----------------------------------------------------------------------------
(***************************************************************************)
(* The planner.  r is the reading of objections, t the turn.               *)
(***************************************************************************)

Plan(macro, target) == [macro |-> macro, step |-> "none", target |-> target]

\* Every plan for an objection goes for the stage it was raised in.
\* active_objection keeps that stage after it is resolved.
CommercialStage == IF objection.before # "none" THEN objection.before ELSE stage

\* The plan of a case that holds under a condition.
When(condition, plan) == IF condition THEN {plan} ELSE {}

Handle(step) ==
    [macro |-> "handle_objection", step |-> step, target |-> CommercialStage]

Resolves(r) == Live(objection) /\ r.candidate = "none" /\ r.resolved

NewHard(r) == r.candidate = "hard"

\* A question answered on the spot (price, scope, process, policy, channel,
\* integration or comparison) puts a live objection aside.
MayPause(r, t) == r.candidate = "none" /\ ~t.start /\ ~r.resolved

\* The step of a live objection goes on only with what the message says of it;
\* "later" stands for clarify_value, tie_solution and provide_proof.
NextStep(r) ==
    IF r.candidate # "none" /\ r.other THEN "thank"
    ELSE IF r.resolved THEN "resolved" ELSE "later"

\* The fit is not compared with the choice.
CanDirectCloseMutant(r, t) ==
    /\ t.start
    /\ t.chosen # "none"
    /\ t.fit \in Products \cup {"unknown"}
    /\ t.naming # "flagged"
    /\ Live(objection) => Resolves(r)
    /\ ~NewHard(r)

CanDirectClose(r, t) ==
    /\ t.start
    /\ t.chosen # "none"
    /\ t.fit \in Products \cup {"unknown"}
    /\ t.fit \in Products => t.fit = t.chosen
    /\ t.naming # "flagged"
    /\ Live(objection) => Resolves(r)
    /\ ~NewHard(r)

Communicated == last = "recommend_solution" \/ stage = "solution_recommended"

Mismatch(t) == t.naming \in {"differs", "flagged"}

\* An intention to start sets the buying signal past the medium or high one that
\* a soft close asks for.
CanSoftClose(r, t) ==
    /\ ~t.start
    /\ t.fit \in Products
    /\ Communicated
    /\ ~Live(objection)
    /\ r.candidate = "none"

FirstGreeting(t) ==
    /\ last = "none"
    /\ stage \in {"new", "unknown_recovery"}
    /\ ~Live(objection)
    /\ t.need = "unknown" /\ t.naming = "plain"
    /\ t.profile = [fit |-> "unknown", chosen |-> "none"]

UnavailablePlans(t) ==
    When(t.fit = "unavailable", Plan("recommend_solution", "educating")) \cup
    When(t.fit = "custom", Plan("handoff_to_miguel", "handoff"))

\* A message nobody understands, from a lead of whom nothing is known.
RecoveryPlans(t) ==
    When(t.need = "unknown" /\ t.fit = "unknown", Plan("other", "unknown_recovery"))

\* Whether the lead needs actions is not known, and may have to be asked.
RequirementPlans(t) ==
    When(t.need = "unknown" /\ t.fit # "hibrido", Plan("other", "discovery"))

\* A fit is recommended as long as it was not.
MustRecommend(t) == t.fit \in Products /\ ~Communicated /\ ~Mismatch(t)

\* The cases after direct_close for a lead whose product is on sale.  The first:
\* a question, a process or policy topic, or an industry is answered.
OpenPlans(r, t) ==
    { Plan("other", "educating"), Plan("other", "comparing") }
    \cup RecoveryPlans(t)
    \cup RequirementPlans(t)
    \cup IF Mismatch(t) THEN {Plan("other", "qualified")}
         ELSE { Plan("recommend_solution", "solution_recommended") }
              \cup When(~MustRecommend(t), Plan("other", "discovery"))
              \cup When(CanSoftClose(r, t), Plan("soft_close", "ready_to_start"))

CommercialPlans(r, t) ==
    IF CanDirectClose(r, t) THEN {Plan("direct_close", "closing")}
    ELSE When(FirstGreeting(t), Plan("other", "new")) \cup
         IF t.fit \in {"unavailable", "custom"} THEN UnavailablePlans(t)
         ELSE OpenPlans(r, t)

\* The purchase status decides a turn after the purchase; the service of the
\* code answers not_checked.
PostPurchasePlans ==
    { IF status \in {"deposit_confirmed", "paid_in_full"}
      THEN Plan("handoff_to_miguel", "handoff")
      ELSE Plan("other", "educating") : status \in PurchaseStatuses }

SupportPlans ==
    When(stage \in {"post_purchase", "handoff"}, Plan("handoff_to_miguel", "handoff"))

Plans(r, t) ==
    PostPurchasePlans \cup SupportPlans \cup
    IF Live(objection)
    THEN IF Resolves(r)
         THEN When(~t.start, Handle("resolved")) \cup CommercialPlans(r, t)
         ELSE {Handle(NextStep(r))} \cup
              (IF MayPause(r, t) THEN CommercialPlans(r, t) ELSE {})
    ELSE IF NewHard(r) THEN {Handle("thank")} ELSE CommercialPlans(r, t)

-----------------------------------------------------------------------------
(***************************************************************************)
(* The stage and the objection.                                            *)
(***************************************************************************)

\* Closing is left like ready_to_start.
AllowedTransitionsMutant(s) ==
    IF s \in {"ready_to_start", "closing"}
    THEN {"discovery", "educating", "closing", "unknown_recovery"}
    ELSE Stages \ {"new", "closing", "post_purchase", "handoff"}

AllowedTransitions(s) ==
    LET early == {"discovery", "educating", "comparing", "qualified",
                  "solution_recommended", "unknown_recovery"}
    IN  CASE s \in {"new", "discovery"} -> early
          [] s \in {"educating", "comparing", "qualified"} -> early \cup {"ready_to_start"}
          [] s = "solution_recommended" ->
                 (early \ {"qualified"}) \cup {"ready_to_start"}
          [] s = "ready_to_start" -> {"discovery", "educating", "closing", "unknown_recovery"}
          [] s = "closing" -> {"post_purchase", "handoff", "unknown_recovery"}
          [] s = "post_purchase" -> {"handoff"}
          [] s = "handoff" -> {}
          [] s = "unknown_recovery" -> {"discovery", "educating"}

\* is_transition_allowed: closing and handoff are entered from every stage, and
\* only by the plan that means to.
Allowed(plan) ==
    \/ plan.target = stage
    \/ plan.target = "closing" /\ plan.macro = "direct_close"
    \/ plan.target = "handoff" /\ plan.macro = "handoff_to_miguel"
    \/ /\ plan.target \notin {"closing", "handoff"}
       /\ plan.target \in AllowedTransitions(stage)

Handles(plan) == plan.macro = "handle_objection"

StageTransition(plan) ==
    /\ stage' = IF Allowed(plan) THEN plan.target ELSE stage
    /\ before' = IF Handles(plan) /\ plan.step # "resolved" /\ before = "none"
                 THEN stage ELSE before

\* The overlay of the plan says that an objection blocks the close.
BlocksClose(r, plan) ==
    NewHard(r) \/ (Live(objection) /\ plan.step # "resolved" /\ ~Resolves(r))

ConversationMode(r, plan) ==
    mode' = IF BlocksClose(r, plan) THEN "handling_objection" ELSE "normal"

\* Any other plan pauses the objection, a turn that resolves it too.
NextObjectionSwappedMutant(r, plan) ==
    CASE ~Handles(plan) /\ Live(objection) -> [objection EXCEPT !.status = "paused"]
      [] ~Handles(plan) /\ ~Live(objection) -> NoObjection
      [] OTHER -> [status |-> IF plan.step = "resolved" THEN "resolved" ELSE "active",
                   step |-> plan.step, before |-> before']

\* Any other plan forgets the objection.
NextObjectionDroppedMutant(r, plan) ==
    IF ~Handles(plan) THEN NoObjection
    ELSE [status |-> IF plan.step = "resolved" THEN "resolved" ELSE "active",
          step |-> plan.step, before |-> before']

\* _resolves_current_objection: the lead says so, and a plan that handles it agrees.
Ends(r, plan) == Resolves(r) /\ (Handles(plan) => plan.step = "resolved")

\* _starts_or_replaces_objection: the first one, one of another type, or the same
\* one all over.
Begins(r, plan) ==
    /\ Handles(plan) /\ NewHard(r)
    /\ ~Live(objection) \/ r.other \/ plan.step = "thank"

NextObjection(r, plan) ==
    CASE Ends(r, plan) -> [objection EXCEPT !.status = "resolved", !.step = "resolved"]
      [] ~Ends(r, plan) /\ ~Handles(plan) ->
             IF Live(objection) THEN [objection EXCEPT !.status = "paused"]
             ELSE NoObjection
      [] ~Ends(r, plan) /\ Begins(r, plan) ->
             [status |-> "active", step |-> plan.step, before |-> before']
      [] OTHER ->
             [objection EXCEPT !.step = plan.step,
                               !.status = IF plan.step = "resolved" THEN "resolved"
                                          ELSE "active"]

\* save_memory, at the end of the turn
Answer(r, t, plan) ==
    /\ profile' = t.profile
    /\ StageTransition(plan)
    /\ ConversationMode(r, plan)
    /\ objection' = NextObjection(r, plan)
    /\ last' = IF plan.macro = "recommend_solution" THEN plan.macro ELSE "other"

Turn == \E t \in Turns, r \in Readings : \E plan \in Plans(r, t) : Answer(r, t, plan)

\* A turn that fails after update_lead_state: the profile is saved, the rest not.
TurnFails ==
    /\ profile' \in UpdatedProfiles
    /\ UNCHANGED <<stage, before, mode, objection, last>>

Next == Turn \/ TurnFails

Spec == Init /\ [][Next]_vars

-----------------------------------------------------------------------------
TypeOK ==
    /\ stage \in Stages
    /\ before \in Stages \cup {"none"}
    /\ mode \in {"normal", "handling_objection"}
    /\ objection \in [ status : {"none", "active", "paused", "resolved"},
                       step : {"none", "thank", "later", "resolved"},
                       before : Stages \cup {"none"} ]
    /\ last \in {"none", "recommend_solution", "other"}
    /\ profile \in [fit : Fits, chosen : Products \cup {"none"}]

\* A hard objection blocks the close until it is resolved: no lead enters
\* closing with one live, however often it was paused, replaced or left behind
\* by a turn that failed (can_direct_close).
NoCloseUnderObjection ==
    [][(stage # "closing" /\ stage' = "closing") =>
         ~Live(objection')]_vars

\* A lead enters closing with a product it chose, and the one the profile says
\* fits it, though the choice may be turns older than the requirements.
ClosingSellsTheFit ==
    [][stage # "closing" /\ stage' = "closing" =>
         profile'.chosen \in Products /\ profile'.fit = profile'.chosen]_vars

\* A lead in closing or with a person goes to no other stage, above all not to
\* the unknown_recovery that the table allows from closing: a lead in closing has
\* a chosen product and so a known fit.  The one way out is the target of a plan
\* for an objection, the stage noted at the first objection of the lead.
LateStagesHeld ==
    [][(stage \in {"closing", "handoff"}) =>
         \/ stage' \in {"closing", "handoff"}
         \/ /\ stage = "closing" /\ stage' = before
            /\ objection'.status \in {"active", "resolved"}]_vars

\* A live objection ends by being resolved, in the record the follow-up of the
\* objection reads; no turn simply drops it.
ObjectionNeverVanishes ==
    [][Live(objection) => (Live(objection') \/ objection'.status = "resolved")]_vars

\* docs/architecture/PARALLEL_OBJECTION_DESIGN.md:52: a hard objection that is
\* being handled leaves the commercial stage as it is.
HandlingKeepsStage == [][objection'.status = "active" => stage' = stage]_vars
=============================================================================
