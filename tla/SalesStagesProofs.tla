------------------------- MODULE SalesStagesProofs -------------------------
(***************************************************************************)
(* Theorems of module SalesStages, for all requirement classes and purchase   *)
(* statuses: the types, and the five properties of run sales_turns.             *)
(***************************************************************************)
EXTENDS SalesStages, TLAPS

Macros == {"other", "recommend_solution", "handle_objection", "handoff_to_miguel",
           "soft_close", "direct_close"}
Steps == {"none", "thank", "later", "resolved"}
PlanTypes == [macro : Macros, step : Steps, target : Stages]

LEMMA PlanParts ==
    ASSUME NEW macro, NEW target
    PROVE  /\ Plan(macro, target).macro = macro /\ Plan(macro, target).step = "none"
           /\ Plan(macro, target).target = target
           /\ macro \in Macros /\ target \in Stages => Plan(macro, target) \in PlanTypes
BY DEF Plan, PlanTypes, Steps

\* The plans that are not for an objection: none goes for post_purchase, the one that
\* closes has the guard of the close, and the one for nobody's message a lead
\* without a fit.
LEMMA CommercialKinds ==
    ASSUME NEW r, NEW t, NEW p \in CommercialPlans(r, t)
    PROVE  /\ p \in PlanTypes /\ p.macro # "handle_objection" /\ p.target # "post_purchase"
           /\ p.macro = "direct_close" => CanDirectClose(r, t)
           /\ p.target = "unknown_recovery" => t.fit = "unknown"
<1>1. CASE CanDirectClose(r, t)
    <2>1. p = Plan("direct_close", "closing")
        BY <1>1 DEF CommercialPlans
    <2> QED
        BY <1>1, <2>1, PlanParts DEF Macros, Stages
<1>2. CASE ~CanDirectClose(r, t)
    <2>1. \/ p \in When(FirstGreeting(t), Plan("other", "new"))
          \/ p \in UnavailablePlans(t) /\ t.fit \in {"unavailable", "custom"}
          \/ p \in OpenPlans(r, t) /\ t.fit \notin {"unavailable", "custom"}
        BY <1>2 DEF CommercialPlans
    <2>2. CASE p \in When(FirstGreeting(t), Plan("other", "new"))
        <3>1. p = Plan("other", "new")
            BY <2>2 DEF When
        <3> QED
            BY <3>1, PlanParts DEF Macros, Stages
    <2>3. CASE p \in UnavailablePlans(t)
        <3>1. p = Plan("recommend_solution", "educating") \/ p = Plan("handoff_to_miguel", "handoff")
            BY <2>3 DEF UnavailablePlans, When
        <3> QED
            BY <3>1, PlanParts DEF Macros, Stages
    <2>4. CASE p \in RecoveryPlans(t)
        <3>1. p = Plan("other", "unknown_recovery") /\ t.fit = "unknown"
            BY <2>4 DEF RecoveryPlans, When
        <3> QED
            BY <3>1, PlanParts DEF Macros, Stages
    <2>5. CASE p \in OpenPlans(r, t) /\ p \notin RecoveryPlans(t)
        <3>1. \/ p = Plan("other", "educating") \/ p = Plan("other", "comparing")
              \/ p = Plan("other", "discovery") \/ p = Plan("other", "qualified")
              \/ p = Plan("recommend_solution", "solution_recommended")
              \/ p = Plan("soft_close", "ready_to_start")
            BY <2>5 DEF OpenPlans, RequirementPlans, When
        <3> QED
            BY <3>1, PlanParts DEF Macros, Stages
    <2> QED
        BY <2>1, <2>2, <2>3, <2>4, <2>5
<1> QED
    BY <1>1, <1>2

LEMMA HandleParts ==
    ASSUME TypeOK, NEW step \in {"thank", "later", "resolved"}
    PROVE  /\ Handle(step) \in PlanTypes /\ Handle(step).macro = "handle_objection"
           /\ Handle(step).step = step /\ Handle(step).target = CommercialStage
<1>1. CommercialStage \in Stages
    BY DEF TypeOK, CommercialStage
<1> QED
    BY <1>1 DEF Handle, PlanTypes, Macros, Steps

\* The plans of a turn.  One for an objection is of a live one or of one that the
\* message raises, and goes for the stage that was noted.
LEMMA PlanKinds ==
    ASSUME TypeOK, NEW r, NEW t, NEW p \in Plans(r, t)
    PROVE  /\ p \in PlanTypes
           /\ Handles(p) => /\ p.target = CommercialStage /\ p.step # "none"
                            /\ Live(objection) \/ (NewHard(r) /\ p.step = "thank")
           /\ ~Handles(p) => p.target # "post_purchase"
           /\ p.macro = "direct_close" => CanDirectClose(r, t)
           /\ ~Handles(p) /\ p.target = "unknown_recovery" => t.fit = "unknown"
<1>1. CASE p \in PostPurchasePlans \cup SupportPlans
    <2>1. p = Plan("handoff_to_miguel", "handoff") \/ p = Plan("other", "educating")
        BY <1>1 DEF PostPurchasePlans, SupportPlans, When
    <2> QED
        BY <2>1, PlanParts DEF Macros, Stages, Handles
<1>2. CASE p \in CommercialPlans(r, t)
    BY <1>2, CommercialKinds DEF Handles
<1>3. CASE \E step \in {"thank", "later", "resolved"} :
             p = Handle(step) /\ (Live(objection) \/ (NewHard(r) /\ step = "thank"))
    BY <1>3, HandleParts DEF Handles
<1>4. \/ p \in PostPurchasePlans \cup SupportPlans
      \/ p \in CommercialPlans(r, t)
      \/ \E step \in {"thank", "later", "resolved"} :
             p = Handle(step) /\ (Live(objection) \/ (NewHard(r) /\ step = "thank"))
    <2>1. NextStep(r) \in {"thank", "later", "resolved"}
        BY DEF NextStep
    <2> QED
        BY <2>1 DEF Plans, When
<1> QED
    BY <1>1, <1>2, <1>3, <1>4

-----------------------------------------------------------------------------
(* The profile. *)

ProfileTypes == [fit : Fits, chosen : Products \cup {"none"}]

LEMMA FitType ==
    ASSUME NEW need
    PROVE  FitOf(need) \in Fits
BY DEF FitOf, Fits, Products

\* The choice stays, and a lead that has one is not left without a fit.
LEMMA UpdatedProfileKeeps ==
    ASSUME profile \in ProfileTypes, NEW need, NEW choice \in Choices
    PROVE  /\ UpdatedProfile(need, choice) \in ProfileTypes
           /\ UpdatedProfile(need, choice).fit = "unknown" =>
                UpdatedProfile(need, choice).chosen = "none" /\ profile.fit = "unknown"
           /\ UpdatedProfile(need, choice).chosen = "none" => profile.chosen = "none"
<1> DEFINE x == UpdatedProfile(need, choice)
<1>1. Chosen(choice) \in Products \cup {"none"} /\ (Chosen(choice) = "none" => profile.chosen = "none")
    BY DEF Chosen, Choices, ProfileTypes
<1>2. /\ x.chosen = Chosen(choice)
      /\ x.fit = IF FitOf(need) # "unknown" THEN FitOf(need)
                 ELSE IF Chosen(choice) # "none" THEN Chosen(choice) ELSE profile.fit
      /\ x = [fit |-> x.fit, chosen |-> x.chosen]
    BY DEF UpdatedProfile
<1>3. x.fit \in Fits /\ (x.fit = "unknown" => x.chosen = "none" /\ profile.fit = "unknown")
    BY <1>1, <1>2, FitType DEF ProfileTypes, Fits, Products
<1> QED
    BY <1>1, <1>2, <1>3 DEF ProfileTypes

\* What a turn reads is the profile it is going to save, but for the product that
\* is not on sale.
LEMMA TurnParts ==
    ASSUME profile \in ProfileTypes, NEW t \in Turns
    PROVE  /\ t.profile \in ProfileTypes /\ t.chosen = t.profile.chosen
           /\ t.fit = "unavailable" \/ t.fit = t.profile.fit
           /\ t.profile.fit = "unknown" => t.profile.chosen = "none" /\ profile.fit = "unknown"
<1>1. PICK need \in Needs, start \in BOOLEAN, choice \in Choices : \E naming \in Namings(need) :
        t = [need |-> need, start |-> start, naming |-> naming,
             fit |-> IF naming = "unavailable" THEN "unavailable"
                     ELSE UpdatedProfile(need, choice).fit,
             chosen |-> UpdatedProfile(need, choice).chosen,
             profile |-> UpdatedProfile(need, choice)]
    BY DEF Turns
<1>2. /\ t.profile = UpdatedProfile(need, choice)
      /\ t.chosen = UpdatedProfile(need, choice).chosen
      /\ t.fit = "unavailable" \/ t.fit = UpdatedProfile(need, choice).fit
    BY <1>1
<1> QED
    BY <1>2, UpdatedProfileKeeps

-----------------------------------------------------------------------------
(* The stage, the objection and the record of them. *)

\* A lead in closing chose what fits it; the stage an objection goes back to is the one
\* noted at the first objection.
StageInv ==
    /\ stage = "closing" => profile.fit # "unknown"
    /\ objection.before # "none" => objection.before = before

LEMMA AllowedMeans ==
    ASSUME NEW plan, plan.target \in Stages
    PROVE  Allowed(plan) =>
             \/ plan.target = stage
             \/ plan.target = "closing" /\ plan.macro = "direct_close"
             \/ plan.target = "handoff" /\ plan.macro = "handoff_to_miguel"
             \/ /\ plan.target \notin {"closing", "handoff"} /\ stage # "handoff"
                /\ stage = "closing" => plan.target \in {"post_purchase", "unknown_recovery"}
BY DEF Allowed, AllowedTransitions, Stages

\* The record of the objection after a turn.
LEMMA ObjectionAfter ==
    ASSUME TypeOK, NEW r, NEW t, NEW plan \in Plans(r, t),
           before' \in Stages \cup {"none"}, objection' = NextObjection(r, plan)
    PROVE  /\ objection' \in [ status : {"none", "active", "paused", "resolved"},
                               step : Steps, before : Stages \cup {"none"} ]
           /\ objection'.before \in {"none", objection.before, before'}
           /\ Handles(plan) => objection'.status \in {"active", "resolved"}
           /\ Live(objection) => Live(objection') \/ objection'.status = "resolved"
           /\ ~Handles(plan) /\ (Live(objection) => Resolves(r)) => ~Live(objection')
<1>0. /\ plan.step \in Steps
      /\ Handles(plan) => plan.step # "none" /\ (Live(objection) \/ (NewHard(r) /\ plan.step = "thank"))
    BY PlanKinds DEF PlanTypes
<1>1. PICK st \in {"none", "active", "paused", "resolved"}, sp \in Steps, b \in Stages \cup {"none"} :
        objection = [status |-> st, step |-> sp, before |-> b]
    BY DEF TypeOK, Steps
<1>2. CASE Ends(r, plan)
    <2>1. objection' = [status |-> "resolved", step |-> "resolved", before |-> b]
        BY <1>1, <1>2 DEF NextObjection
    <2> QED
        BY <1>1, <2>1 DEF Live, Steps
<1>3. CASE ~Ends(r, plan) /\ ~Handles(plan) /\ Live(objection)
    <2>1. objection' = [status |-> "paused", step |-> sp, before |-> b]
        BY <1>1, <1>3 DEF NextObjection, Begins
    <2> QED
        BY <1>1, <1>3, <2>1 DEF Live, Steps, Ends
<1>4. CASE ~Ends(r, plan) /\ ~Handles(plan) /\ ~Live(objection)
    <2>1. objection' = [status |-> "none", step |-> "none", before |-> "none"]
        BY <1>4 DEF NextObjection, NoObjection, Begins
    <2> QED
        BY <1>1, <1>4, <2>1 DEF Live, Steps
<1>5. CASE ~Ends(r, plan) /\ Handles(plan) /\ Begins(r, plan)
    <2>1. objection' = [status |-> "active", step |-> plan.step, before |-> before']
        BY <1>5 DEF NextObjection
    <2> QED
        BY <1>0, <1>1, <1>5, <2>1 DEF Live
<1>6. CASE ~Ends(r, plan) /\ Handles(plan) /\ ~Begins(r, plan)
    <2>1. PICK st2 \in {"active", "resolved"} :
            objection' = [status |-> st2, step |-> plan.step, before |-> b]
        BY <1>1, <1>6 DEF NextObjection
    <2> QED
        BY <1>0, <1>1, <1>6, <2>1 DEF Live
<1> QED
    BY <1>2, <1>3, <1>4, <1>5, <1>6

\* One turn, whatever the message: what it does to the stage, the objection and the
\* profile, and which plans enter closing.
LEMMA TurnEffect ==
    ASSUME TypeOK, StageInv, Turn
    PROVE  /\ TypeOK' /\ StageInv'
           /\ Live(objection) => Live(objection') \/ objection'.status = "resolved"
           /\ stage # "closing" /\ stage' = "closing" =>
                ~Live(objection') /\ profile'.chosen \in Products /\ profile'.fit = profile'.chosen
           /\ stage \in {"closing", "handoff"} =>
                \/ stage' \in {"closing", "handoff"}
                \/ /\ stage = "closing" /\ stage' = before
                   /\ objection'.status \in {"active", "resolved"}
<1>0. PICK t \in Turns, r \in Readings : \E plan \in Plans(r, t) : Answer(r, t, plan)
    BY DEF Turn
<1>1. PICK plan \in Plans(r, t) : Answer(r, t, plan)
    BY <1>0
<1>2. /\ profile' = t.profile /\ objection' = NextObjection(r, plan)
      /\ stage' = IF Allowed(plan) THEN plan.target ELSE stage
      /\ before' \in {before, stage} /\ (before # "none" => before' = before)
      /\ mode' \in {"normal", "handling_objection"}
      /\ last' \in {"recommend_solution", "other"}
    BY <1>1 DEF Answer, StageTransition, ConversationMode
<1>3. /\ plan.target \in Stages /\ (Handles(plan) => plan.target = CommercialStage)
      /\ ~Handles(plan) => plan.target # "post_purchase"
      /\ plan.macro = "direct_close" => CanDirectClose(r, t) /\ ~Handles(plan)
      /\ ~Handles(plan) /\ plan.target = "unknown_recovery" => t.fit = "unknown"
    BY PlanKinds DEF PlanTypes, Handles
<1>4. profile \in ProfileTypes
    BY DEF TypeOK, ProfileTypes
<1>5. /\ t.profile \in ProfileTypes /\ t.chosen = t.profile.chosen
      /\ t.fit = "unavailable" \/ t.fit = t.profile.fit
      /\ t.profile.fit = "unknown" => t.profile.chosen = "none" /\ profile.fit = "unknown"
    BY <1>4, TurnParts
<1>6. before' \in Stages \cup {"none"}
    BY <1>2 DEF TypeOK
<1>7. /\ objection' \in [ status : {"none", "active", "paused", "resolved"},
                          step : Steps, before : Stages \cup {"none"} ]
      /\ objection'.before \in {"none", objection.before, before'}
      /\ Handles(plan) => objection'.status \in {"active", "resolved"}
      /\ Live(objection) => Live(objection') \/ objection'.status = "resolved"
      /\ ~Handles(plan) /\ (Live(objection) => Resolves(r)) => ~Live(objection')
    BY <1>2, <1>6, ObjectionAfter
<1>8. TypeOK'
    BY <1>2, <1>3, <1>5, <1>6, <1>7 DEF TypeOK, ProfileTypes, Steps
<1>9. \/ stage' = stage
      \/ stage' = plan.target /\ plan.target = "closing" /\ plan.macro = "direct_close"
      \/ stage' = plan.target /\ plan.target = "handoff"
      \/ /\ stage' = plan.target /\ plan.target \notin {"closing", "handoff"} /\ stage # "handoff"
         /\ stage = "closing" => plan.target \in {"post_purchase", "unknown_recovery"}
    BY <1>2, <1>3, AllowedMeans
<1>10. plan.macro = "direct_close" =>
         /\ ~Live(objection')
         /\ profile'.chosen \in Products /\ profile'.fit = profile'.chosen
    <2> SUFFICES ASSUME plan.macro = "direct_close"
                 PROVE  /\ ~Live(objection')
                        /\ profile'.chosen \in Products /\ profile'.fit = profile'.chosen
        OBVIOUS
    <2>1. /\ t.chosen # "none" /\ t.fit \in Products \cup {"unknown"}
          /\ t.fit \in Products => t.fit = t.chosen
          /\ Live(objection) => Resolves(r)
        BY <1>3 DEF CanDirectClose
    <2>2. ~Live(objection')
        BY <1>3, <1>7, <2>1
    <2>3. t.fit = t.profile.fit
        BY <1>5, <2>1 DEF Products
    <2>4. t.fit \in Products
        BY <1>5, <2>1, <2>3
    <2> QED
        BY <1>2, <1>5, <2>1, <2>2, <2>3, <2>4
<1>11. stage # "closing" /\ stage' = "closing" => plan.macro = "direct_close"
    BY <1>9
<1>12. ASSUME stage \in {"closing", "handoff"}, stage' \notin {"closing", "handoff"}
       PROVE  stage = "closing" /\ stage' = before /\ objection'.status \in {"active", "resolved"}
    <2>1. /\ stage = "closing" /\ stage' = plan.target
          /\ plan.target \in {"post_purchase", "unknown_recovery"}
        BY <1>9, <1>12
    <2>2. Handles(plan)
        <3>1. profile.fit # "unknown" /\ t.fit # "unknown"
            BY <1>5, <2>1 DEF StageInv
        <3> QED
            BY <1>3, <2>1, <3>1
    <2>3. CommercialStage = before
        <3>1. CommercialStage # stage
            BY <1>3, <2>1, <2>2
        <3> QED
            BY <3>1 DEF CommercialStage, StageInv
    <2> QED
        BY <1>3, <1>7, <2>1, <2>2, <2>3
<1>13. stage' = "closing" => profile'.fit # "unknown"
    <2>1. CASE stage = "closing"
        BY <1>2, <1>5, <2>1 DEF StageInv
    <2>2. CASE stage # "closing"
        BY <1>10, <1>11, <2>2 DEF Products
    <2> QED
        BY <2>1, <2>2
<1>14. objection'.before # "none" => objection'.before = before'
    BY <1>2, <1>7 DEF StageInv
<1>15. StageInv'
    BY <1>13, <1>14 DEF StageInv
<1> QED
    BY <1>7, <1>8, <1>10, <1>11, <1>12, <1>15

\* A turn that fails saves the profile and nothing else.
LEMMA FailEffect ==
    ASSUME TypeOK, StageInv, TurnFails
    PROVE  TypeOK' /\ StageInv'
<1>1. UNCHANGED <<stage, before, mode, objection, last>>
    BY DEF TurnFails
<1>2. PICK need \in Needs, choice \in Choices : profile' = UpdatedProfile(need, choice)
    BY DEF TurnFails, UpdatedProfiles
<1>3. profile \in ProfileTypes
    BY DEF TypeOK, ProfileTypes
<1>4. profile' \in ProfileTypes /\ (profile'.fit = "unknown" => profile.fit = "unknown")
    BY <1>2, <1>3, UpdatedProfileKeeps
<1>5. TypeOK'
    BY <1>1, <1>4 DEF TypeOK, ProfileTypes
<1> QED
    BY <1>1, <1>4, <1>5 DEF StageInv

LEMMA InitHolds == Init => TypeOK /\ StageInv
BY DEF Init, TypeOK, StageInv, NoObjection, Stages, Fits

LEMMA StepHolds == TypeOK /\ StageInv /\ [Next]_vars => TypeOK' /\ StageInv'
<1> SUFFICES ASSUME TypeOK, StageInv, [Next]_vars PROVE TypeOK' /\ StageInv'
    OBVIOUS
<1>1. CASE Turn \/ TurnFails
    BY <1>1, TurnEffect, FailEffect
<1>2. CASE UNCHANGED vars
    BY <1>2 DEF vars, TypeOK, StageInv
<1> QED
    BY <1>1, <1>2 DEF Next

\* The types of what is kept of a lead.
THEOREM TypesAreKept == Spec => []TypeOK
BY InitHolds, StepHolds, PTL DEF Spec

LEMMA InvIsKept == Spec => [](TypeOK /\ StageInv)
BY InitHolds, StepHolds, PTL DEF Spec

LEMMA StepEffect ==
    ASSUME TypeOK, StageInv, [Next]_vars
    PROVE  [/\ (stage # "closing" /\ stage' = "closing") => ~Live(objection')
            /\ stage # "closing" /\ stage' = "closing" =>
                 profile'.chosen \in Products /\ profile'.fit = profile'.chosen
            /\ (stage \in {"closing", "handoff"}) =>
                 \/ stage' \in {"closing", "handoff"}
                 \/ /\ stage = "closing" /\ stage' = before
                    /\ objection'.status \in {"active", "resolved"}
            /\ Live(objection) => (Live(objection') \/ objection'.status = "resolved")]_vars
<1>1. CASE Turn
    BY <1>1, TurnEffect
<1>2. CASE TurnFails
    <2>1. stage' = stage /\ objection' = objection
        BY <1>2 DEF TurnFails
    <2> QED
        BY <2>1 DEF Live
<1> QED
    BY <1>1, <1>2 DEF Next

\* No lead enters closing under a hard objection (planners.py, can_direct_close),
\* whatever the turns before did to the objection.
THEOREM CloseNeedsNoObjection == Spec => NoCloseUnderObjection
<1>1. TypeOK /\ StageInv /\ [Next]_vars =>
        [(stage # "closing" /\ stage' = "closing") => ~Live(objection')]_vars
    BY StepEffect
<1> QED
    BY <1>1, InvIsKept, PTL DEF Spec, NoCloseUnderObjection

\* Who enters closing has a chosen product, and it is the one that fits.
THEOREM CloseSellsTheFit == Spec => ClosingSellsTheFit
<1>1. TypeOK /\ StageInv /\ [Next]_vars =>
        [stage # "closing" /\ stage' = "closing" =>
           profile'.chosen \in Products /\ profile'.fit = profile'.chosen]_vars
    BY StepEffect
<1> QED
    BY <1>1, InvIsKept, PTL DEF Spec, ClosingSellsTheFit

\* From closing only an objection leads back, and to the stage noted at the
\* first one: closing's way to unknown_recovery is shut, since its lead has a fit.
THEOREM LateStagesAreHeld == Spec => LateStagesHeld
<1>1. TypeOK /\ StageInv /\ [Next]_vars =>
        [(stage \in {"closing", "handoff"}) =>
           \/ stage' \in {"closing", "handoff"}
           \/ /\ stage = "closing" /\ stage' = before
              /\ objection'.status \in {"active", "resolved"}]_vars
    BY StepEffect
<1> QED
    BY <1>1, InvIsKept, PTL DEF Spec, LateStagesHeld

\* A live objection is paused, goes on, or is resolved (objections.py).
THEOREM ObjectionsEndResolved == Spec => ObjectionNeverVanishes
<1>1. TypeOK /\ StageInv /\ [Next]_vars =>
        [Live(objection) => (Live(objection') \/ objection'.status = "resolved")]_vars
    BY StepEffect
<1> QED
    BY <1>1, InvIsKept, PTL DEF Spec, ObjectionNeverVanishes
=============================================================================
