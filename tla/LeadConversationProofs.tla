------------------------ MODULE LeadConversationProofs ------------------------
(***************************************************************************)
(* Proofs about LeadConversation, for every set of capabilities, actions,     *)
(* declared numbers, products and facts.                                      *)
(***************************************************************************)
EXTENDS LeadConversation, TLAPS, FiniteSetTheorems

-----------------------------------------------------------------------------
(* What the readings of a message are. *)

Named == {"captura", "hibrido", "ventas"}

RemarkTypes ==
    [ requested : Named \cup {None}, subject : Named \cup {None},
      selected : Available \cup {None}, start : BOOLEAN, facts : SUBSET Slots,
      mismatch : BOOLEAN, requires : BOOLEAN, sparse : BOOLEAN, unsaid : {{}} ]

RequirementTypes ==
    [items : SUBSET Items, update : Intents, count : Counts \cup {NoCount}]

\* A set of products has a single one only if it has one.
LEMMA SingleType ==
    ASSUME NEW P, P \subseteq Named
    PROVE  Single(P) \in P \cup {None}
<1>1. IsFiniteSet(Named)
    <2>1. IsFiniteSet({"captura"} \cup {"hibrido"})
        BY FS_Singleton, FS_Union
    <2>2. IsFiniteSet(({"captura"} \cup {"hibrido"}) \cup {"ventas"})
        BY <2>1, FS_Singleton, FS_Union
    <2>3. Named = ({"captura"} \cup {"hibrido"}) \cup {"ventas"}
        BY DEF Named
    <2> QED
        BY <2>2, <2>3
<1>2. IsFiniteSet(P)
    BY <1>1, FS_Subset
<1>3. ASSUME Cardinality(P) = 1 PROVE P # {}
    BY <1>3, FS_EmptySet
<1> QED
    BY <1>3 DEF Single

LEMMA ObservationType ==
    ASSUME NEW m \in Messages, NEW o \in Observations(m) \cup {HeuristicObservation(m)}
    PROVE  /\ o.requirements \in RequirementTypes
           /\ o.requirements.items \subseteq m.cues
           /\ DOMAIN o.references \subseteq m.named
           /\ m.named \subseteq Named
           /\ o.start \in BOOLEAN
           /\ o.facts \in SUBSET Slots
<1>1. /\ m.cues \in SUBSET Items
      /\ m.named \in SUBSET Mentionable
      /\ m.number \in Counts \cup {NoCount}
      /\ m.facts \in SUBSET Slots
      /\ m.start \in BOOLEAN
    BY DEF Messages
<1>2. m.named \subseteq Named
    BY <1>1, ReadingAssumption DEF Named
<1>3. ASSUME NEW items \in SUBSET m.cues, NEW update \in Intents,
             NEW count \in Counts \cup {NoCount}
      PROVE  /\ ValidRequirements(items, update, count) \in RequirementTypes
             /\ ValidRequirements(items, update, count).items \subseteq m.cues
    BY <1>1, <1>3 DEF ValidRequirements, RequirementTypes
<1>4. CASE o \in Observations(m)
    <2>1. PICK claims \in Claims(m), update \in Intents, count \in KeptCounts,
               references \in KeptReferences(m), start \in BOOLEAN, facts \in SUBSET Slots :
            o = [ requirements |-> ValidRequirements(KeptItems(m, claims), update, count),
                  references |-> references, start |-> start, facts |-> facts ]
        BY <1>4 DEF Observations
    <2>2. KeptItems(m, claims) \subseteq m.cues
        BY <2>1 DEF KeptItems, Keeps, Claims
    <2>3. DOMAIN references \subseteq m.named
        BY <2>1 DEF KeptReferences
    <2> QED
        BY <1>2, <1>3, <2>1, <2>2, <2>3 DEF KeptCounts
<1>5. CASE o = HeuristicObservation(m)
    <2>1. HeuristicItems(m) \in SUBSET m.cues
        BY DEF HeuristicItems
    <2>2. HeuristicUpdate(m) \in Intents
        BY DEF HeuristicUpdate, Intents
    <2> QED
        BY <1>1, <1>2, <1>3, <1>5, <2>1, <2>2 DEF HeuristicObservation
<1> QED
    BY <1>4, <1>5

LEMMA ReadingType ==
    ASSUME NEW r \in Readings
    PROVE  /\ r.remarks \in RemarkTypes
           /\ r.requirements \in RequirementTypes
           /\ r.remarks.requires <=> r.requirements.items # {}
<1>1. PICK m \in Messages :
           \E o \in Observations(m) \cup {HeuristicObservation(m)}, hint \in Hints(m) :
               r = Normalized(m, o, hint)
    BY DEF Readings
<1>. PICK o \in Observations(m) \cup {HeuristicObservation(m)}, hint \in Hints(m) :
         r = Normalized(m, o, hint)
    BY <1>1
<1>2. /\ o.requirements \in RequirementTypes
      /\ o.requirements.items \subseteq m.cues
      /\ DOMAIN o.references \subseteq m.named
      /\ DOMAIN o.references \subseteq Named
      /\ o.start \in BOOLEAN
      /\ o.facts \in SUBSET Slots
    BY ObservationType
<1>3. Single(DOMAIN o.references) \in Named \cup {None}
    BY <1>2, SingleType
<1>4. \A role : WithRole(o.references, role) \subseteq Named
    BY <1>2 DEF WithRole
<1>5. Subject(o.references) \in Named \cup {None}
    BY <1>4, SingleType DEF Subject
<1>6. SelectedProduct(o) \in Available \cup {None}
    BY DEF SelectedProduct
<1>7. (o.requirements.items \ m.cues) \cup (DOMAIN o.references \ m.named) = {}
    BY <1>2
<1> QED
    BY <1>1, <1>2, <1>3, <1>5, <1>6, <1>7 DEF Normalized, RemarkTypes, Sparse,
       Mismatch

-----------------------------------------------------------------------------
(* What becomes of a profile. *)

LEMMA DeltaType ==
    ASSUME NEW profile, NEW items \in SUBSET Items, NEW intent \in Intents,
           NEW count \in Counts \cup {NoCount}, NEW contextual \in SUBSET Items,
           NEW resolution \in SUBSET Resolutions
    PROVE  LET d == Delta(profile, items, intent, count, contextual, resolution)
           IN  d.added \in SUBSET Items /\ d.count \in Counts \cup {NoCount}
<1>1. UNION { r.added : r \in resolution } \subseteq Items
    BY DEF Resolutions
<1> QED
    BY <1>1 DEF Delta, Added

LEMMA MergeType ==
    ASSUME NEW profile \in Profiles, NEW d,
           d.added \in SUBSET Items, d.count \in Counts \cup {NoCount}
    PROVE  Merge(profile, d) \in Profiles
<1>1. profile.active \in SUBSET Items /\ profile.count \in Counts \cup {NoCount}
    BY DEF Profiles
<1> QED
    BY <1>1 DEF Merge, MergedItems, Profiles

LEMMA ResolvedType ==
    ASSUME NEW profile, NEW resolution \in Resolved(profile)
    PROVE  resolution \in SUBSET Resolutions
<1>1. PICK raw \in RawResolutions : resolution = {Sanitized(raw, profile)}
    BY DEF Resolved
<1>2. Sanitized(raw, profile) \in Resolutions
    BY <1>1 DEF Sanitized, RawResolutions, Resolutions, NoChange, Intents
<1> QED
    BY <1>1, <1>2

\* A message that requires nothing, and names no action by its reply, leaves a
\* lead without requirements as it was: the resolver is not asked then.
LEMMA MergedType ==
    ASSUME NEW profile \in Profiles, NEW reading \in Readings, NEW contextual \in BOOLEAN,
           NEW p \in MergedProfiles(profile, Resolved(profile), reading, contextual)
    PROVE  /\ p \in Profiles
           /\ profile.active = {} /\ ~reading.remarks.requires /\ ~contextual =>
                  p.active = {}
<1> DEFINE r == reading.requirements
           unnamed == IF contextual THEN {Unnamed} ELSE {}
           change(resolution) ==
               Delta(profile, r.items, r.update, r.count, unnamed, resolution)
           resolutions == {{}} \cup IF ShouldResolve(profile, r.update, r.items, reading.hint)
                                    THEN Resolved(profile) ELSE {}
<1>1. PICK resolution \in resolutions : p = Merge(profile, change(resolution))
    BY DEF MergedProfiles
<1>2. resolution \in SUBSET Resolutions
    BY ResolvedType
<1>3. /\ r.items \in SUBSET Items /\ r.update \in Intents
      /\ r.count \in Counts \cup {NoCount}
      /\ reading.remarks.requires <=> r.items # {}
    BY ReadingType DEF RequirementTypes
<1>4. unnamed \in SUBSET Items
    BY RequirementAssumption DEF Items
<1>5. p \in Profiles
    <2>1. /\ change(resolution).added \in SUBSET Items
          /\ change(resolution).count \in Counts \cup {NoCount}
        BY <1>2, <1>3, <1>4, DeltaType
    <2> QED
        BY <1>1, <2>1, MergeType
<1>6. ASSUME profile.active = {}, ~reading.remarks.requires, ~contextual
      PROVE  p.active = {}
    <2>1. resolution = {}
        BY <1>6 DEF ShouldResolve
    <2>2. change(resolution).added = {}
        BY <1>3, <1>6, <2>1 DEF Delta, Added
    <2> QED
        BY <1>1, <1>6, <2>2 DEF Merge, MergedItems
<1> QED
    BY <1>5, <1>6

LEMMA OutcomeType ==
    ASSUME NEW profile \in Profiles, NEW outcome \in OutcomesOf(profile)
    PROVE  /\ outcome.remarks \in RemarkTypes
           /\ \A p \in outcome.profiles :
                /\ p \in Profiles
                /\ profile.active = {} /\ ~outcome.remarks.requires /\ ~outcome.contextual =>
                       p.active = {}
<1>1. outcome \in Outcomes(profile, Resolved(profile))
    BY DEF OutcomesOf, Understandings
<1>2. PICK g \in Groups : \E contextual \in BOOLEAN :
          outcome = [ remarks |-> g.remarks, contextual |-> contextual,
                      profiles |-> UNION { MergedProfiles(profile, Resolved(profile),
                                                          reading, contextual) :
                                           reading \in g.readings } ]
    BY <1>1 DEF Outcomes
<1>3. PICK contextual \in BOOLEAN :
          outcome = [ remarks |-> g.remarks, contextual |-> contextual,
                      profiles |-> UNION { MergedProfiles(profile, Resolved(profile),
                                                          reading, contextual) :
                                           reading \in g.readings } ]
    BY <1>2
<1>4. /\ g.remarks \in Remarks
      /\ \A reading \in g.readings : reading \in Readings /\ reading.remarks = g.remarks
    BY DEF Groups
<1>5. outcome.remarks \in RemarkTypes
    BY <1>3, <1>4, ReadingType DEF Remarks
<1>6. ASSUME NEW p \in outcome.profiles
      PROVE  /\ p \in Profiles
             /\ profile.active = {} /\ ~outcome.remarks.requires /\ ~outcome.contextual =>
                    p.active = {}
    <2>1. PICK reading \in g.readings :
              p \in MergedProfiles(profile, Resolved(profile), reading, contextual)
        BY <1>3
    <2> QED
        BY <1>3, <1>4, <2>1, MergedType
<1> QED
    BY <1>5, <1>6

-----------------------------------------------------------------------------
(* The question. *)

EndTypes ==
    { end \in [ cta : Asking \cup {"none", "link", "redirect", "next_step", "soft_close",
                                  "direct_close"},
                micro : {"ask_need", "link", "other"}, key : Keys ] :
        end.cta \notin Asking => end.key = NoKey }

\* What the planner and the memory may read of a lead.
LeadTypes ==
    [ requirements : Profiles, need : RequirementNeeds,
      fit : Available \cup {"unknown", "unavailable", "custom"},
      chosen : Available \cup {None}, active : Available \cup {"ventas", None},
      slots : SUBSET Slots ]

LEMMA FirstOfType ==
    ASSUME NEW missing, missing \subseteq SlotKeys
    PROVE  FirstOf(missing) \in missing \cup {NoKey}
BY DEF FirstOf, SlotKeys, Facts, NoKey

LEMMA KnownType ==
    ASSUME NEW lead \in LeadTypes
    PROVE  /\ KnownSlots(lead) \subseteq SlotKeys
           /\ NextQuestion(lead) \in (SlotKeys \ KnownSlots(lead)) \cup {NoKey}
<1>1. lead.slots \subseteq Slots /\ Slots \subseteq Facts
    BY ReadingAssumption DEF LeadTypes
<1>2. KnownSlots(lead) \subseteq SlotKeys
    BY <1>1 DEF KnownSlots, SlotKeys
<1>3. (Slots \cup {"action_requirement"}) \ KnownSlots(lead) \subseteq SlotKeys
    BY <1>1 DEF SlotKeys
<1> QED
    BY <1>2, <1>3, FirstOfType DEF NextQuestion

\* Whatever question the planner has for the end, the one that is left is not of
\* a slot that the memory knows.
LEMMA FinalizedEnd ==
    ASSUME NEW lead \in LeadTypes, NEW end \in EndTypes
    PROVE  Finalized(lead, end).key \in Keys \ KnownSlots(lead)
<1>1. /\ KnownSlots(lead) \subseteq SlotKeys
      /\ NextQuestion(lead) \in (SlotKeys \ KnownSlots(lead)) \cup {NoKey}
    BY KnownType
<1>2. /\ SlotKeys \subseteq Keys
      /\ NoKey \in Keys \ SlotKeys
      /\ "objection_clarification" \in Keys \ SlotKeys
    BY DEF Keys, SlotKeys, Facts, NoKey
<1>3. end \in [ cta : Asking \cup {"none", "link", "redirect", "next_step", "soft_close",
                                  "direct_close"},
                micro : {"ask_need", "link", "other"}, key : Keys ]
      /\ (end.cta \notin Asking => end.key = NoKey)
    BY DEF EndTypes
<1>4. CASE end.cta \notin Asking \/ (end.key # NoKey /\ end.key \notin KnownSlots(lead))
    BY <1>1, <1>2, <1>3, <1>4 DEF Finalized, Asking
<1>5. CASE end.cta = "objection" /\ end.key = NoKey
    <2>1. Finalized(lead, end) = [end EXCEPT !.key = "objection_clarification"]
        BY <1>1, <1>2, <1>5 DEF Finalized, Asking
    <2> QED
        BY <1>1, <1>2, <1>3, <1>5, <2>1 DEF Asking
<1>6. CASE /\ end.cta \in Asking
           /\ end.key \in KnownSlots(lead) \/ (end.cta # "objection" /\ end.key = NoKey)
    <2>1. Finalized(lead, end) =
              IF NextQuestion(lead) = NoKey THEN [end EXCEPT !.cta = "none", !.key = NoKey]
              ELSE [end EXCEPT !.key = NextQuestion(lead)]
        BY <1>1, <1>2, <1>6 DEF Finalized, Asking
    <2> QED
        BY <1>1, <1>2, <1>3, <1>6, <2>1 DEF Asking
<1> QED
    BY <1>4, <1>5, <1>6

LEMMA PlannedEnd ==
    ASSUME NEW lead \in LeadTypes, NEW t, NEW end \in PlanEnds(lead, t)
    PROVE  end.key \in Keys \ KnownSlots(lead)
<1>1. MissingKey(lead, t) \in Keys
    <2>1. (Slots \ lead.slots)
          \cup (IF PlannerKnowsNeed(lead, t) THEN {} ELSE {"action_requirement"})
             \subseteq SlotKeys
        BY ReadingAssumption DEF SlotKeys
    <2> QED
        BY <2>1, FirstOfType DEF MissingKey, Keys
<1> DEFINE missing == MissingKey(lead, t)
<1>2. AnswerEnds(missing) \subseteq EndTypes
    BY <1>1 DEF AnswerEnds, SoftAnswer, Ends, EndTypes, Asking, Keys, NoKey
<1>3. LateEnds(lead, t, missing) \subseteq EndTypes
    BY <1>1 DEF LateEnds, Link, Discovery, SoftAnswer, Ends, EndTypes, Asking, Keys, NoKey
<1>4. OpenEnds(lead, t) \subseteq EndTypes
    <2>1. Discovery("action_requirement") \in EndTypes
        BY DEF Discovery, Ends, EndTypes, Asking, Keys, SlotKeys
    <2>2. /\ Ends("soft", "other", "automation_need") \in EndTypes
          /\ Ends("discovery", "other", "action_requirement") \in EndTypes
        BY DEF Ends, EndTypes, Asking, Keys, SlotKeys
    <2> QED
        BY <1>2, <1>3, <2>1, <2>2 DEF OpenEnds
<1>5. /\ SpecialEnds \subseteq EndTypes
      /\ {SoftAnswer, Redirect} \subseteq EndTypes
      /\ Ends("direct_close", "other", NoKey) \in EndTypes
      /\ Ends("soft", "other", "entry_intent") \in EndTypes
    BY DEF SpecialEnds, SoftAnswer, Redirect, Ends, EndTypes, Asking, Keys, NoKey
<1>6. CommercialEnds(lead, t) \subseteq EndTypes
    BY <1>4, <1>5 DEF CommercialEnds
<1>7. PICK e \in EndTypes : end = Finalized(lead, e)
    BY <1>5, <1>6 DEF PlanEnds
<1> QED
    BY <1>7, FinalizedEnd

\* The question that goes with the link is no slot of the memory.
LEMMA AskedType ==
    ASSUME NEW lead \in LeadTypes, NEW t, NEW end, NEW post, NEW resisted,
           end.key \in Keys \ KnownSlots(lead)
    PROVE  AskedKey(lead, t, end, post, resisted) \in Keys \ KnownSlots(lead)
<1>1. KnownSlots(lead) \subseteq SlotKeys
    BY KnownType
<1>2. MinimalKey(lead, end, resisted) \in Keys \ SlotKeys
    BY DEF MinimalKey, Keys, SlotKeys, Facts
<1> QED
    BY <1>1, <1>2 DEF AskedKey

-----------------------------------------------------------------------------
(* The message. *)

AllActs == ReplyActs \cup {"unclear"}

LEMMA ActType ==
    ASSUME NEW remarks, NEW act \in Acts(frame, remarks)
    PROVE  act \in AllActs
BY DEF Acts, AllActs

LEMMA SelectedType ==
    ASSUME NEW remarks \in RemarkTypes, NEW act \in AllActs
    PROVE  Selected(remarks, act) \in Available \cup {None}
BY DEF Selected, RemarkTypes

LEMMA ProfileTypes ==
    ASSUME TypeOK, NEW profile \in Profiles, NEW choice \in Available \cup {None}
    PROVE  /\ Need(profile) \in RequirementNeeds
           /\ ProductFit(profile) \in Available \cup {"unknown", "unavailable", "custom"}
           /\ Fit(profile, choice) \in Available \cup {"unknown", "unavailable", "custom"}
<1>1. /\ need \in RequirementNeeds
      /\ fit \in Available \cup {"unknown", "unavailable", "custom"}
    BY DEF TypeOK
<1>2. Need(profile) \in RequirementNeeds
    BY <1>1 DEF Need, ActionRequirement, RequirementNeeds
<1>3. ProductFit(profile) \in Available \cup {"unknown", "unavailable", "custom"}
    BY DEF ProductFit, Available
<1> QED
    BY <1>1, <1>2, <1>3 DEF Fit

LEMMA ActiveType ==
    ASSUME TypeOK, NEW remarks \in RemarkTypes, NEW act \in AllActs
    PROVE  ActiveProduct(remarks, act) \in Available \cup {"ventas", None}
<1>1. /\ active \in Available \cup {"ventas", None}
      /\ remarks.subject \in Named \cup {None}
      /\ remarks.requested \in Named \cup {None}
    BY DEF TypeOK, RemarkTypes
<1>2. Named = Available \cup {"ventas"}
    BY DEF Named, Available
<1> QED
    BY <1>1, <1>2, SelectedType DEF ActiveProduct

LEMMA TurnType ==
    ASSUME NEW remarks \in RemarkTypes, NEW act \in AllActs
    PROVE  TurnOf(remarks, act) \in TurnTypes
<1>1. remarks.start \in BOOLEAN /\ remarks.mismatch \in BOOLEAN
    BY DEF RemarkTypes
<1>2. Starts(remarks, act) \in BOOLEAN
    BY <1>1 DEF Starts, AcceptsLink
<1> QED
    BY <1>1, <1>2 DEF TurnOf, TurnTypes, Flagged

\* What a message adds to the profile is in the message, or in the question that
\* it replies to: no reading has anything unsaid, and the requirements and the
\* choice change only with a reading or a reply that says so.
LEMMA NothingFromNowhere ==
    ASSUME TypeOK, NEW outcome \in OutcomesOf(requirements), NEW act \in AllActs,
           outcome.contextual = Contextual(outcome.remarks, act),
           NEW profile \in outcome.profiles
    PROVE  TakenFromNowhere(outcome.remarks, act, profile) = {}
<1>1. /\ outcome.remarks \in RemarkTypes
      /\ requirements.active = {} /\ ~outcome.remarks.requires /\ ~outcome.contextual =>
             profile.active = {}
    BY OutcomeType DEF TypeOK
<1>2. outcome.remarks.unsaid = {}
    BY <1>1 DEF RemarkTypes
<1>3. CASE outcome.remarks.selected # None \/ AcceptsLink(act)
    BY <1>1, <1>2, <1>3 DEF TakenFromNowhere
<1>4. CASE outcome.remarks.selected = None /\ ~AcceptsLink(act)
    <2>1. ChosenProduct(outcome.remarks, act) = chosen
        BY <1>4 DEF ChosenProduct, Selected
    <2> QED
        BY <1>1, <1>2, <2>1 DEF TakenFromNowhere
<1> QED
    BY <1>3, <1>4

Inv == TypeOK /\ NothingInvented /\ NeverAsksKnown

LEMMA UnderstandKeeps ==
    ASSUME Inv, Understand
    PROVE  Inv'
<1>1. PICK outcome \in OutcomesOf(requirements) :
          \E act \in Acts(frame, outcome.remarks) :
             /\ outcome.contextual = Contextual(outcome.remarks, act)
             /\ requirements' \in outcome.profiles
             /\ need' = Need(requirements')
             /\ chosen' = ChosenProduct(outcome.remarks, act)
             /\ fit' = Fit(requirements', chosen')
             /\ active' = ActiveProduct(outcome.remarks, act)
             /\ slots' = slots \cup outcome.remarks.facts
             /\ turn' = TurnOf(outcome.remarks, act)
             /\ invented' = invented \cup
                   TakenFromNowhere(outcome.remarks, act, requirements')
    BY DEF Understand
<1>2. PICK act \in Acts(frame, outcome.remarks) :
             /\ outcome.contextual = Contextual(outcome.remarks, act)
             /\ requirements' \in outcome.profiles
             /\ need' = Need(requirements')
             /\ chosen' = ChosenProduct(outcome.remarks, act)
             /\ fit' = Fit(requirements', chosen')
             /\ active' = ActiveProduct(outcome.remarks, act)
             /\ slots' = slots \cup outcome.remarks.facts
             /\ turn' = TurnOf(outcome.remarks, act)
             /\ invented' = invented \cup
                   TakenFromNowhere(outcome.remarks, act, requirements')
    BY <1>1
<1>3. asked' = NoKey /\ UNCHANGED frame
    BY DEF Understand
<1>4. TypeOK /\ invented = {}
    BY DEF Inv, NothingInvented
<1>5. act \in AllActs
    BY <1>2, ActType
<1>6. outcome.remarks \in RemarkTypes /\ requirements' \in Profiles
    BY <1>2, <1>4, OutcomeType DEF TypeOK
<1>7. invented' = {}
    BY <1>2, <1>4, <1>5, NothingFromNowhere
<1>8. TypeOK'
    <2>1. chosen' \in Available \cup {None}
        BY <1>2, <1>4, <1>5, <1>6, SelectedType DEF ChosenProduct, TypeOK
    <2>2. /\ need' \in RequirementNeeds
          /\ fit' \in Available \cup {"unknown", "unavailable", "custom"}
        BY <1>2, <1>4, <1>6, <2>1, ProfileTypes
    <2>3. active' \in Available \cup {"ventas", None}
        BY <1>2, <1>4, <1>5, <1>6, ActiveType
    <2>4. slots' \subseteq Slots
        BY <1>2, <1>4, <1>6 DEF TypeOK, RemarkTypes
    <2>5. turn' \in TurnTypes
        BY <1>2, <1>5, <1>6, TurnType
    <2>6. frame' \in [ type : {"none", "action", "link", "context"},
                       target : Available \cup {"ventas", "unavailable", "custom", None} ]
        BY <1>3, <1>4 DEF TypeOK
    <2> QED
        BY <1>3, <1>6, <1>7, <2>1, <2>2, <2>3, <2>4, <2>5, <2>6 DEF TypeOK, Keys
<1>9. NeverAsksKnown'
    <2>1. slots' \subseteq Facts
        BY <1>8, ReadingAssumption DEF TypeOK
    <2>2. KnownSlots(Lead)' \subseteq SlotKeys
        BY <2>1 DEF KnownSlots, Lead, SlotKeys
    <2> QED
        BY <1>3, <2>2 DEF NeverAsksKnown, SlotKeys, Facts, NoKey
<1> QED
    BY <1>7, <1>8, <1>9 DEF Inv, NothingInvented

-----------------------------------------------------------------------------
(* The answer. *)

LEMMA LeadType ==
    ASSUME TypeOK
    PROVE  Lead \in LeadTypes
BY DEF TypeOK, Lead, LeadTypes

LEMMA FrameType ==
    ASSUME TypeOK, NEW end
    PROVE  ReplyFrame(Lead, end) \in
               [ type : {"none", "action", "link", "context"},
                 target : Available \cup {"ventas", "unavailable", "custom", None} ]
<1>1. /\ chosen \in Available \cup {None}
      /\ active \in Available \cup {"ventas", None}
      /\ requirements \in Profiles
    BY DEF TypeOK
<1>2. ProductFit(requirements) \in Available \cup {"unknown", "unavailable", "custom"}
    BY <1>1, ProfileTypes
<1> QED
    BY <1>1, <1>2 DEF ReplyFrame, Lead, NoFrame

LEMMA AnswerKeeps ==
    ASSUME Inv, Answer
    PROVE  Inv'
<1>1. PICK post \in BOOLEAN, resisted \in BOOLEAN :
          \E end \in (IF post THEN PostPurchaseEnds ELSE PlanEnds(Lead, turn)) :
             /\ asked' = AskedKey(Lead, turn, end, post, resisted)
             /\ frame' = ReplyFrame(Lead, end)
    BY DEF Answer
<1>2. PICK end \in (IF post THEN PostPurchaseEnds ELSE PlanEnds(Lead, turn)) :
             /\ asked' = AskedKey(Lead, turn, end, post, resisted)
             /\ frame' = ReplyFrame(Lead, end)
    BY <1>1
<1>3. /\ turn' = Idle
      /\ UNCHANGED <<requirements, need, fit, chosen, active, slots, invented>>
    BY DEF Answer
<1>4. TypeOK /\ invented = {} /\ Lead \in LeadTypes
    BY LeadType DEF Inv, NothingInvented
<1>5. end.key \in Keys \ KnownSlots(Lead)
    <2>1. CASE post
        <3>1. end.key = NoKey
            BY <1>2, <2>1 DEF PostPurchaseEnds, Redirect, Ends
        <3>2. KnownSlots(Lead) \subseteq SlotKeys
            BY <1>4, KnownType
        <3> QED
            BY <3>1, <3>2 DEF Keys, SlotKeys, Facts, NoKey
    <2>2. CASE ~post
        BY <1>2, <1>4, <2>2, PlannedEnd
    <2> QED
        BY <2>1, <2>2
<1>6. asked' \in Keys \ KnownSlots(Lead)
    BY <1>2, <1>4, <1>5, AskedType
<1>7. Lead' = Lead
    BY <1>3 DEF Lead
<1>8. TypeOK'
    <2>1. frame' \in [ type : {"none", "action", "link", "context"},
                       target : Available \cup {"ventas", "unavailable", "custom", None} ]
        BY <1>2, <1>4, FrameType
    <2>2. turn' \in TurnTypes
        BY <1>3 DEF Idle, TurnTypes
    <2> QED
        BY <1>3, <1>4, <1>6, <2>1, <2>2 DEF TypeOK
<1>9. NeverAsksKnown'
    <2>1. KnownSlots(Lead)' = KnownSlots(Lead)
        BY <1>3 DEF KnownSlots, RememberedNeed, Lead
    <2> QED
        BY <1>6, <2>1 DEF NeverAsksKnown
<1> QED
    BY <1>3, <1>4, <1>8, <1>9 DEF Inv, NothingInvented

LEMMA InvStarts == Init => Inv
<1> SUFFICES ASSUME Init PROVE Inv
    OBVIOUS
<1>1. TypeOK
    BY DEF Init, TypeOK, EmptyProfile, Profiles, RequirementNeeds, NoFrame, Idle, TurnTypes,
           Keys
<1>2. KnownSlots(Lead) \subseteq SlotKeys
    BY <1>1, LeadType, KnownType
<1> QED
    BY <1>1, <1>2 DEF Init, Inv, NothingInvented, NeverAsksKnown, SlotKeys, Facts, NoKey

LEMMA InvStep == Inv /\ [Next]_vars => Inv'
<1> SUFFICES ASSUME Inv, [Next]_vars PROVE Inv'
    OBVIOUS
<1>1. CASE Understand
    BY <1>1, UnderstandKeeps
<1>2. CASE Answer
    BY <1>2, AnswerKeeps
<1>3. CASE TurnFails \/ UNCHANGED vars
    <2>1. /\ turn' \in {turn, Idle}
          /\ UNCHANGED <<requirements, need, fit, chosen, active, slots, frame, asked,
                        invented>>
        BY <1>3 DEF TurnFails, vars
    <2>2. turn' \in TurnTypes
        <3>1. turn \in TurnTypes /\ Idle \in TurnTypes
            BY DEF Idle, TurnTypes, Inv, TypeOK
        <3> QED
            BY <2>1, <3>1
    <2>3. TypeOK'
        BY <2>1, <2>2 DEF Inv, TypeOK
    <2>4. KnownSlots(Lead)' = KnownSlots(Lead)
        BY <2>1 DEF KnownSlots, RememberedNeed, Lead
    <2> QED
        BY <2>1, <2>3, <2>4 DEF Inv, NothingInvented, NeverAsksKnown
<1> QED
    BY <1>1, <1>2, <1>3 DEF Next

LEMMA InvHolds == Spec => []Inv
BY InvStarts, InvStep, PTL DEF Spec

\* Whatever the messages, the readings and the replies, the profile, the frame
\* and the question have their types (graph.py, reply_frame.py).
THEOREM TypesAreKept == Spec => []TypeOK
BY InvHolds, PTL DEF Inv

\* No requirement is a lead's first, and no product its choice, without a word of
\* the message or a reply to the question that offered it (contract_v3.py).
THEOREM InventsNothing == Spec => []NothingInvented
BY InvHolds, PTL DEF Inv

\* The question of an answer is never of a slot that the memory knows
\* (planners.py, _finalize_plan; fulfillment.py).
THEOREM AsksNoKnownSlot == Spec => []NeverAsksKnown
BY InvHolds, PTL DEF Inv

-----------------------------------------------------------------------------
(* The turns of module SalesStages. *)

LEMMA SameFit ==
    ASSUME NEW profile
    PROVE  S!FitOf(StagesNeed(profile)) = ProductFit(profile)
<1>1. Class(profile) \in {"mixed", "sales", "external", "informational", "unknown"}
    BY DEF Class
<1> QED
    BY <1>1 DEF StagesNeed, S!FitOf, ProductFit

LEMMA UnderstandIsATurn ==
    ASSUME TypeOK, Understand
    PROVE  StagesTurn
<1>1. PICK outcome \in OutcomesOf(requirements) :
          \E act \in Acts(frame, outcome.remarks) :
             /\ chosen' = ChosenProduct(outcome.remarks, act)
             /\ fit' = Fit(requirements', chosen')
    BY DEF Understand
<1>2. PICK act \in Acts(frame, outcome.remarks) :
             /\ chosen' = ChosenProduct(outcome.remarks, act)
             /\ fit' = Fit(requirements', chosen')
    BY <1>1
<1> DEFINE choice == Selected(outcome.remarks, act)
<1>3. choice \in S!Choices
    <2>1. choice \in Available \cup {None}
        BY <1>2, ActType, OutcomeType, SelectedType DEF TypeOK
    <2> QED
        BY <2>1 DEF S!Choices, S!Products, Available, None
<1>4. S!Chosen(choice) = chosen'
    BY <1>2 DEF S!Chosen, ChosenProduct, None
<1>5. [fit |-> fit', chosen |-> chosen'] = S!UpdatedProfile(StagesNeed(requirements'), choice)
    <2>1. S!FitOf(StagesNeed(requirements')) = ProductFit(requirements')
        BY SameFit
    <2>2. S!UpdatedProfile(StagesNeed(requirements'), choice) =
              [ fit |-> IF S!FitOf(StagesNeed(requirements')) # "unknown"
                        THEN S!FitOf(StagesNeed(requirements'))
                        ELSE IF S!Chosen(choice) # "none" THEN S!Chosen(choice) ELSE fit,
                chosen |-> S!Chosen(choice) ]
        BY DEF S!UpdatedProfile
    <2>3. CASE ProductFit(requirements') # "unknown"
        <3>1. fit' = ProductFit(requirements')
            BY <1>2, <2>3 DEF Fit
        <3> QED
            BY <1>4, <2>1, <2>2, <2>3, <3>1
    <2>4. CASE ProductFit(requirements') = "unknown" /\ chosen' # None
        <3>1. fit' = chosen'
            BY <1>2, <2>4 DEF Fit
        <3> QED
            BY <1>4, <2>1, <2>2, <2>4, <3>1 DEF None
    <2>5. CASE ProductFit(requirements') = "unknown" /\ chosen' = None
        <3>1. fit' = fit
            BY <1>2, <2>5 DEF Fit
        <3> QED
            BY <1>4, <2>1, <2>2, <2>5, <3>1 DEF None
    <2> QED
        BY <2>3, <2>4, <2>5
<1> QED
    BY <1>3, <1>5 DEF StagesTurn

\* Every turn changes the fit and the choice as a turn of module SalesStages, so
\* what that module shows of the close holds of the leads whose messages are
\* read, merged and replied to as here (graph.py, update_lead_state).
THEOREM ConversationImplementsStages == Spec => ImplementsStages
<1>1. Init => S!Init
    BY DEF Init, S!Init, S!NoObjection, None
<1>2. TypeOK /\ [Next]_vars => [StagesTurn]_<<requirements, fit, chosen>>
    <2> SUFFICES ASSUME TypeOK, [Next]_vars PROVE [StagesTurn]_<<requirements, fit, chosen>>
        OBVIOUS
    <2>1. CASE Understand
        BY <2>1, UnderstandIsATurn
    <2>2. CASE Answer \/ TurnFails \/ UNCHANGED vars
        BY <2>2 DEF Answer, TurnFails, vars
    <2> QED
        BY <2>1, <2>2 DEF Next
<1> QED
    BY <1>1, <1>2, TypesAreKept, PTL DEF Spec, ImplementsStages
=============================================================================
