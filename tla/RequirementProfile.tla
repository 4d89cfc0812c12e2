-------------------------- MODULE RequirementProfile --------------------------
(***************************************************************************)
(* What a lead wants its agent to do, turn after turn (requirements.py): the *)
(* changes that a message makes, as the analyzer and the delta resolver read  *)
(* them, their merge into the stored profile, and the class of requirements    *)
(* and the product that follow from it.                                     *)
(*                                                                         *)
(* A profile is the set of its active items and the declared number of        *)
(* external actions, 0 when none is active.  Items that were deactivated,      *)
(* their evidence, strength and turn are kept by the code and read by none of  *)
(* the decisions; so are the observed business problems.                    *)
(***************************************************************************)
EXTENDS Naturals

CONSTANTS
    Informational,  \* the capabilities of INFORMATIONAL_AGENT_CAPABILITIES considered
    Persuading,     \* those of SALES_AGENT_CAPABILITIES
    External,       \* the actions of RequestedAgentAction
    Counts          \* the numbers of actions that a lead may declare

\* The action that stands for "some action, not said which".
Unnamed == "unknown_external_action"

ASSUME RequirementAssumption ==
    /\ Informational \cap Persuading = {}
    /\ (Informational \cup Persuading) \cap External = {}
    /\ Unnamed \in External
    /\ Counts \subseteq Nat \ {0}

Items == Informational \cup Persuading \cup External

NoCount == 0
Limit == 2     \* STANDARD_HIBRIDO_ACTION_LIMIT

Profiles == [active : SUBSET Items, count : Counts \cup {NoCount}]

EmptyProfile == [active |-> {}, count |-> NoCount]

Intents == {"no_change", "merge", "replace"}

-----------------------------------------------------------------------------
(***************************************************************************)
(* The delta resolver, a second question to the language model.             *)
(***************************************************************************)

\* The question is asked only when there is something to change, and the
\* analyzer, or the parser's hint, saw a requirement in the message.
ShouldResolve(profile, intent, items, hint) ==
    /\ profile.active # {}
    /\ hint \/ intent # "no_change" \/ items # {}

\* What the resolver may answer.  The evidence it quotes is in the message, is
\* not, or is missing.
RawResolutions ==
    [ operation : Intents, added : SUBSET Items, removed : SUBSET Items,
      evidence : {"none", "literal", "invented"} ]

Resolutions == [operation : Intents, added : SUBSET Items, removed : SUBSET Items]

NoChange == [operation |-> "no_change", added |-> {}, removed |-> {}]

\* An answer the schema refuses, before or after the clean-up, is no answer.
Accepted(raw, profile) ==
    \/ raw.operation = "no_change" /\ raw.added = {} /\ raw.removed = {}
    \/ raw.evidence = "invented"
    \/ /\ raw.evidence = "literal"
       /\ raw.operation = "no_change" /\ raw.removed \cap profile.active = {} => raw.added = {}

\* Evidence that is not in the message voids the whole answer; what is removed
\* must be active.
Sanitized(raw, profile) ==
    IF raw.evidence = "invented" THEN NoChange
    ELSE [ operation |-> raw.operation, added |-> raw.added,
           removed |-> raw.removed \cap profile.active ]

\* The answers of the resolver.  The empty set stands for none: the model is
\* disabled or failed, or its answer was refused.
Resolved(profile) ==
    { {Sanitized(raw, profile)} : raw \in { r \in RawResolutions : Accepted(r, profile) } }

-----------------------------------------------------------------------------
(***************************************************************************)
(* The delta of a turn and its merge.                                      *)
(***************************************************************************)

\* A named action takes the place of the one that stood for it.
NamesTheUnnamed(profile, added) ==
    IF Unnamed \in profile.active /\ (added \cap External) \ {Unnamed} # {}
    THEN {Unnamed} ELSE {}

\* What a turn adds: the items of the reading, the action that a reply stands
\* for, and what the resolver found.
Added(items, contextual, resolution) ==
    items \cup contextual \cup UNION { r.added : r \in resolution }

\* The changes of one turn.  resolution is a set of at most one answer of the
\* resolver, whose operation, "no_change" too, goes before the analyzer's.
Delta(profile, items, intent, count, contextual, resolution) ==
    LET added == Added(items, contextual, resolution)
    IN  [ added   |-> added,
          removed |-> UNION { r.removed : r \in resolution }
                      \cup NamesTheUnnamed(profile, added),
          count   |-> count,
          replace |-> IF resolution = {} THEN intent = "replace"
                      ELSE \E r \in resolution : r.operation = "replace" ]

\* A replacement deactivates all that was there; what is added becomes active, be
\* it there or not, and what is removed no longer is.
MergedItems(items, delta) ==
    ((IF delta.replace THEN {} ELSE items) \cup delta.added) \ delta.removed

\* merge_requirement_profile.  Only a replacement clears a declared number;
\* removing every action leaves it.
Merge(profile, delta) ==
    [ active |-> MergedItems(profile.active, delta),
      count  |-> IF delta.count # NoCount THEN delta.count
                 ELSE IF delta.replace THEN NoCount ELSE profile.count ]

-----------------------------------------------------------------------------
(***************************************************************************)
(* What follows from a profile.                                            *)
(***************************************************************************)

\* derive_requirement_class
Class(profile) ==
    LET has(kind) == profile.active \cap kind # {}
    IN  CASE has(Persuading) /\ has(External)  -> "mixed"
          [] has(Persuading) /\ ~has(External) -> "sales"
          [] has(External) /\ ~has(Persuading) -> "external"
          [] has(Informational) /\ ~has(External) /\ ~has(Persuading) -> "informational"
          [] OTHER -> "unknown"

RequirementNeeds == {"unknown", "answers_only", "external_actions_required"}

ActionRequirement(class) ==
    CASE class = "informational" -> "answers_only"
      [] class = "external"      -> "external_actions_required"
      [] OTHER                   -> "unknown"

\* Only a declared number takes a lead past the limit; naming actions does not.
OverLimit(profile) == profile.count > Limit

\* derive_product_fit
ProductFit(profile) ==
    CASE Class(profile) = "informational" -> "captura"
      [] Class(profile) = "external"      -> IF OverLimit(profile) THEN "custom" ELSE "hibrido"
      [] Class(profile) = "sales"         -> "unavailable"
      [] Class(profile) = "mixed"         -> "custom"
      [] OTHER                            -> "unknown"

\* derive_scope_flags: the product that the message names is not the one for the
\* requirements.
Flagged(profile, requested) ==
    \/ requested = "captura" /\ Class(profile) \in {"external", "mixed"}
    \/ requested = "hibrido" /\ Class(profile) = "informational"
=============================================================================
