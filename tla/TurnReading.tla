----------------------------- MODULE TurnReading -----------------------------
(***************************************************************************)
(* What one message of a lead is read to be: the analyzer of                *)
(* openai_service.py, its contract (contract_v3.py) and the normalizer       *)
(* (normalizer.py).                                                        *)
(*                                                                         *)
(* The language model answers with claims and quotes a span of the message   *)
(* for each of them.  Three checks stand between a claim and the turn: the    *)
(* span must be in the message; the span of a requirement must hold a word of  *)
(* the requirement's table; and a claim whose span fails is repaired when the  *)
(* message holds such a word, and dropped otherwise.  A claim of another kind  *)
(* needs a literal span and nothing else, and the facts need none.  When the   *)
(* model is disabled, or its answer is refused, the tables of the fallback     *)
(* read the message.                                                       *)
(*                                                                         *)
(* A message is the set of things that it literally holds.                   *)
(*                                                                         *)
(* A definition named ...Mutant is a deliberate mistake that PROJECT.json     *)
(* puts in the place of the definition after it.                            *)
(***************************************************************************)
EXTENDS RequirementProfile, FiniteSets

CONSTANTS
    Recognized,   \* the items that the fallback has a rule of its own for
    Mentionable,  \* the products a message may name
    Slots,        \* the discovery facts considered
    MaxAspects    \* bound: of requirements, products and facts, how many a message is about

Available == {"captura", "hibrido"}

\* In the order in which a message is searched for them; "ventas" stands for the
\* two products that are not for sale.
ProductOrder == <<"captura", "hibrido", "ventas">>

Facts == {"business_type", "main_channel", "pain_or_goal"}

ASSUME ReadingAssumption ==
    /\ Recognized \subseteq Items \ {Unnamed}
    /\ Mentionable \subseteq {"captura", "hibrido", "ventas"}
    /\ Slots \subseteq Facts
    /\ MaxAspects \in Nat

Roles == {"mentioned", "comparison_alternative", "question_subject", "preferred", "committed"}

\* cues: the items it holds a word of.  asks: it speaks of the agent to be
\* bought.  corrects: it takes back what was said.  named: the products in it.
\* tone: whether it commits to, or prefers, a product.  number: the number in it.
\* start: it asks to start, and the fallback does not take it for the wish of a
\* free trial.
Messages ==
    { m \in [ cues : SUBSET Items, asks : BOOLEAN, corrects : BOOLEAN,
              number : Counts \cup {NoCount}, named : SUBSET Mentionable,
              tone : {"plain", "preferred", "committed"}, facts : SUBSET Slots,
              start : BOOLEAN ] :
        LET requires == m.cues # {} \/ m.number # NoCount
        IN  /\ m.asks \/ m.corrects => requires
            /\ m.tone # "plain" => m.named # {}
            /\ Cardinality({ a \in {"requirements", "products", "facts"} :
                   \/ a = "requirements" /\ requires
                   \/ a = "products" /\ m.named # {}
                   \/ a = "facts" /\ m.facts # {} }) <= MaxAspects }

-----------------------------------------------------------------------------
(***************************************************************************)
(* Observations.                                                           *)
(***************************************************************************)

\* Of an item the model may claim nothing, or claim it with a span that holds a
\* word of its table ("apt"), with another span of the message ("bare") or with
\* one that is not in the message ("invented").
Claims(m) ==
    { c \in [Items -> {"none", "apt", "bare", "invented"}] :
        \A i \in Items : c[i] = "apt" => i \in m.cues }

\* The capabilities and the actions have the same rule.  An apt claim is kept, an
\* invented one repaired if the message holds a word for it; a bare one is dropped,
\* though the message may hold one elsewhere.
Keeps(i, m, claims) == claims[i] = "apt" \/ (claims[i] = "invented" /\ i \in m.cues)

\* Every claim with a literal span is kept.
KeptItemsMutant(m, claims) ==
    { i \in Items : \/ claims[i] \in {"apt", "bare"}
                    \/ claims[i] = "invented" /\ i \in m.cues }

\* What is left of the claims of a message.
KeptItems(m, claims) == { i \in Items : Keeps(i, m, claims) }

\* A number is accepted with any literal span, whether or not the span holds
\* it, or with the number in the message.
KeptCounts == {NoCount} \cup Counts

\* A product that the message does not name is dropped.  The role is the
\* model's: a product named twice has the strongest of its roles.
KeptReferences(m) == UNION { [s -> Roles] : s \in SUBSET m.named }

\* Without an update no requirement is left.
ValidRequirements(items, update, count) ==
    IF update = "no_change"
    THEN [items |-> {}, update |-> update, count |-> NoCount]
    ELSE [items |-> items, update |-> update, count |-> count]

\* Any span of the message makes a start; the facts are taken as they come.
Observations(m) ==
    { [ requirements |-> ValidRequirements(KeptItems(m, claims), update, count),
        references |-> references, start |-> start, facts |-> facts ] :
        claims \in Claims(m), update \in Intents, count \in KeptCounts,
        references \in KeptReferences(m), start \in BOOLEAN, facts \in SUBSET Slots }

-----------------------------------------------------------------------------
(***************************************************************************)
(* The fallback.                                                           *)
(***************************************************************************)

\* Capabilities and the recognized actions; an unnamed action only when no
\* other is found.
HeuristicItems(m) ==
    LET found == m.cues \cap Recognized
    IN  IF ~m.asks THEN {}
        ELSE IF found \cap External = {} THEN found \cup (m.cues \cap {Unnamed})
        ELSE found

HeuristicUpdate(m) ==
    IF HeuristicItems(m) = {} /\ m.number = NoCount THEN "no_change"
    ELSE IF m.corrects THEN "replace" ELSE "merge"

Place(product) == CHOOSE n \in 1 .. 3 : ProductOrder[n] = product

\* What the message commits to, or prefers, is the product it names last.  The
\* first of the others is what it asks about.
HeuristicRole(m, product) ==
    IF m.tone # "plain" /\ \A p \in m.named : Place(p) <= Place(product) THEN m.tone
    ELSE IF \A p \in m.named : Place(product) <= Place(p) THEN "question_subject"
    ELSE "comparison_alternative"

HeuristicObservation(m) ==
    [ requirements |-> ValidRequirements(HeuristicItems(m), HeuristicUpdate(m), m.number),
      references |-> [p \in m.named |-> HeuristicRole(m, p)],
      start |-> m.start, facts |-> m.facts ]

-----------------------------------------------------------------------------
(***************************************************************************)
(* The normalized turn.                                                    *)
(***************************************************************************)

None == "none"

Single(products) ==
    IF Cardinality(products) = 1 THEN CHOOSE p \in products : TRUE ELSE None

WithRole(references, role) == { p \in DOMAIN references : references[p] = role }

\* _derive_action_requirement, of the items of this message alone.
NeedNow(items) ==
    CASE items \cap External # {}      -> "external_actions_required"
      [] /\ items \cap External = {}
         /\ items \cap Informational # {} -> "answers_only"
      [] OTHER                         -> "unknown"

\* The product that goes with them.
RecommendedNow(items) ==
    CASE NeedNow(items) = "external_actions_required" -> "hibrido"
      [] NeedNow(items) = "answers_only"              -> "captura"
      [] OTHER                                        -> None

\* _derive_product_preference_mismatch
Mismatch(requested, needed) == requested # None /\ needed # None /\ requested # needed

\* The one product it commits to, if it is for sale, agrees with what the
\* message requires, and the message asks to start.
SelectedProduct(o) ==
    LET committed == Single(WithRole(o.references, "committed"))
        needed == RecommendedNow(o.requirements.items)
    IN  IF committed \in Available /\ needed \in {None, committed} /\ o.start
        THEN committed ELSE None

\* The product talked about: of the first role that any product has.
Subject(references) ==
    LET firstOf(r) == WithRole(references, r)
    IN  Single(IF firstOf("question_subject") # {} THEN firstOf("question_subject")
               ELSE IF firstOf("committed") # {} THEN firstOf("committed")
               ELSE firstOf("preferred"))

\* _semantically_sparse: the message may say nothing of its own, only answer the
\* question before it.
Sparse(o) ==
    /\ o.requirements.items = {} /\ DOMAIN o.references = {}
    /\ o.facts = {} /\ ~o.start

\* The requirements of an observation, and whether the parser saw any.
\* Its remarks, all the rest.  unsaid: what the observation takes up
\* and the message does not hold.
Normalized(m, o, hint) ==
    LET requested == Single(DOMAIN o.references)
        needed == RecommendedNow(o.requirements.items)
    IN  [ requirements |-> o.requirements,
          hint |-> hint,
          remarks |->
            [ requested |-> requested, subject |-> Subject(o.references),
              selected |-> SelectedProduct(o), start |-> o.start, facts |-> o.facts,
              mismatch |-> Mismatch(requested, needed),
              requires |-> o.requirements.items # {}, sparse |-> Sparse(o),
              unsaid |-> (o.requirements.items \ m.cues)
                         \cup (DOMAIN o.references \ m.named) ] ]

Hints(m) == {FALSE, m.cues # {}}

\* The turns that messages may be read as.
Readings ==
    UNION { { Normalized(m, o, hint) :
                o \in Observations(m) \cup {HeuristicObservation(m)}, hint \in Hints(m) } :
            m \in Messages }

Remarks == { r.remarks : r \in Readings }
=============================================================================
