----------------------------- MODULE LeadAnswers -----------------------------
(***************************************************************************)
(* The answers of a conversation: what a lead is told and asked, on the        *)
(* knowledge that module LeadConversation keeps of it.  There a turn may end    *)
(* with any of the plans that its lead allows; here the planner chooses one,    *)
(* the context is fetched for it, the text is written and sanitized, and the    *)
(* queue sends it, or buttons in its place (interactive_policy.py).            *)
(*                                                                         *)
(* A turn is three steps: the message (ReadMessage), the plan with its context   *)
(* (MakePlan), and the text with save_memory (Reply), or a failure.  What was    *)
(* saved is then sent in its parts, or lost, or replaced by buttons.           *)
(***************************************************************************)
EXTENDS LeadConversation, AnswerText, MessageParts

CONSTANT MaxPackets  \* MAX_EARLY_FUNNEL_INTERACTIVE_PACKETS

ASSUME PacketsAssumption == MaxPackets \in Nat

VARIABLES
    met,      \* whether a turn of the lead was completed
    answer,   \* the answer under way: its plan, or its text until it is sent
    packets   \* _interactive_packet_counts of the lead, up to MaxPackets

answerVars == <<vars, met, answer, packets>>

NoAnswer == [step |-> "none"]

AnswersInit ==
    /\ Init
    /\ met = FALSE
    /\ answer = NoAnswer
    /\ packets = 0

-----------------------------------------------------------------------------
\* A turn waits until the answer of the one before is sent.
ReadMessage ==
    /\ answer = NoAnswer
    /\ Understand
    /\ UNCHANGED <<met, answer, packets>>

\* What the queue may send: the buttons of the entry with the greeting and, to a
\* lead who comes from a campaign, for a message that nobody understood; the
\* text; or, unless a guard keeps it back, a packet.
Sending(plan, resisted) ==
    LET guarded == \/ plan.macro \in {"direct_close", "handle_objection", "handoff_to_miguel",
                                      "soft_close"}
                   \/ resisted
                   \/ chosen # None
    IN  When(plan.end.key = "entry_intent" \/ plan.macro = "answer_unknown_safely", {"buttons"})
        \cup When(plan.end.key # "entry_intent", {"text"} \cup When(~guarded, {"packet"}))

\* The plan, the fulfilment policy, the knowledge plan and the context.
MakePlan ==
    /\ turn # Idle /\ answer = NoAnswer
    /\ \E said \in PointSets :
        /\ said \cap Earlier # {} => met
        /\ \E plan \in Plans(Lead, turn, said, met) :
             LET post == "post_purchase" \in said
                 resisted == said \cap {"hard_objection", "objection_continues"} # {}
                 linked == IncludesLink(Lead, turn, plan.end, post)
                 facts == ContextFacts(plan, said, linked)
             IN  answer' = [ step   |-> "planned",
                             end    |-> plan.end,
                             asked  |-> AskedKey(Lead, turn, plan.end, post, resisted),
                             closes |-> plan.macro = "direct_close",
                             linked |-> linked,
                             facts  |-> facts,
                             text   |-> BuiltText(Lead, plan, said, facts, linked, resisted),
                             send   |-> Sending(plan, resisted) ]
    /\ UNCHANGED <<vars, met, packets>>

\* The greeting is never left to the model (should_use_deterministic_response);
\* any other text is the model's, or the built one when it is disabled or fails.
Texts == {answer.text} \cup When(answer.end.key # "entry_intent", ModelTexts)

\* Of the questions that are left, those about a slot that is known.
Reasked(text) ==
    LET known == KnownSlots(Lead)
    IN  { q \in SanitizedText(text, known).asks : About(q) \cap known # {} }

\* generate_response and save_memory.
Reply ==
    /\ answer.step = "planned"
    /\ asked' = answer.asked
    /\ frame' = ReplyFrame(Lead, answer.end)
    /\ turn' = Idle
    /\ met' = TRUE
    /\ \E reasks \in { Reasked(text) : text \in Texts } :
        answer' = [step |-> "saved", reasks |-> reasks, send |-> answer.send]
    /\ UNCHANGED <<requirements, need, fit, chosen, active, slots, invented, packets>>

Fail ==
    /\ TurnFails
    /\ answer' = NoAnswer
    /\ UNCHANGED <<met, packets>>

-----------------------------------------------------------------------------
(***************************************************************************)
(* Sending (_send_agent_response).                                         *)
(***************************************************************************)

\* The buttons are counted and never kept back.
SendButtons ==
    /\ answer.step = "saved" /\ "buttons" \in answer.send
    /\ packets' = IF packets < MaxPackets THEN packets + 1 ELSE packets
    /\ answer' = NoAnswer
    /\ UNCHANGED <<vars, met>>

\* When the message was a button of the packets, the next one takes the place of
\* the answer, which stays saved with its frame.
SendPacket ==
    /\ answer.step = "saved" /\ "packet" \in answer.send
    /\ packets < MaxPackets
    /\ packets' = packets + 1
    /\ answer' = NoAnswer
    /\ UNCHANGED <<vars, met>>

\* The text, in its parts; or nothing, when sending fails.
SendText ==
    /\ answer.step = "saved" /\ "text" \in answer.send
    /\ answer' = NoAnswer
    /\ UNCHANGED <<vars, met, packets>>

AnswersNext ==
    \/ ReadMessage \/ MakePlan \/ Reply \/ Fail
    \/ SendButtons \/ SendPacket \/ SendText

AnswersSpec == AnswersInit /\ [][AnswersNext]_answerVars

-----------------------------------------------------------------------------
\* PHASE_V3_3_REPORT.md has known slots never casually re-requested, by planner and
\* response validator.  Of the questions whose slot the lead had filled, whatever
\* the plan, the link, the playbook or the model asks, none is saved in the words
\* of the slot (sanitize_response_memory).  What the patterns cannot see gets
\* through, and that is all: what the model asks in words of its own, and the four
\* questions of the code that ask for the requirement in other words.
ReasksInOtherWordsOnly ==
    answer.step = "saved" => answer.reasks \subseteq InOtherWords \cup OwnWords

\* A text of the code's own is built of prices, steps, links and messages, and
\* says something made up, or nothing, without them (fallback_response): whatever
\* case of the plan and of the topics leads to it, the knowledge plan, which has
\* conditions of its own, made the context have them (_knowledge_needs).
NeverShortOfFacts == answer.step = "planned" => answer.text.due \subseteq answer.facts

\* The plan that closes the sale sends the lead to the app.  That the answer must
\* then give the link is decided apart from it, by conditions of other fields of
\* the turn (can_direct_close, _should_include_app_link).
ClosesWithLink == answer.step = "planned" /\ answer.closes => answer.linked

\* What was saved is what the lead is sent: however the paragraphs, sentences and
\* words of a text fall, its parts hold it whole and in its order, and neither too
\* long nor with a short chunk left alone beside one it would fit with
\* (split_whatsapp_messages, whose tests are of one text each).
SendsWhole == answer.step = "saved" /\ "text" \in answer.send => AllWellSplit

\* Whatever is said and planned, a turn ends as module LeadConversation allows:
\* its guarantees on what is known and asked hold for the planner's own cases, in
\* their order, and for the fulfilment policy that runs after them
\* (SalesPolicyPlanner._plan_state).
ImplementsConversation == [][turn # Idle => Answer \/ TurnFails]_vars
=============================================================================
