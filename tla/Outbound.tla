------------------------------ MODULE Outbound ------------------------------
(***************************************************************************)
(* How an answer is sent to the lead (_send_agent_response in                *)
(* whatsapp/queue.py, run_agent_and_send in api/main.py): through Chatwoot   *)
(* when it is enabled and knows the conversation, and otherwise, or when it   *)
(* fails before it has accepted anything, through the WhatsApp API.  Buttons  *)
(* go through the WhatsApp API at once.                                     *)
(*                                                                         *)
(* Both transports send the answer part by part, as split_whatsapp_messages  *)
(* splits it.  A request is accepted, refused, or accepted with its answer    *)
(* lost (a timeout): the sender cannot tell the last two apart.  The private  *)
(* note that ends some branches is not seen by the lead, its errors are       *)
(* swallowed, and it is left out.                                           *)
(***************************************************************************)
EXTENDS Naturals

CONSTANTS
    Senders,        \* the threads that send
    Parts,          \* how many parts an answer has
    ChatwootEnabled \* settings.chatwoot_enabled

ASSUME OutboundAssumption == Parts \in Nat \ {0} /\ ChatwootEnabled \in BOOLEAN

\* at: where the sender is; next: the part it sends next; got: how often the
\* lead got each part; lost: an answer of Chatwoot was lost
VARIABLE send

Sending == {"lookup", "public", "text", "buttons"}
NotSending == [at |-> "idle", next |-> 1, got |-> [p \in 1..Parts |-> 0], lost |-> FALSE]

SendInit == send = [w \in Senders |-> NotSending]

SendTypeOK ==
    send \in [Senders -> [at: Sending \cup {"idle", "sent", "failed"}, next: 1..Parts,
                          got: [1..Parts -> 0..2], lost: BOOLEAN]]

At(w) == send[w].at

\* The lead gets nothing, and the sender goes on to another place.
Leave(w, where) == send' = [send EXCEPT ![w] = [send[w] EXCEPT !.at = where, !.next = 1]]

\* Whether the response, or the lead's button, calls for buttons is the agent's matter.
StartSending(w) == Leave(w, IF ChatwootEnabled THEN "lookup" ELSE "text")
StartButtons(w) == Leave(w, "buttons")
StopSending(w) == send' = [send EXCEPT ![w] = NotSending]

\* resolve_conversation_for_lead: the stored conversation, or the result of up
\* to three searches; an error counts as none.
Lookup(w) ==
    /\ At(w) = "lookup"
    /\ \E where \in {"public", "text"} : Leave(w, where)

\* The lead gets part next, and the sender goes on to another place.
Deliver(w, where) ==
    send' = [send EXCEPT ![w] =
        [at   |-> where,
         next |-> IF where = At(w) THEN send[w].next + 1 ELSE 1,
         got  |-> [send[w].got EXCEPT ![send[w].next] = @ + 1],
         lost |-> send[w].lost \/ (At(w) = "public" /\ where = "text")]]

\* A part is accepted; after the last one the answer is sent.
Accept(w) ==
    /\ At(w) \in {"public", "text"}
    /\ Deliver(w, IF send[w].next = Parts THEN "sent" ELSE At(w))

\* send_public_messages stops at the first error: with a part accepted the
\* answer stays cut off, with none it goes through WhatsApp from the start.
AfterChatwootErrorMutant(w) == "text"
AfterChatwootError(w) == IF send[w].next > 1 THEN "sent" ELSE "text"

ChatwootFails(w) ==
    /\ At(w) = "public"
    /\ Leave(w, AfterChatwootError(w)) \/ Deliver(w, AfterChatwootError(w))

\* send_text and the button calls raise at the first error.
WhatsAppFails(w) ==
    /\ At(w) \in {"text", "buttons"}
    /\ Leave(w, "failed") \/ Deliver(w, "failed")

AcceptButtons(w) ==
    /\ At(w) = "buttons"
    /\ Deliver(w, "sent")

SendStep(w) ==
    Lookup(w) \/ Accept(w) \/ AcceptButtons(w) \/ ChatwootFails(w) \/ WhatsAppFails(w)
=============================================================================
