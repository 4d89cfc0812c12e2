---------------------------- MODULE BestEffort ----------------------------
(***************************************************************************)
(* What every WhatsApp queue with its worker pool promises, whichever of    *)
(* them the settings choose: a message is accepted once, waits, and joins   *)
(* one batch of its own lead, whose run has no other run of that lead       *)
(* beside it.  Messages may be lost while they wait, and a batch while it    *)
(* runs, but then as a whole and for good.  Nothing is said of the order.    *)
(* RedisQueue implements it, and MemoryQueue does without any loss.          *)
(***************************************************************************)
CONSTANTS
    Leads, Messages, LeadOf   \* as in LeadBatches

VARIABLES
    waiting,    \* accepted messages that are in no batch yet
    running,    \* the batch running for each lead, {} when there is none
    settled,    \* messages whose batch has ended
    lost        \* messages that will never be run to their end

vars == <<waiting, running, settled, lost>>

Running == UNION {running[l] : l \in Leads}

Init ==
    /\ waiting = {}
    /\ running = [l \in Leads |-> {}]
    /\ settled = {}
    /\ lost = {}

Accept(m) ==
    /\ m \notin waiting \cup Running \cup settled \cup lost
    /\ waiting' = waiting \cup {m}
    /\ UNCHANGED <<running, settled, lost>>

Start(l, B) ==
    /\ running[l] = {}
    /\ B # {}
    /\ B \subseteq waiting
    /\ \A m \in B : LeadOf[m] = l
    /\ waiting' = waiting \ B
    /\ running' = [running EXCEPT ![l] = B]
    /\ UNCHANGED <<settled, lost>>

\* The run ends; whether it succeeded is not the queue's concern.
Finish(l) ==
    /\ running[l] # {}
    /\ settled' = settled \cup running[l]
    /\ running' = [running EXCEPT ![l] = {}]
    /\ UNCHANGED <<waiting, lost>>

\* Messages that wait are lost.
Drop(S) ==
    /\ S \subseteq waiting
    /\ waiting' = waiting \ S
    /\ lost' = lost \cup S
    /\ UNCHANGED <<running, settled>>

\* The service dies with every run, and with messages that wait.
Die(S) ==
    /\ S \subseteq waiting
    /\ waiting' = waiting \ S
    /\ running' = [l \in Leads |-> {}]
    /\ lost' = lost \cup S \cup Running
    /\ UNCHANGED settled

Next ==
    \/ \E S \in SUBSET Messages : Drop(S) \/ Die(S)
    \/ \E m \in Messages : Accept(m)
    \/ \E l \in Leads, B \in SUBSET Messages : Start(l, B)
    \/ \E l \in Leads : Finish(l)

Spec == Init /\ [][Next]_vars
=============================================================================
