---------------------------- MODULE LeadBatches ----------------------------
(***************************************************************************)
(* What the WhatsApp queue and its worker pool promise together, with no    *)
(* buffers, locks, timers or workers: a message is accepted once, waits,    *)
(* joins one batch of its own lead, and the batch is run.  A lead has at    *)
(* most one batch running, and a batch never overtakes an older message of  *)
(* the same lead.  MemoryQueue implements it.                               *)
(***************************************************************************)
EXTENDS Naturals

CONSTANTS
    Leads,      \* lead keys: one per channel and phone number
    Messages,   \* WhatsApp message ids
    LeadOf,     \* the lead each message comes from
    Stamps      \* the arrival stamps, numbers

VARIABLES
    stamp,      \* the arrival stamp of each accepted message
    waiting,    \* accepted messages that are in no batch yet
    running,    \* the batch running for each lead, {} when there is none
    settled     \* messages whose batch has ended

vars == <<stamp, waiting, running, settled>>

Accepted == waiting \cup settled \cup UNION {running[l] : l \in Leads}

Init ==
    /\ stamp = [m \in Messages |-> 0]
    /\ waiting = {}
    /\ running = [l \in Leads |-> {}]
    /\ settled = {}

\* A message that was never seen gets a stamp no older than any other.
Accept(m) ==
    /\ m \notin Accepted
    /\ \E t \in Stamps :
          /\ \A n \in Accepted : stamp[n] <= t
          /\ stamp' = [stamp EXCEPT ![m] = t]
    /\ waiting' = waiting \cup {m}
    /\ UNCHANGED <<running, settled>>

\* A batch of the lead's oldest messages starts when none is running for it.
Start(l, B) ==
    /\ running[l] = {}
    /\ B # {}
    /\ B \subseteq waiting
    /\ \A m \in B : LeadOf[m] = l
    /\ \A m \in B, n \in waiting \ B : LeadOf[n] = l => stamp[m] <= stamp[n]
    /\ waiting' = waiting \ B
    /\ running' = [running EXCEPT ![l] = B]
    /\ UNCHANGED <<stamp, settled>>

\* The run ends; whether it succeeded is not the queue's concern.
Finish(l) ==
    /\ running[l] # {}
    /\ settled' = settled \cup running[l]
    /\ running' = [running EXCEPT ![l] = {}]
    /\ UNCHANGED <<stamp, waiting>>

Next ==
    \/ \E m \in Messages : Accept(m)
    \/ \E l \in Leads, B \in SUBSET Messages : Start(l, B)
    \/ \E l \in Leads : Finish(l)

Spec == Init /\ [][Next]_vars
=============================================================================
