--------------------------- MODULE MCMemoryQueue ---------------------------
(* Small instances of MemoryQueue: two leads, the second with one message. Nothing *)
(* tells messages of a lead apart, so the first lead's come as m1, m2, m3.         *)
EXTENDS MemoryQueue, TLC

CONSTANTS m1, m2, m3, m4, l1, l2, w1, w2

MCMessages == {m1, m2, m3, m4}
MCLeads == {l1, l2}
MCLeadOf == m1 :> l1 @@ m2 :> l1 @@ m3 :> l1 @@ m4 :> l2

MCNext ==
    /\ Next
    /\ m2 \in dedupe' => m1 \in dedupe'
    /\ m3 \in dedupe' => m2 \in dedupe'

MCSpec == Init /\ [][MCNext]_vars /\ Fairness
=============================================================================
