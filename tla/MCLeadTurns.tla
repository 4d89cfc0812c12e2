---------------------------- MODULE MCLeadTurns ----------------------------
(***************************************************************************)
(* A small instance of LeadTurns, in five settings chosen at the start:      *)
(*   "queue":   workers and /chat with a database, every fault, lost locks;   *)
(*   "webhook": redeliveries without a queue, with a database, every fault;     *)
(*   "memory":  no database, Redis failing; three deliveries, turn after turn;   *)
(*   "overlap": no database, Redis failing; two deliveries whose turns overlap;   *)
(*   "events":  turns without faults, the threads of their events with all.        *)
(* Outside of "events" a thread has nothing to send and ends at once.  Only the      *)
(* clicks tell messages apart: away from "webhook" the first one that comes is m1.    *)
(***************************************************************************)
EXTENDS LeadTurns, TLC

CONSTANTS m1, m2, m3, c1, c2

VARIABLE setting

MCMessages == {m1, m2, m3}
MCClick == [m \in MCMessages |-> CASE m = m1 -> c1 [] m = m2 -> c2 [] m = m3 -> NoClick]
MCEventOrder == <<"LeadSubmitted", "QualifiedLead">>

NoDatabase == {"memory", "overlap"}

MCInit ==
    /\ Init
    /\ setting \in {"queue", "webhook", "memory", "overlap", "events"}
    /\ enabled = (setting \notin NoDatabase)
    /\ queued = (setting = "queue")
    /\ redisUrl => setting \in NoDatabase
    /\ configured => setting = "events"

AtMost(n) == Cardinality({t \in Turns : turn'[t].at # "idle"}) <= n
Total == deliveries'[m1] + deliveries'[m2] + deliveries'[m3]
NoThread == \A h \in Threads : thread[h].at = "idle"

\* With a database nobody reads the memory store, so its steps go first.
StoreFirst == \A t \in Turns : turn[t].at \in {"ring user", "ring answer"} => turn'[t] # turn[t]

\* A turn shares nothing with the threads before it sends: every turn comes to
\* its sending, one by one, before the first thread starts.
InStage(t) == turn'[t].at \notin {"idle", "send"}
TurnsFirst ==
    \/ UNCHANGED <<turn, sent>>
    \/ sent' # sent
    \/ NoThread /\ Cardinality({t \in Turns : InStage(t)}) <= 1
FirstIsM1 == deliveries'[m1] = 0 => deliveries'[m2] = 0
InOneOrder == FirstIsM1 /\ (deliveries'[m2] = 0 => deliveries'[m3] = 0)

Symmetry == Permutations(Turns) \cup Permutations(Threads)

MCNext ==
    /\ Next
    /\ setting' = setting
    /\ setting \in {"queue", "webhook"} => StoreFirst
    /\ Cardinality(faulty') <= 1
    /\ setting # "events" =>
         /\ NoThread \/ UNCHANGED turn
         /\ \A h \in Threads : Cardinality(thread'[h].todo) <= 1
         /\ storeFailed' = {}
    /\ setting = "queue" =>
         /\ FirstIsM1
         /\ chatted' \subseteq {m3}
         /\ AtMost(IF chatted' = {} THEN 3 ELSE 2)
         /\ faulty' = faulty \/ AtMost(0)
    /\ setting # "queue" => chatted' = {}
    /\ setting = "webhook" => AtMost(2) /\ deliveries'[m3] = 0
    /\ setting = "memory" => AtMost(1) /\ Total <= 3 /\ InOneOrder
    /\ setting = "overlap" => AtMost(2) /\ Total <= 2 /\ InOneOrder
    /\ setting = "events" =>
         TurnsFirst /\ faulty' = {} /\ InOneOrder /\ \A m \in Messages : deliveries'[m] <= 1

MCSpec == MCInit /\ [][MCNext]_<<vars, setting>>
=============================================================================
