---------------------------- MODULE MCBatchRuns ----------------------------
(***************************************************************************)
(* A small instance of BatchRuns, in two settings chosen at the start:       *)
(*   "runtime": both workers resolve while the platform, the clock, the      *)
(*              caches and the process change, and their runs are not logged; *)
(*   "log":     one batch at a time, its sending and its log, with every fault,  *)
(*              while the clock and the platform's rows stand still.           *)
(* The two have no variables to fight over but the runtime of a batch.        *)
(***************************************************************************)
EXTENDS BatchRuns, TLC

CONSTANTS w1, w2, workers

VARIABLE setting

MCWorkers == {w1, w2}
MCResolverOf == [w \in MCWorkers |-> workers]

Symmetry == Permutations(MCWorkers)

MCInit == Init /\ setting \in {"runtime", "log"}

\* What a worker does with a runtime meets nobody else, so it goes first.
ResolvedFirst == \A w \in MCWorkers : pc[w] \in {"resolved", "agent"} => pc'[w] # pc[w]

\* The last two instants are there for what was read before to grow old.
SettledEnd == clock >= MaxTime - 1 => UNCHANGED <<agent, versionRow, syncs>>

MCNext ==
    /\ Next
    /\ setting' = setting
    /\ setting = "runtime" => UNCHANGED <<create, send>> /\ ResolvedFirst /\ SettledEnd
    /\ setting = "log" => UNCHANGED <<clock, agent, versionRow, shared>> /\ \E w \in MCWorkers : pc'[w] = "idle"

MCSpec == MCInit /\ [][MCNext]_<<vars, setting>>
=============================================================================
