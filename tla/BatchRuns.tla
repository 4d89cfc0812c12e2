----------------------------- MODULE BatchRuns -----------------------------
(***************************************************************************)
(* A batch and its run on the platform: _process_batch_sync                  *)
(* (whatsapp/queue.py) resolves the runtime, opens a run in the log, leaves  *)
(* the batch when the agent is disabled, runs the agent, sends its answer and *)
(* closes the run.  PlatformRuntime, RunLog and Outbound composed, with the   *)
(* agent's turn as one step that answers or raises.                          *)
(***************************************************************************)
EXTENDS PlatformRuntime, RunLog, Outbound

CONSTANT NoRun  \* the run_id of a batch whose start_run failed

ASSUME BatchAssumption == NoRun \notin Runs /\ Senders = Workers

VARIABLES
    run,        \* run_id of each worker's batch
    outcome,    \* how the batch of each run ended, "none" before that
    reached     \* how much of the answer of each run the lead got

vars == <<runtimeVars, logVars, send, run, outcome, reached>>
batchVars == <<run, outcome, reached>>

Init ==
    /\ RuntimeInit
    /\ LogInit
    /\ SendInit
    /\ run = [w \in Workers |-> NoRun]
    /\ outcome = [r \in Runs |-> "none"]
    /\ reached = [r \in Runs |-> "nothing"]

NewRun(r) == create[r] = "none"

\* start_run for an enabled agent, and the events before the agent runs.
StartRun(w, r) ==
    /\ pc[w] = "resolved"
    /\ flag[w]
    /\ NewRun(r)
    /\ StartCreate(r, "running")
    /\ StartEvents(r, {"opened"})
    /\ run' = [run EXCEPT ![w] = r]
    /\ Goto(w, "agent")
    /\ UNCHANGED <<clock, rowVars, syncVars, cacheVars, resolveVars, row, update, conflicts,
                   send, outcome, reached>>

\* start_run failed: run_id is None and nothing of the run is logged.
StartUnlogged(w) ==
    /\ pc[w] = "resolved"
    /\ flag[w]
    /\ Goto(w, "agent")
    /\ UNCHANGED <<clock, rowVars, syncVars, cacheVars, resolveVars, logVars, send, batchVars>>

\* A disabled agent: a cancelled run, and the batch is left.
Skip(w, r) ==
    /\ pc[w] = "resolved"
    /\ ~flag[w]
    /\ NewRun(r)
    /\ StartCreate(r, "cancelled")
    /\ StartEvents(r, {"opened", "closed"})
    /\ outcome' = [outcome EXCEPT ![r] = "skipped"]
    /\ Idle(w)
    /\ UNCHANGED <<clock, rowVars, syncVars, cacheVars, row, update, conflicts, send, run,
                   reached>>

SkipUnlogged(w) ==
    /\ pc[w] = "resolved"
    /\ ~flag[w]
    /\ Idle(w)
    /\ UNCHANGED <<clock, rowVars, syncVars, cacheVars, logVars, send, batchVars>>

\* agent.invoke returned a response: a text, or buttons.
Answer(w) ==
    /\ pc[w] = "agent"
    /\ Goto(w, "sending")
    /\ StartSending(w) \/ StartButtons(w)
    /\ UNCHANGED <<clock, rowVars, syncVars, cacheVars, resolveVars, logVars, batchVars>>

Transmit(w) ==
    /\ pc[w] = "sending"
    /\ SendStep(w)
    /\ UNCHANGED <<runtimeVars, logVars, batchVars>>

\* How much the lead got of what the worker sends.
Reach(w) ==
    IF \A p \in 1..Parts : send[w].got[p] > 0 THEN "all"
    ELSE IF \E p \in 1..Parts : send[w].got[p] > 0 THEN "some" ELSE "nothing"

\* The update thread and the last event, in the try and in the except branch.
CloseRunMutant(w, r, status) ==
    IF status = "failed" THEN UNCHANGED update ELSE StartUpdate(r, status)
CloseRunLiar(w, r, status) == StartUpdate(r, "success")
CloseRun(w, r, status) == StartUpdate(r, status)

\* The run of the worker ends: nothing is logged when it has no id.
EndRun(w, status, how) ==
    /\ Idle(w)
    /\ StopSending(w)
    /\ run' = [run EXCEPT ![w] = NoRun]
    /\ UNCHANGED <<clock, rowVars, syncVars, cacheVars, row, create, conflicts>>
    /\ IF run[w] = NoRun
       THEN UNCHANGED <<update, event, outcome, reached>>
       ELSE /\ CloseRun(w, run[w], status)
            /\ StartEvents(run[w], {"closed"})
            /\ outcome' = [outcome EXCEPT ![run[w]] = how]
            /\ reached' = [reached EXCEPT ![run[w]] = Reach(w)]

CompleteRun(w) ==
    /\ pc[w] = "sending"
    /\ At(w) = "sent"
    /\ EndRun(w, "success", "sent")

\* The agent or the sending raised: the batch is dropped.
FailRun(w) ==
    /\ pc[w] = "agent" \/ (pc[w] = "sending" /\ At(w) = "failed")
    /\ EndRun(w, "failed", "raised")

\* The process dies: a run in progress will never be closed.
Crash ==
    /\ Restart
    /\ KillThreads
    /\ outcome' = [r \in Runs |-> IF \E w \in Workers : run[w] = r /\ pc[w] # "idle"
                                  THEN "crashed" ELSE outcome[r]]
    /\ run' = [w \in Workers |-> NoRun]
    /\ send' = [w \in Senders |-> NotSending]
    /\ UNCHANGED reached

WorkerStep(w) ==
    \/ ResolveStep(w) /\ UNCHANGED <<logVars, send, batchVars>>
    \/ StartUnlogged(w) \/ SkipUnlogged(w) \/ Answer(w) \/ Transmit(w)
    \/ CompleteRun(w) \/ FailRun(w)
    \/ \E r \in Runs : StartRun(w, r) \/ Skip(w, r)

LogStep(r) == ThreadStep(r) /\ UNCHANGED <<runtimeVars, send, batchVars>>

Next ==
    \/ PlatformStep /\ UNCHANGED <<logVars, send, batchVars>>
    \/ Crash
    \/ \E w \in Workers : WorkerStep(w)
    \/ \E r \in Runs : LogStep(r)

Spec == Init /\ [][Next]_vars

-----------------------------------------------------------------------------
(* Properties. *)

EntryOK(entry) == entry \in Entries \cup {NoEntry}

\* The types of the variables, and what each variable's values are tied to.
RuntimeTypeOK ==
    /\ clock \in 0..MaxTime
    /\ agent \in [there: BOOLEAN, enabled: BOOLEAN]
    /\ versionRow \in BOOLEAN
    /\ heldAt \in [BOOLEAN -> -1..MaxTime]
    /\ syncing \in {"none", "agent", "version"}
    /\ syncs \in 0..MaxSyncs
    /\ up \in BOOLEAN
    /\ cache \in [Resolvers -> Entries \cup {NoEntry}]
    /\ EntryOK(shared.entry)
    /\ pc \in [Workers -> PCs]
    /\ began \in [Workers -> 0..MaxTime]
    /\ found \in [Workers -> Entries \cup {NoEntry}]
    /\ flag \in [Workers -> BOOLEAN]
TypeOK ==
    /\ RuntimeTypeOK
    /\ LogTypeOK
    /\ SendTypeOK
    /\ run \in [Workers -> Runs \cup {NoRun}]
    /\ outcome \in [Runs -> {"none", "skipped", "sent", "raised", "crashed"}]
    /\ reached \in [Runs -> {"nothing", "some", "all"}]

\* A batch is run, or left, on a flag the platform held at most the cache's
\* time and the stale time before the batch's runtime was resolved
\* (observability.py:319-331): however late a slow fetch overwrites a newer
\* entry, and whichever process put the entry in Redis.
RuntimeRecent ==
    \A w \in Workers : pc[w] \in {"resolved", "agent", "sending"} =>
        heldAt[flag[w]] + Ttl + StaleFor >= began[w]

\* What the log says of a run is what happened to its batch: of a success the
\* lead got at least the beginning, a failure raised, a cancelled run never ran
\* (queue.py:523-674).
LogTellsTruth ==
    \A r \in Runs :
        /\ row[r] = "success" => outcome[r] = "sent" /\ reached[r] # "nothing"
        /\ row[r] = "failed" => outcome[r] = "raised"
        /\ row[r] = "cancelled" => outcome[r] = "skipped" /\ reached[r] = "nothing"

\* A run that is finished in the log stays as it is: no thread of the run, in
\* whatever order they write, reopens or changes it (observability.py:407-475).
FinishedIsFinal ==
    [][\A r \in Runs : row[r] \in Finished => row'[r] = row[r]]_vars

\* A batch that has ended while its row says running has an update under way,
\* unless the update was lost or had overtaken the insert (observability.py:505).
EndedRunIsClosed ==
    \A r \in Runs :
        outcome[r] \in {"sent", "raised"} /\ row[r] = "running"
            => update[r] \in {"success", "failed", "missed", "lost"}

\* The lead gets a beginning of the answer, in order, and no part twice, except
\* the first one when Chatwoot accepted it and its answer was lost: the fallback
\* then sends it again (queue.py:725-747).
AnswerOnce ==
    \A w \in Workers :
        /\ \A p \in 2..Parts : send[w].got[p] > 0 => send[w].got[p - 1] > 0
        /\ \A p \in 1..Parts : send[w].got[p] > 1 => p = 1 /\ send[w].lost
=============================================================================
