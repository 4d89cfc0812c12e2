------------------------------- MODULE RunLog -------------------------------
(***************************************************************************)
(* The log of the runs in the platform: the rows of runs and run_events, and *)
(* the daemon threads that write them (PlatformObservabilityService in       *)
(* platform/observability.py).                                              *)
(*                                                                         *)
(* start_run_async, update_run_async and add_event_async each start a thread  *)
(* and return: nothing orders the threads of a run.  An event refers to the   *)
(* run's row, so inserting it before the row is a conflict, retried three     *)
(* times.  An update of a row that is not there changes nothing and says so   *)
(* to nobody.  That a thread can be started is assumed.                       *)
(*                                                                         *)
(* Of the events of a run two are kept: "opened" stands for those added       *)
(* before the agent runs, "closed" for the last one.                        *)
(***************************************************************************)
EXTENDS Naturals

CONSTANTS
    Runs,       \* the ids start_run_async makes
    Retries     \* len(TRANSIENT_CONFLICT_RETRY_DELAYS)

ASSUME RunLogAssumption == Retries \in Nat

VARIABLES
    row,        \* status of the runs row, "absent" before the insert
    create,     \* the insert: not started, the status to insert, or over
    update,     \* the update: not started, the status to set, or what became of it
    event,      \* the events: not started, pending, or what became of them
    conflicts   \* conflicts each event has met

logVars == <<row, create, update, event, conflicts>>
eventVars == <<event, conflicts>>

Statuses == {"running", "cancelled", "success", "failed"}
Finished == {"cancelled", "success", "failed"}
EventTypes == {"opened", "closed"}

LogInit ==
    /\ row = [r \in Runs |-> "absent"]
    /\ create = [r \in Runs |-> "none"]
    /\ update = [r \in Runs |-> "none"]
    /\ event = [r \in Runs |-> [e \in EventTypes |-> "none"]]
    /\ conflicts = [r \in Runs |-> [e \in EventTypes |-> 0]]

LogTypeOK ==
    /\ row \in [Runs -> {"absent"} \cup Statuses]
    /\ create \in [Runs -> {"none", "running", "cancelled", "over"}]
    /\ update \in [Runs -> {"none", "success", "failed", "done", "missed", "lost"}]
    /\ event \in [Runs -> [EventTypes -> {"none", "pending", "recorded", "dropped"}]]
    /\ conflicts \in [Runs -> [EventTypes -> 0..Retries]]

-----------------------------------------------------------------------------
(* What the caller does: it starts threads. *)

StartCreate(r, status) == create' = [create EXCEPT ![r] = status]
StartUpdate(r, status) == update' = [update EXCEPT ![r] = status]
StartEvents(r, es) ==
    event' = [event EXCEPT ![r] = [e \in EventTypes |-> IF e \in es THEN "pending" ELSE @[e]]]

-----------------------------------------------------------------------------
(* What the threads do. *)

\* create_run: the insert succeeds, or it fails and is only logged.
CreateRun(r) ==
    /\ create[r] \in {"running", "cancelled"}
    /\ create' = [create EXCEPT ![r] = "over"]
    /\ \/ row' = [row EXCEPT ![r] = create[r]]
       \/ UNCHANGED row
    /\ UNCHANGED <<update, eventVars>>

\* update_run: the rows with this id, one or none, get the status.
UpdateRowsMutant(r) == row' = [row EXCEPT ![r] = update[r]]
UpdateRows(r) ==
    row' = IF row[r] = "absent" THEN row ELSE [row EXCEPT ![r] = update[r]]

UpdateRun(r) ==
    /\ update[r] \in {"success", "failed"}
    /\ \/ /\ UpdateRows(r)
          /\ update' = [update EXCEPT ![r] = IF row[r] = "absent" THEN "missed" ELSE "done"]
       \/ /\ update' = [update EXCEPT ![r] = "lost"]
          /\ UNCHANGED row
    /\ UNCHANGED <<create, eventVars>>

\* One attempt of _add_event_best_effort is the last one ...
EndEvent(r, e, outcome) ==
    /\ event' = [event EXCEPT ![r][e] = outcome]
    /\ conflicts' = [conflicts EXCEPT ![r][e] = 0]
    /\ UNCHANGED <<row, create, update>>

RecordEvent(r, e) ==
    /\ event[r][e] = "pending"
    /\ row[r] # "absent"
    /\ EndEvent(r, e, "recorded")

\* ... also when it fails otherwise than by a conflict, or too often ...
DropEvent(r, e) ==
    /\ event[r][e] = "pending"
    /\ EndEvent(r, e, "dropped")

\* ... or it meets a conflict and will be repeated.
MayRetry(r, e) == conflicts[r][e] < Retries

RetryEvent(r, e) ==
    /\ event[r][e] = "pending"
    /\ row[r] = "absent"
    /\ MayRetry(r, e)
    /\ conflicts' = [conflicts EXCEPT ![r][e] = @ + 1]
    /\ UNCHANGED <<row, create, update, event>>

\* The process dies with its threads.
KillThreads ==
    /\ create' = [r \in Runs |-> IF create[r] = "none" THEN "none" ELSE "over"]
    /\ update' = [r \in Runs |-> IF update[r] \in {"success", "failed"} THEN "lost"
                                 ELSE update[r]]
    /\ event' = [r \in Runs |-> [e \in EventTypes |->
                    IF event[r][e] = "pending" THEN "dropped" ELSE event[r][e]]]
    /\ conflicts' = [r \in Runs |-> [e \in EventTypes |-> 0]]
    /\ UNCHANGED row

EventStep(r, e) == RecordEvent(r, e) \/ DropEvent(r, e) \/ RetryEvent(r, e)
ThreadStep(r) == CreateRun(r) \/ UpdateRun(r) \/ \E e \in EventTypes : EventStep(r, e)
=============================================================================
