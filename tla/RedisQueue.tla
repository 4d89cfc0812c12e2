----------------------------- MODULE RedisQueue -----------------------------
(***************************************************************************)
(* The Redis WhatsApp queue (RedisWhatsAppQueue) under the worker loop of   *)
(* WhatsAppWorkerManager, in whatsapp/queue.py.                             *)
(*                                                                         *)
(* A queue method is several Redis commands sent from an executor thread,   *)
(* so every command (or MULTI/EXEC pipeline) is one step, and the webhook's *)
(* enqueue threads and the workers interleave between commands.  The keys   *)
(* survive a crash of the service, the threads do not.                      *)
(*                                                                         *)
(* Time is abstracted to what may have passed: a sleep ends, a flag expires *)
(* and a message grows stale at any moment.  A lock expires only once its    *)
(* owner is gone: that no run outlasts the 120 s of its lock is assumed.    *)
(* Which of the rows read fall in the batch window is left open for the     *)
(* same reason: MemoryQueue has the times.                                 *)
(*                                                                         *)
(* A definition named ...Mutant is a deliberate mistake that PROJECT.json   *)
(* puts in the place of the definition after it.                           *)
(***************************************************************************)
EXTENDS Naturals, Sequences, FiniteSets, SequencesExt

CONSTANTS
    Leads, Messages, LeadOf, Workers, NoLead,   \* as in MemoryQueue
    MaxFaults   \* bound of the crashes and of the commands that fail

ASSUME RedisAssumption ==
    /\ LeadOf \in [Messages -> Leads]
    /\ NoLead \notin Leads
    /\ MaxFaults \in Nat

VARIABLES
    stamp,      \* the order of enqueued_at: each message's arrival number
    old,        \* messages older than _stale_buffer_after_seconds
    sender,     \* where the enqueue thread of each message is
    dedupe,     \* message:<id> keys
    messages,   \* lead:<key>:messages lists
    flags,      \* lead:<key>:scheduled keys
    locks,      \* lead:<key>:lock keys
    stream,     \* the jobs of the stream nobody has read
    pc,         \* where each worker is
    job,        \* the local variable lead of each worker
    toScan,     \* the buffers each worker has listed and not yet looked at
    rows,       \* the rows each worker has read and not yet split
    batch,      \* the batch each worker runs
    settled,    \* messages whose run has ended, whatever its outcome
    faults      \* crashes and failed commands so far

senderVars == <<stamp, sender, dedupe>>
workerVars == <<pc, job, toScan, rows, batch>>
vars == <<senderVars, old, messages, flags, locks, stream, workerVars, settled, faults>>

Init ==
    /\ stamp = [m \in Messages |-> 0]
    /\ old = {}
    /\ sender = [m \in Messages |-> "none"]
    /\ dedupe = {}
    /\ messages = [l \in Leads |-> <<>>]
    /\ flags = {}
    /\ locks = {}
    /\ stream = <<>>
    /\ pc = [w \in Workers |-> "idle"]
    /\ job = [w \in Workers |-> NoLead]
    /\ toScan = [w \in Workers |-> {}]
    /\ rows = [w \in Workers |-> <<>>]
    /\ batch = [w \in Workers |-> {}]
    /\ settled = {}
    /\ faults = 0

-----------------------------------------------------------------------------
(* The webhook: _enqueue_sync, one action per command. *)

\* ensure_running: the workers whose task ended.
Missing == { w \in Workers : pc[w] = "dead" }

\* Every delivery starts the missing workers again (_spawn_missing_worker_tasks).
Revive == pc' = [w \in Workers |-> IF w \in Missing THEN "idle" ELSE pc[w]]

\* SET message:<id> NX succeeds; enqueued_at was taken just before.
Mark(m) ==
    /\ m \notin dedupe
    /\ Revive
    /\ dedupe' = dedupe \cup {m}
    /\ stamp' = [stamp EXCEPT ![m] = Cardinality(dedupe) + 1]
    /\ sender' = [sender EXCEPT ![m] = "push"]
    /\ UNCHANGED <<old, messages, flags, locks, stream, job, toScan, rows, batch, settled, faults>>

\* The key exists: "duplicate".
MarkFails(m) ==
    /\ m \in dedupe
    /\ Revive
    /\ UNCHANGED <<senderVars, old, messages, flags, locks, stream, job, toScan, rows, batch,
                   settled, faults>>

\* RPUSH messages.
Push(m) ==
    /\ sender[m] = "push"
    /\ messages' = [messages EXCEPT ![LeadOf[m]] = Append(@, m)]
    /\ sender' = [sender EXCEPT ![m] = "flag"]
    /\ UNCHANGED <<stamp, dedupe, old, flags, locks, stream, workerVars, settled, faults>>

\* SET scheduled NX EX: only the thread that sets the flag adds a job.
SetFlag(m) ==
    /\ sender[m] = "flag"
    /\ sender' = [sender EXCEPT ![m] = IF LeadOf[m] \in flags THEN "none" ELSE "add"]
    /\ flags' = flags \cup {LeadOf[m]}
    /\ UNCHANGED <<stamp, dedupe, old, messages, locks, stream, workerVars, settled, faults>>

\* XADD.
AddJob(m) ==
    /\ sender[m] = "add"
    /\ stream' = Append(stream, LeadOf[m])
    /\ sender' = [sender EXCEPT ![m] = "none"]
    /\ UNCHANGED <<stamp, dedupe, old, messages, flags, locks, workerVars, settled, faults>>

Enqueuing(m) == Push(m) \/ SetFlag(m) \/ AddJob(m)

-----------------------------------------------------------------------------
(* The worker loop. *)

Goto(w, x) == pc' = [pc EXCEPT ![w] = x]
Take(w, l) == job' = [job EXCEPT ![w] = l]
rest == <<senderVars, old, settled, faults>>

\* XREADGROUP and XACK: acknowledged before it is worked on, a job that dies
\* with its worker is never delivered again.
NextLead(w) ==
    /\ pc[w] = "idle"
    /\ stream # <<>>
    /\ stream' = Tail(stream)
    /\ Take(w, Head(stream))
    /\ Goto(w, "claimed")
    /\ UNCHANGED <<rest, toScan, messages, flags, locks, rows, batch>>

\* The scan for stale buffers: no worker has the lock and the first row is old.
IsStaleMutant(l) == messages[l] # <<>> /\ l \notin locks /\ l \notin flags
IsStale(l) == messages[l] # <<>> /\ l \notin locks /\ Head(messages[l]) \in old

\* XREADGROUP times out: SCAN lists the buffers that exist,
ScanStart(w) ==
    /\ pc[w] = "idle"
    /\ stream = <<>>
    /\ toScan' = [toScan EXCEPT ![w] = {l \in Leads : messages[l] # <<>>}]
    /\ Goto(w, "scan")
    /\ UNCHANGED <<rest, messages, flags, locks, stream, job, rows, batch>>

\* and each is looked at once: it is passed over,
ScanSkip(w, l) ==
    /\ pc[w] = "scan"
    /\ l \in toScan[w]
    /\ ~IsStale(l)
    /\ toScan' = [toScan EXCEPT ![w] = @ \ {l}]
    /\ UNCHANGED <<rest, messages, flags, locks, stream, pc, job, rows, batch>>

\* or found stale,
ScanFind(w, l) ==
    /\ pc[w] = "scan"
    /\ l \in toScan[w]
    /\ IsStale(l)
    /\ toScan' = [toScan EXCEPT ![w] = @ \ {l}]
    /\ Take(w, l)
    /\ Goto(w, "flag")
    /\ UNCHANGED <<rest, messages, flags, locks, stream, rows, batch>>

\* and then SET scheduled and XADD follow, whatever has happened meanwhile.
ScanFlag(w) ==
    /\ pc[w] = "flag"
    /\ flags' = flags \cup {job[w]}
    /\ Goto(w, "add")
    /\ UNCHANGED <<rest, toScan, messages, locks, stream, job, rows, batch>>

ScanAddJob(w) ==
    /\ pc[w] = "add"
    /\ stream' = Append(stream, job[w])
    /\ Take(w, NoLead)
    /\ Goto(w, "scan")
    /\ UNCHANGED <<rest, toScan, messages, flags, locks, rows, batch>>

ScanEnd(w) ==
    /\ pc[w] = "scan"
    /\ toScan[w] = {}
    /\ Goto(w, "idle")
    /\ UNCHANGED <<rest, toScan, messages, flags, locks, stream, job, rows, batch>>

\* SET lock NX EX.
LockFreeMutant(l) == TRUE
LockFree(l) == l \notin locks

Acquire(w) ==
    /\ pc[w] = "claimed"
    /\ LockFree(job[w])
    /\ locks' = locks \cup {job[w]}
    /\ Goto(w, "window")
    /\ UNCHANGED <<rest, toScan, messages, flags, stream, job, rows, batch>>

AcquireFails(w) ==
    /\ pc[w] = "claimed"
    /\ ~LockFree(job[w])
    /\ Goto(w, "backoff")
    /\ UNCHANGED <<rest, toScan, messages, flags, locks, stream, job, rows, batch>>

\* reschedule: XADD, without looking at the flag.
Reschedule(w) ==
    /\ pc[w] = "backoff"
    /\ stream' = Append(stream, job[w])
    /\ Take(w, NoLead)
    /\ Goto(w, "idle")
    /\ UNCHANGED <<rest, toScan, messages, flags, locks, rows, batch>>

\* _collect_batch_sync after the window: LRANGE,
Read(w) ==
    /\ pc[w] = "window"
    /\ rows' = [rows EXCEPT ![w] = messages[job[w]]]
    /\ Goto(w, "delete")
    /\ UNCHANGED <<rest, toScan, messages, flags, locks, stream, job, batch>>

\* Mutant: the DEL is dropped, and what is collected stays in the list.
DeleteMutant(w) ==
    /\ pc[w] = "delete"
    /\ Goto(w, "unflag")
    /\ UNCHANGED <<rest, toScan, messages, flags, locks, stream, job, rows, batch>>

\* DEL messages, with whatever was pushed since LRANGE,
Delete(w) ==
    /\ pc[w] = "delete"
    /\ messages' = [messages EXCEPT ![job[w]] = <<>>]
    /\ Goto(w, "unflag")
    /\ UNCHANGED <<rest, toScan, flags, locks, stream, job, rows, batch>>

\* DEL scheduled,
Unflag(w) ==
    /\ pc[w] = "unflag"
    /\ flags' = flags \ {job[w]}
    /\ Goto(w, "split")
    /\ UNCHANGED <<rest, toScan, messages, locks, stream, job, rows, batch>>

\* split_batch_by_window: the oldest rows, the first at least,
Batches(S) ==
    {B \in SUBSET S : (S = {} \/ B # {}) /\ \A m \in B, n \in S \ B : stamp[m] < stamp[n]}

\* and, when some rows are left, the pipeline that pushes them back in order
\* under a new flag and a new job.
ByArrival(R) ==
    [i \in 1..Cardinality(R) |-> CHOOSE m \in R : Cardinality({n \in R : stamp[n] <= stamp[m]}) = i]

PushBackMutant(l, R) == UNCHANGED <<messages, flags, stream>>
PushBack(l, R) ==
    IF R = {} THEN UNCHANGED <<messages, flags, stream>>
    ELSE /\ messages' = [messages EXCEPT ![l] = @ \o ByArrival(R)]
         /\ flags' = flags \cup {l}
         /\ stream' = Append(stream, l)

\* release_lead_lock: DEL lock, whoever set it.
Release(w) ==
    /\ locks' = locks \ {job[w]}
    /\ Take(w, NoLead)
    /\ Goto(w, "idle")

Split(w) ==
    /\ pc[w] = "split"
    /\ rows' = [rows EXCEPT ![w] = <<>>]
    /\ \E B \in Batches(ToSet(rows[w])) :
          /\ PushBack(job[w], ToSet(rows[w]) \ B)
          /\ batch' = [batch EXCEPT ![w] = B]
          /\ IF B = {} THEN Release(w) ELSE Goto(w, "running") /\ UNCHANGED <<locks, job>>
    /\ UNCHANGED <<rest, toScan>>

\* The run ends, well or badly, and the lock is deleted.
FinishRun(w) ==
    /\ pc[w] = "running"
    /\ settled' = settled \cup batch[w]
    /\ batch' = [batch EXCEPT ![w] = {}]
    /\ Release(w)
    /\ UNCHANGED <<senderVars, old, toScan, messages, flags, stream, rows, faults>>

WorkerStep(w) ==
    \/ NextLead(w)
    \/ ScanStart(w)
    \/ \E l \in Leads : ScanSkip(w, l) \/ ScanFind(w, l)
    \/ ScanFlag(w)
    \/ ScanAddJob(w)
    \/ ScanEnd(w)
    \/ Acquire(w)
    \/ AcquireFails(w)
    \/ Reschedule(w)
    \/ Read(w)
    \/ Delete(w)
    \/ Unflag(w)
    \/ Split(w)
    \/ FinishRun(w)

-----------------------------------------------------------------------------
(* Faults and time. *)

Fault == faults < MaxFaults /\ faults' = faults + 1

\* The service dies and starts again: only what is in Redis remains.
Crash ==
    /\ Fault
    /\ sender' = [m \in Messages |-> "none"]
    /\ pc' = [w \in Workers |-> "idle"]
    /\ job' = [w \in Workers |-> NoLead]
    /\ toScan' = [w \in Workers |-> {}]
    /\ rows' = [w \in Workers |-> <<>>]
    /\ batch' = [w \in Workers |-> {}]
    /\ UNCHANGED <<stamp, dedupe, old, messages, flags, locks, stream, settled>>

\* A command of _enqueue_sync raises: the webhook answers with an error.
EnqueueFails(m) ==
    /\ sender[m] # "none"
    /\ Fault
    /\ sender' = [sender EXCEPT ![m] = "none"]
    /\ UNCHANGED <<stamp, dedupe, old, messages, flags, locks, stream, workerVars, settled>>

\* A command of the scan raises: the buffer is passed over.
ScanFails(w) ==
    /\ pc[w] \in {"flag", "add"}
    /\ Fault
    /\ Take(w, NoLead)
    /\ Goto(w, "scan")
    /\ UNCHANGED <<senderVars, old, toScan, messages, flags, locks, stream, rows, batch, settled>>

\* A command of _collect_batch_sync raises: the worker logs it, with what it has
\* read, and the finally clause deletes the lock.
CollectFails(w) ==
    /\ pc[w] \in {"window", "delete", "unflag", "split"}
    /\ Fault
    /\ rows' = [rows EXCEPT ![w] = <<>>]
    /\ Release(w)
    /\ UNCHANGED <<senderVars, old, toScan, messages, flags, stream, batch, settled>>

\* A command outside of the try block raises, or the one of its finally clause:
\* the worker task ends, with the job it has acknowledged.
WorkerDies(w) ==
    /\ pc[w] \in {"idle", "claimed", "backoff", "running"}
    /\ Fault
    /\ settled' = settled \cup batch[w]
    /\ batch' = [batch EXCEPT ![w] = {}]
    /\ Take(w, NoLead)
    /\ Goto(w, "dead")
    /\ UNCHANGED <<senderVars, old, toScan, messages, flags, locks, stream, rows>>

GrowOld(m) ==
    /\ m \in dedupe \ old
    /\ old' = old \cup {m}
    /\ UNCHANGED <<senderVars, messages, flags, locks, stream, workerVars, settled, faults>>

FlagExpires(l) ==
    /\ l \in flags
    /\ flags' = flags \ {l}
    /\ UNCHANGED <<rest, messages, locks, stream, workerVars>>

OwnsLock(w) == pc[w] \in {"window", "delete", "unflag", "split", "running"}

LockExpires(l) ==
    /\ l \in locks
    /\ \A w \in Workers : ~(OwnsLock(w) /\ job[w] = l)
    /\ locks' = locks \ {l}
    /\ UNCHANGED <<rest, messages, flags, stream, workerVars>>

Next ==
    \/ \E m \in Messages : Mark(m) \/ MarkFails(m) \/ Enqueuing(m) \/ EnqueueFails(m) \/ GrowOld(m)
    \/ \E w \in Workers : WorkerStep(w) \/ ScanFails(w) \/ CollectFails(w) \/ WorkerDies(w)
    \/ \E l \in Leads : FlagExpires(l) \/ LockExpires(l)
    \/ Crash

Spec == Init /\ [][Next]_vars

\* Threads that have started run on, workers loop and time passes; nothing
\* says that a message must arrive or that a fault must happen.
Fairness ==
    /\ \A m \in Messages : WF_vars(Enqueuing(m)) /\ WF_vars(GrowOld(m))
    /\ \A l \in Leads : WF_vars(LockExpires(l))
    /\ \A w \in Workers : WF_vars(WorkerStep(w))

FairSpec == Spec /\ Fairness

-----------------------------------------------------------------------------
(* Properties. *)

PCs == {"idle", "dead", "scan", "flag", "add", "claimed", "backoff", "window", "delete", "unflag", "split", "running"}

TypeOK ==
    /\ stamp \in [Messages -> Nat]
    /\ old \subseteq dedupe /\ dedupe \subseteq Messages
    /\ sender \in [Messages -> {"none", "push", "flag", "add"}]
    /\ messages \in [Leads -> Seq(Messages)]
    /\ flags \subseteq Leads /\ locks \subseteq Leads
    /\ stream \in Seq(Leads)
    /\ pc \in [Workers -> PCs]
    /\ job \in [Workers -> Leads \cup {NoLead}]
    /\ \A w \in Workers : pc[w] \in {"idle", "dead", "scan"} <=> job[w] = NoLead
    /\ toScan \in [Workers -> SUBSET Leads]
    /\ rows \in [Workers -> Seq(Messages)]
    /\ batch \in [Workers -> SUBSET Messages]
    /\ settled \subseteq Messages
    /\ faults \in 0..MaxFaults

Buffered == UNION {ToSet(messages[l]) : l \in Leads}
InHand == UNION {ToSet(rows[w]) \cup batch[w] : w \in Workers}
Unsent == {m \in Messages : sender[m] = "push"}

\* As long as no run outlasts its lock, two runs are never of one lead and no
\* message gets two answers, even when the scan for stale buffers queues a
\* second job for a lead, when locks are left behind by a dead worker and
\* expire, or when Meta delivers a message again.
OneRunPerLead ==
    \A v, w \in Workers : v # w => \A m \in batch[v], n \in batch[w] : LeadOf[m] # LeadOf[n]
RunOnce ==
    /\ \A w \in Workers : batch[w] \cap (settled \cup Buffered \cup Unsent) = {}
    /\ settled \cap Buffered = {}
    /\ \A v, w \in Workers : v # w => ToSet(rows[v]) \cap (ToSet(rows[w]) \cup batch[w]) = {}

\* Messages that were answered "queued" and are nowhere any more.
Lost == dedupe \ (Unsent \cup Buffered \cup InHand \cup settled)

\* Each loss has one of two causes: a crash or a command that fails, or a push
\* that falls between the LRANGE and the DEL of a worker that collects the
\* lead.  No other order of commands loses a message.
LossNeedsRaceOrFault ==
    [][\A m \in Messages : m \in Lost' /\ m \notin Lost =>
          \/ faults' # faults
          \/ \E w \in Workers : /\ pc[w] = "delete" /\ pc'[w] # "delete"
                                /\ m \in ToSet(messages[job[w]])
                                /\ m \notin ToSet(rows[w])]_vars

\* README, "Background workers process queued batches": no message is lost
\* when nothing crashes and no command fails.
NothingLost == Lost = {}

\* A message that was answered "queued" is run in the end or lost as above,
\* although jobs are acknowledged before they are worked on, flags outlive
\* their jobs, locks outlive their workers and a job whose lead is locked is
\* put back: the scan for stale buffers makes up for all of it.
RunOrLost == \A m \in Messages : m \in dedupe ~> m \in settled \cup Lost

\* What the queue promises in the abstract: BestEffort, where a message waits from
\* SET message:<id> to the start of its run, wherever it is in between.  However
\* the commands interleave, expire and fail, an accepted message is never accepted
\* again, a lost one never comes back, and a batch is never changed while it runs.
Waiting == Unsent \cup Buffered \cup UNION {ToSet(rows[w]) : w \in Workers}
Running == UNION {batch[w] : w \in Workers}

Promise == INSTANCE BestEffort WITH
    waiting <- Waiting,
    running <- [l \in Leads |-> {m \in Running : LeadOf[m] = l}],
    lost <- Lost

ImplementsPromise == Promise!Spec

=============================================================================
