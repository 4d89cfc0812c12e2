---------------------------- MODULE MemoryQueue ----------------------------
(***************************************************************************)
(* The in-memory WhatsApp queue (InMemoryWhatsAppQueue) and the worker pool *)
(* that drains it (WhatsAppWorkerManager), in whatsapp/queue.py.            *)
(*                                                                         *)
(* Every queue method runs under one asyncio mutex and never suspends while *)
(* holding it, so each is one step.  A worker is suspended between its      *)
(* awaits, so each stretch between two awaits is one step.  The executor    *)
(* thread that runs the agent (to_thread) is the batch of its worker: it    *)
(* outlives the worker when the manager stops.                              *)
(*                                                                         *)
(* Time is counted in ticks of 0.25 s, the slack of split_batch_by_window.  *)
(* Horizon bounds the clock: no message arrives at the horizon or after it, *)
(* while the sleeps of the workers still run down.                          *)
(*                                                                         *)
(* A definition named ...Mutant, Jobless or Untyped is a deliberate mistake *)
(* that PROJECT.json puts in the place of the definition after it.          *)
(***************************************************************************)
EXTENDS Naturals, Sequences

CONSTANTS
    Leads,      \* lead keys: one per channel and phone number
    Messages,   \* WhatsApp message ids
    LeadOf,     \* the lead each message comes from
    Workers,    \* the worker tasks, job_concurrency of them
    Window,     \* lead_batch_window_seconds, in ticks
    Slack,      \* the 0.25 s added to the cutoff, in ticks
    Backoff,    \* the 0.5 s slept when the lead is locked, in ticks
    Horizon,    \* bound of the clock
    NoLead      \* the job of a worker that has none

ASSUME QueueAssumption ==
    /\ LeadOf \in [Messages -> Leads]
    /\ Window \in Nat /\ Slack \in Nat /\ Backoff \in Nat /\ Horizon \in Nat
    /\ NoLead \notin Leads

VARIABLES
    clock,      \* time.time(), in ticks, up to Horizon
    enqueuedAt, \* QueuedWhatsAppMessage.enqueued_at
    dedupe,     \* _dedupe: message ids ever accepted
    buffers,    \* _buffers: messages waiting, per lead
    scheduled,  \* _scheduled: leads believed to have a job
    leadQueue,  \* _lead_queue: jobs, one lead each
    locks,      \* _locks: leads a worker owns
    pc,         \* where each worker is suspended
    job,        \* the local variable lead of each worker
    left,       \* ticks left of each worker's asyncio.sleep
    batch,      \* the batch in the executor thread of each worker
    settled,    \* messages whose run has ended, whatever its outcome
    stopping    \* _stopping

queueVars == <<enqueuedAt, dedupe, buffers, scheduled, leadQueue, locks>>
workerVars == <<pc, job, left, batch>>
vars == <<clock, queueVars, workerVars, settled, stopping>>

PCs == {"idle", "claimed", "backoff", "window", "running", "stopped"}

Init ==
    /\ clock = 0
    /\ enqueuedAt = [m \in Messages |-> 0]
    /\ dedupe = {}
    /\ buffers = [l \in Leads |-> {}]
    /\ scheduled = {}
    /\ leadQueue = <<>>
    /\ locks = {}
    /\ pc = [w \in Workers |-> "idle"]
    /\ job = [w \in Workers |-> NoLead]
    /\ left = [w \in Workers |-> 0]
    /\ batch = [w \in Workers |-> {}]
    /\ settled = {}
    /\ stopping = FALSE

-----------------------------------------------------------------------------
(* The webhook side. *)

\* The id of the message is not in _dedupe.
IsNewMutant(m) == TRUE
IsNew(m) == m \notin dedupe

\* A job is queued for a lead unless the lead is believed to have one.
Schedule(l) ==
    /\ scheduled' = scheduled \cup {l}
    /\ leadQueue' = IF l \in scheduled THEN leadQueue ELSE Append(leadQueue, l)

\* The first delivery of a message.
Enqueue(m) ==
    /\ clock < Horizon
    /\ IsNew(m)
    /\ dedupe' = dedupe \cup {m}
    /\ enqueuedAt' = [enqueuedAt EXCEPT ![m] = clock]
    /\ buffers' = [buffers EXCEPT ![LeadOf[m]] = @ \cup {m}]
    /\ Schedule(LeadOf[m])
    /\ UNCHANGED <<clock, locks, workerVars, settled, stopping>>

\* Meta delivers a message again: the answer is "duplicate".
Redeliver(m) ==
    /\ ~IsNew(m)
    /\ UNCHANGED vars

-----------------------------------------------------------------------------
(* The worker loop. *)

\* next_lead returns the oldest job; its time-outs only repeat the loop.
NextLead(w) ==
    /\ pc[w] = "idle"
    /\ leadQueue # <<>>
    /\ leadQueue' = Tail(leadQueue)
    /\ job' = [job EXCEPT ![w] = Head(leadQueue)]
    /\ pc' = [pc EXCEPT ![w] = "claimed"]
    /\ UNCHANGED <<clock, enqueuedAt, dedupe, buffers, scheduled, locks, left, batch,
                   settled, stopping>>

\* acquire_lead_lock: whether the lead of the job is free.
LockFreeMutant(w) == TRUE
LockFree(w) == job[w] \notin locks

\* The sleep between taking the lock and collecting the batch.
BatchSleepMutant == 0
BatchSleep == Window

\* acquire_lead_lock succeeds and the batch window starts.
Acquire(w) ==
    /\ pc[w] = "claimed"
    /\ LockFree(w)
    /\ locks' = locks \cup {job[w]}
    /\ pc' = [pc EXCEPT ![w] = "window"]
    /\ left' = [left EXCEPT ![w] = BatchSleep]
    /\ UNCHANGED <<clock, enqueuedAt, dedupe, buffers, scheduled, leadQueue, job, batch,
                   settled, stopping>>

\* acquire_lead_lock fails: the worker sleeps before it puts the job back.
AcquireFails(w) ==
    /\ pc[w] = "claimed"
    /\ ~LockFree(w)
    /\ pc' = [pc EXCEPT ![w] = "backoff"]
    /\ left' = [left EXCEPT ![w] = Backoff]
    /\ UNCHANGED <<clock, queueVars, job, batch, settled, stopping>>

\* reschedule puts the job back only when the lead is not in _scheduled.
Reschedule(w) ==
    /\ pc[w] = "backoff"
    /\ left[w] = 0
    /\ Schedule(job[w])
    /\ pc' = [pc EXCEPT ![w] = "idle"]
    /\ job' = [job EXCEPT ![w] = NoLead]
    /\ UNCHANGED <<clock, enqueuedAt, dedupe, buffers, locks, left, batch, settled, stopping>>

\* split_batch_by_window: a message joins the batch when it came no later
\* than Window + Slack after every message of the buffer, hence the first.
BatchOfMutant(S) == {m \in S : \A n \in S : enqueuedAt[n] <= enqueuedAt[m] + Window + Slack}
BatchOf(S) == {m \in S : \A n \in S : enqueuedAt[m] <= enqueuedAt[n] + Window + Slack}

\* What came after the window stays buffered under a new job.
LeftoverJobless(l, rest) == scheduled' = scheduled \ {l} /\ UNCHANGED leadQueue
Leftover(l, rest) ==
    IF rest = {} THEN scheduled' = scheduled \ {l} /\ UNCHANGED leadQueue
                 ELSE scheduled' = scheduled \cup {l} /\ leadQueue' = Append(leadQueue, l)

\* The finally clause, then back to the head of the loop.
ReleaseMutant(w) ==
    /\ pc' = [pc EXCEPT ![w] = "idle"]
    /\ job' = [job EXCEPT ![w] = NoLead]
    /\ UNCHANGED locks
Release(w) ==
    /\ pc' = [pc EXCEPT ![w] = "idle"]
    /\ job' = [job EXCEPT ![w] = NoLead]
    /\ locks' = locks \ {job[w]}

\* collect_batch once the window is over; the batch, if there is one, goes to
\* an executor thread.
Collect(w) ==
    LET l == job[w]
        B == BatchOf(buffers[l])
        rest == buffers[l] \ B
    IN  /\ pc[w] = "window"
        /\ left[w] = 0
        /\ buffers' = [buffers EXCEPT ![l] = rest]
        /\ Leftover(l, rest)
        /\ batch' = [batch EXCEPT ![w] = B]
        /\ IF B = {} THEN Release(w)
                     ELSE pc' = [pc EXCEPT ![w] = "running"] /\ UNCHANGED <<locks, job>>
        /\ UNCHANGED <<clock, enqueuedAt, dedupe, left, settled, stopping>>

\* The agent run returns or raises: either way the batch is gone.
FinishRun(w) ==
    /\ pc[w] = "running"
    /\ settled' = settled \cup batch[w]
    /\ batch' = [batch EXCEPT ![w] = {}]
    /\ Release(w)
    /\ UNCHANGED <<clock, enqueuedAt, dedupe, buffers, scheduled, leadQueue, left, stopping>>

\* The executor thread of a cancelled worker runs to its end all the same.
FinishOrphan(w) ==
    /\ pc[w] = "stopped"
    /\ batch[w] # {}
    /\ settled' = settled \cup batch[w]
    /\ batch' = [batch EXCEPT ![w] = {}]
    /\ UNCHANGED <<clock, queueVars, pc, job, left, stopping>>

-----------------------------------------------------------------------------
(* The manager and the clock. *)

\* stop cancels every worker; the finally clause of each releases its lock.
Stop ==
    /\ ~stopping
    /\ stopping' = TRUE
    /\ locks' = locks \ {job[w] : w \in {x \in Workers : pc[x] \in {"window", "running"}}}
    /\ pc' = [w \in Workers |-> "stopped"]
    /\ job' = [w \in Workers |-> NoLead]
    /\ left' = [w \in Workers |-> 0]
    /\ UNCHANGED <<clock, enqueuedAt, dedupe, buffers, scheduled, leadQueue, batch, settled>>

Tick ==
    /\ clock < Horizon \/ \E w \in Workers : left[w] > 0
    /\ clock' = IF clock < Horizon THEN clock + 1 ELSE clock
    /\ left' = [w \in Workers |-> IF left[w] > 0 THEN left[w] - 1 ELSE 0]
    /\ UNCHANGED <<queueVars, pc, job, batch, settled, stopping>>

WorkerStep(w) ==
    \/ NextLead(w)
    \/ Acquire(w)
    \/ AcquireFails(w)
    \/ Reschedule(w)
    \/ Collect(w)
    \/ FinishRun(w)
    \/ FinishOrphan(w)

Next ==
    \/ \E m \in Messages : Enqueue(m) \/ Redeliver(m)
    \/ \E w \in Workers : WorkerStep(w)
    \/ Stop
    \/ Tick

Spec == Init /\ [][Next]_vars

\* The event loop runs every ready task, threads end and time passes; nothing
\* says that a message must arrive or that the service is ever stopped.
Fairness == WF_vars(Tick) /\ \A w \in Workers : WF_vars(WorkerStep(w))

FairSpec == Spec /\ Fairness

-----------------------------------------------------------------------------
(* Properties. *)

TypeOK ==
    /\ clock \in 0..Horizon
    /\ enqueuedAt \in [Messages -> 0..Horizon]
    /\ dedupe \subseteq Messages
    /\ buffers \in [Leads -> SUBSET Messages]
    /\ scheduled \subseteq Leads
    /\ leadQueue \in Seq(Leads)
    /\ locks \subseteq Leads
    /\ pc \in [Workers -> PCs]
    /\ job \in [Workers -> Leads \cup {NoLead}]
    /\ left \in [Workers -> Nat]
    /\ batch \in [Workers -> SUBSET Messages]
    /\ settled \subseteq Messages
    /\ stopping \in BOOLEAN

Buffered == UNION {buffers[l] : l \in Leads}
Running == UNION {batch[w] : w \in Workers}

\* Every message that was answered "queued" is in exactly one place: a buffer,
\* one running batch, or the past.  None is lost and none is run twice, not
\* even when Meta delivers it again or the manager stops.
Accounted ==
    /\ dedupe = Buffered \cup Running \cup settled
    /\ Buffered \cap Running = {}
    /\ Buffered \cap settled = {}
    /\ Running \cap settled = {}
    /\ \A v, w \in Workers : v # w => batch[v] \cap batch[w] = {}

\* Two agent runs never work for one lead at the same time: this is what the
\* lead lock is for, and it survives stop, which frees the lock of a thread
\* that still runs.
OneRunPerLead ==
    \A v, w \in Workers : \A m \in batch[v], n \in batch[w] :
        LeadOf[m] = LeadOf[n] => v = w

\* A buffered message is never older than one of its lead that has been run
\* or is running: batches take a lead's messages in the order they came.
InOrder ==
    \A m \in Running \cup settled, n \in Buffered :
        LeadOf[m] = LeadOf[n] => enqueuedAt[m] <= enqueuedAt[n]

\* README, "Messages from the same lead inside the batch window are combined
\* into one agent run": a running batch holds every message of its lead that
\* came after the first of its messages and less than a window after it.
WindowComplete ==
    \A w \in Workers : \A n \in dedupe :
        /\ \E m \in batch[w] : LeadOf[n] = LeadOf[m] /\ enqueuedAt[m] < enqueuedAt[n]
        /\ \A m \in batch[w] : enqueuedAt[n] < enqueuedAt[m] + Window
        => n \in batch[w]

HasJob(l) ==
    \/ \E i \in 1..Len(leadQueue) : leadQueue[i] = l
    \/ \E w \in Workers : job[w] = l /\ pc[w] \in {"claimed", "backoff", "window"}
\* A lead with messages and no job.
Stranded(l) == buffers[l] # {} /\ ~HasJob(l)

\* A lead with messages waiting has a job, in the queue or in the hands of a
\* worker, until the manager stops.  A single worker keeps this.
NoStrandedLead == stopping \/ \A l \in Leads : ~Stranded(l)

\* Nothing but a job that reschedule dropped, which leaves the lead in _scheduled
\* with no job, keeps a message from being run: again and again every message
\* that a lead sent has been run, but for such a lead or a stopped manager.
DroppedJob(l) == l \in scheduled /\ Stranded(l)
RunOrStranded ==
    \A l \in Leads :
        []<>(stopping \/ DroppedJob(l) \/ \A m \in dedupe : LeadOf[m] = l => m \in settled)

\* README, "Background workers process queued batches": every message answered
\* "queued" is run in the end, unless the manager is stopped first.
EveryMessageRuns == \A m \in Messages : m \in dedupe ~> (m \in settled \/ stopping)

\* What the queue promises in the abstract: LeadBatches, with the batches of
\* the threads seen lead by lead.
Promise == INSTANCE LeadBatches WITH
    Stamps <- 0..Horizon,
    stamp <- enqueuedAt,
    waiting <- Buffered,
    running <- [l \in Leads |-> {m \in Running : LeadOf[m] = l}]

ImplementsPromise == Promise!Spec

=============================================================================
