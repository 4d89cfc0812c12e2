------------------------- MODULE MemoryQueueProofs -------------------------
(***************************************************************************)
(* Proofs about MemoryQueue, for any leads, messages, workers and sleeps.   *)
(*                                                                         *)
(* The invariants come in layers, each inductive relative to the ones       *)
(* before it: the types, who owns which lead, where each message is, in     *)
(* which order messages leave, which job stands for which lead, and what    *)
(* the batch window guarantees.                                            *)
(***************************************************************************)
EXTENDS MemoryQueue, TLAPS

USE QueueAssumption DEF QueueAssumption

-----------------------------------------------------------------------------
(* Types. *)

\* A worker that is neither idle nor stopped has a lead in hand.
Busy(w) == pc[w] \in {"claimed", "backoff", "window", "running"}
Typed == TypeOK /\ \A w \in Workers : Busy(w) => job[w] \in Leads

LEMMA TypedInit == Init => Typed
<1> SUFFICES ASSUME Init PROVE Typed
  OBVIOUS
<1>1. clock \in 0..Horizon /\ enqueuedAt \in [Messages -> 0..Horizon]
  BY DEF Init
<1>2. leadQueue \in Seq(Leads)
  BY DEF Init
<1>3. QED
  BY <1>1, <1>2 DEF Init, Typed, TypeOK, PCs, Busy

LEMMA TypedStep == Typed /\ [Next]_vars => Typed'
<1> SUFFICES ASSUME Typed, [Next]_vars PROVE Typed'
  OBVIOUS
<1> USE DEF Typed, TypeOK, PCs, Busy
<1>1. ASSUME NEW m \in Messages, Enqueue(m) PROVE Typed'
  <2>1. LeadOf[m] \in Leads
    OBVIOUS
  <2>2. leadQueue' \in Seq(Leads) /\ scheduled' \subseteq Leads
    BY <1>1, <2>1 DEF Enqueue, Schedule
  <2>3. QED
    BY <1>1, <2>1, <2>2 DEF Enqueue, workerVars
<1>2. ASSUME NEW w \in Workers, NextLead(w) PROVE Typed'
  <2>1. Head(leadQueue) \in Leads /\ leadQueue' \in Seq(Leads)
    BY <1>2 DEF NextLead
  <2>2. QED
    BY <1>2, <2>1 DEF NextLead
<1>3. ASSUME NEW w \in Workers, Acquire(w) PROVE Typed'
  BY <1>3 DEF Acquire, BatchSleep
<1>4. ASSUME NEW w \in Workers, AcquireFails(w) PROVE Typed'
  BY <1>4 DEF AcquireFails, queueVars
<1>5. ASSUME NEW w \in Workers, Reschedule(w) PROVE Typed'
  <2>1. leadQueue' \in Seq(Leads) /\ scheduled' \subseteq Leads
    BY <1>5 DEF Reschedule, Schedule
  <2>2. QED
    BY <1>5, <2>1 DEF Reschedule
<1>6. ASSUME NEW w \in Workers, Collect(w) PROVE Typed'
  <2> DEFINE B == BatchOf(buffers[job[w]])
             rest == buffers[job[w]] \ B
  <2>1. job[w] \in Leads /\ B \subseteq Messages /\ rest \subseteq Messages
    BY <1>6 DEF Collect, BatchOf
  <2>2. leadQueue' \in Seq(Leads) /\ scheduled' \subseteq Leads
    <3>1. CASE rest = {}
      BY <1>6, <2>1, <3>1 DEF Collect, Leftover
    <3>2. CASE rest # {}
      <4>1. scheduled' = scheduled \cup {job[w]} /\ leadQueue' = Append(leadQueue, job[w])
        BY <1>6, <3>2 DEF Collect, Leftover
      <4>2. QED
        BY <2>1, <4>1
    <3>3. QED
      BY <3>1, <3>2
  <2>3. /\ pc' \in [Workers -> PCs]
        /\ job' \in [Workers -> Leads \cup {NoLead}]
        /\ locks' \subseteq Leads
        /\ \A v \in Workers : Busy(v)' => job'[v] \in Leads
    <3>1. CASE B = {}
      BY <1>6, <2>1, <3>1 DEF Collect, Release
    <3>2. CASE B # {}
      BY <1>6, <2>1, <3>2 DEF Collect
    <3>3. QED
      BY <3>1, <3>2
  <2>4. QED
    BY <1>6, <2>1, <2>2, <2>3 DEF Collect
<1>7. ASSUME NEW w \in Workers, FinishRun(w) PROVE Typed'
  BY <1>7 DEF FinishRun, Release
<1>8. ASSUME NEW w \in Workers, FinishOrphan(w) PROVE Typed'
  BY <1>8 DEF FinishOrphan, queueVars
<1>9. CASE Stop
  BY <1>9 DEF Stop
<1>10. CASE Tick
  BY <1>10 DEF Tick, queueVars
<1>11. CASE UNCHANGED vars
  BY <1>11 DEF vars, queueVars, workerVars
<1>12. QED
  BY <1>1, <1>2, <1>3, <1>4, <1>5, <1>6, <1>7, <1>8, <1>9, <1>10, <1>11
     DEF Next, WorkerStep, Redeliver

\* The program keeps its types, with a lead in every busy worker's hand.
THEOREM TypeCorrect == Spec => []TypeOK
<1>1. Spec => []Typed
  BY TypedInit, TypedStep, PTL DEF Spec
<1>2. Typed => TypeOK
  BY DEF Typed
<1>3. QED
  BY <1>1, <1>2, PTL

-----------------------------------------------------------------------------
(* Who owns which lead. *)

OwnsLock(w) == pc[w] \in {"window", "running"}

\* A worker past acquire_lead_lock owns the lock of its job, alone.
LockTaken == \A w \in Workers : OwnsLock(w) => job[w] \in locks
LockUnique == \A v, w \in Workers : OwnsLock(v) /\ OwnsLock(w) /\ job[v] = job[w] => v = w
\* Every lock has its owner.
LockOwned == \A l \in locks : \E w \in Workers : OwnsLock(w) /\ job[w] = l
\* A running batch is of its owner's lead; only stop leaves one without owner.
BatchOwned ==
    \A w \in Workers : \A m \in batch[w] :
        pc[w] = "stopped" \/ (pc[w] = "running" /\ LeadOf[m] = job[w])
\* A batch is of one lead, even when its owner is gone.
SameLead == \A w \in Workers : \A m, n \in batch[w] : LeadOf[m] = LeadOf[n]
BufferOfLead == \A l \in Leads : \A m \in buffers[l] : LeadOf[m] = l
StopSeen == \A w \in Workers : pc[w] = "stopped" <=> stopping

Ownership ==
    LockTaken /\ LockUnique /\ LockOwned /\ BatchOwned /\ SameLead /\ BufferOfLead /\ StopSeen
    /\ OneRunPerLead

LEMMA OwnershipInit == Init => Ownership
BY DEF Init, Ownership, OwnsLock, OneRunPerLead, SameLead, LockTaken, LockUnique, LockOwned, BatchOwned,
       BufferOfLead, StopSeen

\* A worker that moves among the states in which it owns no lock.
LEMMA OwnershipFrame ==
    ASSUME Typed, Ownership, NEW w \in Workers,
           pc[w] \in {"idle", "claimed", "backoff"},
           NEW x \in {"idle", "claimed", "backoff"}, NEW y,
           pc' = [pc EXCEPT ![w] = x],
           job' = [job EXCEPT ![w] = y],
           UNCHANGED <<locks, batch, buffers, stopping>>
    PROVE  Ownership'
<1> USE DEF Ownership
<1>1. ASSUME NEW v \in Workers
      PROVE  /\ OwnsLock(v)' <=> OwnsLock(v)
             /\ OwnsLock(v) => job'[v] = job[v]
             /\ pc'[v] = "stopped" <=> pc[v] = "stopped"
             /\ pc[v] = "running" => pc'[v] = "running" /\ job'[v] = job[v]
  <2>1. CASE v = w
    BY <2>1 DEF OwnsLock, Typed, TypeOK
  <2>2. CASE v # w
    BY <2>2 DEF OwnsLock, Typed, TypeOK
  <2>3. QED
    BY <2>1, <2>2
<1>2. LockTaken' /\ LockUnique'
  BY <1>1 DEF LockTaken, LockUnique
<1>3. LockOwned'
  <2> SUFFICES ASSUME NEW l \in locks PROVE \E v \in Workers : OwnsLock(v)' /\ job'[v] = l
    BY DEF LockOwned
  <2>1. PICK v \in Workers : OwnsLock(v) /\ job[v] = l
    BY DEF LockOwned
  <2>2. QED
    BY <1>1, <2>1
<1>4. BatchOwned'
  BY <1>1 DEF BatchOwned
<1>5. BufferOfLead' /\ StopSeen' /\ OneRunPerLead' /\ SameLead'
  BY <1>1 DEF BufferOfLead, StopSeen, OneRunPerLead, SameLead
<1>6. QED
  BY <1>2, <1>3, <1>4, <1>5

LEMMA OwnershipStep == Typed /\ Ownership /\ [Next]_vars => Ownership'
<1> SUFFICES ASSUME Typed, Ownership, [Next]_vars PROVE Ownership'
  OBVIOUS
<1> USE DEF Ownership, Typed, TypeOK
<1>1. ASSUME NEW m \in Messages, Enqueue(m) PROVE Ownership'
  <2>1. BufferOfLead'
    BY <1>1 DEF Enqueue, BufferOfLead
  <2>2. QED
    BY <1>1, <2>1 DEF Enqueue, workerVars, OwnsLock, LockTaken, LockUnique, LockOwned, BatchOwned,
                      StopSeen, OneRunPerLead, SameLead
<1>2. ASSUME NEW w \in Workers, NextLead(w) PROVE Ownership'
  BY <1>2, OwnershipFrame DEF NextLead
<1>3. ASSUME NEW w \in Workers, Acquire(w) PROVE Ownership'
  <2>1. /\ pc[w] = "claimed" /\ job[w] \notin locks
        /\ pc' = [pc EXCEPT ![w] = "window"]
        /\ locks' = locks \cup {job[w]}
        /\ UNCHANGED <<job, batch, buffers, stopping>>
    BY <1>3 DEF Acquire, LockFree
  <2>2. LockTaken' /\ LockUnique'
    BY <2>1 DEF LockTaken, LockUnique, OwnsLock
  <2>3. LockOwned'
    BY <2>1 DEF LockOwned, OwnsLock
  <2>4. BatchOwned'
    BY <2>1 DEF BatchOwned
  <2>5. BufferOfLead' /\ StopSeen' /\ OneRunPerLead' /\ SameLead'
    BY <2>1 DEF BufferOfLead, StopSeen, OneRunPerLead, SameLead
  <2>6. QED
    BY <2>2, <2>3, <2>4, <2>5
<1>4. ASSUME NEW w \in Workers, AcquireFails(w) PROVE Ownership'
  <2>1. job' = [job EXCEPT ![w] = job[w]]
    BY <1>4 DEF AcquireFails
  <2>2. QED
    BY <1>4, <2>1, OwnershipFrame DEF AcquireFails, queueVars
<1>5. ASSUME NEW w \in Workers, Reschedule(w) PROVE Ownership'
  BY <1>5, OwnershipFrame DEF Reschedule
<1>6. ASSUME NEW w \in Workers, Collect(w) PROVE Ownership'
  <2> DEFINE l == job[w]
             B == BatchOf(buffers[l])
  <2>1. /\ l \in Leads /\ B \subseteq buffers[l]
        /\ pc[w] = "window"
        /\ buffers' = [buffers EXCEPT ![l] = @ \ B]
        /\ batch' = [batch EXCEPT ![w] = B]
        /\ UNCHANGED stopping
    BY <1>6 DEF Collect, BatchOf, Busy
  <2>2. \A m \in B : LeadOf[m] = l
    BY <2>1 DEF BufferOfLead
  <2>3. B = {} => /\ pc' = [pc EXCEPT ![w] = "idle"]
                  /\ job' = [job EXCEPT ![w] = NoLead]
                  /\ locks' = locks \ {l}
    BY <1>6 DEF Collect, Release
  <2>4. B # {} => pc' = [pc EXCEPT ![w] = "running"] /\ UNCHANGED <<locks, job>>
    BY <1>6 DEF Collect
  <2> HIDE DEF B
  <2>5. BufferOfLead'
    BY <2>1 DEF BufferOfLead
  <2>6. OneRunPerLead' /\ SameLead'
    <3>1. \A v \in Workers : \A m \in batch[v] : LeadOf[m] = l => v = w
      BY <2>1 DEF BatchOwned, LockUnique, OwnsLock, StopSeen
    <3>2. QED
      BY <2>1, <2>2, <3>1 DEF OneRunPerLead, SameLead
  <2>7. LockTaken' /\ LockUnique'
    BY <2>1, <2>3, <2>4 DEF LockTaken, LockUnique, OwnsLock
  <2>8. LockOwned'
    <3> SUFFICES ASSUME NEW k \in locks' PROVE \E v \in Workers : OwnsLock(v)' /\ job'[v] = k
      BY DEF LockOwned
    <3>1. PICK v \in Workers : OwnsLock(v) /\ job[v] = k
      BY <2>3, <2>4 DEF LockOwned
    <3>2. OwnsLock(v)' /\ job'[v] = k
      BY <2>1, <2>3, <2>4, <3>1 DEF OwnsLock
    <3>3. QED
      BY <3>2
  <2>9. BatchOwned' /\ StopSeen'
    BY <2>1, <2>2, <2>3, <2>4 DEF BatchOwned, StopSeen
  <2>10. QED
    BY <2>5, <2>6, <2>7, <2>8, <2>9
<1>7. ASSUME NEW w \in Workers, FinishRun(w) PROVE Ownership'
  <2>1. /\ pc[w] = "running"
        /\ pc' = [pc EXCEPT ![w] = "idle"]
        /\ job' = [job EXCEPT ![w] = NoLead]
        /\ locks' = locks \ {job[w]}
        /\ batch' = [batch EXCEPT ![w] = {}]
        /\ UNCHANGED <<buffers, stopping>>
    BY <1>7 DEF FinishRun, Release
  <2>2. LockTaken' /\ LockUnique'
    BY <2>1 DEF LockTaken, LockUnique, OwnsLock
  <2>3. LockOwned'
    BY <2>1 DEF LockOwned, OwnsLock
  <2>4. BatchOwned' /\ BufferOfLead' /\ StopSeen' /\ OneRunPerLead' /\ SameLead'
    BY <2>1 DEF BatchOwned, BufferOfLead, StopSeen, OneRunPerLead, SameLead
  <2>5. QED
    BY <2>2, <2>3, <2>4
<1>8. ASSUME NEW w \in Workers, FinishOrphan(w) PROVE Ownership'
  <2>1. batch' = [batch EXCEPT ![w] = {}] /\ UNCHANGED <<pc, job, locks, buffers, stopping>>
    BY <1>8 DEF FinishOrphan, queueVars
  <2>2. QED
    BY <2>1 DEF LockTaken, LockUnique, LockOwned, OwnsLock, BatchOwned, BufferOfLead, StopSeen,
                OneRunPerLead, SameLead
<1>9. CASE Stop
  <2>1. \A w \in Workers : pc'[w] = "stopped" /\ ~OwnsLock(w)'
    BY <1>9 DEF Stop, OwnsLock
  <2>2. locks' = {}
    BY <1>9 DEF Stop, LockOwned, OwnsLock
  <2>3. stopping' /\ UNCHANGED <<batch, buffers>>
    BY <1>9 DEF Stop
  <2>4. QED
    BY <2>1, <2>2, <2>3 DEF LockTaken, LockUnique, LockOwned, BatchOwned, BufferOfLead, StopSeen,
                            OneRunPerLead, SameLead
<1>10. CASE Tick \/ UNCHANGED vars
  <2>1. UNCHANGED <<pc, job, locks, batch, buffers, stopping>>
    BY <1>10 DEF Tick, vars, queueVars, workerVars
  <2>2. QED
    BY <2>1 DEF LockTaken, LockUnique, LockOwned, OwnsLock, BatchOwned, BufferOfLead, StopSeen,
                OneRunPerLead, SameLead
<1>11. QED
  BY <1>1, <1>2, <1>3, <1>4, <1>5, <1>6, <1>7, <1>8, <1>9, <1>10
     DEF Next, WorkerStep, Redeliver

\* Whatever the number of workers and however stop falls, two agent runs are
\* never of one lead.
THEOREM RunsExclusive == Spec => []OneRunPerLead
<1>1. Spec => [](Typed /\ Ownership)
  BY TypedInit, TypedStep, OwnershipInit, OwnershipStep, PTL DEF Spec
<1>2. Ownership => OneRunPerLead
  BY DEF Ownership
<1>3. QED
  BY <1>1, <1>2, PTL

-----------------------------------------------------------------------------
(* Where each message is. *)

LEMMA AccountedInit == Init => Accounted
BY DEF Init, Accounted, Buffered, Running

\* Nothing moves when buffers, batches and history stay as they are.
LEMMA AccountedFrame ==
    ASSUME Accounted, UNCHANGED <<dedupe, buffers, batch, settled>>
    PROVE  Accounted'
BY DEF Accounted, Buffered, Running

LEMMA AccountedStep == Typed /\ Ownership /\ Accounted /\ [Next]_vars => Accounted'
<1> SUFFICES ASSUME Typed, Ownership, Accounted, [Next]_vars PROVE Accounted'
  OBVIOUS
<1> USE DEF Accounted, Buffered, Running, Typed, TypeOK, PCs, Busy
<1>1. ASSUME NEW m \in Messages, Enqueue(m) PROVE Accounted'
  <2>1. LeadOf[m] \in Leads /\ m \notin dedupe
    BY <1>1 DEF Enqueue, IsNew
  <2>2. Buffered' = Buffered \cup {m}
    BY <1>1, <2>1 DEF Enqueue
  <2>3. Running' = Running /\ settled' = settled /\ batch' = batch
    BY <1>1 DEF Enqueue, workerVars
  <2>4. dedupe' = dedupe \cup {m}
    BY <1>1 DEF Enqueue
  <2>5. m \notin Buffered \cup Running \cup settled
    BY <2>1
  <2> HIDE DEF Buffered, Running
  <2>6. QED
    BY <2>2, <2>3, <2>4, <2>5
<1>2. ASSUME NEW w \in Workers, NextLead(w) \/ Acquire(w) \/ AcquireFails(w) \/ Reschedule(w)
      PROVE  Accounted'
  <2>1. UNCHANGED <<dedupe, buffers, batch, settled>>
    BY <1>2 DEF NextLead, Acquire, AcquireFails, Reschedule, queueVars
  <2>2. QED
    BY <2>1, AccountedFrame
<1>3. CASE Stop \/ Tick \/ UNCHANGED vars
  <2>1. UNCHANGED <<dedupe, buffers, batch, settled>>
    BY <1>3 DEF Stop, Tick, vars, queueVars, workerVars
  <2>2. QED
    BY <2>1, AccountedFrame
<1>6. ASSUME NEW w \in Workers, Collect(w) PROVE Accounted'
  <2> DEFINE l == job[w]
             B == BatchOf(buffers[l])
  <2>1. l \in Leads /\ B \subseteq buffers[l] /\ batch[w] = {}
    BY <1>6 DEF Collect, BatchOf, Ownership, BatchOwned
  <2>2. /\ batch' = [batch EXCEPT ![w] = B]
        /\ buffers' = [buffers EXCEPT ![l] = @ \ B]
        /\ UNCHANGED <<dedupe, settled>>
    BY <1>6 DEF Collect
  <2>3. Buffered' = Buffered \ B
    BY <2>1, <2>2 DEF Ownership, BufferOfLead
  <2>4. Running' = Running \cup B
    BY <2>1, <2>2
  <2>5. B \subseteq Buffered
    BY <2>1
  <2> HIDE DEF B
  <2>6. \A u, v \in Workers : u # v => batch'[u] \cap batch'[v] = {}
    <3> SUFFICES ASSUME NEW u \in Workers, NEW v \in Workers, u # v
                 PROVE batch'[u] \cap batch'[v] = {}
      OBVIOUS
    <3>1. \A x \in Workers : batch[x] \cap B = {}
      BY <2>5
    <3>2. QED
      BY <2>2, <3>1
  <2>7. QED
    BY <2>2, <2>3, <2>4, <2>5, <2>6
<1>7. ASSUME NEW w \in Workers, FinishRun(w) \/ FinishOrphan(w) PROVE Accounted'
  <2>1. /\ batch' = [batch EXCEPT ![w] = {}]
        /\ settled' = settled \cup batch[w]
        /\ UNCHANGED <<dedupe, buffers>>
    BY <1>7 DEF FinishRun, FinishOrphan, queueVars
  <2>2. Running' = Running \ batch[w]
    BY <2>1
  <2>3. QED
    BY <2>1, <2>2
<1>8. QED
  BY <1>1, <1>2, <1>3, <1>6, <1>7 DEF Next, WorkerStep, Redeliver

\* No accepted message is lost and none is in two places, so none runs twice.
THEOREM NothingLostOrRunTwice == Spec => []Accounted
<1>1. Spec => [](Typed /\ Ownership /\ Accounted)
  BY TypedInit, TypedStep, OwnershipInit, OwnershipStep, AccountedInit, AccountedStep, PTL
     DEF Spec
<1>2. QED
  BY <1>1, PTL

-----------------------------------------------------------------------------
(* In which order messages leave. *)

StampsPast == \A m \in dedupe : enqueuedAt[m] <= clock
Ordered == StampsPast /\ InOrder

\* split_batch_by_window: what stays behind is newer than what is taken.
LEMMA OldestFirst ==
    ASSUME Typed, NEW S \in SUBSET Messages
    PROVE  \A m \in BatchOf(S), n \in S \ BatchOf(S) : enqueuedAt[m] < enqueuedAt[n]
<1> SUFFICES ASSUME NEW m \in BatchOf(S), NEW n \in S \ BatchOf(S)
             PROVE  enqueuedAt[m] < enqueuedAt[n]
  OBVIOUS
<1>1. PICK k \in S : ~(enqueuedAt[n] <= enqueuedAt[k] + Window + Slack)
  BY DEF BatchOf
<1>2. enqueuedAt[m] <= enqueuedAt[k] + Window + Slack
  BY DEF BatchOf
<1>3. enqueuedAt[m] \in Nat /\ enqueuedAt[n] \in Nat /\ enqueuedAt[k] \in Nat
  BY DEF BatchOf, Typed, TypeOK
<1>4. QED
  BY <1>1, <1>2, <1>3

LEMMA OrderedInit == Init => Ordered
BY DEF Init, Ordered, StampsPast, InOrder, Buffered, Running

LEMMA OrderedStep == Typed /\ Ownership /\ Accounted /\ Ordered /\ [Next]_vars => Ordered'
<1> SUFFICES ASSUME Typed, Ownership, Accounted, Ordered, [Next]_vars PROVE Ordered'
  OBVIOUS
<1>1. ASSUME NEW m \in Messages, Enqueue(m) PROVE Ordered'
  <2>1. /\ m \notin dedupe /\ dedupe' = dedupe \cup {m}
        /\ enqueuedAt' = [enqueuedAt EXCEPT ![m] = clock]
        /\ clock' = clock /\ settled' = settled /\ Running' = Running
    BY <1>1 DEF Enqueue, IsNew, workerVars, Running
  <2>2. Buffered' = Buffered \cup {m}
    BY <1>1 DEF Enqueue, Buffered, Typed, TypeOK
  <2>3. dedupe = Buffered \cup Running \cup settled
    BY DEF Accounted
  <2>4. \A n \in dedupe : enqueuedAt'[n] = enqueuedAt[n] /\ enqueuedAt'[n] <= clock
    BY <2>1 DEF Ordered, StampsPast, Typed, TypeOK
  <2>5. enqueuedAt'[m] = clock /\ clock <= clock
    BY <2>1 DEF Typed, TypeOK
  <2>6. StampsPast'
    BY <2>1, <2>4, <2>5 DEF StampsPast
  <2>7. InOrder'
    BY <2>1, <2>2, <2>3, <2>4, <2>5 DEF Ordered, InOrder
  <2>8. QED
    BY <2>6, <2>7 DEF Ordered
<1>2. ASSUME NEW w \in Workers, Collect(w) PROVE Ordered'
  <2> DEFINE l == job[w]
             B == BatchOf(buffers[l])
  <2>1. /\ l \in Leads /\ B \subseteq buffers[l]
        /\ batch[w] = {}
        /\ batch' = [batch EXCEPT ![w] = B]
        /\ buffers' = [buffers EXCEPT ![l] = @ \ B]
        /\ UNCHANGED <<dedupe, settled, enqueuedAt, clock>>
    BY <1>2 DEF Collect, BatchOf, Ownership, BatchOwned, Typed, TypeOK, Busy
  <2>2. \A m \in B, n \in buffers[l] \ B : enqueuedAt[m] <= enqueuedAt[n]
    <3>1. buffers[l] \in SUBSET Messages
      BY <2>1 DEF Typed, TypeOK
    <3>2. \A m \in B, n \in buffers[l] \ B : enqueuedAt[m] < enqueuedAt[n]
      BY <3>1, OldestFirst
    <3>3. \A m \in buffers[l] : enqueuedAt[m] \in Nat
      BY <3>1 DEF Typed, TypeOK
    <3>4. QED
      BY <2>1, <3>2, <3>3
  <2> HIDE DEF B
  <2>3. Running' = Running \cup B /\ Buffered' = Buffered \ B /\ B \subseteq Buffered
    BY <2>1 DEF Running, Buffered, Ownership, BufferOfLead, Typed, TypeOK
  <2>4. \A n \in Buffered : LeadOf[n] = l => n \in buffers[l]
    BY <2>1 DEF Buffered, Ownership, BufferOfLead
  <2>5. \A m \in B : LeadOf[m] = l
    BY <2>1 DEF Ownership, BufferOfLead
  <2>6. InOrder'
    BY <2>1, <2>2, <2>3, <2>4, <2>5 DEF Ordered, InOrder
  <2>7. QED
    BY <2>1, <2>6 DEF Ordered, StampsPast
<1>3. ASSUME NEW w \in Workers, FinishRun(w) \/ FinishOrphan(w) PROVE Ordered'
  <2>1. /\ batch' = [batch EXCEPT ![w] = {}]
        /\ settled' = settled \cup batch[w]
        /\ UNCHANGED <<dedupe, buffers, enqueuedAt, clock>>
    BY <1>3 DEF FinishRun, FinishOrphan, queueVars
  <2>2. Buffered' = Buffered /\ (Running \cup settled)' = Running \cup settled
    BY <2>1 DEF Buffered, Running, Typed, TypeOK
  <2>3. QED
    BY <2>1, <2>2 DEF Ordered, InOrder, StampsPast
<1>4. CASE Tick
  <2>1. clock <= clock' /\ clock' \in Nat
    BY <1>4 DEF Tick, Typed, TypeOK
  <2>2. UNCHANGED <<dedupe, settled, buffers, batch, enqueuedAt>>
    BY <1>4 DEF Tick, queueVars
  <2>3. StampsPast'
    <3> SUFFICES ASSUME NEW m \in dedupe PROVE enqueuedAt[m] <= clock'
      BY <2>2 DEF StampsPast
    <3>1. enqueuedAt[m] \in Nat /\ clock \in Nat /\ enqueuedAt[m] <= clock
      BY DEF Ordered, StampsPast, Typed, TypeOK
    <3>2. QED
      BY <2>1, <3>1
  <2>4. QED
    BY <2>2, <2>3 DEF Ordered, InOrder, Buffered, Running
<1>5. ASSUME \/ Stop \/ UNCHANGED vars
             \/ \E w \in Workers : NextLead(w) \/ Acquire(w) \/ AcquireFails(w) \/ Reschedule(w)
      PROVE  Ordered'
  <2>1. UNCHANGED <<dedupe, settled, buffers, batch, enqueuedAt, clock>>
    BY <1>5 DEF Stop, vars, NextLead, Acquire, AcquireFails, Reschedule, queueVars, workerVars
  <2>2. QED
    BY <2>1 DEF Ordered, StampsPast, InOrder, Buffered, Running
<1>6. QED
  BY <1>1, <1>2, <1>3, <1>4, <1>5 DEF Next, WorkerStep, Redeliver

\* The messages of a lead are run in the order in which they arrived.
THEOREM RunsInOrder == Spec => []InOrder
<1>1. Spec => [](Typed /\ Ownership /\ Accounted /\ Ordered)
  BY TypedInit, TypedStep, OwnershipInit, OwnershipStep, AccountedInit, AccountedStep,
     OrderedInit, OrderedStep, PTL DEF Spec
<1>2. Ordered => InOrder
  BY DEF Ordered
<1>3. QED
  BY <1>1, <1>2, PTL

-----------------------------------------------------------------------------
(* Which job stands for which lead. *)

Held(w) == pc[w] \in {"claimed", "backoff", "window"}

\* A job, queued or in a worker's hand, is for a scheduled lead.
JobScheduled ==
    /\ \A i \in 1..Len(leadQueue) : leadQueue[i] \in scheduled
    /\ \A w \in Workers : Held(w) => job[w] \in scheduled
\* A lead has one job at most.
JobUnique ==
    /\ \A i, j \in 1..Len(leadQueue) : leadQueue[i] = leadQueue[j] => i = j
    /\ \A i \in 1..Len(leadQueue), w \in Workers : Held(w) => leadQueue[i] # job[w]
    /\ \A v, w \in Workers : Held(v) /\ Held(w) /\ job[v] = job[w] => v = w
\* The scheduled leads are those with messages waiting.
ScheduledBuffered == \A l \in Leads : l \in scheduled <=> buffers[l] # {}

Jobs == JobScheduled /\ JobUnique /\ ScheduledBuffered

LEMMA JobsInit == Init => Jobs
BY DEF Init, Jobs, JobScheduled, JobUnique, ScheduledBuffered, Held

\* Queueing a job for a lead that has none.
LEMMA AppendJob ==
    ASSUME Typed, NEW l \in Leads, JobScheduled, JobUnique,
           \A i \in 1..Len(leadQueue) : leadQueue[i] # l,
           \A w \in Workers : Held(w)' => Held(w) /\ job'[w] = job[w] /\ job[w] # l,
           leadQueue' = Append(leadQueue, l),
           scheduled' = scheduled \cup {l}
    PROVE  JobScheduled' /\ JobUnique'
<1> USE DEF Typed, TypeOK
<1>1. /\ Len(leadQueue') = Len(leadQueue) + 1 /\ Len(leadQueue) \in Nat
      /\ \A i \in 1..Len(leadQueue) : leadQueue'[i] = leadQueue[i]
      /\ leadQueue'[Len(leadQueue) + 1] = l
  OBVIOUS
<1>2. \A i \in 1..Len(leadQueue') : i \in 1..Len(leadQueue) \/ i = Len(leadQueue) + 1
  BY <1>1
<1> HIDE DEF Typed, TypeOK
<1>3. JobScheduled'
  BY <1>1, <1>2 DEF JobScheduled
<1>4. JobUnique'
  BY <1>1, <1>2 DEF JobUnique
<1>5. QED
  BY <1>3, <1>4

\* The jobs stay when queue and flags do and no worker takes a new one.
LEMMA JobsFrame ==
    ASSUME Jobs, UNCHANGED <<leadQueue, scheduled, buffers>>,
           \A w \in Workers : Held(w)' => Held(w) /\ job'[w] = job[w]
    PROVE  Jobs'
BY DEF Jobs, JobScheduled, JobUnique, ScheduledBuffered

LEMMA JobsStep == Typed /\ Ownership /\ Jobs /\ [Next]_vars => Jobs'
<1> SUFFICES ASSUME Typed, Ownership, Jobs, [Next]_vars PROVE Jobs'
  OBVIOUS
<1>1. ASSUME NEW m \in Messages, Enqueue(m) PROVE Jobs'
  <2> DEFINE l == LeadOf[m]
  <2>1. /\ l \in Leads
        /\ buffers' = [buffers EXCEPT ![l] = @ \cup {m}]
        /\ scheduled' = scheduled \cup {l}
        /\ UNCHANGED <<pc, job>>
    BY <1>1 DEF Enqueue, Schedule, workerVars
  <2>2. ScheduledBuffered'
    BY <2>1 DEF Jobs, ScheduledBuffered, Typed, TypeOK
  <2>3. \A w \in Workers : Held(w)' <=> Held(w)
    BY <2>1 DEF Held
  <2>4. CASE l \in scheduled
    <3>1. UNCHANGED <<leadQueue, scheduled>>
      BY <1>1, <2>4 DEF Enqueue, Schedule
    <3>2. QED
      BY <2>1, <2>2, <2>3, <3>1 DEF Jobs, JobScheduled, JobUnique
  <2>5. CASE l \notin scheduled
    <3>1. leadQueue' = Append(leadQueue, l)
      BY <1>1, <2>5 DEF Enqueue, Schedule
    <3>2. JobScheduled /\ JobUnique
      BY DEF Jobs
    <3>3. \A i \in 1..Len(leadQueue) : leadQueue[i] # l
      BY <2>5, <3>2 DEF JobScheduled
    <3>4. \A w \in Workers : Held(w)' => Held(w) /\ job'[w] = job[w] /\ job[w] # l
      BY <2>1, <2>3, <2>5, <3>2 DEF JobScheduled
    <3>5. JobScheduled' /\ JobUnique'
      BY <2>1, <3>1, <3>2, <3>3, <3>4, AppendJob
    <3>6. QED
      BY <2>2, <3>5 DEF Jobs
  <2>6. QED
    BY <2>4, <2>5
<1>2. ASSUME NEW w \in Workers, NextLead(w) PROVE Jobs'
  <2>1. /\ leadQueue # <<>> /\ leadQueue' = Tail(leadQueue)
        /\ pc[w] = "idle"
        /\ pc' = [pc EXCEPT ![w] = "claimed"]
        /\ job' = [job EXCEPT ![w] = Head(leadQueue)]
        /\ UNCHANGED <<scheduled, buffers>>
    BY <1>2 DEF NextLead
  <2>2. /\ Len(leadQueue) \in Nat /\ 1 \in 1..Len(leadQueue)
        /\ Len(leadQueue') = Len(leadQueue) - 1
        /\ Head(leadQueue) = leadQueue[1]
        /\ \A i \in 1..Len(leadQueue') : leadQueue'[i] = leadQueue[i + 1] /\ i + 1 \in 2..Len(leadQueue)
    BY <2>1 DEF Typed, TypeOK
  <2>3. job'[w] = leadQueue[1] /\ ~Held(w)
    BY <2>1, <2>2 DEF Held, Typed, TypeOK
  <2>4. \A v \in Workers : v # w => (Held(v)' <=> Held(v)) /\ job'[v] = job[v]
    BY <2>1 DEF Held, Typed, TypeOK
  <2>5. \A i \in 2..Len(leadQueue) : i \in 1..Len(leadQueue) /\ i # 1
    BY <2>2
  <2>6. JobScheduled'
    <3>1. \A i \in 1..Len(leadQueue') : leadQueue'[i] \in scheduled
      BY <2>2, <2>5 DEF Jobs, JobScheduled
    <3>2. \A v \in Workers : Held(v)' => job'[v] \in scheduled
      BY <2>2, <2>3, <2>4 DEF Jobs, JobScheduled
    <3>3. QED
      BY <2>1, <3>1, <3>2 DEF JobScheduled
  <2>7. JobUnique'
    <3>1. \A i, j \in 1..Len(leadQueue') : leadQueue'[i] = leadQueue'[j] => i = j
      <4> SUFFICES ASSUME NEW i \in 1..Len(leadQueue'), NEW j \in 1..Len(leadQueue'),
                          leadQueue'[i] = leadQueue'[j]
                   PROVE  i = j
        OBVIOUS
      <4>1. i + 1 = j + 1
        BY <2>2, <2>5 DEF Jobs, JobUnique
      <4>2. QED
        BY <4>1
    <3>2. \A i \in 1..Len(leadQueue'), v \in Workers : Held(v)' => leadQueue'[i] # job'[v]
      <4> SUFFICES ASSUME NEW i \in 1..Len(leadQueue'), NEW v \in Workers, Held(v)'
                   PROVE  leadQueue'[i] # job'[v]
        OBVIOUS
      <4>1. CASE v = w
        BY <2>2, <2>3, <2>5, <4>1 DEF Jobs, JobUnique
      <4>2. CASE v # w
        BY <2>2, <2>4, <2>5, <4>2 DEF Jobs, JobUnique
      <4>3. QED
        BY <4>1, <4>2
    <3>3. \A u, v \in Workers : Held(u)' /\ Held(v)' /\ job'[u] = job'[v] => u = v
      BY <2>2, <2>3, <2>4 DEF Jobs, JobUnique
    <3>4. QED
      BY <3>1, <3>2, <3>3 DEF JobUnique
  <2>8. QED
    BY <2>1, <2>6, <2>7 DEF Jobs, ScheduledBuffered
<1>3. ASSUME NEW w \in Workers, Acquire(w) \/ AcquireFails(w) PROVE Jobs'
  <2>1. /\ pc[w] = "claimed" /\ \E x \in PCs : pc' = [pc EXCEPT ![w] = x]
        /\ UNCHANGED <<job, leadQueue, scheduled, buffers>>
    BY <1>3 DEF Acquire, AcquireFails, queueVars, PCs
  <2>2. \A v \in Workers : Held(v)' => Held(v) /\ job'[v] = job[v]
    BY <2>1 DEF Held, Typed, TypeOK
  <2>3. QED
    BY <2>1, <2>2, JobsFrame
<1>4. ASSUME NEW w \in Workers, Reschedule(w) PROVE Jobs'
  <2>1. job[w] \in scheduled
    BY <1>4 DEF Reschedule, Jobs, JobScheduled, Held
  <2>2. UNCHANGED <<leadQueue, scheduled, buffers>>
    BY <1>4, <2>1 DEF Reschedule, Schedule
  <2>3. \A v \in Workers : Held(v)' => Held(v) /\ job'[v] = job[v]
    BY <1>4 DEF Reschedule, Held, Typed, TypeOK
  <2>4. QED
    BY <2>2, <2>3, JobsFrame
<1>5. ASSUME NEW w \in Workers, Collect(w) PROVE Jobs'
  <2> DEFINE l == job[w]
             rest == buffers[l] \ BatchOf(buffers[l])
  <2>1. /\ l \in Leads /\ pc[w] = "window" /\ Held(w)
        /\ buffers' = [buffers EXCEPT ![l] = rest]
        /\ Leftover(l, rest)
    BY <1>5 DEF Collect, Typed, Busy, Held
  <2>2. ~Held(w)' /\ \A v \in Workers : v # w => (Held(v)' <=> Held(v)) /\ job'[v] = job[v]
    BY <1>5, <2>1 DEF Collect, Release, Held, Typed, TypeOK
  <2>3. /\ \A i \in 1..Len(leadQueue) : leadQueue[i] # l
        /\ \A v \in Workers : Held(v)' => Held(v) /\ job'[v] = job[v] /\ job[v] # l
    BY <2>1, <2>2 DEF Jobs, JobUnique
  <2> HIDE DEF rest
  <2>4. CASE rest = {}
    <3>1. scheduled' = scheduled \ {l} /\ UNCHANGED leadQueue
      BY <2>1, <2>4 DEF Leftover
    <3>2. JobScheduled' /\ JobUnique'
      BY <2>3, <3>1 DEF Jobs, JobScheduled, JobUnique
    <3>3. ScheduledBuffered'
      BY <2>1, <2>4, <3>1 DEF Jobs, ScheduledBuffered, Typed, TypeOK
    <3>4. QED
      BY <3>2, <3>3 DEF Jobs
  <2>5. CASE rest # {}
    <3>1. scheduled' = scheduled \cup {l} /\ leadQueue' = Append(leadQueue, l)
      BY <2>1, <2>5 DEF Leftover
    <3>2. JobScheduled' /\ JobUnique'
      BY <2>1, <2>3, <3>1, AppendJob DEF Jobs
    <3>3. ScheduledBuffered'
      BY <2>1, <2>5, <3>1 DEF Jobs, ScheduledBuffered, Typed, TypeOK
    <3>4. QED
      BY <3>2, <3>3 DEF Jobs
  <2>6. QED
    BY <2>4, <2>5
<1>6. ASSUME \/ Stop \/ Tick \/ UNCHANGED vars
             \/ \E w \in Workers : FinishRun(w) \/ FinishOrphan(w)
      PROVE  Jobs'
  <2>1. UNCHANGED <<leadQueue, scheduled, buffers>>
    BY <1>6 DEF Stop, Tick, vars, FinishRun, FinishOrphan, queueVars, workerVars
  <2>2. \A v \in Workers : Held(v)' => Held(v) /\ job'[v] = job[v]
    BY <1>6 DEF Stop, Tick, vars, FinishRun, FinishOrphan, Release, workerVars, Held, Typed, TypeOK
  <2>3. QED
    BY <2>1, <2>2, JobsFrame
<1>7. QED
  BY <1>1, <1>2, <1>3, <1>4, <1>5, <1>6 DEF Next, WorkerStep, Redeliver

\* reschedule never does anything: whoever holds a job holds it for a lead
\* that is still in _scheduled, so the job a worker gives back is dropped.
THEOREM RescheduleDropsJob ==
    Spec => [][\A w \in Workers : Reschedule(w) => UNCHANGED <<scheduled, leadQueue>>]_vars
<1>1. Spec => [](Typed /\ Ownership /\ Jobs)
  BY TypedInit, TypedStep, OwnershipInit, OwnershipStep, JobsInit, JobsStep, PTL DEF Spec
<1>2. Jobs => \A w \in Workers : Reschedule(w) => UNCHANGED <<scheduled, leadQueue>>
  BY DEF Jobs, JobScheduled, Held, Reschedule, Schedule
<1>3. QED
  BY <1>1, <1>2, PTL

\* A stranded lead stays stranded: enqueue adds no job for a lead in _scheduled
\* and a job only comes from a job, so what the lead writes later waits as well.
THEOREM StrandedForGood == Spec => [][\A l \in Leads : Stranded(l) => Stranded(l)']_vars
<1>1. Spec => [](Typed /\ Ownership /\ Jobs)
  BY TypedInit, TypedStep, OwnershipInit, OwnershipStep, JobsInit, JobsStep, PTL DEF Spec
<1>2. ASSUME Typed, Jobs, [Next]_vars, NEW l \in Leads, Stranded(l) PROVE Stranded(l)'
  <2> SUFFICES buffers'[l] # {} /\ ~HasJob(l)'
    BY DEF Stranded
  <2>0. l \in scheduled
    BY <1>2 DEF Stranded, Jobs, ScheduledBuffered
  <2>1. ASSUME NEW m \in Messages, Enqueue(m) PROVE buffers'[l] # {} /\ ~HasJob(l)'
    <3>1. buffers'[l] # {}
      BY <1>2, <2>1 DEF Enqueue, Stranded, Typed, TypeOK
    <3>2. CASE LeadOf[m] \in scheduled
      BY <1>2, <2>1, <3>1, <3>2 DEF Enqueue, Schedule, Stranded, HasJob, workerVars
    <3>3. CASE LeadOf[m] \notin scheduled
      <4>1. leadQueue' = Append(leadQueue, LeadOf[m]) /\ UNCHANGED workerVars /\ LeadOf[m] # l
        BY <2>0, <2>1, <3>3 DEF Enqueue, Schedule
      <4>2. \A i \in 1..Len(leadQueue') : leadQueue'[i] # l
        BY <1>2, <4>1, QueueAssumption DEF Stranded, HasJob, Typed, TypeOK
      <4>3. QED
        BY <1>2, <3>1, <4>1, <4>2 DEF Stranded, HasJob, workerVars
    <3>4. QED
      BY <3>2, <3>3
  <2>2. ASSUME NEW w \in Workers, NextLead(w) PROVE buffers'[l] # {} /\ ~HasJob(l)'
    <3>1. /\ leadQueue # <<>> /\ leadQueue' = Tail(leadQueue) /\ buffers' = buffers
          /\ job' = [job EXCEPT ![w] = Head(leadQueue)] /\ pc' = [pc EXCEPT ![w] = "claimed"]
      BY <2>2 DEF NextLead
    <3>2. /\ \A i \in 1..Len(leadQueue') : i + 1 \in 1..Len(leadQueue) /\ leadQueue'[i] = leadQueue[i + 1]
          /\ 1 \in 1..Len(leadQueue) /\ Head(leadQueue) = leadQueue[1]
      BY <1>2, <3>1 DEF Typed, TypeOK
    <3>3. QED
      BY <1>2, <3>1, <3>2 DEF Stranded, HasJob, Typed, TypeOK
  <2>3. ASSUME NEW w \in Workers, Reschedule(w) PROVE buffers'[l] # {} /\ ~HasJob(l)'
    <3>1. job[w] \in scheduled
      BY <1>2, <2>3 DEF Reschedule, Jobs, JobScheduled, Held
    <3>2. QED
      BY <1>2, <2>3, <3>1 DEF Reschedule, Schedule, Stranded, HasJob, Typed, TypeOK
  <2>4. ASSUME NEW w \in Workers, Collect(w) PROVE buffers'[l] # {} /\ ~HasJob(l)'
    <3>1. pc[w] = "window" /\ job[w] # l /\ job[w] \in Leads
      BY <1>2, <2>4 DEF Collect, Stranded, HasJob, Typed, Busy
    <3>2. /\ buffers'[l] = buffers[l] /\ pc'[w] \in {"idle", "running"}
          /\ \A v \in Workers : v # w => pc'[v] = pc[v] /\ job'[v] = job[v]
      BY <1>2, <2>4, <3>1 DEF Collect, Release, Typed, TypeOK
    <3>3. leadQueue' = leadQueue \/ leadQueue' = Append(leadQueue, job[w])
      BY <2>4 DEF Collect, Leftover
    <3>4. \A i \in 1..Len(leadQueue') : leadQueue'[i] = job[w] \/ (i \in 1..Len(leadQueue) /\ leadQueue'[i] = leadQueue[i])
      <4>1. leadQueue \in Seq(Leads) /\ job[w] \in Leads
        BY <1>2, <3>1 DEF Typed, TypeOK
      <4>2. QED
        BY <3>3, <4>1
    <3>5. \A i \in 1..Len(leadQueue') : leadQueue'[i] # l
      BY <1>2, <3>1, <3>4 DEF Stranded, HasJob
    <3>6. QED
      BY <1>2, <3>2, <3>5 DEF Stranded, HasJob
  <2>5. ASSUME \/ Stop \/ Tick \/ UNCHANGED vars
               \/ \E w \in Workers : \/ Acquire(w) \/ AcquireFails(w)
                                     \/ FinishRun(w) \/ FinishOrphan(w)
        PROVE  buffers'[l] # {} /\ ~HasJob(l)'
    <3>1. UNCHANGED <<buffers, leadQueue>>
      BY <2>5 DEF Stop, Tick, vars, Acquire, AcquireFails, FinishRun, FinishOrphan, queueVars,
                  workerVars
    <3>2. \A v \in Workers : Held(v)' => Held(v) /\ job'[v] = job[v]
      BY <1>2, <2>5 DEF Stop, Tick, vars, Acquire, AcquireFails, FinishRun, FinishOrphan, Release,
                        queueVars, workerVars, Held, Typed, TypeOK
    <3>3. QED
      BY <1>2, <3>1, <3>2 DEF Stranded, HasJob, Held
  <2>6. QED
    BY <1>2, <2>1, <2>2, <2>3, <2>4, <2>5 DEF Next, WorkerStep, Redeliver
<1>3. Typed /\ Jobs /\ [Next]_vars => \A l \in Leads : Stranded(l) => Stranded(l)'
  BY <1>2
<1>4. QED
  BY <1>1, <1>3, PTL DEF Spec

-----------------------------------------------------------------------------
(* What the batch window guarantees. *)

\* The window of m is over in d ticks: by then no message can come within it.
Elapsed(m, d) == enqueuedAt[m] + Window <= clock + d \/ clock = Horizon

\* A worker in its window sleeps past the window of some buffered message, and
\* past that of the first message once the batch is collected.
Windows ==
    /\ \A w \in Workers : pc[w] = "window" => \E m \in buffers[job[w]] : Elapsed(m, left[w])
    /\ \A w \in Workers : batch[w] # {} => \E m \in batch[w] : Elapsed(m, 0)
    /\ WindowComplete

LEMMA WindowsInit == Init => Windows
BY DEF Init, Windows, WindowComplete

\* Nothing about windows changes when the messages and the clock stay and no
\* worker enters a window.
LEMMA WindowsFrame ==
    ASSUME Windows,
           UNCHANGED <<clock, enqueuedAt, dedupe, buffers, batch>>,
           \A w \in Workers : pc'[w] = "window" => /\ pc[w] = "window"
                                                 /\ job'[w] = job[w] /\ left'[w] = left[w]
    PROVE  Windows'
BY DEF Windows, WindowComplete, Elapsed

\* Time only brings the end of a window closer.
LEMMA ElapsedTick ==
    ASSUME Typed, Tick, NEW m \in Messages, NEW w \in Workers
    PROVE  /\ Elapsed(m, left[w]) => Elapsed(m, left[w])'
           /\ Elapsed(m, 0) => Elapsed(m, 0)'
<1>1. /\ enqueuedAt[m] \in Nat /\ clock \in 0..Horizon /\ left[w] \in Nat
      /\ enqueuedAt' = enqueuedAt
      /\ clock' = IF clock < Horizon THEN clock + 1 ELSE clock
      /\ left'[w] = IF left[w] > 0 THEN left[w] - 1 ELSE 0
  BY DEF Tick, Typed, TypeOK, queueVars
<1>2. QED
  BY <1>1 DEF Elapsed

LEMMA WindowsStep ==
    Typed /\ Ownership /\ Accounted /\ Ordered /\ Jobs /\ Windows /\ [Next]_vars => Windows'
<1> SUFFICES ASSUME Typed, Ownership, Accounted, Ordered, Jobs, Windows, [Next]_vars
             PROVE  Windows'
  OBVIOUS
<1>1. ASSUME NEW m \in Messages, Enqueue(m) PROVE Windows'
  <2>1. /\ m \notin dedupe /\ dedupe' = dedupe \cup {m}
        /\ LeadOf[m] \in Leads
        /\ buffers' = [buffers EXCEPT ![LeadOf[m]] = @ \cup {m}]
        /\ enqueuedAt' = [enqueuedAt EXCEPT ![m] = clock]
        /\ clock < Horizon /\ clock \in Nat
        /\ UNCHANGED <<clock, pc, job, left, batch>>
    BY <1>1 DEF Enqueue, IsNew, workerVars, Typed, TypeOK
  <2>2. \A n \in dedupe : n \in Messages /\ enqueuedAt'[n] = enqueuedAt[n] /\ enqueuedAt[n] \in Nat
    BY <2>1 DEF Typed, TypeOK
  <2>3. \A l \in Leads : buffers[l] \subseteq dedupe
    BY DEF Accounted, Buffered
  <2>4. \A w \in Workers : batch[w] \subseteq dedupe
    BY DEF Accounted, Running
  <2>5. \A w \in Workers : pc'[w] = "window" => \E k \in buffers'[job'[w]] : Elapsed(k, left[w])'
    <3> SUFFICES ASSUME NEW w \in Workers, pc[w] = "window"
                 PROVE  \E k \in buffers'[job[w]] : Elapsed(k, left[w])'
      BY <2>1
    <3>1. job[w] \in Leads
      BY DEF Typed, Busy
    <3>2. PICK k \in buffers[job[w]] : Elapsed(k, left[w])
      BY DEF Windows
    <3>3. k \in buffers'[job[w]]
      BY <2>1, <3>1, <3>2 DEF Typed, TypeOK
    <3>4. Elapsed(k, left[w])'
      BY <2>1, <2>2, <2>3, <3>1, <3>2 DEF Elapsed
    <3>5. QED
      BY <3>3, <3>4
  <2>6. \A w \in Workers : batch'[w] # {} => \E k \in batch'[w] : Elapsed(k, 0)'
    BY <2>1, <2>2, <2>4 DEF Windows, Elapsed
  <2>7. WindowComplete'
    <3> SUFFICES ASSUME NEW w \in Workers, NEW n \in dedupe',
                        \E k \in batch[w] : LeadOf[n] = LeadOf[k] /\ enqueuedAt'[k] < enqueuedAt'[n],
                        \A k \in batch[w] : enqueuedAt'[n] < enqueuedAt'[k] + Window
                 PROVE  n \in batch[w]
      BY <2>1 DEF WindowComplete
    <3>1. CASE n = m
      <4>1. PICK k \in batch[w] : Elapsed(k, 0)
        BY DEF Windows
      <4>2. enqueuedAt[k] + Window <= clock /\ enqueuedAt[k] \in Nat
        BY <2>1, <2>2, <2>4, <4>1 DEF Elapsed
      <4>3. enqueuedAt'[n] = clock /\ enqueuedAt'[k] = enqueuedAt[k]
        BY <2>1, <2>2, <2>4, <3>1 DEF Typed, TypeOK
      <4>4. QED
        BY <2>1, <4>2, <4>3
    <3>2. CASE n # m
      BY <2>1, <2>2, <2>4, <3>2 DEF Windows, WindowComplete
    <3>3. QED
      BY <3>1, <3>2
  <2>8. QED
    BY <2>5, <2>6, <2>7 DEF Windows
<1>2. ASSUME NEW w \in Workers, Acquire(w) PROVE Windows'
  <2>1. /\ pc[w] = "claimed" /\ job[w] \in Leads
        /\ pc' = [pc EXCEPT ![w] = "window"]
        /\ left' = [left EXCEPT ![w] = Window]
        /\ UNCHANGED <<clock, enqueuedAt, dedupe, buffers, job, batch>>
    BY <1>2 DEF Acquire, BatchSleep, Typed, Busy
  <2>2. PICK m \in buffers[job[w]] : TRUE
    BY <2>1 DEF Jobs, JobScheduled, ScheduledBuffered, Held
  <2>3. m \in dedupe /\ m \in Messages
    BY <2>1, <2>2 DEF Accounted, Buffered, Typed, TypeOK
  <2>4. left'[w] = Window
    BY <2>1 DEF Typed, TypeOK
  <2>5. Elapsed(m, left[w])'
    BY <2>1, <2>3, <2>4 DEF Elapsed, Ordered, StampsPast, Typed, TypeOK
  <2>6. \A v \in Workers : v # w => pc'[v] = pc[v] /\ left'[v] = left[v]
    BY <2>1 DEF Typed, TypeOK
  <2>7. \A v \in Workers : pc'[v] = "window" => \E k \in buffers'[job'[v]] : Elapsed(k, left[v])'
    BY <2>1, <2>2, <2>5, <2>6 DEF Windows, Elapsed
  <2>8. QED
    BY <2>1, <2>7 DEF Windows, WindowComplete, Elapsed
<1>3. ASSUME NEW w \in Workers, Collect(w) PROVE Windows'
  <2> DEFINE l == job[w]
             B == BatchOf(buffers[l])
  <2>1. /\ l \in Leads /\ B \subseteq buffers[l]
        /\ pc[w] = "window" /\ left[w] = 0 /\ batch[w] = {}
        /\ batch' = [batch EXCEPT ![w] = B]
        /\ buffers' = [buffers EXCEPT ![l] = @ \ B]
        /\ UNCHANGED <<dedupe, settled, enqueuedAt, clock, left>>
    BY <1>3 DEF Collect, BatchOf, Ownership, BatchOwned, Typed, TypeOK, Busy
  <2>2. pc'[w] # "window" /\ \A v \in Workers : v # w => pc'[v] = pc[v] /\ job'[v] = job[v]
    BY <1>3, <2>1 DEF Collect, Release, Typed, TypeOK
  <2>3. \A m \in buffers[l] : enqueuedAt[m] \in Nat
    BY <2>1 DEF Typed, TypeOK
  <2>4. \A n \in buffers[l] \ B, m \in B : enqueuedAt[m] < enqueuedAt[n]
    <3>1. buffers[l] \in SUBSET Messages
      BY <2>1 DEF Typed, TypeOK
    <3>2. QED
      BY <3>1, OldestFirst
  <2>5. \A n \in buffers[l], m \in B :
            (\A k \in B : enqueuedAt[n] < enqueuedAt[k] + Window) => n \in B
    <3> SUFFICES ASSUME NEW n \in buffers[l], NEW m \in B,
                        \A k \in B : enqueuedAt[n] < enqueuedAt[k] + Window
                 PROVE  n \in B
      OBVIOUS
    <3>1. ASSUME NEW k \in buffers[l] PROVE enqueuedAt[n] <= enqueuedAt[k] + Window + Slack
      <4>1. CASE k \in B
        BY <2>3, <4>1
      <4>2. CASE k \notin B
        <5>1. enqueuedAt[m] < enqueuedAt[k] /\ enqueuedAt[n] < enqueuedAt[m] + Window
          BY <2>4, <4>2
        <5>2. QED
          BY <2>1, <2>3, <5>1
      <4>3. QED
        BY <4>1, <4>2
    <3>2. QED
      BY <3>1 DEF BatchOf
  <2> HIDE DEF B
  <2>6. \A v \in Workers : pc'[v] = "window" => \E k \in buffers'[job'[v]] : Elapsed(k, left[v])'
    <3> SUFFICES ASSUME NEW v \in Workers, pc'[v] = "window"
                 PROVE  \E k \in buffers'[job'[v]] : Elapsed(k, left[v])'
      OBVIOUS
    <3>1. v # w /\ pc[v] = "window" /\ job'[v] = job[v]
      BY <2>2
    <3>2. job[v] # l /\ job[v] \in Leads
      BY <2>1, <3>1 DEF Ownership, LockUnique, OwnsLock, Typed, Busy
    <3>3. buffers'[job[v]] = buffers[job[v]]
      BY <2>1, <3>2 DEF Typed, TypeOK
    <3>4. QED
      BY <2>1, <3>1, <3>3 DEF Windows, Elapsed
  <2>7. \A v \in Workers : batch'[v] # {} => \E k \in batch'[v] : Elapsed(k, 0)'
    <3> SUFFICES ASSUME NEW v \in Workers, batch'[v] # {}
                 PROVE  \E k \in batch'[v] : Elapsed(k, 0)'
      OBVIOUS
    <3>1. CASE v # w
      BY <2>1, <3>1 DEF Windows, Elapsed, Typed, TypeOK
    <3>2. CASE v = w
      <4>1. batch'[w] = B
        BY <2>1 DEF Typed, TypeOK
      <4>2. PICK k \in buffers[l] : Elapsed(k, 0)
        BY <2>1 DEF Windows
      <4>3. PICK m \in B : m = k \/ k \notin B
        BY <3>2, <4>1
      <4>4. enqueuedAt[m] <= enqueuedAt[k]
        BY <2>1, <2>3, <2>4, <4>3
      <4>5. Elapsed(m, 0)'
        BY <2>1, <2>3, <4>2, <4>4 DEF Elapsed, Typed, TypeOK
      <4>6. QED
        BY <3>2, <4>1, <4>5
    <3>3. QED
      BY <3>1, <3>2
  <2>8. WindowComplete'
    <3> SUFFICES ASSUME NEW v \in Workers, NEW n \in dedupe, NEW m \in batch'[v],
                        LeadOf[n] = LeadOf[m], enqueuedAt[m] < enqueuedAt[n],
                        \A k \in batch'[v] : enqueuedAt[n] < enqueuedAt[k] + Window
                 PROVE  n \in batch'[v]
      BY <2>1 DEF WindowComplete
    <3>1. CASE v # w
      BY <2>1, <3>1 DEF Windows, WindowComplete, Typed, TypeOK
    <3>2. CASE v = w
      <4>1. batch'[v] = B
        BY <2>1, <3>2 DEF Typed, TypeOK
      <4>2. m \in Buffered /\ m \in Messages /\ LeadOf[m] = l
        BY <2>1, <4>1 DEF Buffered, Ownership, BufferOfLead, Typed, TypeOK
      <4>3. n \notin Running \cup settled
        <5>1. enqueuedAt[m] \in Nat /\ enqueuedAt[n] \in Nat
          BY <2>1, <4>2 DEF Typed, TypeOK
        <5>2. n \in Running \cup settled => enqueuedAt[n] <= enqueuedAt[m]
          BY <2>1, <4>2 DEF Ordered, InOrder
        <5>3. enqueuedAt[m] < enqueuedAt[n]
          OBVIOUS
        <5>4. QED
          BY <5>1, <5>2, <5>3
      <4>4. n \in buffers[l]
        BY <4>2, <4>3 DEF Accounted, Buffered, Ownership, BufferOfLead
      <4>5. QED
        BY <2>5, <4>1, <4>4
    <3>3. QED
      BY <3>1, <3>2
  <2>9. QED
    BY <2>6, <2>7, <2>8 DEF Windows
<1>4. ASSUME NEW w \in Workers, FinishRun(w) \/ FinishOrphan(w) PROVE Windows'
  <2>1. /\ batch' = [batch EXCEPT ![w] = {}]
        /\ UNCHANGED <<clock, enqueuedAt, dedupe, buffers, left>>
    BY <1>4 DEF FinishRun, FinishOrphan, queueVars
  <2>2. \A v \in Workers : pc'[v] = "window" => pc[v] = "window" /\ job'[v] = job[v]
    BY <1>4 DEF FinishRun, FinishOrphan, Release, Typed, TypeOK
  <2>3. \A v \in Workers : batch'[v] = {} \/ batch'[v] = batch[v]
    BY <2>1 DEF Typed, TypeOK
  <2>4. \A v \in Workers : pc'[v] = "window" => \E k \in buffers'[job'[v]] : Elapsed(k, left[v])'
    BY <2>1, <2>2 DEF Windows, Elapsed
  <2>5. \A v \in Workers : batch'[v] # {} => \E k \in batch'[v] : Elapsed(k, 0)'
    BY <2>1, <2>3 DEF Windows, Elapsed
  <2>6. WindowComplete'
    BY <2>1, <2>3 DEF Windows, WindowComplete
  <2>7. QED
    BY <2>4, <2>5, <2>6 DEF Windows
<1>5. CASE Tick
  <2>1. UNCHANGED <<enqueuedAt, dedupe, buffers, batch, pc, job>>
    BY <1>5 DEF Tick, queueVars
  <2>2. /\ \A l \in Leads : buffers[l] \subseteq Messages
        /\ \A w \in Workers : batch[w] \subseteq Messages /\ (pc[w] = "window" => job[w] \in Leads)
    BY DEF Typed, TypeOK, Busy
  <2>3. \A w \in Workers : pc'[w] = "window" => \E k \in buffers'[job'[w]] : Elapsed(k, left[w])'
    BY <1>5, <2>1, <2>2, ElapsedTick DEF Windows
  <2>4. \A w \in Workers : batch'[w] # {} => \E k \in batch'[w] : Elapsed(k, 0)'
    BY <1>5, <2>1, <2>2, ElapsedTick DEF Windows
  <2>5. WindowComplete'
    BY <2>1 DEF Windows, WindowComplete
  <2>6. QED
    BY <2>3, <2>4, <2>5 DEF Windows
<1>6. ASSUME \/ Stop \/ UNCHANGED vars
             \/ \E w \in Workers : NextLead(w) \/ AcquireFails(w) \/ Reschedule(w)
      PROVE  Windows'
  <2>1. UNCHANGED <<clock, enqueuedAt, dedupe, buffers, batch>>
    BY <1>6 DEF Stop, vars, NextLead, AcquireFails, Reschedule, queueVars, workerVars
  <2>2. \A w \in Workers : pc'[w] = "window" => /\ pc[w] = "window"
                                              /\ job'[w] = job[w] /\ left'[w] = left[w]
    BY <1>6 DEF Stop, vars, NextLead, AcquireFails, Reschedule, workerVars, Typed, TypeOK
  <2>3. QED
    BY <2>1, <2>2, WindowsFrame
<1>7. QED
  BY <1>1, <1>2, <1>3, <1>4, <1>5, <1>6 DEF Next, WorkerStep, Redeliver

\* The messages of one lead that come within one window are in one run.
THEOREM WindowInOneRun == Spec => []WindowComplete
<1>1. Spec => [](Typed /\ Ownership /\ Accounted /\ Ordered /\ Jobs /\ Windows)
  BY TypedInit, TypedStep, OwnershipInit, OwnershipStep, AccountedInit, AccountedStep,
     OrderedInit, OrderedStep, JobsInit, JobsStep, WindowsInit, WindowsStep, PTL DEF Spec
<1>2. Windows => WindowComplete
  BY DEF Windows
<1>3. QED
  BY <1>1, <1>2, PTL

-----------------------------------------------------------------------------
(* The queue keeps its promise. *)

Runs == [l \in Leads |-> {m \in Running : LeadOf[m] = l}]

LEMMA PromiseInit == Init => Promise!Init
<1> SUFFICES ASSUME Init PROVE Promise!Init
  OBVIOUS
<1>1. Buffered = {} /\ Running = {}
  BY DEF Init, Buffered, Running
<1>2. QED
  BY <1>1 DEF Init, Promise!Init

\* In the abstract the accepted messages are those of _dedupe.
LEMMA PromiseAccepted == Typed /\ Accounted => Promise!Accepted = dedupe
<1> SUFFICES ASSUME Typed, Accounted PROVE Promise!Accepted = dedupe
  OBVIOUS
<1>1. Running \subseteq Messages
  BY DEF Typed, TypeOK, Running
<1>2. UNION {Runs[l] : l \in Leads} = Running
  BY <1>1 DEF Runs
<1>3. QED
  BY <1>2 DEF Promise!Accepted, Accounted, Runs

LEMMA PromiseStep ==
    /\ Typed /\ Ownership /\ Accounted /\ Ordered
    /\ Typed' /\ Ownership' /\ Accounted'
    /\ [Next]_vars
    => [Promise!Next]_(Promise!vars)
<1> SUFFICES ASSUME Typed, Ownership, Accounted, Ordered, Typed', Ownership', Accounted', [Next]_vars
             PROVE  Promise!Next \/ UNCHANGED Promise!vars
  OBVIOUS
<1>1. ASSUME NEW m \in Messages, Enqueue(m) PROVE Promise!Next
  <2>1. /\ m \notin dedupe /\ LeadOf[m] \in Leads
        /\ buffers' = [buffers EXCEPT ![LeadOf[m]] = @ \cup {m}]
        /\ enqueuedAt' = [enqueuedAt EXCEPT ![m] = clock]
        /\ UNCHANGED <<batch, settled>>
    BY <1>1 DEF Enqueue, IsNew, workerVars
  <2>2. m \notin Promise!Accepted /\ \A n \in Promise!Accepted : enqueuedAt[n] <= clock
    BY <2>1, PromiseAccepted DEF Ordered, StampsPast
  <2>3. clock \in 0..Horizon
    BY DEF Typed, TypeOK
  <2>4. Buffered' = Buffered \cup {m}
    BY <2>1 DEF Buffered, Typed, TypeOK
  <2>5. Runs' = Runs
    BY <2>1 DEF Runs, Running
  <2>6. Promise!Accept(m)
    BY <2>1, <2>2, <2>3, <2>4, <2>5 DEF Promise!Accept, Runs
  <2>7. QED
    BY <2>6 DEF Promise!Next
<1>2. ASSUME NEW w \in Workers, Collect(w) PROVE Promise!Next \/ UNCHANGED Promise!vars
  <2>0. PICK l \in Leads, B \in SUBSET Messages : l = job[w] /\ B = BatchOf(buffers[l])
    BY <1>2 DEF Collect, BatchOf, Typed, TypeOK, Busy
  <2>1. /\ l \in Leads /\ B \subseteq buffers[l] /\ B \subseteq Messages
        /\ pc[w] = "window" /\ batch[w] = {}
        /\ batch' = [batch EXCEPT ![w] = B]
        /\ buffers' = [buffers EXCEPT ![l] = @ \ B]
        /\ UNCHANGED <<settled, enqueuedAt>>
    BY <1>2, <2>0 DEF Collect, BatchOf, Ownership, BatchOwned, Typed, TypeOK, Busy
  <2>2. \A m \in B, n \in buffers[l] \ B : enqueuedAt[m] <= enqueuedAt[n]
    <3>1. buffers[l] \in SUBSET Messages
      BY <2>1 DEF Typed, TypeOK
    <3>2. \A m \in B, n \in buffers[l] \ B : enqueuedAt[m] < enqueuedAt[n]
      BY <2>0, <3>1, OldestFirst
    <3>3. \A m \in buffers[l] : enqueuedAt[m] \in Nat
      BY <3>1 DEF Typed, TypeOK
    <3>4. QED
      BY <2>1, <3>2, <3>3
  <2>3. /\ Buffered' = Buffered \ B /\ B \subseteq Buffered
        /\ Running' = Running \cup B
    BY <2>1 DEF Running, Buffered, Ownership, BufferOfLead, Typed, TypeOK
  <2>4. /\ \A m \in B : LeadOf[m] = l
        /\ \A n \in Buffered \ B : LeadOf[n] = l => n \in buffers[l] \ B
    BY <2>1 DEF Buffered, Ownership, BufferOfLead
  <2>5. CASE B = {}
    <3>1. Buffered' = Buffered /\ Running' = Running
      BY <2>3, <2>5
    <3>2. QED
      BY <2>1, <3>1 DEF Promise!vars
  <2>6. CASE B # {}
    <3>1. Runs[l] = {}
      <4>1. \A v \in Workers : \A m \in batch[v] : LeadOf[m] # l
        BY <2>0, <2>1 DEF Ownership, BatchOwned, LockUnique, OwnsLock, StopSeen
      <4>2. QED
        BY <2>1, <4>1 DEF Runs, Running
    <3>2. Runs' = [Runs EXCEPT ![l] = B]
      <4>1. \A k \in Leads : Runs'[k] = IF k = l THEN B ELSE Runs[k]
        <5> SUFFICES ASSUME NEW k \in Leads
                     PROVE  {m \in Running' : LeadOf[m] = k} = IF k = l THEN B ELSE {m \in Running : LeadOf[m] = k}
          BY DEF Runs
        <5>1. {m \in Running : LeadOf[m] = l} = {}
          BY <2>1, <3>1 DEF Runs
        <5>2. QED
          BY <2>3, <2>4, <5>1
      <4>2. QED
        BY <2>1, <4>1 DEF Runs
    <3>3. Promise!Start(l, B)
      BY <2>1, <2>2, <2>3, <2>4, <2>6, <3>1, <3>2 DEF Promise!Start, Runs
    <3>4. QED
      BY <2>1, <3>3 DEF Promise!Next
  <2>7. QED
    BY <2>5, <2>6
<1>3. ASSUME NEW w \in Workers, FinishRun(w) \/ FinishOrphan(w)
      PROVE  Promise!Next \/ UNCHANGED Promise!vars
  <2>1. /\ batch' = [batch EXCEPT ![w] = {}]
        /\ settled' = settled \cup batch[w]
        /\ UNCHANGED <<buffers, enqueuedAt>>
    BY <1>3 DEF FinishRun, FinishOrphan, queueVars
  <2>2. /\ Buffered' = Buffered
        /\ Running' = Running \ batch[w]
    BY <2>1 DEF Buffered, Running, Accounted, Typed, TypeOK
  <2>3. CASE batch[w] = {}
    BY <2>1, <2>2, <2>3 DEF Promise!vars
  <2>4. CASE batch[w] # {}
    <3>1. PICK m \in batch[w] : TRUE
      BY <2>4
    <3> DEFINE l == LeadOf[m]
    <3>2. l \in Leads /\ batch[w] \subseteq Messages
      BY <3>1 DEF Typed, TypeOK
    <3>3. \A n \in batch[w] : LeadOf[n] = l
      BY <3>1 DEF Ownership, SameLead
    <3>3a. \A n \in Running : LeadOf[n] = l => n \in batch[w]
      BY <3>1 DEF Running, Ownership, OneRunPerLead
    <3>3b. batch[w] \subseteq Running
      BY DEF Running
    <3>4. Runs[l] = batch[w]
      BY <3>2, <3>3, <3>3a, <3>3b DEF Runs
    <3>5. Runs' = [Runs EXCEPT ![l] = {}]
      BY <2>2, <3>2, <3>3, <3>4 DEF Runs
    <3>6. Promise!Finish(l)
      BY <2>1, <2>2, <2>4, <3>2, <3>4, <3>5 DEF Promise!Finish, Runs
    <3>7. QED
      BY <3>2, <3>6 DEF Promise!Next
  <2>5. QED
    BY <2>3, <2>4
<1>4. ASSUME \/ Stop \/ Tick \/ UNCHANGED vars
             \/ \E w \in Workers : NextLead(w) \/ Acquire(w) \/ AcquireFails(w) \/ Reschedule(w)
      PROVE  UNCHANGED Promise!vars
  <2>1. UNCHANGED <<enqueuedAt, buffers, batch, settled>>
    BY <1>4 DEF Stop, Tick, vars, NextLead, Acquire, AcquireFails, Reschedule, queueVars, workerVars
  <2>2. QED
    BY <2>1 DEF Promise!vars, Buffered, Running
<1>5. QED
  BY <1>1, <1>2, <1>3, <1>4 DEF Next, WorkerStep, Redeliver

\* The queue and its workers implement LeadBatches.
THEOREM QueueKeepsPromise == Spec => ImplementsPromise
<1>1. Spec => [](Typed /\ Ownership /\ Accounted /\ Ordered)
  BY TypedInit, TypedStep, OwnershipInit, OwnershipStep, AccountedInit, AccountedStep,
     OrderedInit, OrderedStep, PTL DEF Spec
<1>2. QED
  BY <1>1, PromiseInit, PromiseStep, PTL DEF Spec, ImplementsPromise, Promise!Spec

\* Both queues keep one promise: BestEffort is LeadBatches with losses allowed, and
\* the queue in memory never uses them.
Weaker == INSTANCE BestEffort WITH
    waiting <- Buffered,
    running <- [l \in Leads |-> {m \in Running : LeadOf[m] = l}],
    lost <- {}

LEMMA PromiseIsStronger ==
    [Promise!Next]_(Promise!vars) => [Weaker!Next]_(Weaker!vars)
<1>1. ASSUME NEW m \in Messages, Promise!Accept(m) PROVE Weaker!Accept(m)
  BY <1>1 DEF Promise!Accept, Promise!Accepted, Weaker!Accept, Weaker!Running
<1>2. ASSUME NEW l \in Leads, NEW B \in SUBSET Messages, Promise!Start(l, B) PROVE Weaker!Start(l, B)
  BY <1>2 DEF Promise!Start, Weaker!Start
<1>3. ASSUME NEW l \in Leads, Promise!Finish(l) PROVE Weaker!Finish(l)
  BY <1>3 DEF Promise!Finish, Weaker!Finish
<1>4. CASE UNCHANGED Promise!vars
  BY <1>4 DEF Promise!vars, Weaker!vars
<1>5. CASE Promise!Next
  BY <1>1, <1>2, <1>3, <1>5 DEF Promise!Next, Weaker!Next
<1>6. QED
  BY <1>4, <1>5

\* The queue in memory keeps the promise of every queue, and loses nothing: which of
\* the two the settings choose changes only what a crash or a race may cost.
THEOREM QueueKeepsWeaker == Spec => Weaker!Spec
<1>1. Promise!Init => Weaker!Init
  BY DEF Promise!Init, Weaker!Init
<1>2. QED
  BY <1>1, QueueKeepsPromise, PromiseIsStronger, PTL DEF ImplementsPromise, Promise!Spec, Weaker!Spec

-----------------------------------------------------------------------------
(* One worker strands nobody. *)

\* Nobody backs off, and every scheduled lead keeps its job, until stop.
JobKept ==
    stopping \/ /\ \A w \in Workers : pc[w] # "backoff"
                /\ \A l \in scheduled : HasJob(l)

LEMMA JobKeptStep ==
    ASSUME NEW x, Workers = {x},
           Typed, Ownership, Jobs, JobKept, [Next]_vars
    PROVE  JobKept'
<1>1. ASSUME NEW m \in Messages, Enqueue(m) PROVE JobKept'
  <2> DEFINE l == LeadOf[m]
  <2>1. /\ l \in Leads /\ scheduled' = scheduled \cup {l}
        /\ leadQueue' = IF l \in scheduled THEN leadQueue ELSE Append(leadQueue, l)
        /\ UNCHANGED <<pc, job, stopping>>
    BY <1>1 DEF Enqueue, Schedule, workerVars
  <2>2. /\ leadQueue \in Seq(Leads) /\ Len(leadQueue) \in Nat
        /\ 1..Len(leadQueue) \subseteq 1..Len(leadQueue')
        /\ \A i \in 1..Len(leadQueue) : leadQueue'[i] = leadQueue[i]
        /\ l \notin scheduled => \E i \in 1..Len(leadQueue') : leadQueue'[i] = l
    <3>1. leadQueue \in Seq(Leads)
      BY DEF Typed, TypeOK
    <3>2. CASE l \in scheduled
      BY <2>1, <3>1, <3>2
    <3>3. CASE l \notin scheduled
      <4>1. /\ Len(leadQueue') = Len(leadQueue) + 1
            /\ leadQueue'[Len(leadQueue) + 1] = l
            /\ \A i \in 1..Len(leadQueue) : leadQueue'[i] = leadQueue[i]
        BY <2>1, <3>1, <3>3
      <4>2. Len(leadQueue) + 1 \in 1..Len(leadQueue')
        BY <3>1, <4>1
      <4>3. QED
        BY <3>1, <4>1, <4>2
    <3>4. QED
      BY <3>2, <3>3
  <2>3. \A k \in Leads : HasJob(k) => HasJob(k)'
    BY <2>1, <2>2 DEF HasJob
  <2>4. l \in scheduled \/ HasJob(l)'
    BY <2>2 DEF HasJob
  <2>5. QED
    BY <2>1, <2>3, <2>4 DEF JobKept, Typed, TypeOK
<1>2. ASSUME NEW w \in Workers, NextLead(w) PROVE JobKept'
  <2>1. /\ leadQueue # <<>> /\ leadQueue' = Tail(leadQueue)
        /\ pc[w] = "idle"
        /\ pc'[w] = "claimed"
        /\ job'[w] = Head(leadQueue)
        /\ UNCHANGED <<scheduled, stopping>>
    BY <1>2 DEF NextLead, Typed, TypeOK
  <2>2. ASSUME NEW l \in Leads, HasJob(l) PROVE HasJob(l)'
    <3>1. PICK i \in 1..Len(leadQueue) : leadQueue[i] = l
      BY <2>1, <2>2 DEF HasJob
    <3>2. CASE i = 1
      BY <2>1, <3>1, <3>2 DEF HasJob, Typed, TypeOK
    <3>3. CASE i # 1
      <4>1. i - 1 \in 1..Len(leadQueue') /\ leadQueue'[i - 1] = l
        BY <2>1, <3>1, <3>3 DEF Typed, TypeOK
      <4>2. QED
        BY <4>1 DEF HasJob
    <3>4. QED
      BY <3>2, <3>3
  <2>3. QED
    BY <2>1, <2>2 DEF JobKept, Typed, TypeOK
<1>3. ASSUME NEW w \in Workers, Acquire(w) PROVE JobKept'
  <2>1. /\ pc[w] = "claimed" /\ pc' = [pc EXCEPT ![w] = "window"]
        /\ UNCHANGED <<job, scheduled, leadQueue, stopping>>
    BY <1>3 DEF Acquire
  <2>2. \A l \in Leads : HasJob(l) => HasJob(l)'
    BY <2>1 DEF HasJob, Typed, TypeOK
  <2>3. QED
    BY <2>1, <2>2 DEF JobKept, Typed, TypeOK
<1>4. ASSUME NEW w \in Workers, AcquireFails(w) PROVE JobKept'
  \* The only worker owns no lock, so no lock is held: this cannot happen.
  BY <1>4 DEF AcquireFails, LockFree, Ownership, LockOwned, OwnsLock
<1>5. ASSUME NEW w \in Workers, Reschedule(w) PROVE JobKept'
  BY <1>5 DEF Reschedule, JobKept
<1>6. ASSUME NEW w \in Workers, Collect(w) PROVE JobKept'
  <2>0a. PICK l \in Leads : l = job[w]
    BY <1>6 DEF Collect, Typed, Busy
  <2>0b. PICK rest : rest = buffers[l] \ BatchOf(buffers[l])
    OBVIOUS
  <2>1. /\ l \in Leads /\ pc[w] = "window" /\ Leftover(l, rest)
        /\ pc'[w] \in {"idle", "running"} /\ stopping' = stopping
    BY <1>6, <2>0a, <2>0b DEF Collect, Release, Typed, TypeOK, Busy
  <2>2. \A k \in Leads : HasJob(k) /\ k # l => \E i \in 1..Len(leadQueue) : leadQueue[i] = k
    BY <2>0a DEF HasJob
  <2>3. CASE rest = {}
    <3>1. scheduled' = scheduled \ {l} /\ leadQueue' = leadQueue
      BY <2>1, <2>3 DEF Leftover
    <3>2. QED
      BY <2>1, <2>2, <3>1 DEF JobKept, HasJob, Typed, TypeOK
  <2>4. CASE rest # {}
    <3>1. scheduled' = scheduled \cup {l} /\ leadQueue' = Append(leadQueue, l)
      BY <2>1, <2>4 DEF Leftover
    <3>2. /\ Len(leadQueue') = Len(leadQueue) + 1 /\ Len(leadQueue) \in Nat
          /\ leadQueue'[Len(leadQueue) + 1] = l
          /\ \A i \in 1..Len(leadQueue) : leadQueue'[i] = leadQueue[i]
      BY <2>1, <3>1 DEF Typed, TypeOK
    <3>3. /\ Len(leadQueue) + 1 \in 1..Len(leadQueue')
          /\ 1..Len(leadQueue) \subseteq 1..Len(leadQueue')
      BY <3>2
    <3>4. HasJob(l)'
      BY <3>2, <3>3 DEF HasJob
    <3>5. \A k \in Leads : HasJob(k) /\ k # l => HasJob(k)'
      BY <2>2, <3>2, <3>3 DEF HasJob
    <3>6. QED
      BY <2>1, <3>1, <3>4, <3>5 DEF JobKept, Typed, TypeOK
  <2>5. QED
    BY <2>3, <2>4
<1>7. ASSUME NEW w \in Workers, FinishRun(w) PROVE JobKept'
  <2>1. /\ pc[w] = "running" /\ pc'[w] = "idle"
        /\ UNCHANGED <<scheduled, leadQueue, stopping>>
    BY <1>7 DEF FinishRun, Release, Typed, TypeOK
  <2>2. \A l \in Leads : HasJob(l) => HasJob(l)'
    BY <2>1 DEF HasJob
  <2>3. QED
    BY <2>1, <2>2 DEF JobKept, Typed, TypeOK
<1>8. ASSUME Tick \/ UNCHANGED vars \/ \E w \in Workers : FinishOrphan(w) PROVE JobKept'
  <2>1. UNCHANGED <<scheduled, leadQueue, stopping, pc, job>>
    BY <1>8 DEF Tick, vars, FinishOrphan, queueVars, workerVars
  <2>2. QED
    BY <2>1 DEF JobKept, HasJob
<1>9. CASE Stop
  BY <1>9 DEF Stop, JobKept
<1>10. QED
  BY <1>1, <1>2, <1>3, <1>4, <1>5, <1>6, <1>7, <1>8, <1>9 DEF Next, WorkerStep, Redeliver

\* With a single worker no lead is ever stranded: the loss of a job takes two.
THEOREM OneWorkerStrandsNobody ==
    ASSUME NEW x, Workers = {x}
    PROVE  Spec => []NoStrandedLead
<1>1. Init => JobKept
  BY DEF Init, JobKept
<1>2. Typed /\ Ownership /\ Jobs /\ JobKept /\ [Next]_vars => JobKept'
  BY JobKeptStep
<1>3. Spec => [](Typed /\ Ownership /\ Jobs /\ JobKept)
  BY <1>1, <1>2, TypedInit, TypedStep, OwnershipInit, OwnershipStep, JobsInit, JobsStep, PTL
     DEF Spec
<1>4. Typed /\ Jobs /\ JobKept => NoStrandedLead
  BY DEF Typed, TypeOK, Jobs, ScheduledBuffered, JobKept, NoStrandedLead, Stranded
<1>5. QED
  BY <1>3, <1>4, PTL

=============================================================================
