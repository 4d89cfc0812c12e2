-------------------------- MODULE RedisQueueProofs --------------------------
(***************************************************************************)
(* Proofs about RedisQueue, for any leads, messages and workers and any      *)
(* number of crashes and failing commands.                                  *)
(*                                                                         *)
(* One inductive invariant: who owns which lock, what each of the places a   *)
(* message can be in says of it, and that the stamps tell the messages       *)
(* apart, which makes the order of a push back well defined.                 *)
(***************************************************************************)
EXTENDS RedisQueue, TLAPS, SequenceTheorems, FiniteSetTheorems

USE RedisAssumption DEF RedisAssumption

Listed(l) == ToSet(messages[l])
Taken(w) == ToSet(rows[w])

\* No two messages have one stamp.
Counting ==
    /\ IsFiniteSet(dedupe)
    /\ \A m \in dedupe : stamp[m] <= Cardinality(dedupe)
    /\ \A m, n \in dedupe : stamp[m] = stamp[n] => m = n

\* A worker past SET lock owns the lock of its job, alone.
Owning ==
    /\ \A w \in Workers : OwnsLock(w) => job[w] \in locks
    /\ \A v, w \in Workers : OwnsLock(v) /\ OwnsLock(w) /\ job[v] = job[w] => v = w

\* A message that was accepted and pushed, and whose run has not ended.
Pending(m) == m \in dedupe \ settled /\ sender[m] # "push"

ListsPending == \A l \in Leads : \A m \in Listed(l) : LeadOf[m] = l /\ Pending(m)
RowsPending ==
    \A w \in Workers : \A m \in Taken(w) :
        /\ pc[w] \in {"delete", "unflag", "split"}
        /\ LeadOf[m] = job[w] /\ Pending(m)
        /\ pc[w] # "delete" => m \notin Listed(job[w])
BatchesPending ==
    \A w \in Workers : \A m \in batch[w] :
        /\ pc[w] = "running"
        /\ LeadOf[m] = job[w] /\ Pending(m)
        /\ m \notin Listed(job[w])
SettledMarked ==
    /\ settled \subseteq dedupe
    /\ \A m \in settled : sender[m] # "push"
    /\ \A m \in Messages : sender[m] # "none" => m \in dedupe

Places == ListsPending /\ RowsPending /\ BatchesPending /\ SettledMarked
RedisInv == TypeOK /\ Counting /\ Owning /\ Places

-----------------------------------------------------------------------------
(* Lists and their elements. *)

LEMMA ListOfNone == ToSet(<<>>) = {}
BY DEF ToSet

LEMMA NothingListed ==
    ASSUME NEW S, NEW s \in Seq(S), ToSet(s) = {}
    PROVE  s = <<>>
<1>1. DOMAIN s = 1..Len(s) /\ Len(s) \in Nat
  BY LenProperties
<1>2. ASSUME Len(s) # 0 PROVE FALSE
  <2>1. 1 \in DOMAIN s
    BY <1>1, <1>2
  <2>2. s[1] \in ToSet(s)
    BY <2>1 DEF ToSet
  <2> QED
    BY <2>2
<1> QED
  BY <1>2, EmptySeq

LEMMA ListWithOneMore ==
    ASSUME NEW S, NEW s \in Seq(S), NEW x \in S
    PROVE  Append(s, x) \in Seq(S) /\ ToSet(Append(s, x)) = ToSet(s) \cup {x}
<1>1. /\ Append(s, x) \in Seq(S) /\ Len(Append(s, x)) = Len(s) + 1
      /\ \A i \in 1..Len(s) : Append(s, x)[i] = s[i]
      /\ Append(s, x)[Len(s) + 1] = x
  BY AppendProperties
<1>2. DOMAIN s = 1..Len(s) /\ DOMAIN Append(s, x) = 1..(Len(s) + 1) /\ Len(s) \in Nat
  BY <1>1, LenProperties
<1>3. 1..(Len(s) + 1) = 1..Len(s) \cup {Len(s) + 1}
  BY <1>2
<1> QED
  BY <1>1, <1>2, <1>3 DEF ToSet

LEMMA ListJoined ==
    ASSUME NEW S, NEW s \in Seq(S), NEW t \in Seq(S)
    PROVE  s \o t \in Seq(S) /\ ToSet(s \o t) = ToSet(s) \cup ToSet(t)
<1>1. /\ s \o t \in Seq(S) /\ Len(s \o t) = Len(s) + Len(t)
      /\ \A i \in 1..(Len(s) + Len(t)) :
             (s \o t)[i] = IF i <= Len(s) THEN s[i] ELSE t[i - Len(s)]
  BY ConcatProperties
<1>2. /\ DOMAIN s = 1..Len(s) /\ DOMAIN t = 1..Len(t) /\ DOMAIN (s \o t) = 1..(Len(s) + Len(t))
      /\ Len(s) \in Nat /\ Len(t) \in Nat
  BY <1>1, LenProperties
<1>3. ToSet(s \o t) \subseteq ToSet(s) \cup ToSet(t)
  BY <1>1, <1>2 DEF ToSet
<1>4. ToSet(s) \subseteq ToSet(s \o t)
  BY <1>1, <1>2 DEF ToSet
<1>5. ASSUME NEW j \in 1..Len(t) PROVE t[j] \in ToSet(s \o t)
  <2>1. Len(s) + j \in 1..(Len(s) + Len(t)) /\ ~(Len(s) + j <= Len(s)) /\ (Len(s) + j) - Len(s) = j
    BY <1>2
  <2>2. (s \o t)[Len(s) + j] = t[j]
    BY <1>1, <2>1
  <2> QED
    BY <1>2, <2>1, <2>2 DEF ToSet
<1>6. ToSet(t) \subseteq ToSet(s \o t)
  BY <1>2, <1>5 DEF ToSet
<1> QED
  BY <1>1, <1>3, <1>4, <1>6

LEMMA ListElements ==
    ASSUME NEW S, NEW s \in Seq(S)
    PROVE  ToSet(s) \subseteq S /\ IsFiniteSet(ToSet(s))
<1>1. DOMAIN s = 1..Len(s) /\ Len(s) \in Nat /\ \A i \in 1..Len(s) : s[i] \in S
  BY LenProperties, ElementOfSeq
<1>2. s \in Surjection(1..Len(s), ToSet(s))
  BY <1>1, LenProperties DEF Surjection, ToSet
<1>3. IsFiniteSet(1..Len(s))
  BY <1>1, FS_Interval
<1> QED
  BY <1>1, <1>2, <1>3, FS_Surjection DEF ToSet

-----------------------------------------------------------------------------
(* The order of a push back. *)

Rank(R, m) == Cardinality({n \in R : stamp[n] <= stamp[m]})

\* Ranking a finite set of stamped messages enumerates it.
LEMMA ByArrivalEnumerates ==
    ASSUME NEW R, IsFiniteSet(R), \A m \in R : stamp[m] \in Nat,
           \A m, n \in R : stamp[m] = stamp[n] => m = n
    PROVE  ByArrival(R) \in Seq(R) /\ ToSet(ByArrival(R)) = R
<1> DEFINE N == Cardinality(R)
           rank == [m \in R |-> Rank(R, m)]
           upTo(m) == {n \in R : stamp[n] <= stamp[m]}
<1>1. N \in Nat
  BY FS_CardinalityType
<1>2. ASSUME NEW m \in R
      PROVE  upTo(m) \subseteq R /\ IsFiniteSet(upTo(m)) /\ Rank(R, m) \in 1..N
  <2>1. upTo(m) \in SUBSET R /\ m \in upTo(m)
    OBVIOUS
  <2>2. IsFiniteSet(upTo(m)) /\ Cardinality(upTo(m)) <= N /\ Cardinality(upTo(m)) \in Nat
    BY <2>1, FS_Subset, FS_CardinalityType
  <2>3. Cardinality(upTo(m)) # 0
    BY <2>1, <2>2, FS_EmptySet
  <2> QED
    BY <1>1, <2>1, <2>2, <2>3 DEF Rank
<1>3. ASSUME NEW m \in R, NEW n \in R, stamp[m] < stamp[n]
      PROVE  Rank(R, m) # Rank(R, n)
  <2>1. upTo(m) \in SUBSET upTo(n) /\ n \in upTo(n) /\ n \notin upTo(m)
    BY <1>3
  <2>2. upTo(m) # upTo(n)
    BY <2>1
  <2> QED
    BY <1>2, <2>1, <2>2, FS_Subset DEF Rank
<1>4. rank \in Injection(R, 1..N)
  <2>1. rank \in [R -> 1..N]
    BY <1>2
  <2>2. \A m, n \in R : rank[m] = rank[n] => m = n
    BY <1>3
  <2> QED
    BY <2>1, <2>2 DEF Injection, IsInjective
<1>5. rank \in Surjection(R, 1..N)
  <2>1. IsFiniteSet(1..N) /\ Cardinality(1..N) = N
    BY <1>1, FS_Interval
  <2> QED
    BY <1>4, <2>1, FS_Injection
<1>6. \A i \in 1..N : \E m \in R : Rank(R, m) = i
  BY <1>5 DEF Surjection
<1>7. \A m, n \in R : Rank(R, m) = Rank(R, n) => m = n
  BY <1>3
<1>8. ByArrival(R) = [i \in 1..N |-> CHOOSE m \in R : Rank(R, m) = i]
  BY DEF ByArrival, Rank
<1>9. \A i \in 1..N : ByArrival(R)[i] \in R /\ Rank(R, ByArrival(R)[i]) = i
  BY <1>6, <1>8
<1>10. ByArrival(R) \in [1..N -> R]
  BY <1>8, <1>9
<1>11. ByArrival(R) \in Seq(R)
  BY <1>1, <1>10, SeqDef
<1>12. \A m \in R : ByArrival(R)[Rank(R, m)] = m
  BY <1>2, <1>7, <1>9
<1>13. DOMAIN ByArrival(R) = 1..N
  BY <1>10
<1>14. ToSet(ByArrival(R)) \subseteq R
  BY <1>9, <1>13 DEF ToSet
<1>15. ASSUME NEW m \in R PROVE m \in ToSet(ByArrival(R))
  <2>1. Rank(R, m) \in DOMAIN ByArrival(R) /\ ByArrival(R)[Rank(R, m)] = m
    BY <1>2, <1>12, <1>13
  <2> QED
    BY <2>1 DEF ToSet
<1> QED
  BY <1>11, <1>14, <1>15

USE DEF Listed, Taken

-----------------------------------------------------------------------------
(* What most steps leave alone. *)

\* Only a worker that collects has rows, only one that runs has a batch.
LEMMA HandsEmpty ==
    ASSUME Places, NEW w \in Workers, ~OwnsLock(w)
    PROVE  Taken(w) = {} /\ batch[w] = {}
BY DEF Places, RowsPending, BatchesPending, OwnsLock

\* A step that moves no message, and no worker that has one in hand.
LEMMA PlacesKept ==
    ASSUME Places, UNCHANGED <<messages, rows, batch, settled>>,
           dedupe \subseteq dedupe',
           \A m \in dedupe : sender[m] # "push" => sender'[m] # "push",
           \A m \in Messages : sender'[m] # "none" => m \in dedupe',
           \A w \in Workers : OwnsLock(w) => pc'[w] = pc[w] /\ job'[w] = job[w]
    PROVE  Places'
<1> USE DEF Places, Pending
<1>1. ListsPending'
  BY DEF ListsPending
<1>2. \A w \in Workers : ToSet(rows[w]) # {} \/ batch[w] # {} =>
          pc'[w] = pc[w] /\ job'[w] = job[w]
  BY HandsEmpty
<1>3. RowsPending'
  BY <1>2 DEF RowsPending
<1>4. BatchesPending'
  BY <1>2 DEF BatchesPending
<1>5. SettledMarked'
  BY DEF SettledMarked
<1> QED
  BY <1>1, <1>3, <1>4, <1>5

\* A step by which no worker comes to own a lock, and no owner loses its own.
LEMMA OwningKept ==
    ASSUME Owning, 
           \A w \in Workers : OwnsLock(w)' =>
               OwnsLock(w) /\ job'[w] = job[w] /\ (job[w] \in locks => job[w] \in locks')
    PROVE  Owning'
BY DEF Owning

LEMMA CountingKept ==
    ASSUME Counting, UNCHANGED <<dedupe, stamp>>
    PROVE  Counting'
BY DEF Counting

\* A step of one worker that owns no lock before it nor after it.
LEMMA WorkerMoves ==
    ASSUME RedisInv, NEW w \in Workers, ~OwnsLock(w), NEW x \in PCs,
           x \notin {"window", "delete", "unflag", "split", "running"}, Goto(w, x),
           \A v \in Workers : v # w => job'[v] = job[v],
           UNCHANGED <<senderVars, locks, messages, rows, batch, settled>>
    PROVE  Counting' /\ Owning' /\ Places'
<1>1. pc' = [pc EXCEPT ![w] = x] /\ pc \in [Workers -> PCs]
  BY DEF Goto, RedisInv, TypeOK
<1>2. ~OwnsLock(w)' /\ \A v \in Workers : v # w => pc'[v] = pc[v] /\ (OwnsLock(v)' = OwnsLock(v))
  BY <1>1 DEF OwnsLock
<1>3. Owning'
  BY <1>2, OwningKept DEF RedisInv
<1>4. Places'
  BY <1>2, PlacesKept DEF RedisInv, Places, SettledMarked, senderVars
<1> QED
  BY <1>3, <1>4, CountingKept DEF RedisInv, senderVars

-----------------------------------------------------------------------------
(* The webhook's steps. *)

LEMMA RedisInvInit == Init => RedisInv
<1> SUFFICES ASSUME Init PROVE RedisInv
  OBVIOUS
<1> USE DEF Init
<1>1. TypeOK
  BY DEF TypeOK, PCs
<1>2. Counting
  BY FS_EmptySet DEF Counting
<1>3. Owning
  BY DEF Owning, OwnsLock
<1>4. Places
  BY ListOfNone
     DEF Places, ListsPending, RowsPending, BatchesPending, SettledMarked
<1> QED
  BY <1>1, <1>2, <1>3, <1>4 DEF RedisInv

\* A new message gets a stamp of its own.
LEMMA MarkCounts ==
    ASSUME RedisInv, NEW m \in Messages, Mark(m)
    PROVE  Counting' /\ stamp' \in [Messages -> Nat]
<1> DEFINE n == Cardinality(dedupe)
<1>1. n \in Nat /\ stamp' = [stamp EXCEPT ![m] = n + 1] /\ stamp \in [Messages -> Nat]
  BY FS_CardinalityType DEF Mark, RedisInv, TypeOK, Counting
<1>2. IsFiniteSet(dedupe') /\ Cardinality(dedupe') = n + 1
  BY FS_AddElement DEF Mark, RedisInv, Counting
<1>3. \A k \in dedupe : k # m /\ k \in Messages /\ stamp'[k] = stamp[k] /\ stamp[k] <= n
  BY <1>1 DEF Mark, RedisInv, Counting, TypeOK
<1>4. stamp'[m] = n + 1 /\ dedupe' = dedupe \cup {m}
  BY <1>1 DEF Mark
<1>5. \A k \in dedupe' : stamp'[k] <= Cardinality(dedupe')
  <2> SUFFICES ASSUME NEW k \in dedupe PROVE stamp'[k] <= n + 1
    BY <1>1, <1>2, <1>4
  <2>1. stamp[k] \in Nat
    BY <1>1, <1>3
  <2> QED
    BY <1>1, <1>3, <2>1
<1>6. \A j, k \in dedupe' : stamp'[j] = stamp'[k] => j = k
  <2>1. \A j, k \in dedupe : stamp'[j] = stamp'[k] => j = k
    BY <1>3 DEF RedisInv, Counting
  <2>2. \A k \in dedupe : stamp'[k] # n + 1
    BY <1>1, <1>3
  <2> QED
    BY <1>4, <2>1, <2>2
<1> QED
  BY <1>1, <1>2, <1>5, <1>6 DEF Counting

\* Workers that come back own nothing.
LEMMA Revived ==
    ASSUME RedisInv, Revive, UNCHANGED <<job, locks>>
    PROVE  /\ pc' \in [Workers -> PCs]
           /\ \A w \in Workers : OwnsLock(w)' = OwnsLock(w) /\ (OwnsLock(w) => pc'[w] = pc[w])
           /\ \A w \in Workers : pc'[w] \in {"idle", "dead", "scan"} <=> job'[w] = NoLead
           /\ Owning'
<1>1. \A w \in Workers : pc'[w] = IF pc[w] = "dead" THEN "idle" ELSE pc[w]
  BY DEF Revive, Missing
<1>2. pc' \in [Workers -> PCs]
  BY DEF Revive, RedisInv, TypeOK, PCs
<1>3. \A w \in Workers : OwnsLock(w)' = OwnsLock(w) /\ (OwnsLock(w) => pc'[w] = pc[w])
  BY <1>1 DEF OwnsLock
<1>4. \A w \in Workers : pc'[w] \in {"idle", "dead", "scan"} <=> job'[w] = NoLead
  BY <1>1 DEF RedisInv, TypeOK
<1> QED
  BY <1>2, <1>3, <1>4, OwningKept DEF RedisInv

LEMMA MarkStep ==
    ASSUME RedisInv, NEW m \in Messages, Mark(m)
    PROVE  RedisInv'
<1>1. Counting' /\ stamp' \in [Messages -> Nat]
  BY MarkCounts
<1>2. /\ pc' \in [Workers -> PCs]
      /\ \A w \in Workers : OwnsLock(w)' = OwnsLock(w) /\ (OwnsLock(w) => pc'[w] = pc[w])
      /\ \A w \in Workers : pc'[w] \in {"idle", "dead", "scan"} <=> job'[w] = NoLead
      /\ Owning'
  BY Revived DEF Mark
<1>3. TypeOK'
  BY <1>1, <1>2 DEF Mark, RedisInv, TypeOK
<1>4. /\ \A k \in dedupe : sender'[k] = sender[k]
      /\ \A k \in Messages : sender'[k] # "none" => k \in dedupe'
      /\ dedupe \subseteq dedupe'
  BY DEF Mark, RedisInv, TypeOK, Places, SettledMarked
<1>5. Places'
  BY <1>2, <1>4, PlacesKept DEF Mark, RedisInv
<1> QED
  BY <1>1, <1>2, <1>3, <1>5 DEF RedisInv

LEMMA MarkFailsStep ==
    ASSUME RedisInv, NEW m \in Messages, MarkFails(m)
    PROVE  RedisInv'
<1>1. /\ pc' \in [Workers -> PCs]
      /\ \A w \in Workers : OwnsLock(w)' = OwnsLock(w) /\ (OwnsLock(w) => pc'[w] = pc[w])
      /\ \A w \in Workers : pc'[w] \in {"idle", "dead", "scan"} <=> job'[w] = NoLead
      /\ Owning'
  BY Revived DEF MarkFails
<1>2. TypeOK'
  BY <1>1 DEF MarkFails, RedisInv, TypeOK, senderVars
<1>3. Places'
  BY <1>1, PlacesKept DEF MarkFails, RedisInv, Places, SettledMarked, senderVars
<1>4. Counting'
  BY CountingKept DEF MarkFails, RedisInv, senderVars
<1> QED
  BY <1>1, <1>2, <1>3, <1>4 DEF RedisInv

\* A pushed message is pending for the first time.
LEMMA PushStep ==
    ASSUME RedisInv, NEW m \in Messages, Push(m)
    PROVE  RedisInv'
<1> DEFINE l == LeadOf[m]
<1>1. /\ l \in Leads /\ messages[l] \in Seq(Messages)
      /\ messages' = [messages EXCEPT ![l] = Append(messages[l], m)]
      /\ sender' = [sender EXCEPT ![m] = "flag"]
      /\ messages \in [Leads -> Seq(Messages)]
      /\ sender \in [Messages -> {"none", "push", "flag", "add"}]
  BY DEF Push, RedisInv, TypeOK
<1>2. /\ Append(messages[l], m) \in Seq(Messages)
      /\ ToSet(messages'[l]) = ToSet(messages[l]) \cup {m}
      /\ \A k \in Leads : k # l => messages'[k] = messages[k]
  BY <1>1, ListWithOneMore
<1>3. sender[m] = "push" /\ sender'[m] = "flag" /\ \A k \in Messages : k # m => sender'[k] = sender[k]
  BY <1>1 DEF Push
<1>4. TypeOK'
  BY <1>1, <1>2 DEF Push, RedisInv, TypeOK, workerVars
<1>5. UNCHANGED <<stamp, dedupe, locks, pc, job, rows, batch, settled>>
  BY DEF Push, workerVars
<1>6. Counting' /\ Owning'
  BY <1>5, CountingKept DEF RedisInv, Owning, OwnsLock
<1>7. m \in dedupe \ settled
  BY <1>3 DEF RedisInv, Places, SettledMarked
<1>8. \A k \in dedupe : Pending(k) => Pending(k)' /\ k # m
  BY <1>3, <1>5 DEF Pending, RedisInv, TypeOK
<1>9. ListsPending'
  <2>1. Pending(m)'
    BY <1>3, <1>5, <1>7 DEF Pending
  <2> QED
    BY <1>2, <1>8, <2>1 DEF RedisInv, Places, ListsPending, Pending
<1>10. RowsPending'
  <2> SUFFICES ASSUME NEW w \in Workers, NEW k \in ToSet(rows[w])
               PROVE  /\ pc[w] \in {"delete", "unflag", "split"}
                      /\ LeadOf[k] = job[w] /\ Pending(k)'
                      /\ pc[w] # "delete" => k \notin ToSet(messages'[job[w]])
    BY <1>5 DEF RowsPending
  <2>1. /\ pc[w] \in {"delete", "unflag", "split"} /\ LeadOf[k] = job[w] /\ Pending(k)
        /\ pc[w] # "delete" => k \notin ToSet(messages[job[w]])
    BY DEF RedisInv, Places, RowsPending
  <2>2. k \in dedupe /\ k # m /\ Pending(k)'
    BY <1>8, <2>1 DEF Pending
  <2>3. job[w] \in Leads
    BY <2>1, <2>2 DEF RedisInv, TypeOK
  <2> QED
    BY <1>2, <2>1, <2>2, <2>3
<1>11. BatchesPending'
  <2> SUFFICES ASSUME NEW w \in Workers, NEW k \in batch[w]
               PROVE  /\ pc[w] = "running"
                      /\ LeadOf[k] = job[w] /\ Pending(k)'
                      /\ k \notin ToSet(messages'[job[w]])
    BY <1>5 DEF BatchesPending
  <2>1. /\ pc[w] = "running" /\ LeadOf[k] = job[w] /\ Pending(k)
        /\ k \notin ToSet(messages[job[w]])
    BY DEF RedisInv, Places, BatchesPending
  <2>2. k \in dedupe /\ k # m /\ Pending(k)'
    BY <1>8, <2>1 DEF Pending
  <2>3. job[w] \in Leads
    BY <2>1, <2>2 DEF RedisInv, TypeOK
  <2> QED
    BY <1>2, <2>1, <2>2, <2>3
<1>12. SettledMarked'
  BY <1>3, <1>5, <1>7 DEF RedisInv, TypeOK, Places, SettledMarked
<1> QED
  BY <1>4, <1>6, <1>9, <1>10, <1>11, <1>12 DEF RedisInv, Places

\* The steps of an enqueue thread after its push, failing or not, and a message
\* that grows old.
LEMMA SenderStep ==
    ASSUME RedisInv, NEW m \in Messages,
           SetFlag(m) \/ AddJob(m) \/ EnqueueFails(m) \/ GrowOld(m)
    PROVE  RedisInv'
<1>1. /\ UNCHANGED <<stamp, dedupe, messages, locks, workerVars, settled>>
      /\ sender' = sender \/ \E x \in {"none", "add"} : sender' = [sender EXCEPT ![m] = x] /\ m \in dedupe
  BY DEF SetFlag, AddJob, EnqueueFails, GrowOld, senderVars, RedisInv, Places, SettledMarked
<1>2. \A k \in Messages : sender'[k] = sender[k] \/ (sender'[k] # "push" /\ k \in dedupe)
  BY <1>1 DEF RedisInv, TypeOK
<1>3. TypeOK'
  <2>1. sender' \in [Messages -> {"none", "push", "flag", "add"}]
    BY <1>1 DEF RedisInv, TypeOK
  <2>2. old' \subseteq dedupe /\ flags' \subseteq Leads
    BY DEF SetFlag, AddJob, EnqueueFails, GrowOld, RedisInv, TypeOK
  <2>3. stream' \in Seq(Leads)
    <3>1. LeadOf[m] \in Leads /\ stream \in Seq(Leads)
      BY DEF RedisInv, TypeOK
    <3>2. stream' = stream \/ stream' = Append(stream, LeadOf[m])
      BY DEF SetFlag, AddJob, EnqueueFails, GrowOld
    <3> QED
      BY <3>1, <3>2
  <2>4. faults' \in 0..MaxFaults
    BY DEF SetFlag, AddJob, EnqueueFails, GrowOld, Fault, RedisInv, TypeOK
  <2> QED
    BY <1>1, <2>1, <2>2, <2>3, <2>4 DEF RedisInv, TypeOK, workerVars
<1>4. Counting' /\ Owning'
  BY <1>1, CountingKept DEF RedisInv, Owning, OwnsLock, workerVars
<1>5. Places'
  BY <1>1, <1>2, PlacesKept DEF RedisInv, TypeOK, Places, SettledMarked, workerVars
<1> QED
  BY <1>3, <1>4, <1>5 DEF RedisInv

-----------------------------------------------------------------------------
(* The workers' steps. *)

\* A worker that takes no lock and holds none: it reads the stream, scans for
\* stale buffers, finds the lead locked or puts the job back.
FreeStep(w) ==
    \/ NextLead(w) \/ ScanStart(w) \/ ScanFlag(w) \/ ScanAddJob(w) \/ ScanEnd(w) \/ ScanFails(w)
    \/ \E l \in Leads : ScanSkip(w, l) \/ ScanFind(w, l)
    \/ AcquireFails(w) \/ Reschedule(w)

Free == {"idle", "dead", "scan", "flag", "add", "claimed", "backoff"}

\* Worker w goes from one of these places to x, with the job y.
Goes(w, x, y) ==
    /\ pc[w] \in Free /\ x \in Free \ {"dead"} /\ y \in Leads \cup {NoLead}
    /\ x \in {"idle", "scan"} <=> y = NoLead
    /\ pc' = [pc EXCEPT ![w] = x]
    /\ job' = [job EXCEPT ![w] = y]

LEMMA FreeSteps ==
    ASSUME RedisInv, NEW w \in Workers, FreeStep(w)
    PROVE  RedisInv'
<1>1. \E x, y : Goes(w, x, y)
  <2> USE DEF Goes, Free, RedisInv, TypeOK, Goto, Take
  <2>1. ASSUME NextLead(w) PROVE Goes(w, "claimed", Head(stream))
    <3>1. stream # <<>> /\ Head(stream) \in Leads
      BY <2>1 DEF NextLead
    <3> QED
      BY <2>1, <3>1 DEF NextLead
  <2>2. ASSUME ScanStart(w) PROVE Goes(w, "scan", NoLead)
    BY <2>2 DEF ScanStart
  <2>3. ASSUME ScanFlag(w) PROVE Goes(w, "add", job[w])
    BY <2>3 DEF ScanFlag
  <2>4. ASSUME ScanAddJob(w) \/ ScanFails(w) PROVE Goes(w, "scan", NoLead)
    BY <2>4 DEF ScanAddJob, ScanFails
  <2>5. ASSUME ScanEnd(w) PROVE Goes(w, "idle", NoLead)
    BY <2>5 DEF ScanEnd
  <2>6. ASSUME NEW l \in Leads, ScanSkip(w, l) PROVE Goes(w, "scan", NoLead)
    BY <2>6 DEF ScanSkip
  <2>7. ASSUME NEW l \in Leads, ScanFind(w, l) PROVE Goes(w, "flag", l)
    BY <2>7 DEF ScanFind
  <2>8. ASSUME AcquireFails(w) PROVE Goes(w, "backoff", job[w])
    BY <2>8 DEF AcquireFails
  <2>9. ASSUME Reschedule(w) PROVE Goes(w, "idle", NoLead)
    BY <2>9 DEF Reschedule
  <2> HIDE DEF Goes, Free, RedisInv, TypeOK, Goto, Take
  <2> QED
    BY <2>1, <2>2, <2>3, <2>4, <2>5, <2>6, <2>7, <2>8, <2>9 DEF FreeStep
<1>2. /\ UNCHANGED <<senderVars, old, locks, messages, rows, batch, settled>>
      /\ faults' \in {faults, faults + 1} /\ (faults' # faults => faults < MaxFaults)
  BY DEF FreeStep, NextLead, ScanStart, ScanFlag, ScanAddJob, ScanEnd, ScanFails, ScanSkip, ScanFind,
         AcquireFails, Reschedule, rest, Fault
<1>3. stream' \in Seq(Leads) /\ flags' \subseteq Leads /\ toScan' \in [Workers -> SUBSET Leads]
  <2> USE DEF RedisInv, TypeOK, Take
  <2>1. stream' \in Seq(Leads)
    <3>1. CASE NextLead(w)
      BY <3>1 DEF NextLead
    <3>2. CASE ScanAddJob(w) \/ Reschedule(w)
      <4>1. job[w] \in Leads /\ stream' = Append(stream, job[w])
        BY <3>2 DEF ScanAddJob, Reschedule
      <4> QED
        BY <4>1
    <3>3. CASE ~(NextLead(w) \/ ScanAddJob(w) \/ Reschedule(w))
      BY <3>3 DEF FreeStep, ScanStart, ScanFlag, ScanEnd, ScanFails, ScanSkip, ScanFind, AcquireFails
    <3> QED
      BY <3>1, <3>2, <3>3
  <2>2. flags' \subseteq Leads
    <3>1. CASE ScanFlag(w)
      BY <3>1 DEF ScanFlag
    <3>2. CASE ~ScanFlag(w)
      BY <3>2 DEF FreeStep, NextLead, ScanStart, ScanAddJob, ScanEnd, ScanFails, ScanSkip, ScanFind,
                  AcquireFails, Reschedule
    <3> QED
      BY <3>1, <3>2
  <2>3. \E S \in SUBSET Leads : toScan' = [toScan EXCEPT ![w] = S]
    <3>1. CASE ScanStart(w)
      BY <3>1 DEF ScanStart
    <3>2. ASSUME NEW l \in Leads, ScanSkip(w, l) \/ ScanFind(w, l)
          PROVE  toScan' = [toScan EXCEPT ![w] = toScan[w] \ {l}] /\ toScan[w] \ {l} \in SUBSET Leads
      BY <3>2 DEF ScanSkip, ScanFind
    <3>3. CASE toScan' = toScan
      <4>1. toScan' = [toScan EXCEPT ![w] = toScan[w]] /\ toScan[w] \in SUBSET Leads
        BY <3>3
      <4> QED
        BY <4>1
    <3> QED
      BY <3>1, <3>2, <3>3 DEF FreeStep, NextLead, ScanFlag, ScanAddJob, ScanEnd, ScanFails,
                              AcquireFails, Reschedule
  <2> QED
    BY <2>1, <2>2, <2>3
<1>4. PICK x, y : Goes(w, x, y)
  BY <1>1
<1>5. TypeOK'
  <2>1. /\ pc' \in [Workers -> PCs] /\ job' \in [Workers -> Leads \cup {NoLead}]
        /\ \A v \in Workers : pc'[v] \in {"idle", "dead", "scan"} <=> job'[v] = NoLead
    BY <1>4 DEF Goes, Free, RedisInv, TypeOK, PCs
  <2>2. faults' \in 0..MaxFaults
    BY <1>2 DEF RedisInv, TypeOK
  <2> QED
    BY <1>2, <1>3, <2>1, <2>2 DEF RedisInv, TypeOK, senderVars
<1>6. Counting' /\ Owning' /\ Places'
  <2>1. ~OwnsLock(w) /\ x \in PCs /\ x \notin {"window", "delete", "unflag", "split", "running"}
    BY <1>4 DEF Goes, Free, OwnsLock, PCs
  <2>2. Goto(w, x) /\ \A v \in Workers : v # w => job'[v] = job[v]
    BY <1>4 DEF Goes, Goto, RedisInv, TypeOK
  <2> QED
    BY <1>2, <2>1, <2>2, WorkerMoves
<1> QED
  BY <1>5, <1>6 DEF RedisInv

\* What the invariant says of the messages in hand: no other place has them.
LEMMA HandsApart ==
    ASSUME RedisInv
    PROVE  /\ OneRunPerLead
           /\ RunOnce
           /\ \A v, w \in Workers : v # w => batch[v] \cap batch[w] = {}
           /\ \A v, w \in Workers : ToSet(rows[v]) \cap batch[w] = {}
<1>1. \A w \in Workers : \A m \in batch[w] :
          m \in Messages /\ OwnsLock(w) /\ pc[w] = "running" /\ LeadOf[m] = job[w] /\ Pending(m)
          /\ m \notin ToSet(messages[job[w]])
  BY DEF RedisInv, TypeOK, Places, BatchesPending, OwnsLock
<1>2. \A w \in Workers : \A m \in ToSet(rows[w]) :
          OwnsLock(w) /\ pc[w] # "running" /\ LeadOf[m] = job[w]
  BY DEF RedisInv, Places, RowsPending, OwnsLock
<1>3. \A l \in Leads : \A m \in ToSet(messages[l]) : LeadOf[m] = l /\ Pending(m)
  BY DEF RedisInv, Places, ListsPending
<1>4. \A v, w \in Workers : OwnsLock(v) /\ OwnsLock(w) /\ job[v] = job[w] => v = w
  BY DEF RedisInv, Owning
<1>5. OneRunPerLead
  BY <1>1, <1>4 DEF OneRunPerLead
<1>6. \A v, w \in Workers : v # w => batch[v] \cap batch[w] = {}
  BY <1>1, <1>4
<1>7. \A v, w \in Workers : ToSet(rows[v]) \cap batch[w] = {}
  BY <1>1, <1>2, <1>4
<1>8. \A v, w \in Workers : v # w => ToSet(rows[v]) \cap ToSet(rows[w]) = {}
  BY <1>2, <1>4
<1>9. \A w \in Workers : batch[w] \cap (settled \cup Buffered \cup Unsent) = {}
  BY <1>1, <1>3 DEF Buffered, Unsent, Pending
<1>10. settled \cap Buffered = {}
  BY <1>3 DEF Buffered, Pending
<1> QED
  BY <1>5, <1>6, <1>7, <1>8, <1>9, <1>10 DEF RunOnce

\* A worker that holds a lock keeps it, or releases its own.
LEMMA OwnerKeeps ==
    ASSUME RedisInv, NEW w \in Workers, OwnsLock(w), NEW x \in PCs, Goto(w, x),
           UNCHANGED <<job, locks>>
    PROVE  Owning' /\ \A v \in Workers : v # w => pc'[v] = pc[v]
<1>1. \A v \in Workers : pc'[v] = IF v = w THEN x ELSE pc[v]
  BY DEF Goto, RedisInv, TypeOK
<1>2. \A v \in Workers : OwnsLock(v)' => OwnsLock(v)
  BY <1>1 DEF OwnsLock
<1> QED
  BY <1>1, <1>2, OwningKept DEF RedisInv

LEMMA OwnerReleases ==
    ASSUME RedisInv, NEW w \in Workers, OwnsLock(w), Release(w)
    PROVE  /\ Owning'
           /\ \A v \in Workers : v # w => pc'[v] = pc[v] /\ job'[v] = job[v]
           /\ pc'[w] = "idle" /\ job'[w] = NoLead
           /\ pc' \in [Workers -> PCs] /\ job' \in [Workers -> Leads \cup {NoLead}]
           /\ locks' \subseteq Leads
           /\ \A v \in Workers : pc'[v] \in {"idle", "dead", "scan"} <=> job'[v] = NoLead
<1>1. /\ pc' = [pc EXCEPT ![w] = "idle"] /\ job' = [job EXCEPT ![w] = NoLead]
      /\ locks' = locks \ {job[w]}
  BY DEF Release, Goto, Take
<1>2. /\ pc' \in [Workers -> PCs] /\ job' \in [Workers -> Leads \cup {NoLead}]
      /\ \A v \in Workers : v # w => pc'[v] = pc[v] /\ job'[v] = job[v]
      /\ pc'[w] = "idle" /\ job'[w] = NoLead
  BY <1>1 DEF RedisInv, TypeOK, PCs
<1>3. \A v \in Workers : OwnsLock(v)' => v # w /\ OwnsLock(v) /\ job'[v] = job[v]
  BY <1>2 DEF OwnsLock
<1>4. \A v \in Workers : v # w /\ OwnsLock(v) => job[v] # job[w]
  BY DEF RedisInv, Owning
<1>5. Owning'
  BY <1>1, <1>3, <1>4 DEF RedisInv, Owning
<1>6. locks' \subseteq Leads /\ \A v \in Workers : pc'[v] \in {"idle", "dead", "scan"} <=> job'[v] = NoLead
  BY <1>1, <1>2 DEF RedisInv, TypeOK
<1> QED
  BY <1>2, <1>5, <1>6

LEMMA AcquireStep ==
    ASSUME RedisInv, NEW w \in Workers, Acquire(w)
    PROVE  RedisInv'
<1>1. /\ pc[w] = "claimed" /\ job[w] \in Leads /\ job[w] \notin locks
      /\ pc' = [pc EXCEPT ![w] = "window"] /\ locks' = locks \cup {job[w]}
      /\ UNCHANGED <<senderVars, old, settled, faults, toScan, messages, flags, stream, job, rows, batch>>
  BY DEF Acquire, LockFree, Goto, rest, RedisInv, TypeOK
<1>2. \A v \in Workers : pc'[v] = IF v = w THEN "window" ELSE pc[v]
  BY <1>1 DEF RedisInv, TypeOK
<1>3. TypeOK'
  <2>1. pc' \in [Workers -> PCs]
    BY <1>1 DEF RedisInv, TypeOK, PCs
  <2>2. \A v \in Workers : pc'[v] \in {"idle", "dead", "scan"} <=> job'[v] = NoLead
    BY <1>1, <1>2 DEF RedisInv, TypeOK
  <2> QED
    BY <1>1, <2>1, <2>2 DEF RedisInv, TypeOK, senderVars
<1>4. Owning'
  <2>1. \A v \in Workers : OwnsLock(v) => job[v] \in locks
    BY DEF RedisInv, Owning
  <2>2. \A v \in Workers : OwnsLock(v)' <=> OwnsLock(v) \/ v = w
    BY <1>2 DEF OwnsLock
  <2> QED
    BY <1>1, <2>1, <2>2 DEF RedisInv, Owning
<1>5. Places'
  <2>1. \A v \in Workers : OwnsLock(v) => pc'[v] = pc[v]
    BY <1>1, <1>2 DEF OwnsLock
  <2> QED
    BY <1>1, <2>1, PlacesKept DEF RedisInv, Places, SettledMarked, senderVars
<1> QED
  BY <1>1, <1>3, <1>4, <1>5, CountingKept DEF RedisInv, senderVars

LEMMA ReadStep ==
    ASSUME RedisInv, NEW w \in Workers, Read(w)
    PROVE  RedisInv'
<1>1. /\ pc[w] = "window" /\ job[w] \in Leads /\ OwnsLock(w)
      /\ pc' = [pc EXCEPT ![w] = "delete"] /\ Goto(w, "delete") /\ "delete" \in PCs
      /\ rows' = [rows EXCEPT ![w] = messages[job[w]]] /\ messages[job[w]] \in Seq(Messages)
      /\ UNCHANGED <<senderVars, old, settled, faults, toScan, messages, flags, locks, stream, job, batch>>
  BY DEF Read, Goto, rest, RedisInv, TypeOK, OwnsLock, PCs
<1>2. \A v \in Workers : pc'[v] = IF v = w THEN "delete" ELSE pc[v]
  BY <1>1 DEF RedisInv, TypeOK
<1>3. TypeOK'
  <2>1. pc' \in [Workers -> PCs]
    BY <1>1 DEF RedisInv, TypeOK
  <2>2. \A v \in Workers : pc'[v] \in {"idle", "dead", "scan"} <=> job'[v] = NoLead
    BY <1>1, <1>2 DEF RedisInv, TypeOK
  <2> QED
    BY <1>1, <2>1, <2>2 DEF RedisInv, TypeOK, senderVars
<1>4. Owning'
  BY <1>1, OwnerKeeps
<1>5. Places'
  <2> USE DEF RedisInv, Places
  <2>1. \A m : Pending(m)' = Pending(m)
    BY <1>1 DEF Pending, senderVars
  <2>2. ListsPending' /\ SettledMarked'
    BY <1>1, <2>1 DEF ListsPending, SettledMarked, senderVars
  <2>3. \A v \in Workers : rows'[v] = IF v = w THEN messages[job[w]] ELSE rows[v]
    BY <1>1 DEF TypeOK
  <2>4. RowsPending'
    BY <1>1, <1>2, <2>1, <2>3 DEF RowsPending, ListsPending
  <2>5. BatchesPending'
    BY <1>1, <1>2, <2>1 DEF BatchesPending
  <2> QED
    BY <2>2, <2>4, <2>5
<1> QED
  BY <1>1, <1>3, <1>4, <1>5, CountingKept DEF RedisInv, senderVars

LEMMA DeleteStep ==
    ASSUME RedisInv, NEW w \in Workers, Delete(w)
    PROVE  RedisInv'
<1>1. /\ pc[w] = "delete" /\ job[w] \in Leads /\ OwnsLock(w)
      /\ pc' = [pc EXCEPT ![w] = "unflag"] /\ Goto(w, "unflag") /\ "unflag" \in PCs
      /\ messages' = [messages EXCEPT ![job[w]] = <<>>]
      /\ UNCHANGED <<senderVars, old, settled, faults, toScan, rows, flags, locks, stream, job, batch>>
  BY DEF Delete, Goto, rest, RedisInv, TypeOK, OwnsLock, PCs
<1>2. \A v \in Workers : pc'[v] = IF v = w THEN "unflag" ELSE pc[v]
  BY <1>1 DEF RedisInv, TypeOK
<1>3. TypeOK'
  <2>1. pc' \in [Workers -> PCs]
    BY <1>1 DEF RedisInv, TypeOK
  <2>2. \A v \in Workers : pc'[v] \in {"idle", "dead", "scan"} <=> job'[v] = NoLead
    BY <1>1, <1>2 DEF RedisInv, TypeOK
  <2>3. messages' \in [Leads -> Seq(Messages)]
    <3>1. <<>> \in Seq(Messages)
      BY EmptySeq
    <3> QED
      BY <1>1, <3>1 DEF RedisInv, TypeOK
  <2> QED
    BY <1>1, <2>1, <2>2, <2>3 DEF RedisInv, TypeOK, senderVars
<1>4. Owning'
  BY <1>1, OwnerKeeps
<1>5. Places'
  <2> USE DEF RedisInv, Places
  <2>1. \A m : Pending(m)' = Pending(m)
    BY <1>1 DEF Pending, senderVars
  <2>2. \A l \in Leads : ToSet(messages'[l]) = IF l = job[w] THEN {} ELSE ToSet(messages[l])
    BY <1>1, ListOfNone DEF TypeOK
  <2>3. ListsPending' /\ SettledMarked'
    BY <1>1, <2>1, <2>2 DEF ListsPending, SettledMarked, senderVars
  <2>4. \A v \in Workers : OwnsLock(v) => job[v] \in Leads
    BY DEF TypeOK, OwnsLock
  <2>5. RowsPending'
    <3> SUFFICES ASSUME NEW v \in Workers, NEW m \in ToSet(rows[v])
                 PROVE  /\ pc'[v] \in {"delete", "unflag", "split"}
                        /\ LeadOf[m] = job[v] /\ Pending(m)
                        /\ pc'[v] # "delete" => m \notin ToSet(messages'[job[v]])
      BY <1>1, <2>1 DEF RowsPending
    <3>1. /\ pc[v] \in {"delete", "unflag", "split"} /\ LeadOf[m] = job[v] /\ Pending(m)
          /\ pc[v] # "delete" => m \notin ToSet(messages[job[v]])
      BY DEF RowsPending
    <3>2. job[v] \in Leads
      BY <2>4, <3>1 DEF OwnsLock
    <3> QED
      BY <1>2, <2>2, <3>1, <3>2
  <2>6. BatchesPending'
    <3> SUFFICES ASSUME NEW v \in Workers, NEW m \in batch[v]
                 PROVE  /\ pc'[v] = "running" /\ LeadOf[m] = job[v] /\ Pending(m)
                        /\ m \notin ToSet(messages'[job[v]])
      BY <1>1, <2>1 DEF BatchesPending
    <3>1. pc[v] = "running" /\ LeadOf[m] = job[v] /\ Pending(m) /\ m \notin ToSet(messages[job[v]])
      BY DEF BatchesPending
    <3>2. job[v] \in Leads
      BY <2>4, <3>1 DEF OwnsLock
    <3> QED
      BY <1>1, <1>2, <2>2, <3>1, <3>2
  <2> QED
    BY <2>3, <2>5, <2>6
<1> QED
  BY <1>1, <1>3, <1>4, <1>5, CountingKept DEF RedisInv, senderVars

LEMMA UnflagStep ==
    ASSUME RedisInv, NEW w \in Workers, Unflag(w)
    PROVE  RedisInv'
<1>1. /\ pc[w] = "unflag" /\ OwnsLock(w)
      /\ pc' = [pc EXCEPT ![w] = "split"] /\ Goto(w, "split") /\ "split" \in PCs
      /\ flags' \subseteq Leads
      /\ UNCHANGED <<senderVars, old, settled, faults, toScan, messages, rows, locks, stream, job, batch>>
  BY DEF Unflag, Goto, rest, RedisInv, TypeOK, OwnsLock, PCs
<1>2. \A v \in Workers : pc'[v] = IF v = w THEN "split" ELSE pc[v]
  BY <1>1 DEF RedisInv, TypeOK
<1>3. TypeOK'
  <2>1. pc' \in [Workers -> PCs]
    BY <1>1 DEF RedisInv, TypeOK
  <2>2. \A v \in Workers : pc'[v] \in {"idle", "dead", "scan"} <=> job'[v] = NoLead
    BY <1>1, <1>2 DEF RedisInv, TypeOK
  <2> QED
    BY <1>1, <2>1, <2>2 DEF RedisInv, TypeOK, senderVars
<1>4. Owning'
  BY <1>1, OwnerKeeps
<1>5. Places'
  <2> USE DEF RedisInv, Places
  <2>1. \A m : Pending(m)' = Pending(m)
    BY <1>1 DEF Pending, senderVars
  <2>2. ListsPending' /\ SettledMarked'
    BY <1>1, <2>1 DEF ListsPending, SettledMarked, senderVars
  <2>3. RowsPending'
    BY <1>1, <1>2, <2>1 DEF RowsPending
  <2>4. BatchesPending'
    BY <1>1, <1>2, <2>1 DEF BatchesPending
  <2> QED
    BY <2>2, <2>3, <2>4
<1> QED
  BY <1>1, <1>3, <1>4, <1>5, CountingKept DEF RedisInv, senderVars

\* Splitting sets a batch aside and lists what is left again.
LEMMA SplitFacts ==
    ASSUME RedisInv, NEW w \in Workers, Split(w)
    PROVE  /\ pc[w] = "split" /\ OwnsLock(w) /\ job[w] \in Leads
           /\ rows' = [rows EXCEPT ![w] = <<>>]
           /\ messages' \in [Leads -> Seq(Messages)] /\ flags' \subseteq Leads /\ stream' \in Seq(Leads)
           /\ UNCHANGED <<senderVars, old, settled, faults, toScan>>
           /\ \E B \in SUBSET ToSet(rows[w]) :
                 /\ batch' = [batch EXCEPT ![w] = B]
                 /\ ToSet(messages'[job[w]]) = ToSet(messages[job[w]]) \cup (ToSet(rows[w]) \ B)
                 /\ \A l \in Leads : l # job[w] => messages'[l] = messages[l]
                 /\ \/ ToSet(rows[w]) = {} /\ Release(w)
                    \/ Goto(w, "running") /\ UNCHANGED <<locks, job>>
<1> DEFINE S == ToSet(rows[w])
           l == job[w]
<1>1. /\ pc[w] = "split" /\ OwnsLock(w) /\ l \in Leads
      /\ rows' = [rows EXCEPT ![w] = <<>>]
      /\ UNCHANGED <<senderVars, old, settled, faults, toScan>>
  BY DEF Split, rest, RedisInv, TypeOK, OwnsLock
<1>2. PICK B \in Batches(S) :
         /\ PushBack(l, S \ B)
         /\ batch' = [batch EXCEPT ![w] = B]
         /\ IF B = {} THEN Release(w) ELSE Goto(w, "running") /\ UNCHANGED <<locks, job>>
  BY DEF Split
<1>3. B \in SUBSET S /\ (B = {} => S = {})
  BY DEF Batches
<1>4. rows[w] \in Seq(Messages) /\ messages[l] \in Seq(Messages) /\ messages \in [Leads -> Seq(Messages)]
      /\ stream \in Seq(Leads) /\ flags \subseteq Leads
  BY <1>1 DEF RedisInv, TypeOK
<1>5. /\ messages' \in [Leads -> Seq(Messages)] /\ flags' \subseteq Leads /\ stream' \in Seq(Leads)
      /\ ToSet(messages'[l]) = ToSet(messages[l]) \cup (S \ B)
      /\ \A k \in Leads : k # l => messages'[k] = messages[k]
  <2>1. CASE S \ B = {}
    BY <1>2, <1>4, <2>1 DEF PushBack
  <2>2. CASE S \ B # {}
    <3>1. /\ messages' = [messages EXCEPT ![l] = messages[l] \o ByArrival(S \ B)]
          /\ flags' = flags \cup {l}
          /\ stream' = Append(stream, l)
      BY <1>2, <2>2 DEF PushBack
    <3>2. IsFiniteSet(S \ B) /\ S \ B \subseteq Messages
      BY <1>4, ListElements, FS_Subset
    <3>3. S \ B \subseteq dedupe
      BY DEF RedisInv, Places, RowsPending, Pending
    <3>4. ByArrival(S \ B) \in Seq(S \ B) /\ ToSet(ByArrival(S \ B)) = S \ B
      <4>1. \A m \in S \ B : stamp[m] \in Nat
        BY <3>2 DEF RedisInv, TypeOK
      <4>2. \A m, n \in S \ B : stamp[m] = stamp[n] => m = n
        BY <3>3 DEF RedisInv, Counting
      <4> QED
        BY <3>2, <4>1, <4>2, ByArrivalEnumerates
    <3>5. ByArrival(S \ B) \in Seq(Messages)
      BY <3>2, <3>4, SeqMonotonic
    <3>6. /\ messages[l] \o ByArrival(S \ B) \in Seq(Messages)
          /\ ToSet(messages[l] \o ByArrival(S \ B)) = ToSet(messages[l]) \cup (S \ B)
      <4> DEFINE s == messages[l]
                 t == ByArrival(S \ B)
      <4>1. s \in Seq(Messages) /\ t \in Seq(Messages) /\ ToSet(t) = S \ B
        BY <1>4, <3>4, <3>5
      <4> HIDE DEF s, t
      <4>2. s \o t \in Seq(Messages) /\ ToSet(s \o t) = ToSet(s) \cup ToSet(t)
        BY <4>1, ListJoined
      <4> QED
        BY <4>1, <4>2 DEF s, t
    <3>7. stream' \in Seq(Leads) /\ flags' \subseteq Leads
      BY <1>1, <1>4, <3>1
    <3> QED
      BY <1>1, <1>4, <3>1, <3>6, <3>7
  <2> QED
    BY <2>1, <2>2
<1> QED
  BY <1>1, <1>2, <1>3, <1>5

LEMMA SplitStep ==
    ASSUME RedisInv, NEW w \in Workers, Split(w)
    PROVE  RedisInv'
<1> DEFINE S == ToSet(rows[w])
           l == job[w]
<1>1. /\ pc[w] = "split" /\ OwnsLock(w) /\ l \in Leads
      /\ rows' = [rows EXCEPT ![w] = <<>>]
      /\ messages' \in [Leads -> Seq(Messages)] /\ flags' \subseteq Leads /\ stream' \in Seq(Leads)
      /\ UNCHANGED <<senderVars, old, settled, faults, toScan>>
  BY SplitFacts
<1>2. PICK B \in SUBSET S :
         /\ batch' = [batch EXCEPT ![w] = B]
         /\ ToSet(messages'[l]) = ToSet(messages[l]) \cup (S \ B)
         /\ \A k \in Leads : k # l => messages'[k] = messages[k]
         /\ \/ S = {} /\ Release(w)
            \/ Goto(w, "running") /\ UNCHANGED <<locks, job>>
  BY SplitFacts
<1>3. S \subseteq Messages
  BY ListElements DEF RedisInv, TypeOK
<1>4. /\ Owning'
      /\ pc' \in [Workers -> PCs] /\ job' \in [Workers -> Leads \cup {NoLead}] /\ locks' \subseteq Leads
      /\ \A v \in Workers : v # w => pc'[v] = pc[v] /\ job'[v] = job[v]
      /\ \A v \in Workers : pc'[v] \in {"idle", "dead", "scan"} <=> job'[v] = NoLead
      /\ S = {} \/ (pc'[w] = "running" /\ job'[w] = l)
  <2>1. CASE S = {} /\ Release(w)
    BY <1>1, <2>1, OwnerReleases
  <2>2. CASE Goto(w, "running") /\ UNCHANGED <<locks, job>>
    <3>1. "running" \in PCs /\ pc' = [pc EXCEPT ![w] = "running"]
      BY <2>2 DEF PCs, Goto
    <3>2. Owning' /\ \A v \in Workers : v # w => pc'[v] = pc[v]
      BY <1>1, <2>2, <3>1, OwnerKeeps
    <3>3. pc' \in [Workers -> PCs] /\ pc'[w] = "running"
      BY <3>1 DEF RedisInv, TypeOK
    <3>4. \A v \in Workers : pc'[v] \in {"idle", "dead", "scan"} <=> job'[v] = NoLead
      BY <1>1, <2>2, <3>2, <3>3 DEF RedisInv, TypeOK
    <3> QED
      BY <2>2, <3>2, <3>3, <3>4 DEF RedisInv, TypeOK
  <2> QED
    BY <1>2, <2>1, <2>2
<1>5. TypeOK'
  <2>1. rows' \in [Workers -> Seq(Messages)]
    <3>1. <<>> \in Seq(Messages)
      BY EmptySeq
    <3> QED
      BY <1>1, <3>1 DEF RedisInv, TypeOK
  <2>2. batch' \in [Workers -> SUBSET Messages]
    BY <1>2, <1>3 DEF RedisInv, TypeOK
  <2> QED
    BY <1>1, <1>4, <2>1, <2>2 DEF RedisInv, TypeOK, senderVars
<1>6. \A v \in Workers : /\ ToSet(rows'[v]) = IF v = w THEN {} ELSE ToSet(rows[v])
                         /\ batch'[v] = IF v = w THEN B ELSE batch[v]
  BY <1>1, <1>2, ListOfNone DEF RedisInv, TypeOK
<1>7. \A m : Pending(m)' = Pending(m)
  BY <1>1 DEF Pending, senderVars
<1>8. \A m \in S : LeadOf[m] = l /\ Pending(m) /\ m \notin ToSet(messages[l])
  BY <1>1 DEF RedisInv, Places, RowsPending
<1>9. ListsPending'
  <2> SUFFICES ASSUME NEW k \in Leads, NEW m \in ToSet(messages'[k])
               PROVE  LeadOf[m] = k /\ Pending(m)
    BY <1>7 DEF ListsPending
  <2>1. m \in ToSet(messages[k]) \/ (k = l /\ m \in S)
    BY <1>2
  <2> QED
    BY <1>8, <2>1 DEF RedisInv, Places, ListsPending
<1>10. \A v \in Workers : v # w /\ OwnsLock(v) => job[v] \in Leads /\ job[v] # l
  BY <1>1 DEF RedisInv, Owning, TypeOK, OwnsLock
<1>11. RowsPending'
  <2> SUFFICES ASSUME NEW v \in Workers, v # w, NEW m \in ToSet(rows[v])
               PROVE  /\ pc[v] \in {"delete", "unflag", "split"}
                      /\ LeadOf[m] = job[v] /\ Pending(m)
                      /\ pc[v] # "delete" => m \notin ToSet(messages'[job[v]])
    BY <1>4, <1>6, <1>7 DEF RowsPending
  <2>1. /\ pc[v] \in {"delete", "unflag", "split"} /\ LeadOf[m] = job[v] /\ Pending(m)
        /\ pc[v] # "delete" => m \notin ToSet(messages[job[v]])
    BY DEF RedisInv, Places, RowsPending
  <2>2. messages'[job[v]] = messages[job[v]]
    BY <1>2, <1>10, <2>1 DEF OwnsLock
  <2> QED
    BY <2>1, <2>2
<1>12. BatchesPending'
  <2>1. ASSUME NEW v \in Workers, v # w, NEW m \in batch[v]
        PROVE  /\ pc[v] = "running"
               /\ LeadOf[m] = job[v] /\ Pending(m)
               /\ m \notin ToSet(messages'[job[v]])
    <3>1. pc[v] = "running" /\ LeadOf[m] = job[v] /\ Pending(m) /\ m \notin ToSet(messages[job[v]])
      BY DEF RedisInv, Places, BatchesPending
    <3>2. messages'[job[v]] = messages[job[v]]
      BY <1>2, <1>10, <2>1, <3>1 DEF OwnsLock
    <3> QED
      BY <3>1, <3>2
  <2>2. ASSUME NEW m \in B
        PROVE  /\ pc'[w] = "running" /\ job'[w] = l
               /\ LeadOf[m] = l /\ Pending(m)
               /\ m \notin ToSet(messages'[l])
    BY <1>2, <1>4, <1>8
  <2> QED
    BY <1>4, <1>6, <1>7, <2>1, <2>2 DEF BatchesPending
<1>13. SettledMarked'
  BY <1>1 DEF RedisInv, Places, SettledMarked, senderVars
<1> QED
  BY <1>1, <1>4, <1>5, <1>9, <1>11, <1>12, <1>13, CountingKept DEF RedisInv, Places, senderVars

\* A worker lets go of what it has in hand: its batch is settled, its rows are
\* gone, and its place is one without a lock.
LEMMA HandsLetGo ==
    ASSUME RedisInv, NEW w \in Workers,
           UNCHANGED <<senderVars, messages>>,
           settled' = settled \cup batch[w],
           batch' = [batch EXCEPT ![w] = {}],
           rows' = [rows EXCEPT ![w] = <<>>],
           \A v \in Workers : v # w => pc'[v] = pc[v] /\ job'[v] = job[v]
    PROVE  Places' /\ settled' \subseteq Messages
           /\ rows' \in [Workers -> Seq(Messages)] /\ batch' \in [Workers -> SUBSET Messages]
<1>1. <<>> \in Seq(Messages) /\ batch[w] \subseteq Messages /\ settled \subseteq Messages
  BY EmptySeq DEF RedisInv, TypeOK
<1>2. settled' \subseteq Messages /\ rows' \in [Workers -> Seq(Messages)]
      /\ batch' \in [Workers -> SUBSET Messages]
  BY <1>1 DEF RedisInv, TypeOK
<1>3. \A v \in Workers : /\ ToSet(rows'[v]) = IF v = w THEN {} ELSE ToSet(rows[v])
                         /\ batch'[v] = IF v = w THEN {} ELSE batch[v]
  BY ListOfNone DEF RedisInv, TypeOK
<1>4. /\ \A v, u \in Workers : v # u => batch[v] \cap batch[u] = {}
      /\ \A v, u \in Workers : ToSet(rows[v]) \cap batch[u] = {}
      /\ batch[w] \cap (settled \cup Buffered \cup Unsent) = {}
  BY HandsApart DEF RunOnce
<1>5. \A m : Pending(m) /\ m \notin batch[w] => Pending(m)'
  BY DEF Pending, senderVars
<1>6. ListsPending'
  BY <1>4, <1>5 DEF RedisInv, Places, ListsPending, Buffered
<1>7. RowsPending'
  BY <1>3, <1>4, <1>5 DEF RedisInv, Places, RowsPending
<1>8. BatchesPending'
  BY <1>3, <1>4, <1>5 DEF RedisInv, Places, BatchesPending
<1>9. SettledMarked'
  <2>1. \A m \in batch[w] : m \in dedupe /\ sender[m] # "push"
    BY DEF RedisInv, Places, BatchesPending, Pending
  <2> QED
    BY <2>1 DEF RedisInv, Places, SettledMarked, senderVars
<1> QED
  BY <1>2, <1>6, <1>7, <1>8, <1>9 DEF Places

LEMMA FinishRunStep ==
    ASSUME RedisInv, NEW w \in Workers, FinishRun(w)
    PROVE  RedisInv'
<1>1. /\ pc[w] = "running" /\ OwnsLock(w) /\ Release(w)
      /\ settled' = settled \cup batch[w]
      /\ batch' = [batch EXCEPT ![w] = {}]
      /\ UNCHANGED <<senderVars, old, toScan, messages, flags, stream, rows, faults>>
  BY DEF FinishRun, OwnsLock
<1>2. rows' = [rows EXCEPT ![w] = <<>>]
  <2>1. ToSet(rows[w]) = {} /\ rows[w] \in Seq(Messages) /\ rows \in [Workers -> Seq(Messages)]
    BY <1>1 DEF RedisInv, TypeOK, Places, RowsPending
  <2>2. rows[w] = <<>>
    BY <2>1, NothingListed
  <2> QED
    BY <1>1, <2>1, <2>2
<1>3. /\ Owning'
      /\ \A v \in Workers : v # w => pc'[v] = pc[v] /\ job'[v] = job[v]
      /\ pc' \in [Workers -> PCs] /\ job' \in [Workers -> Leads \cup {NoLead}]
      /\ locks' \subseteq Leads
      /\ \A v \in Workers : pc'[v] \in {"idle", "dead", "scan"} <=> job'[v] = NoLead
  BY <1>1, OwnerReleases
<1>4. Places' /\ settled' \subseteq Messages
      /\ rows' \in [Workers -> Seq(Messages)] /\ batch' \in [Workers -> SUBSET Messages]
  BY <1>1, <1>2, <1>3, HandsLetGo
<1>5. TypeOK'
  BY <1>1, <1>3, <1>4 DEF RedisInv, TypeOK, senderVars
<1> QED
  BY <1>1, <1>3, <1>4, <1>5, CountingKept DEF RedisInv, senderVars

LEMMA CollectFailsStep ==
    ASSUME RedisInv, NEW w \in Workers, CollectFails(w)
    PROVE  RedisInv'
<1>1. /\ pc[w] \in {"window", "delete", "unflag", "split"} /\ OwnsLock(w) /\ Release(w)
      /\ rows' = [rows EXCEPT ![w] = <<>>]
      /\ UNCHANGED <<senderVars, old, toScan, messages, flags, stream, batch, settled>>
      /\ faults' \in 0..MaxFaults
  BY DEF CollectFails, OwnsLock, Fault, RedisInv, TypeOK
<1>2. batch[w] = {} /\ settled' = settled \cup batch[w] /\ batch' = [batch EXCEPT ![w] = {}]
  BY <1>1 DEF RedisInv, TypeOK, Places, BatchesPending
<1>3. /\ Owning'
      /\ \A v \in Workers : v # w => pc'[v] = pc[v] /\ job'[v] = job[v]
      /\ pc' \in [Workers -> PCs] /\ job' \in [Workers -> Leads \cup {NoLead}]
      /\ locks' \subseteq Leads
      /\ \A v \in Workers : pc'[v] \in {"idle", "dead", "scan"} <=> job'[v] = NoLead
  BY <1>1, OwnerReleases
<1>4. Places' /\ rows' \in [Workers -> Seq(Messages)]
  BY <1>1, <1>2, <1>3, HandsLetGo
<1>5. TypeOK'
  BY <1>1, <1>3, <1>4 DEF RedisInv, TypeOK, senderVars
<1> QED
  BY <1>1, <1>3, <1>4, <1>5, CountingKept DEF RedisInv, senderVars

\* A worker dies with its job, and the lock it may hold is left behind.
LEMMA WorkerDiesStep ==
    ASSUME RedisInv, NEW w \in Workers, WorkerDies(w)
    PROVE  RedisInv'
<1>1. /\ pc[w] \in {"idle", "claimed", "backoff", "running"}
      /\ settled' = settled \cup batch[w]
      /\ batch' = [batch EXCEPT ![w] = {}]
      /\ pc' = [pc EXCEPT ![w] = "dead"] /\ job' = [job EXCEPT ![w] = NoLead]
      /\ UNCHANGED <<senderVars, old, toScan, messages, flags, locks, stream, rows>>
      /\ faults' \in 0..MaxFaults
  BY DEF WorkerDies, Fault, Goto, Take, RedisInv, TypeOK
<1>2. rows' = [rows EXCEPT ![w] = <<>>]
  <2>1. ToSet(rows[w]) = {} /\ rows[w] \in Seq(Messages) /\ rows \in [Workers -> Seq(Messages)]
    BY <1>1 DEF RedisInv, TypeOK, Places, RowsPending
  <2>2. rows[w] = <<>>
    BY <2>1, NothingListed
  <2> QED
    BY <1>1, <2>1, <2>2
<1>3. /\ pc' \in [Workers -> PCs] /\ job' \in [Workers -> Leads \cup {NoLead}]
      /\ \A v \in Workers : v # w => pc'[v] = pc[v] /\ job'[v] = job[v]
      /\ pc'[w] = "dead" /\ job'[w] = NoLead
  BY <1>1 DEF RedisInv, TypeOK, PCs
<1>4. \A v \in Workers : pc'[v] \in {"idle", "dead", "scan"} <=> job'[v] = NoLead
  BY <1>3 DEF RedisInv, TypeOK
<1>5. Owning'
  <2>1. \A v \in Workers : OwnsLock(v)' => v # w /\ OwnsLock(v)
    BY <1>3 DEF OwnsLock
  <2> QED
    BY <1>1, <1>3, <2>1, OwningKept DEF RedisInv
<1>6. Places' /\ settled' \subseteq Messages
      /\ rows' \in [Workers -> Seq(Messages)] /\ batch' \in [Workers -> SUBSET Messages]
  BY <1>1, <1>2, <1>3, HandsLetGo
<1>7. TypeOK'
  BY <1>1, <1>3, <1>4, <1>6 DEF RedisInv, TypeOK, senderVars
<1> QED
  BY <1>1, <1>5, <1>6, <1>7, CountingKept DEF RedisInv, senderVars

LEMMA CrashStep ==
    ASSUME RedisInv, Crash
    PROVE  RedisInv'
<1>1. /\ \A w \in Workers : pc'[w] = "idle" /\ job'[w] = NoLead /\ ToSet(rows'[w]) = {} /\ batch'[w] = {}
      /\ \A m \in Messages : sender'[m] = "none"
      /\ UNCHANGED <<stamp, dedupe, old, messages, flags, locks, stream, settled>>
      /\ dedupe \subseteq Messages
  BY ListOfNone DEF Crash, RedisInv, TypeOK
<1>2. TypeOK'
  <2>1. <<>> \in Seq(Messages)
    BY EmptySeq
  <2>2. faults' \in 0..MaxFaults
    BY DEF Crash, Fault, RedisInv, TypeOK
  <2> QED
    BY <2>1, <2>2 DEF Crash, RedisInv, TypeOK, PCs
<1>3. Counting' /\ Owning'
  BY <1>1, CountingKept DEF RedisInv, Owning, OwnsLock
<1>4. \A m \in dedupe : Pending(m) => Pending(m)'
  BY <1>1 DEF Pending
<1>5. ListsPending'
  BY <1>1, <1>4 DEF RedisInv, Places, ListsPending, Pending
<1>6. RowsPending' /\ BatchesPending'
  BY <1>1 DEF RowsPending, BatchesPending
<1>7. SettledMarked'
  BY <1>1 DEF RedisInv, Places, SettledMarked
<1> QED
  BY <1>2, <1>3, <1>5, <1>6, <1>7 DEF RedisInv, Places

LEMMA ExpiryStep ==
    ASSUME RedisInv, NEW l \in Leads, FlagExpires(l) \/ LockExpires(l)
    PROVE  RedisInv'
<1>1. /\ UNCHANGED <<senderVars, old, settled, faults, messages, stream, workerVars>>
      /\ flags' \subseteq Leads /\ locks' \subseteq Leads
  BY DEF FlagExpires, LockExpires, rest, RedisInv, TypeOK
<1>2. TypeOK'
  BY <1>1 DEF RedisInv, TypeOK, senderVars, workerVars
<1>3. Owning'
  <2>1. \A w \in Workers : OwnsLock(w) => (job[w] \in locks => job[w] \in locks')
    BY DEF FlagExpires, LockExpires
  <2>2. \A w \in Workers : OwnsLock(w)' = OwnsLock(w)
    BY <1>1 DEF OwnsLock, workerVars
  <2> QED
    BY <1>1, <2>1, <2>2, OwningKept DEF RedisInv, workerVars
<1>4. Places'
  BY <1>1, PlacesKept DEF RedisInv, Places, SettledMarked, senderVars, workerVars
<1> QED
  BY <1>1, <1>2, <1>3, <1>4, CountingKept DEF RedisInv, senderVars

LEMMA RedisInvStep == RedisInv /\ [Next]_vars => RedisInv'
<1> SUFFICES ASSUME RedisInv, [Next]_vars PROVE RedisInv'
  OBVIOUS
<1>1. ASSUME NEW m \in Messages,
             Mark(m) \/ MarkFails(m) \/ Enqueuing(m) \/ EnqueueFails(m) \/ GrowOld(m)
      PROVE  RedisInv'
  BY <1>1, MarkStep, MarkFailsStep, PushStep, SenderStep DEF Enqueuing
<1>2. ASSUME NEW w \in Workers, WorkerStep(w) \/ ScanFails(w) \/ CollectFails(w) \/ WorkerDies(w)
      PROVE  RedisInv'
  BY <1>2, FreeSteps, AcquireStep, ReadStep, DeleteStep, UnflagStep, SplitStep, FinishRunStep,
     CollectFailsStep, WorkerDiesStep
     DEF WorkerStep, FreeStep
<1>3. ASSUME NEW l \in Leads, FlagExpires(l) \/ LockExpires(l) PROVE RedisInv'
  BY <1>3, ExpiryStep
<1>4. CASE UNCHANGED vars
  <2>1. UNCHANGED <<senderVars, old, messages, flags, locks, stream, workerVars, settled, faults>>
    BY <1>4 DEF vars
  <2>2. TypeOK' /\ Owning'
    BY <2>1 DEF RedisInv, TypeOK, Owning, OwnsLock, senderVars, workerVars
  <2>3. Places'
    BY <2>1, PlacesKept DEF RedisInv, Places, SettledMarked, senderVars, workerVars
  <2> QED
    BY <2>1, <2>2, <2>3, CountingKept DEF RedisInv, senderVars
<1> QED
  BY <1>1, <1>2, <1>3, <1>4, CrashStep DEF Next

-----------------------------------------------------------------------------
(* Nothing is lost without a cause. *)

Somewhere(m) == m \in Unsent \cup Buffered \cup InHand \cup settled

LEMMA WhereItIs ==
    ASSUME NEW m \in Messages
    PROVE  Somewhere(m) <=> \/ sender[m] = "push"
                            \/ \E l \in Leads : m \in ToSet(messages[l])
                            \/ \E w \in Workers : m \in ToSet(rows[w]) \/ m \in batch[w]
                            \/ m \in settled
BY DEF Somewhere, Unsent, Buffered, InHand

LEMMA StaysWhereItIs ==
    ASSUME NEW m \in Messages, Somewhere(m), sender[m] = "push" => sender'[m] = "push",
           UNCHANGED <<messages, rows, batch, settled>>
    PROVE  Somewhere(m)'
BY DEF Somewhere, Unsent, Buffered, InHand

LEMMA SomewherePrimed ==
    ASSUME NEW m \in Messages
    PROVE  Somewhere(m)' <=> \/ sender'[m] = "push"
                             \/ \E l \in Leads : m \in ToSet(messages'[l])
                             \/ \E w \in Workers : m \in ToSet(rows'[w]) \/ m \in batch'[w]
                             \/ m \in settled'
BY DEF Somewhere, Unsent, Buffered, InHand

\* The only step that takes a message away from where it is, when nothing fails,
\* is the deletion of a list that has grown since it was read.
LEMMA KeptByWorkers ==
    ASSUME RedisInv, NEW w \in Workers, WorkerStep(w), NEW m \in Messages, Somewhere(m)
    PROVE  \/ Somewhere(m)'
           \/ /\ pc[w] = "delete" /\ pc'[w] # "delete"
              /\ m \in ToSet(messages[job[w]])
              /\ m \notin ToSet(rows[w])
<1>1. CASE \/ FreeStep(w) \/ Acquire(w) \/ Unflag(w)
  <2>1. UNCHANGED <<senderVars, messages, rows, batch, settled>>
    BY <1>1 DEF FreeStep, NextLead, ScanStart, ScanFlag, ScanAddJob, ScanEnd, ScanFails, ScanSkip,
                ScanFind, AcquireFails, Reschedule, Acquire, Unflag, rest
  <2> QED
    BY <2>1, StaysWhereItIs DEF senderVars
<1>2. CASE Read(w)
  <2>1. /\ UNCHANGED <<sender, messages, batch, settled>>
        /\ ToSet(rows[w]) = {}
        /\ \A v \in Workers : v # w => rows'[v] = rows[v]
    BY <1>2 DEF Read, rest, senderVars, RedisInv, TypeOK, Places, RowsPending
  <2> QED
    BY <2>1, WhereItIs, SomewherePrimed
<1>3. CASE Delete(w)
  <2>1. /\ UNCHANGED <<sender, rows, batch, settled>>
        /\ pc[w] = "delete" /\ pc'[w] = "unflag"
        /\ \A l \in Leads : l # job[w] => messages'[l] = messages[l]
    BY <1>3 DEF Delete, Goto, rest, senderVars, RedisInv, TypeOK
  <2> QED
    BY <2>1, WhereItIs, SomewherePrimed
<1>4. CASE Split(w)
  <2>1. PICK B \in SUBSET ToSet(rows[w]) :
           /\ batch' = [batch EXCEPT ![w] = B]
           /\ ToSet(messages'[job[w]]) = ToSet(messages[job[w]]) \cup (ToSet(rows[w]) \ B)
           /\ \A l \in Leads : l # job[w] => messages'[l] = messages[l]
    BY <1>4, SplitFacts
  <2>2. /\ pc[w] = "split" /\ job[w] \in Leads /\ UNCHANGED <<sender, settled>>
        /\ rows' = [rows EXCEPT ![w] = <<>>]
    BY <1>4, SplitFacts DEF senderVars
  <2>3. batch[w] = {} /\ batch'[w] = B /\ \A v \in Workers : v # w => batch'[v] = batch[v] /\ rows'[v] = rows[v]
    BY <2>1, <2>2 DEF RedisInv, TypeOK, Places, BatchesPending
  <2> QED
    BY <2>1, <2>2, <2>3, WhereItIs, SomewherePrimed
<1>5. CASE FinishRun(w)
  <2>1. /\ UNCHANGED <<sender, messages, rows>>
        /\ settled' = settled \cup batch[w]
        /\ \A v \in Workers : v # w => batch'[v] = batch[v]
    BY <1>5 DEF FinishRun, senderVars, RedisInv, TypeOK
  <2> QED
    BY <2>1, WhereItIs, SomewherePrimed
<1> QED
  BY <1>1, <1>2, <1>3, <1>4, <1>5 DEF WorkerStep, FreeStep

LEMMA KeptBySenders ==
    ASSUME RedisInv, NEW k \in Messages, Mark(k) \/ MarkFails(k) \/ Enqueuing(k) \/ GrowOld(k),
           NEW m \in Messages, Somewhere(m) \/ (m \notin dedupe /\ m \in dedupe')
    PROVE  Somewhere(m)'
<1>1. CASE Mark(k)
  <2>1. sender'[k] = "push" /\ dedupe' = dedupe \cup {k}
        /\ UNCHANGED <<messages, rows, batch, settled>>
        /\ \A j \in Messages : j # k => sender'[j] = sender[j]
    BY <1>1 DEF Mark, RedisInv, TypeOK
  <2>2. CASE m = k
    BY <2>1, <2>2, SomewherePrimed
  <2>3. CASE m # k
    BY <2>1, <2>3, StaysWhereItIs
  <2> QED
    BY <2>2, <2>3
<1>2. CASE Push(k)
  <2>1. /\ LeadOf[k] \in Leads /\ messages[LeadOf[k]] \in Seq(Messages)
        /\ messages \in [Leads -> Seq(Messages)]
        /\ messages' = [messages EXCEPT ![LeadOf[k]] = Append(messages[LeadOf[k]], k)]
        /\ \A j \in Messages : j # k => sender'[j] = sender[j]
        /\ UNCHANGED <<dedupe, rows, batch, settled>>
    BY <1>2 DEF Push, RedisInv, TypeOK, workerVars
  <2>2. /\ ToSet(messages'[LeadOf[k]]) = ToSet(messages[LeadOf[k]]) \cup {k}
        /\ \A l \in Leads : l # LeadOf[k] => messages'[l] = messages[l]
    BY <2>1, ListWithOneMore
  <2> QED
    BY <2>1, <2>2, WhereItIs, SomewherePrimed
<1>3. CASE MarkFails(k) \/ SetFlag(k) \/ AddJob(k) \/ GrowOld(k)
  <2>1. /\ UNCHANGED <<dedupe, messages, rows, batch, settled>>
        /\ sender[m] = "push" => sender'[m] = "push"
    BY <1>3 DEF MarkFails, SetFlag, AddJob, GrowOld, senderVars, workerVars, RedisInv, TypeOK
  <2> QED
    BY <2>1, StaysWhereItIs
<1> QED
  BY <1>1, <1>2, <1>3 DEF Enqueuing

\* What a step may lose.
LossCaused ==
    \A m \in Messages : m \in Lost' /\ m \notin Lost =>
        \/ faults' # faults
        \/ \E w \in Workers : /\ pc[w] = "delete" /\ pc'[w] # "delete"
                              /\ m \in ToSet(messages[job[w]])
                              /\ m \notin ToSet(rows[w])

LEMMA LossCausedStep == RedisInv /\ [Next]_vars => LossCaused
<1> SUFFICES ASSUME RedisInv, [Next]_vars, NEW m \in Messages, m \in Lost', m \notin Lost,
                    faults' = faults
             PROVE  \E w \in Workers : /\ pc[w] = "delete" /\ pc'[w] # "delete"
                                       /\ m \in ToSet(messages[job[w]])
                                       /\ m \notin ToSet(rows[w])
  BY DEF LossCaused
<1>1. /\ ~Somewhere(m)' /\ m \in dedupe'
      /\ Somewhere(m) \/ m \notin dedupe
  BY DEF Lost, Somewhere
<1>2. ~Fault
  BY DEF Fault, RedisInv, TypeOK
<1>3. ASSUME NEW k \in Messages, Mark(k) \/ MarkFails(k) \/ Enqueuing(k) \/ GrowOld(k)
      PROVE  FALSE
  BY <1>1, <1>3, KeptBySenders
<1>4. ASSUME NEW w \in Workers, WorkerStep(w)
      PROVE  /\ pc[w] = "delete" /\ pc'[w] # "delete"
             /\ m \in ToSet(messages[job[w]])
             /\ m \notin ToSet(rows[w])
  <2>1. dedupe' = dedupe
    BY <1>4 DEF WorkerStep, NextLead, ScanStart, ScanSkip, ScanFind, ScanFlag, ScanAddJob, ScanEnd,
                Acquire, AcquireFails, Reschedule, Read, Delete, Unflag, Split, FinishRun, rest, senderVars
  <2> QED
    BY <1>1, <1>4, <2>1, KeptByWorkers
<1>5. ASSUME NEW l \in Leads, FlagExpires(l) \/ LockExpires(l) PROVE FALSE
  <2>1. UNCHANGED <<senderVars, messages, rows, batch, settled>>
    BY <1>5 DEF FlagExpires, LockExpires, rest, workerVars
  <2> QED
    BY <1>1, <2>1, StaysWhereItIs DEF senderVars
<1>6. CASE UNCHANGED vars
  <2>1. UNCHANGED <<senderVars, messages, rows, batch, settled>>
    BY <1>6 DEF vars, workerVars
  <2> QED
    BY <1>1, <2>1, StaysWhereItIs DEF senderVars
<1> QED
  BY <1>2, <1>3, <1>4, <1>5, <1>6 DEF Next, EnqueueFails, ScanFails, CollectFails, WorkerDies, Crash

-----------------------------------------------------------------------------
(* Theorems. *)

LEMMA Invariant == Spec => []RedisInv
BY RedisInvInit, RedisInvStep, PTL DEF Spec

\* The types of the keys and of the workers' variables: a job in the hand of
\* every worker that is past the stream, none in any other.
THEOREM TypesAreKept == Spec => []TypeOK
<1>1. RedisInv => TypeOK
  BY DEF RedisInv
<1> QED
  BY <1>1, Invariant, PTL

\* Two runs are never of one lead, whatever crashes, expires or is queued twice
\* (queue.py:337-348).
THEOREM RunsExclude == Spec => []OneRunPerLead
<1>1. RedisInv => OneRunPerLead
  BY HandsApart
<1> QED
  BY <1>1, Invariant, PTL

\* A message is in one place at a time and in one run at most: no redelivery, no
\* second job and no push back runs it again (queue.py:275-335).
THEOREM RunsAtMostOnce == Spec => []RunOnce
<1>1. RedisInv => RunOnce
  BY HandsApart
<1> QED
  BY <1>1, Invariant, PTL

\* A message that was answered "queued" disappears by a crash, by a command that
\* fails, or by a push between the LRANGE and the DEL of its lead's collection.
THEOREM LossHasCause == Spec => LossNeedsRaceOrFault
<1>1. RedisInv /\ [Next]_vars => [LossCaused]_vars
  BY LossCausedStep
<1>2. Spec => [][LossCaused]_vars
  BY <1>1, Invariant, PTL DEF Spec
<1>3. [LossCaused]_vars =>
        [\A m \in Messages : m \in Lost' /\ m \notin Lost =>
            \/ faults' # faults
            \/ \E w \in Workers : /\ pc[w] = "delete" /\ pc'[w] # "delete"
                                  /\ m \in ToSet(messages[job[w]])
                                  /\ m \notin ToSet(rows[w])]_vars
  BY DEF LossCaused
<1> QED
  BY <1>2, <1>3, PTL DEF LossNeedsRaceOrFault

-----------------------------------------------------------------------------
(* The queue is one of BestEffort. *)

Runs == [l \in Leads |-> {m \in Running : LeadOf[m] = l}]

LEMMA WaitingIs ==
    \A m : m \in Waiting <=> \/ m \in Messages /\ sender[m] = "push"
                             \/ \E l \in Leads : m \in ToSet(messages[l])
                             \/ \E w \in Workers : m \in ToSet(rows[w])
BY DEF Waiting, Unsent, Buffered

LEMMA WaitingPrimed ==
    \A m : m \in Waiting' <=> \/ m \in Messages /\ sender'[m] = "push"
                              \/ \E l \in Leads : m \in ToSet(messages'[l])
                              \/ \E w \in Workers : m \in ToSet(rows'[w])
BY DEF Waiting, Unsent, Buffered

LEMMA LostAre ==
    /\ Lost = dedupe \ (Waiting \cup Running \cup settled)
    /\ Lost' = dedupe' \ (Waiting' \cup Running' \cup settled')
<1>1. /\ Unsent \cup Buffered \cup InHand = Waiting \cup Running
      /\ (Unsent \cup Buffered \cup InHand)' = Waiting' \cup Running'
  BY DEF InHand, Waiting, Running
<1> QED
  BY <1>1 DEF Lost

\* An accepted message is in one of the four states of BestEffort.
LEMMA StatesApart ==
    ASSUME RedisInv
    PROVE  /\ Waiting \subseteq dedupe /\ Running \subseteq dedupe /\ settled \subseteq dedupe
           /\ dedupe \subseteq Messages
           /\ Waiting \cap Running = {} /\ Waiting \cap settled = {} /\ Running \cap settled = {}
           /\ Promise!Running = Running
<1>1. dedupe \subseteq Messages /\ settled \subseteq dedupe
  BY DEF RedisInv, TypeOK, Places, SettledMarked
<1>2. ASSUME NEW m \in Waiting PROVE m \in dedupe /\ m \notin settled
  <2>1. m \in Messages /\ sender[m] = "push" => m \in dedupe /\ m \notin settled
    BY DEF RedisInv, Places, SettledMarked
  <2>2. (\E l \in Leads : m \in ToSet(messages[l])) => m \in dedupe /\ m \notin settled
    BY DEF RedisInv, Places, ListsPending, Pending
  <2>3. (\E w \in Workers : m \in ToSet(rows[w])) => m \in dedupe /\ m \notin settled
    BY DEF RedisInv, Places, RowsPending, Pending
  <2> QED
    BY <1>2, <2>1, <2>2, <2>3, WaitingIs
<1>3. ASSUME NEW m \in Running PROVE m \in dedupe /\ m \notin settled
  BY DEF Running, RedisInv, Places, BatchesPending, Pending
<1>4. Waiting \cap Running = {}
  <2>1. /\ \A w \in Workers : batch[w] \cap (Buffered \cup Unsent) = {}
        /\ \A v, w \in Workers : ToSet(rows[v]) \cap batch[w] = {}
    BY HandsApart DEF RunOnce
  <2> QED
    BY <2>1 DEF Waiting, Running
<1>5. Promise!Running = Running
  <2>1. \A m \in Running : LeadOf[m] \in Leads
    BY <1>1, <1>3
  <2> QED
    BY <2>1 DEF Promise!Running
<1> QED
  BY <1>1, <1>2, <1>3, <1>4, <1>5

LEMMA PromiseInit == Init => Promise!Init
<1> SUFFICES ASSUME Init PROVE Promise!Init
  OBVIOUS
<1>1. Waiting = {}
  BY WaitingIs, ListOfNone DEF Init
<1>2. Running = {}
  BY DEF Init, Running
<1>3. Lost = {}
  BY LostAre DEF Init
<1> QED
  BY <1>1, <1>2, <1>3 DEF Promise!Init, Init

\* A step in which no message is accepted, no run starts and none ends.
LEMMA DropStep ==
    ASSUME RedisInv, UNCHANGED <<dedupe, batch, settled>>, Waiting' \subseteq Waiting
    PROVE  Promise!Next
<1> DEFINE S == Waiting \ Waiting'
<1>1. /\ S \in SUBSET Messages /\ S \subseteq Waiting /\ Waiting' = Waiting \ S
      /\ S \subseteq dedupe /\ S \cap (Running \cup settled) = {}
  BY StatesApart
<1>2. Running' = Running
  BY DEF Running
<1>3. Lost' = Lost \cup S
  BY <1>1, <1>2, LostAre
<1>4. Promise!Drop(S)
  BY <1>1, <1>2, <1>3 DEF Promise!Drop
<1> QED
  BY <1>1, <1>4 DEF Promise!Next

\* The webhook's steps.
LEMMA SendersPromise ==
    ASSUME RedisInv, NEW m \in Messages,
           Mark(m) \/ MarkFails(m) \/ Enqueuing(m) \/ EnqueueFails(m) \/ GrowOld(m)
    PROVE  Promise!Next
<1>1. CASE Mark(m)
  <2>1. /\ m \notin dedupe /\ dedupe' = dedupe \cup {m} /\ sender'[m] = "push"
        /\ \A k \in Messages : k # m => sender'[k] = sender[k]
        /\ UNCHANGED <<messages, rows, batch, settled>>
    BY <1>1 DEF Mark, RedisInv, TypeOK
  <2>2. Waiting' = Waiting \cup {m}
    BY <2>1, WaitingIs, WaitingPrimed
  <2>3. Running' = Running
    BY <2>1 DEF Running
  <2>4. Lost' = Lost /\ m \notin Waiting \cup Promise!Running \cup settled \cup Lost
    BY <2>1, <2>2, <2>3, LostAre, StatesApart
  <2>5. Promise!Accept(m)
    BY <2>1, <2>2, <2>3, <2>4 DEF Promise!Accept
  <2> QED
    BY <2>5 DEF Promise!Next
<1>2. CASE Push(m)
  <2>1. /\ LeadOf[m] \in Leads /\ messages[LeadOf[m]] \in Seq(Messages)
        /\ messages \in [Leads -> Seq(Messages)] /\ sender[m] = "push" /\ sender'[m] = "flag"
        /\ messages' = [messages EXCEPT ![LeadOf[m]] = Append(messages[LeadOf[m]], m)]
        /\ \A k \in Messages : k # m => sender'[k] = sender[k]
        /\ UNCHANGED <<dedupe, rows, batch, settled>>
    BY <1>2 DEF Push, RedisInv, TypeOK, workerVars
  <2>2. /\ ToSet(messages'[LeadOf[m]]) = ToSet(messages[LeadOf[m]]) \cup {m}
        /\ \A l \in Leads : l # LeadOf[m] => messages'[l] = messages[l]
    BY <2>1, ListWithOneMore
  <2>3. ASSUME NEW k \in Waiting' PROVE k \in Waiting
    <3>1. CASE k \in Messages /\ sender'[k] = "push"
      <4>1. sender[k] = "push"
        BY <2>1, <3>1
      <4> QED
        BY <3>1, <4>1, WaitingIs
    <3>2. CASE \E l \in Leads : k \in ToSet(messages'[l])
      <4>1. k = m \/ \E l \in Leads : k \in ToSet(messages[l])
        BY <2>2, <3>2
      <4>2. m \in Waiting
        BY <2>1, WaitingIs
      <4> QED
        BY <4>1, <4>2, WaitingIs
    <3>3. CASE \E v \in Workers : k \in ToSet(rows'[v])
      BY <2>1, <3>3, WaitingIs
    <3> QED
      BY <2>3, <3>1, <3>2, <3>3, WaitingPrimed
  <2>4. Waiting' \subseteq Waiting
    BY <2>3
  <2> QED
    BY <2>1, <2>4, DropStep
<1>3. CASE MarkFails(m) \/ SetFlag(m) \/ AddJob(m) \/ EnqueueFails(m) \/ GrowOld(m)
  <2>1. /\ UNCHANGED <<dedupe, messages, rows, batch, settled>>
        /\ \A k \in Messages : sender'[k] = "push" => sender[k] = "push"
    BY <1>3 DEF MarkFails, SetFlag, AddJob, EnqueueFails, GrowOld, senderVars, workerVars, RedisInv, TypeOK
  <2>2. Waiting' \subseteq Waiting
    BY <2>1, WaitingIs, WaitingPrimed
  <2> QED
    BY <2>1, <2>2, DropStep
<1> QED
  BY <1>1, <1>2, <1>3 DEF Enqueuing

\* A worker collects: what it splits off is a batch of its own lead.
LEMMA SplitPromise ==
    ASSUME RedisInv, NEW w \in Workers, Split(w)
    PROVE  Promise!Next
<1>0. PICK B \in SUBSET ToSet(rows[w]) :
         /\ batch' = [batch EXCEPT ![w] = B]
         /\ ToSet(messages'[job[w]]) = ToSet(messages[job[w]]) \cup (ToSet(rows[w]) \ B)
         /\ \A k \in Leads : k # job[w] => messages'[k] = messages[k]
  BY SplitFacts
<1>1. PICK l : /\ l = job[w]
               /\ batch' = [batch EXCEPT ![w] = B]
               /\ ToSet(messages'[l]) = ToSet(messages[l]) \cup (ToSet(rows[w]) \ B)
               /\ \A k \in Leads : k # l => messages'[k] = messages[k]
  BY <1>0
<1>2. /\ pc[w] = "split" /\ OwnsLock(w) /\ l \in Leads
      /\ rows' = [rows EXCEPT ![w] = <<>>]
      /\ UNCHANGED <<sender, dedupe, settled>>
  BY <1>1, SplitFacts DEF senderVars
<1>3. /\ \A v \in Workers : ToSet(rows'[v]) = IF v = w THEN {} ELSE ToSet(rows[v])
      /\ \A v \in Workers : batch'[v] = IF v = w THEN B ELSE batch[v]
      /\ batch[w] = {} /\ batch \in [Workers -> SUBSET Messages]
  BY <1>1, <1>2, ListOfNone DEF RedisInv, TypeOK, Places, BatchesPending
<1>4. \A m \in Waiting' : m \in Waiting
  BY <1>1, <1>2, <1>3, WaitingIs, WaitingPrimed
<1>5. CASE B = {}
  <2>1. batch' = batch
    BY <1>1, <1>3, <1>5
  <2> QED
    BY <1>2, <1>4, <2>1, DropStep
<1>6. CASE B # {}
  <2>1. \A m \in B : /\ LeadOf[m] = l /\ m \in Messages /\ sender[m] # "push" /\ m \in Waiting
                     /\ \A k \in Leads : m \notin ToSet(messages[k])
                     /\ \A v \in Workers : v # w => m \notin ToSet(rows[v])
    <3> SUFFICES ASSUME NEW m \in B
                 PROVE  /\ LeadOf[m] = l /\ m \in Messages /\ sender[m] # "push" /\ m \in Waiting
                        /\ \A k \in Leads : m \notin ToSet(messages[k])
                        /\ \A v \in Workers : v # w => m \notin ToSet(rows[v])
      OBVIOUS
    <3>1. m \in ToSet(rows[w])
      BY <1>1
    <3>2. LeadOf[m] = l /\ Pending(m) /\ m \notin ToSet(messages[l])
      BY <1>1, <1>2, <3>1 DEF RedisInv, Places, RowsPending
    <3>3. m \in Messages /\ sender[m] # "push"
      BY <3>2 DEF Pending, RedisInv, TypeOK
    <3>4. \A k \in Leads : m \notin ToSet(messages[k])
      BY <3>2 DEF RedisInv, Places, ListsPending
    <3>5. \A v \in Workers : v # w => m \notin ToSet(rows[v])
      BY <3>1, HandsApart DEF RunOnce
    <3> QED
      BY <3>1, <3>2, <3>3, <3>4, <3>5, WaitingIs
  <2>2. Waiting' = Waiting \ B
    <3>1. \A m \in Waiting \ B : m \in Waiting'
      BY <1>1, <1>2, <1>3, WaitingIs, WaitingPrimed
    <3>2. \A m \in B : m \notin Waiting'
      BY <1>1, <1>2, <1>3, <2>1, WaitingPrimed
    <3> QED
      BY <1>4, <3>1, <3>2
  <2>3. Running' = Running \cup B
    BY <1>3 DEF Running
  <2>4. Runs[l] = {}
    <3>1. \A v \in Workers : \A m \in batch[v] : LeadOf[m] # l
      BY <1>1, <1>2, <1>3 DEF RedisInv, Owning, OwnsLock, Places, BatchesPending
    <3> QED
      BY <1>2, <3>1 DEF Runs, Running
  <2>5. Runs' = [Runs EXCEPT ![l] = B]
    <3>1. \A k \in Leads : {m \in Running' : LeadOf[m] = k}
                             = IF k = l THEN B ELSE {m \in Running : LeadOf[m] = k}
      <4>1. {m \in Running : LeadOf[m] = l} = {}
        BY <1>2, <2>4 DEF Runs
      <4> QED
        BY <2>1, <2>3, <4>1
    <3> QED
      BY <1>2, <3>1 DEF Runs
  <2>6. Lost' = Lost
    BY <1>2, <2>1, <2>2, <2>3, LostAre
  <2>7. Promise!Start(l, B)
    BY <1>2, <1>6, <2>1, <2>2, <2>4, <2>5, <2>6 DEF Promise!Start, Runs
  <2>8. B \in SUBSET Messages
    BY <2>1
  <2> QED
    BY <1>2, <2>7, <2>8 DEF Promise!Next
<1> QED
  BY <1>5, <1>6

\* A run ends, and its worker goes on or dies.
LEMMA FinishPromise ==
    ASSUME RedisInv, NEW w \in Workers, FinishRun(w) \/ WorkerDies(w)
    PROVE  Promise!Next
<1>1. /\ batch' = [batch EXCEPT ![w] = {}] /\ batch \in [Workers -> SUBSET Messages]
      /\ settled' = settled \cup batch[w]
      /\ UNCHANGED <<sender, dedupe, messages, rows>>
  BY DEF FinishRun, WorkerDies, senderVars, RedisInv, TypeOK
<1>2. Waiting' = Waiting
  BY <1>1, WaitingIs, WaitingPrimed
<1>3. CASE batch[w] = {}
  <2>1. batch' = batch /\ settled' = settled
    BY <1>1, <1>3
  <2> QED
    BY <1>1, <1>2, <2>1, DropStep
<1>4. CASE batch[w] # {}
  <2>1. PICK l : l = job[w] /\ \A m \in batch[w] : LeadOf[m] = l
    BY DEF RedisInv, Places, BatchesPending
  <2>2. l \in Leads
    BY <1>1, <1>4, <2>1
  <2>3. \A v \in Workers : v # w => \A m \in batch[v] : LeadOf[m] # l /\ m \notin batch[w]
    BY <1>4, <2>1, HandsApart DEF OneRunPerLead
  <2>4. Running' = Running \ batch[w] /\ batch[w] \subseteq Running
    BY <1>1, <2>3 DEF Running
  <2>5. \A m \in Running : LeadOf[m] = l <=> m \in batch[w]
    BY <2>1, <2>3 DEF Running
  <2>6. Runs[l] = batch[w]
    BY <2>2, <2>4, <2>5 DEF Runs
  <2>7. Runs' = [Runs EXCEPT ![l] = {}]
    <3>1. \A k \in Leads : {m \in Running' : LeadOf[m] = k}
                             = IF k = l THEN {} ELSE {m \in Running : LeadOf[m] = k}
      BY <2>4, <2>5
    <3> QED
      BY <2>2, <3>1 DEF Runs
  <2>8. Lost' = Lost
    BY <1>1, <1>2, <2>4, LostAre
  <2>9. Promise!Finish(l)
    BY <1>1, <1>2, <1>4, <2>6, <2>7, <2>8 DEF Promise!Finish, Runs
  <2> QED
    BY <2>2, <2>9 DEF Promise!Next
<1> QED
  BY <1>3, <1>4

LEMMA CrashPromise ==
    ASSUME RedisInv, Crash
    PROVE  Promise!Next
<1>1. /\ \A w \in Workers : ToSet(rows'[w]) = {} /\ batch'[w] = {}
      /\ \A m \in Messages : sender'[m] = "none"
      /\ UNCHANGED <<dedupe, messages, settled>>
  BY ListOfNone DEF Crash
<1>2. Waiting' \subseteq Waiting
  BY <1>1, WaitingIs, WaitingPrimed
<1>3. PICK S : S = Waiting \ Waiting'
  OBVIOUS
<1>4. /\ S \in SUBSET Messages /\ S \subseteq Waiting /\ Waiting' = Waiting \ S
      /\ S \subseteq dedupe /\ S \cap (Running \cup settled) = {}
  BY <1>2, <1>3, StatesApart
<1>5. Running' = {}
  BY <1>1 DEF Running
<1>6. Lost' = Lost \cup S \cup Promise!Running
  BY <1>1, <1>4, <1>5, LostAre, StatesApart
<1>7. Promise!Die(S)
  BY <1>1, <1>4, <1>5, <1>6 DEF Promise!Die
<1> QED
  BY <1>4, <1>7 DEF Promise!Next

\* The steps that only move what waits, or lose some of it.
LEMMA WorkersPromise ==
    ASSUME RedisInv, NEW w \in Workers, WorkerStep(w) \/ ScanFails(w) \/ CollectFails(w)
    PROVE  Promise!Next
<1>1. CASE FreeStep(w) \/ Acquire(w) \/ Unflag(w)
  <2>1. UNCHANGED <<dedupe, sender, messages, rows, batch, settled>>
    BY <1>1 DEF FreeStep, NextLead, ScanStart, ScanFlag, ScanAddJob, ScanEnd, ScanFails, ScanSkip,
                ScanFind, AcquireFails, Reschedule, Acquire, Unflag, rest, senderVars
  <2>2. Waiting' \subseteq Waiting
    BY <2>1, WaitingIs, WaitingPrimed
  <2> QED
    BY <2>1, <2>2, DropStep
<1>2. CASE Read(w)
  <2>1. /\ UNCHANGED <<dedupe, sender, messages, batch, settled>>
        /\ pc[w] = "window" /\ rows \in [Workers -> Seq(Messages)]
        /\ rows' = [rows EXCEPT ![w] = messages[job[w]]]
    BY <1>2 DEF Read, rest, senderVars, RedisInv, TypeOK
  <2>2. job[w] \in Leads
    BY <2>1 DEF RedisInv, TypeOK
  <2>3. \A v \in Workers : rows'[v] = IF v = w THEN messages[job[w]] ELSE rows[v]
    BY <2>1
  <2>4. Waiting' \subseteq Waiting
    BY <2>1, <2>2, <2>3, WaitingIs, WaitingPrimed
  <2> QED
    BY <2>1, <2>4, DropStep
<1>3. CASE Delete(w)
  <2>1. /\ UNCHANGED <<dedupe, sender, rows, batch, settled>>
        /\ \A l \in Leads : ToSet(messages'[l]) \subseteq ToSet(messages[l])
    BY <1>3, ListOfNone DEF Delete, rest, senderVars, RedisInv, TypeOK
  <2>2. Waiting' \subseteq Waiting
    BY <2>1, WaitingIs, WaitingPrimed
  <2> QED
    BY <2>1, <2>2, DropStep
<1>4. CASE CollectFails(w)
  <2>1. /\ UNCHANGED <<dedupe, sender, messages, batch, settled>>
        /\ \A v \in Workers : ToSet(rows'[v]) \subseteq ToSet(rows[v])
    BY <1>4, ListOfNone DEF CollectFails, senderVars, RedisInv, TypeOK
  <2>2. Waiting' \subseteq Waiting
    BY <2>1, WaitingIs, WaitingPrimed
  <2> QED
    BY <2>1, <2>2, DropStep
<1> QED
  BY <1>1, <1>2, <1>3, <1>4, SplitPromise, FinishPromise DEF WorkerStep, FreeStep

LEMMA PromiseStep == RedisInv /\ [Next]_vars => [Promise!Next]_(Promise!vars)
<1> SUFFICES ASSUME RedisInv, [Next]_vars PROVE Promise!Next
  OBVIOUS
<1>1. ASSUME NEW l \in Leads, FlagExpires(l) \/ LockExpires(l) PROVE Promise!Next
  <2>1. UNCHANGED <<dedupe, sender, messages, rows, batch, settled>>
    BY <1>1 DEF FlagExpires, LockExpires, rest, senderVars, workerVars
  <2>2. Waiting' \subseteq Waiting
    BY <2>1, WaitingIs, WaitingPrimed
  <2> QED
    BY <2>1, <2>2, DropStep
<1>2. CASE UNCHANGED vars
  <2>1. UNCHANGED <<dedupe, sender, messages, rows, batch, settled>>
    BY <1>2 DEF vars, senderVars, workerVars
  <2>2. Waiting' \subseteq Waiting
    BY <2>1, WaitingIs, WaitingPrimed
  <2> QED
    BY <2>1, <2>2, DropStep
<1>3. ASSUME NEW w \in Workers, WorkerStep(w) \/ ScanFails(w) \/ CollectFails(w) \/ WorkerDies(w)
      PROVE  Promise!Next
  BY <1>3, WorkersPromise, FinishPromise
<1> QED
  BY <1>1, <1>2, <1>3, SendersPromise, CrashPromise DEF Next

\* The Redis queue and its workers implement BestEffort: whatever crashes, fails,
\* expires or interleaves, a message is accepted once, is in one batch of its own
\* lead at most, has no other run of the lead beside it, and is never taken up again
\* once its batch has ended or it was lost (queue.py:223-348, 470-503).
THEOREM RedisKeepsPromise == Spec => ImplementsPromise
<1>1. Spec => []RedisInv
  BY Invariant
<1> QED
  BY <1>1, PromiseInit, PromiseStep, PTL DEF Spec, ImplementsPromise, Promise!Spec
=============================================================================
