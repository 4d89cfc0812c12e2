-------------------------- MODULE BatchRunsProofs --------------------------
(***************************************************************************)
(* Proofs about BatchRuns, for every number of workers, resolvers, runs and   *)
(* parts, every cache time and every choice of the constants.                *)
(*                                                                         *)
(* Three inductive invariants, one per component:                           *)
(*   RuntimeInv  what a cached runtime says was true of the platform at the   *)
(*               instant it is dated to;                                    *)
(*   SendInv     the lead has a prefix of the answer, plus the first part      *)
(*               once more when Chatwoot's answer was lost;                  *)
(*   LogInv      how a run's threads, its row and its batch go together.       *)
(***************************************************************************)
EXTENDS BatchRuns, TLAPS

\* What an entry says held at the instant it is dated to, or later.
Honest(entry) == Present(entry) => heldAt[entry.enabled] >= entry.fetchedAt

Honesty ==
    /\ \A r \in Resolvers : Honest(cache[r])
    /\ Honest(shared.entry)
    /\ \A w \in Workers : Honest(found[w])

\* The flag that a thread has read held when its resolution began, or later.
ReadHonest ==
    \A w \in Workers : pc[w] \in {"set", "publish"} => heldAt[flag[w]] >= began[w]

Clocks ==
    /\ agent.there => heldAt[agent.enabled] = clock
    /\ \A v \in BOOLEAN : heldAt[v] <= clock
    /\ \A w \in Workers : began[w] <= clock

RuntimeInv ==
    /\ RuntimeTypeOK
    /\ Clocks
    /\ Honesty
    /\ ReadHonest
    /\ RuntimeRecent

\* A sender whose lead has the first k parts, and the first one again after a
\* lost answer.
Copies(lost, k, p) == IF p = 1 /\ lost THEN (IF p <= k THEN 2 ELSE 1)
                      ELSE (IF p <= k THEN 1 ELSE 0)
Prefix(s, k) == s.got = [p \in 1..Parts |-> Copies(s.lost, k, p)]

Senderlike == [at: Sending \cup {"idle", "sent", "failed"}, next: 1..Parts,
               got: [1..Parts -> 0..2], lost: BOOLEAN]

SendShape(s) ==
    /\ s \in Senderlike
    /\ s.at \in {"idle", "lookup", "buttons"} => Prefix(s, 0) /\ s.next = 1
    /\ s.at \in {"public", "text"} => Prefix(s, s.next - 1)
    /\ s.at \in {"idle", "lookup", "buttons", "public"} => ~s.lost
    /\ s.at = "sent" => \E k \in 1..Parts : Prefix(s, k)
    /\ s.at = "failed" => \E k \in 0..Parts : Prefix(s, k)

SendInv ==
    /\ DOMAIN send = Senders
    /\ send = [w \in Senders |-> send[w]]
    /\ \A w \in Senders : SendShape(send[w])

\* A run that a worker has in hand is open.
Holding(w) ==
    run[w] # NoRun =>
        /\ pc[w] \in {"agent", "sending"}
        /\ outcome[run[w]] = "none" /\ update[run[w]] = "none"
        /\ create[run[w]] \in {"running", "over"}
        /\ row[run[w]] \in {"absent", "running"}

RunShape(r) ==
    /\ create[r] = "none" => outcome[r] = "none" /\ \A w \in Workers : run[w] # r
    /\ create[r] = "cancelled" => outcome[r] = "skipped"
    /\ create[r] # "over" => row[r] = "absent"
    /\ outcome[r] \in {"none", "skipped", "crashed"} => update[r] = "none" /\ reached[r] = "nothing"
    /\ outcome[r] \in {"sent", "raised"} => update[r] # "none"
    /\ outcome[r] = "sent" => reached[r] # "nothing"
    /\ outcome[r] = "skipped" => create[r] # "running" /\ row[r] \in {"absent", "cancelled"}
    /\ update[r] = "success" => outcome[r] = "sent"
    /\ update[r] = "failed" => outcome[r] = "raised"
    /\ row[r] = "success" => outcome[r] = "sent"
    /\ row[r] = "failed" => outcome[r] = "raised"
    /\ row[r] = "cancelled" => outcome[r] = "skipped"
    /\ row[r] \in {"success", "failed"} <=> update[r] = "done"

LogInv ==
    /\ LogTypeOK
    /\ run \in [Workers -> Runs \cup {NoRun}]
    /\ outcome \in [Runs -> {"none", "skipped", "sent", "raised", "crashed"}]
    /\ reached \in [Runs -> {"nothing", "some", "all"}]
    /\ pc \in [Workers -> PCs]
    /\ \A w \in Workers : Holding(w)
    /\ \A w, x \in Workers : run[w] = run[x] /\ run[w] # NoRun => w = x
    /\ \A r \in Runs : RunShape(r)

\* Nothing is being sent for a worker that is not sending.
Quiet == \A w \in Workers : pc[w] # "sending" => send[w] = NotSending

BatchInv == SendInv /\ Quiet /\ LogInv

USE RuntimeAssumption, RunLogAssumption, OutboundAssumption, BatchAssumption
USE DEF RuntimeAssumption, RunLogAssumption, OutboundAssumption, BatchAssumption

-----------------------------------------------------------------------------
(* The runtime. *)

LEMMA Times == Ttl \in Nat /\ Ttl >= 1 /\ StaleFor \in Nat
<1>1. Ttl \in Nat /\ Ttl >= 1
  BY DEF RuntimeAssumption, Ttl
<1> QED
  BY <1>1 DEF RuntimeAssumption, StaleFor

LEMMA RuntimeAtInit == Init => RuntimeInv
<1> SUFFICES ASSUME Init PROVE RuntimeInv
  OBVIOUS
<1> USE DEF Init, RuntimeInit
<1>1. 0 \in 0..MaxTime /\ 0 \in 0..MaxSyncs /\ -1 \in -1..MaxTime /\ 0 \in -1..MaxTime
  BY DEF RuntimeAssumption
<1>2. RuntimeTypeOK
  BY <1>1 DEF RuntimeTypeOK, PCs, EntryOK
<1>3. Clocks
  BY DEF Clocks
<1>4. Honesty
  BY DEF Honesty, Honest, Present, NoEntry
<1>5. ReadHonest /\ RuntimeRecent
  BY DEF ReadHonest, RuntimeRecent
<1> QED
  BY <1>2, <1>3, <1>4, <1>5 DEF RuntimeInv

LEMMA EntryFields ==
    ASSUME NEW entry \in Entries \cup {NoEntry}
    PROVE  entry.enabled \in BOOLEAN /\ entry.fetchedAt \in Int
<1>1. CASE entry \in Entries
  BY <1>1 DEF Entries
<1>2. CASE entry = NoEntry
  BY <1>2 DEF NoEntry
<1> QED
  BY <1>1, <1>2

\* The actions on the platform and the clock: nothing held becomes older.
LEMMA TimePasses ==
    ASSUME RuntimeInv,
           clock' \in 0..MaxTime, clock' >= clock,
           heldAt' \in [BOOLEAN -> -1..MaxTime],
           \A v \in BOOLEAN : heldAt'[v] >= heldAt[v] /\ heldAt'[v] <= clock',
           agent' \in [there: BOOLEAN, enabled: BOOLEAN],
           versionRow' \in BOOLEAN,
           agent'.there => heldAt'[agent'.enabled] = clock',
           syncing' \in {"none", "agent", "version"}, syncs' \in 0..MaxSyncs, up' \in BOOLEAN,
           UNCHANGED <<cacheVars, pc, resolveVars>>
    PROVE  RuntimeInv'
<1> USE DEF cacheVars, resolveVars
<1>1. RuntimeTypeOK'
  BY DEF RuntimeInv, RuntimeTypeOK, EntryOK
<1>2. Clocks'
  <2>1. \A w \in Workers : began[w] \in 0..MaxTime /\ began[w] <= clock /\ clock \in 0..MaxTime
    BY DEF RuntimeInv, RuntimeTypeOK, Clocks
  <2>2. \A w \in Workers : began[w] <= clock'
    BY <2>1
  <2> QED
    BY <2>2 DEF Clocks
<1>3. ASSUME NEW entry \in Entries \cup {NoEntry}, Honest(entry)
      PROVE  Present(entry) => heldAt'[entry.enabled] >= entry.fetchedAt
  <2>1. entry.enabled \in BOOLEAN /\ entry.fetchedAt \in Int
    BY EntryFields
  <2>2. heldAt[entry.enabled] \in Int /\ heldAt'[entry.enabled] \in Int
        /\ heldAt'[entry.enabled] >= heldAt[entry.enabled]
    BY <2>1 DEF RuntimeInv, RuntimeTypeOK
  <2> QED
    BY <1>3, <2>1, <2>2 DEF Honest
<1>4. Honesty'
  <2>1. \A r \in Resolvers : cache[r] \in Entries \cup {NoEntry}
    BY DEF RuntimeInv, RuntimeTypeOK
  <2>2. \A w \in Workers : found[w] \in Entries \cup {NoEntry}
    BY DEF RuntimeInv, RuntimeTypeOK
  <2>3. shared.entry \in Entries \cup {NoEntry}
    BY DEF RuntimeInv, RuntimeTypeOK, EntryOK
  <2> QED
    BY <1>3, <2>1, <2>2, <2>3 DEF Honesty, Honest, RuntimeInv
<1>5. \A w \in Workers : flag[w] \in BOOLEAN /\ began[w] \in Int
                         /\ heldAt'[flag[w]] \in Int /\ heldAt[flag[w]] \in Int
                         /\ heldAt'[flag[w]] >= heldAt[flag[w]]
  BY DEF RuntimeInv, RuntimeTypeOK
<1>6. ReadHonest' /\ RuntimeRecent'
  BY <1>5, Times DEF RuntimeInv, ReadHonest, RuntimeRecent, Ttl, StaleFor
<1> QED
  BY <1>1, <1>2, <1>4, <1>6 DEF RuntimeInv

LEMMA PlatformSteps ==
    ASSUME RuntimeInv, PlatformStep PROVE RuntimeInv'
<1> USE DEF rowVars, syncVars
<1>1. /\ clock \in 0..MaxTime /\ heldAt \in [BOOLEAN -> -1..MaxTime]
      /\ agent \in [there: BOOLEAN, enabled: BOOLEAN] /\ versionRow \in BOOLEAN
      /\ syncing \in {"none", "agent", "version"} /\ syncs \in 0..MaxSyncs /\ up \in BOOLEAN
      /\ agent.there => heldAt[agent.enabled] = clock
      /\ \A v \in BOOLEAN : heldAt[v] <= clock
  BY DEF RuntimeInv, RuntimeTypeOK, Clocks
<1>2. CASE Tick
  <2>1. /\ clock' \in 0..MaxTime /\ clock' >= clock
        /\ heldAt' \in [BOOLEAN -> -1..MaxTime]
        /\ \A v \in BOOLEAN : heldAt'[v] >= heldAt[v] /\ heldAt'[v] <= clock'
        /\ agent'.there => heldAt'[agent'.enabled] = clock'
    <3>1. CASE agent.there
      BY <1>1, <1>2, <3>1 DEF Tick
    <3>2. CASE ~agent.there
      BY <1>1, <1>2, <3>2 DEF Tick
    <3> QED
      BY <3>1, <3>2
  <2> QED
    BY <1>1, <1>2, <2>1, TimePasses DEF Tick
<1>3. ASSUME NEW v \in BOOLEAN, WriteFlag(v), clock' = clock
      PROVE  /\ heldAt' \in [BOOLEAN -> -1..MaxTime]
             /\ \A u \in BOOLEAN : heldAt'[u] >= heldAt[u] /\ heldAt'[u] <= clock'
             /\ agent' \in [there: BOOLEAN, enabled: BOOLEAN]
             /\ heldAt'[agent'.enabled] = clock'
  BY <1>1, <1>3 DEF WriteFlag
<1>4. CASE Toggle
  BY <1>1, <1>3, <1>4, TimePasses DEF Toggle
<1>5. CASE SyncAgent
  BY <1>1, <1>3, <1>5, TimePasses DEF SyncAgent
<1>6. CASE SyncVersion
  BY <1>1, <1>6, TimePasses DEF SyncVersion
<1>7. CASE SyncFails
  BY <1>1, <1>7, TimePasses DEF SyncFails
<1>8. CASE ManualSync
  BY <1>1, <1>8, TimePasses DEF ManualSync
<1> QED
  BY <1>2, <1>4, <1>5, <1>6, <1>7, <1>8 DEF PlatformStep

\* A thread goes on: what it takes and what it writes must be honest.
LEMMA ThreadMoves ==
    ASSUME RuntimeInv, NEW w \in Workers, UNCHANGED <<clock, rowVars, syncVars>>,
           NEW label \in PCs, pc' = [pc EXCEPT ![w] = label],
           NEW b \in 0..MaxTime, began' = [began EXCEPT ![w] = b], b <= clock,
           NEW e \in Entries \cup {NoEntry}, found' = [found EXCEPT ![w] = e], Honest(e),
           NEW v \in BOOLEAN, flag' = [flag EXCEPT ![w] = v],
           label \in {"set", "publish"} => heldAt[v] >= b,
           label \in {"resolved", "agent", "sending"} => heldAt[v] + Ttl + StaleFor >= b,
           cache' \in [Resolvers -> Entries \cup {NoEntry}],
           \A r \in Resolvers : Honest(cache'[r]),
           EntryOK(shared'.entry), Honest(shared'.entry)
    PROVE  RuntimeInv'
<1> USE DEF rowVars, syncVars
<1>1. RuntimeTypeOK'
  BY DEF RuntimeInv, RuntimeTypeOK, EntryOK
<1>2. Clocks'
  BY DEF RuntimeInv, RuntimeTypeOK, Clocks
<1>3. \A x \in Workers : Honest(found'[x])
  BY DEF RuntimeInv, RuntimeTypeOK, Honesty
<1>4. Honesty'
  BY <1>3 DEF Honesty, Honest
<1>5. ReadHonest'
  BY DEF RuntimeInv, RuntimeTypeOK, ReadHonest
<1>6. RuntimeRecent'
  BY DEF RuntimeInv, RuntimeTypeOK, RuntimeRecent, Ttl, StaleFor
<1> QED
  BY <1>1, <1>2, <1>4, <1>5, <1>6 DEF RuntimeInv

\* What a thread finds in the invariant.
LEMMA ThreadFacts ==
    ASSUME RuntimeInv, NEW w \in Workers
    PROVE  /\ clock \in 0..MaxTime
           /\ pc \in [Workers -> PCs]
           /\ began \in [Workers -> 0..MaxTime] /\ began[w] <= clock
           /\ found \in [Workers -> Entries \cup {NoEntry}] /\ Honest(found[w])
           /\ flag \in [Workers -> BOOLEAN]
           /\ cache \in [Resolvers -> Entries \cup {NoEntry}]
           /\ \A r \in Resolvers : Honest(cache[r])
           /\ EntryOK(shared.entry) /\ Honest(shared.entry)
           /\ ResolverOf[w] \in Resolvers
           /\ \A v \in BOOLEAN : heldAt[v] \in Int
           /\ NoEntry \in Entries \cup {NoEntry} /\ Honest(NoEntry)
           /\ 0 \in 0..MaxTime /\ 0 <= clock
<1>1. Honest(NoEntry)
  BY DEF Honest, Present, NoEntry
<1> QED
  BY <1>1 DEF RuntimeInv, RuntimeTypeOK, Clocks, Honesty

\* An entry that is fresh, or that may still be served, is recent enough.
LEMMA ServedIsRecent ==
    ASSUME RuntimeInv, NEW entry \in Entries \cup {NoEntry}, Honest(entry), Present(entry),
           NEW now \in 0..MaxTime,
           ExpiresAt(entry) >= now \/ StaleUntil(entry) >= now
    PROVE  heldAt[entry.enabled] + Ttl + StaleFor >= now
<1>1. entry.enabled \in BOOLEAN /\ entry.fetchedAt \in Int
  BY EntryFields
<1>2. heldAt[entry.enabled] \in Int /\ heldAt[entry.enabled] >= entry.fetchedAt
  BY <1>1 DEF RuntimeInv, RuntimeTypeOK, Honest
<1> QED
  BY <1>1, <1>2, Times DEF ExpiresAt, StaleUntil

\* A thread that reads an honest entry returns it, or keeps it in reserve.
LEMMA UseFoundStep ==
    ASSUME RuntimeInv, NEW w \in Workers, UNCHANGED <<clock, rowVars, syncVars>>,
           NEW entry \in Entries \cup {NoEntry}, Honest(entry),
           NEW now \in 0..MaxTime, now <= clock, began' = [began EXCEPT ![w] = now],
           cache' \in [Resolvers -> Entries \cup {NoEntry}],
           \A r \in Resolvers : Honest(cache'[r]),
           shared' = shared,
           UseFound(w, entry, now)
    PROVE  RuntimeInv'
<1>1. entry.enabled \in BOOLEAN
  BY EntryFields
<1>2. "resolved" \in PCs /\ "fetch" \in PCs
  BY DEF PCs
<1>3. CASE Present(entry) /\ ExpiresAt(entry) >= now
  <2>1. heldAt[entry.enabled] + Ttl + StaleFor >= now
    BY <1>3, ServedIsRecent
  <2>2. /\ pc' = [pc EXCEPT ![w] = "resolved"]
        /\ found' = [found EXCEPT ![w] = NoEntry]
        /\ flag' = [flag EXCEPT ![w] = entry.enabled]
    BY <1>3 DEF UseFound, Return, Goto
  <2> QED
    BY <1>1, <1>2, <2>1, <2>2, ThreadFacts, ThreadMoves
<1>4. CASE ~(Present(entry) /\ ExpiresAt(entry) >= now)
  <2>1. /\ pc' = [pc EXCEPT ![w] = "fetch"]
        /\ found' = [found EXCEPT ![w] = entry]
        /\ flag' = [flag EXCEPT ![w] = flag[w]]
    BY <1>4, ThreadFacts DEF UseFound, Goto
  <2> QED
    BY <1>2, <2>1, ThreadFacts, ThreadMoves
<1> QED
  BY <1>3, <1>4

\* A thread that only changes its place, outside the places with a promise.
LEMMA PlaceChanges ==
    ASSUME RuntimeInv, NEW w \in Workers,
           UNCHANGED <<clock, rowVars, syncVars, cacheVars, resolveVars>>,
           NEW label \in PCs, Goto(w, label),
           label \in {"set", "publish"} => heldAt[flag[w]] >= began[w],
           label \in {"resolved", "agent", "sending"} =>
               heldAt[flag[w]] + Ttl + StaleFor >= began[w]
    PROVE  RuntimeInv'
<1>1. /\ pc' = [pc EXCEPT ![w] = label]
      /\ began' = [began EXCEPT ![w] = began[w]]
      /\ found' = [found EXCEPT ![w] = found[w]]
      /\ flag' = [flag EXCEPT ![w] = flag[w]]
  BY ThreadFacts DEF Goto, resolveVars
<1>2. began[w] \in 0..MaxTime /\ found[w] \in Entries \cup {NoEntry} /\ flag[w] \in BOOLEAN
  BY ThreadFacts
<1>3. cache' = cache /\ shared' = shared
  BY DEF cacheVars
<1>4. cache' \in [Resolvers -> Entries \cup {NoEntry}]
      /\ (\A r \in Resolvers : Honest(cache'[r]))
      /\ EntryOK(shared'.entry) /\ Honest(shared'.entry)
  BY <1>3, ThreadFacts
<1> QED
  BY <1>1, <1>2, <1>4, ThreadFacts, ThreadMoves

LEMMA IdleStep ==
    ASSUME RuntimeInv, NEW w \in Workers, UNCHANGED <<clock, rowVars, syncVars, cacheVars>>,
           Idle(w)
    PROVE  RuntimeInv'
<1>1. /\ pc' = [pc EXCEPT ![w] = "idle"]
      /\ began' = [began EXCEPT ![w] = 0]
      /\ found' = [found EXCEPT ![w] = NoEntry]
      /\ flag' = [flag EXCEPT ![w] = FALSE]
  BY DEF Idle, Goto
<1>2. cache' = cache /\ shared' = shared /\ "idle" \in PCs
  BY DEF cacheVars, PCs
<1> QED
  BY <1>1, <1>2, ThreadFacts, ThreadMoves

LEMMA ResolveSteps ==
    ASSUME RuntimeInv, NEW w \in Workers, ResolveStep(w) PROVE RuntimeInv'
<1> USE DEF cacheVars
<1> DEFINE place == ResolverOf[w]
<1>1. {"redis", "keep", "fetch", "set", "publish", "resolved"} \subseteq PCs
  BY DEF PCs
<1>2. CASE Resolve(w)
  <2>0. /\ cache' = cache /\ shared' = shared /\ UNCHANGED <<clock, rowVars, syncVars>>
        /\ cache' \in [Resolvers -> Entries \cup {NoEntry}]
        /\ \A r \in Resolvers : Honest(cache'[r])
        /\ EntryOK(shared'.entry) /\ Honest(shared'.entry)
        /\ clock \in 0..MaxTime /\ clock <= clock
    BY <1>2, ThreadFacts DEF Resolve
  <2>1. CASE Present(cache[place])
    <3>1. cache[place] \in Entries \cup {NoEntry} /\ Honest(cache[place])
      BY ThreadFacts
    <3>2. UseFound(w, cache[place], clock) /\ began' = [began EXCEPT ![w] = clock]
      BY <1>2, <2>1 DEF Resolve
    <3> QED
      BY <2>0, <3>1, <3>2, ThreadFacts, UseFoundStep
  <2>2. CASE ~Present(cache[place])
    <3>1. /\ pc' = [pc EXCEPT ![w] = "redis"]
          /\ began' = [began EXCEPT ![w] = clock]
          /\ found' = [found EXCEPT ![w] = found[w]]
          /\ flag' = [flag EXCEPT ![w] = flag[w]]
      BY <1>2, <2>2, ThreadFacts DEF Resolve, Goto
    <3>2. found[w] \in Entries \cup {NoEntry} /\ flag[w] \in BOOLEAN
      BY ThreadFacts
    <3> QED
      BY <1>1, <2>0, <3>1, <3>2, ThreadFacts, ThreadMoves
  <2> QED
    BY <2>1, <2>2
<1>3. CASE ReadRedis(w)
  <2>1. /\ pc' = [pc EXCEPT ![w] = "keep"]
        /\ began' = [began EXCEPT ![w] = began[w]]
        /\ found' = [found EXCEPT ![w] = shared.entry]
        /\ flag' = [flag EXCEPT ![w] = flag[w]]
    BY <1>3, ThreadFacts DEF ReadRedis, Goto
  <2>2. began[w] \in 0..MaxTime /\ flag[w] \in BOOLEAN /\ shared.entry \in Entries \cup {NoEntry}
    BY ThreadFacts DEF EntryOK
  <2>3. /\ UNCHANGED <<clock, rowVars, syncVars>>
        /\ cache' = cache /\ shared' = shared
    BY <1>3 DEF ReadRedis
  <2>4. /\ began[w] <= clock /\ Honest(shared.entry)
        /\ cache' \in [Resolvers -> Entries \cup {NoEntry}]
        /\ \A r \in Resolvers : Honest(cache'[r])
        /\ EntryOK(shared'.entry) /\ Honest(shared'.entry)
    BY <2>3, ThreadFacts
  <2>5. "keep" \in PCs /\ "keep" \notin {"set", "publish", "resolved", "agent", "sending"}
    BY <1>1
  <2> QED
    BY <2>1, <2>2, <2>3, <2>4, <2>5, ThreadMoves
<1>4. CASE MissRedis(w)
  BY <1>1, <1>4, PlaceChanges DEF MissRedis
<1>6. CASE Fetch(w)
  <2>1. /\ pc' = [pc EXCEPT ![w] = "set"]
        /\ began' = [began EXCEPT ![w] = began[w]]
        /\ found' = [found EXCEPT ![w] = found[w]]
        /\ flag' = [flag EXCEPT ![w] = agent.enabled]
    BY <1>6, ThreadFacts DEF Fetch, Goto
  <2>2. began[w] \in 0..MaxTime /\ found[w] \in Entries \cup {NoEntry} /\ agent.enabled \in BOOLEAN
    BY ThreadFacts DEF RuntimeInv, RuntimeTypeOK
  <2>3. heldAt[agent.enabled] >= began[w]
    BY <1>6, <2>2, ThreadFacts DEF Fetch, RuntimeInv, Clocks
  <2>4. /\ UNCHANGED <<clock, rowVars, syncVars>>
        /\ cache' = cache /\ shared' = shared
    BY <1>6 DEF Fetch
  <2>5. /\ began[w] <= clock /\ Honest(found[w])
        /\ cache' \in [Resolvers -> Entries \cup {NoEntry}]
        /\ \A r \in Resolvers : Honest(cache'[r])
        /\ EntryOK(shared'.entry) /\ Honest(shared'.entry)
    BY <2>4, ThreadFacts
  <2>6. "set" \in PCs /\ "set" \notin {"resolved", "agent", "sending"}
    BY <1>1
  <2> QED
    BY <2>1, <2>2, <2>3, <2>4, <2>5, <2>6, ThreadMoves
<1>7. CASE UseStale(w)
  <2>1. /\ pc' = [pc EXCEPT ![w] = "resolved"]
        /\ began' = [began EXCEPT ![w] = began[w]]
        /\ found' = [found EXCEPT ![w] = NoEntry]
        /\ flag' = [flag EXCEPT ![w] = found[w].enabled]
    BY <1>7, ThreadFacts DEF UseStale, Return, Goto
  <2>2. began[w] \in 0..MaxTime /\ found[w] \in Entries \cup {NoEntry} /\ found[w].enabled \in BOOLEAN
    BY ThreadFacts, EntryFields
  <2>3. heldAt[found[w].enabled] + Ttl + StaleFor >= began[w]
    BY <1>7, <2>2, ThreadFacts, ServedIsRecent DEF UseStale, Servable
  <2> QED
    BY <1>1, <1>7, <2>1, <2>2, <2>3, ThreadFacts, ThreadMoves DEF UseStale
<1>8. CASE GiveUp(w)
  BY <1>8, IdleStep DEF GiveUp
<1>11. CASE KeepCopy(w)
  <2>1. cache' = [cache EXCEPT ![place] = found[w]] /\ shared' = shared
    BY <1>11 DEF KeepCopy
  <2>2. cache' \in [Resolvers -> Entries \cup {NoEntry}] /\ \A r \in Resolvers : Honest(cache'[r])
    BY <2>1, ThreadFacts
  <2>3. began[w] \in 0..MaxTime /\ began' = [began EXCEPT ![w] = began[w]]
    BY <1>11, ThreadFacts DEF KeepCopy
  <2> QED
    BY <1>11, <2>1, <2>2, <2>3, ThreadFacts, UseFoundStep DEF KeepCopy
<1>12. CASE SetCached(w)
  <2>1. /\ Fetched(w) \in Entries \cup {NoEntry}
        /\ heldAt[flag[w]] >= began[w]
        /\ Honest(Fetched(w))
    <3>1. heldAt[flag[w]] >= began[w]
      BY <1>12 DEF SetCached, RuntimeInv, ReadHonest
    <3>2. Fetched(w) \in Entries /\ Fetched(w).fetchedAt = began[w] /\ Fetched(w).enabled = flag[w]
      BY ThreadFacts DEF Fetched, Entries
    <3> QED
      BY <3>1, <3>2 DEF Honest
  <2>2. cache' = [cache EXCEPT ![place] = Fetched(w)] /\ shared' = shared
    BY <1>12 DEF SetCached
  <2>3. cache' \in [Resolvers -> Entries \cup {NoEntry}] /\ \A r \in Resolvers : Honest(cache'[r])
    BY <2>1, <2>2, ThreadFacts
  <2>4. /\ pc' = [pc EXCEPT ![w] = "publish"]
        /\ began' = [began EXCEPT ![w] = began[w]]
        /\ found' = [found EXCEPT ![w] = Fetched(w)]
        /\ flag' = [flag EXCEPT ![w] = flag[w]]
    BY <1>12, ThreadFacts DEF SetCached, Goto
  <2>5. began[w] \in 0..MaxTime /\ began[w] <= clock /\ flag[w] \in BOOLEAN
        /\ EntryOK(shared'.entry) /\ Honest(shared'.entry)
    BY <2>2, ThreadFacts
  <2>6. UNCHANGED <<clock, rowVars, syncVars>>
    BY <1>12 DEF SetCached
  <2> QED
    BY <1>1, <2>1, <2>3, <2>4, <2>5, <2>6, ThreadMoves
<1>13. CASE Publish(w)
  <2>1. /\ pc' = [pc EXCEPT ![w] = "resolved"]
        /\ began' = [began EXCEPT ![w] = began[w]]
        /\ found' = [found EXCEPT ![w] = NoEntry]
        /\ flag' = [flag EXCEPT ![w] = flag[w]]
    BY <1>13, ThreadFacts DEF Publish, Return, Goto
  <2>2. shared'.entry \in {found[w], shared.entry}
    BY <1>13 DEF Publish
  <2>3. EntryOK(shared'.entry) /\ Honest(shared'.entry)
    BY <2>2, ThreadFacts DEF EntryOK
  <2>4. began[w] \in 0..MaxTime /\ flag[w] \in BOOLEAN
    BY ThreadFacts
  <2>5. heldAt[flag[w]] >= began[w] /\ heldAt[flag[w]] \in Int
    BY <1>13, <2>4, ThreadFacts DEF Publish, RuntimeInv, ReadHonest
  <2>6. heldAt[flag[w]] + Ttl + StaleFor >= began[w]
    BY <2>4, <2>5, Times
  <2>7. cache' = cache
    BY <1>13 DEF Publish
  <2>8. /\ UNCHANGED <<clock, rowVars, syncVars>>
        /\ began[w] <= clock
        /\ NoEntry \in Entries \cup {NoEntry} /\ Honest(NoEntry)
        /\ cache' \in [Resolvers -> Entries \cup {NoEntry}]
        /\ \A r \in Resolvers : Honest(cache'[r])
    BY <1>13, <2>7, ThreadFacts DEF Publish
  <2>9. "resolved" \in PCs /\ "resolved" \notin {"set", "publish"}
    BY <1>1
  <2> QED
    BY <2>1, <2>3, <2>4, <2>6, <2>8, <2>9, ThreadMoves
<1> QED
  BY <1>2, <1>3, <1>4, <1>6, <1>7, <1>8, <1>11, <1>12, <1>13 DEF ResolveStep

LEMMA RestartStep ==
    ASSUME RuntimeInv, Restart PROVE RuntimeInv'
<1> USE DEF rowVars, Restart
<1>1. NoEntry \in Entries \cup {NoEntry} /\ "idle" \in PCs /\ 0 \in 0..MaxTime
  BY DEF PCs
<1>2. syncs' \in 0..MaxSyncs
  BY DEF RuntimeInv, RuntimeTypeOK
<1>3. RuntimeTypeOK'
  BY <1>1, <1>2 DEF RuntimeInv, RuntimeTypeOK, EntryOK
<1>4. \A w \in Workers : 0 <= clock
  BY DEF RuntimeInv, RuntimeTypeOK
<1>5. Clocks'
  BY <1>4 DEF RuntimeInv, Clocks
<1>6. Honesty'
  BY DEF RuntimeInv, Honesty, Honest, Present, NoEntry
<1>7. ReadHonest' /\ RuntimeRecent'
  BY DEF ReadHonest, RuntimeRecent
<1> QED
  BY <1>3, <1>5, <1>6, <1>7 DEF RuntimeInv

LEMMA RuntimeStutter ==
    ASSUME RuntimeInv, UNCHANGED runtimeVars PROVE RuntimeInv'
<1> USE DEF runtimeVars, rowVars, syncVars, cacheVars, resolveVars
<1>1. RuntimeTypeOK' /\ Clocks'
  BY DEF RuntimeInv, RuntimeTypeOK, Clocks, EntryOK
<1>2. Honesty'
  BY DEF RuntimeInv, Honesty, Honest
<1>3. ReadHonest' /\ RuntimeRecent'
  BY DEF RuntimeInv, ReadHonest, RuntimeRecent, Ttl, StaleFor
<1> QED
  BY <1>1, <1>2, <1>3 DEF RuntimeInv

LEMMA RuntimeStep == RuntimeInv /\ [Next]_vars => RuntimeInv'
<1> SUFFICES ASSUME RuntimeInv, [Next]_vars PROVE RuntimeInv'
  OBVIOUS
<1>1. CASE PlatformStep
  BY <1>1, PlatformSteps
<1>2. CASE Crash
  BY <1>2, RestartStep DEF Crash
<1>3. ASSUME NEW w \in Workers, WorkerStep(w) PROVE RuntimeInv'
  <2>1. "agent" \in PCs /\ "sending" \in PCs
    BY DEF PCs
  <2>2. pc[w] \in {"resolved", "agent"} => heldAt[flag[w]] + Ttl + StaleFor >= began[w]
    BY DEF RuntimeInv, RuntimeRecent
  <2>3. CASE ResolveStep(w)
    BY <2>3, ResolveSteps
  <2>4. CASE StartUnlogged(w)
    BY <2>1, <2>2, <2>4, PlaceChanges DEF StartUnlogged
  <2>5. CASE SkipUnlogged(w)
    BY <2>5, IdleStep DEF SkipUnlogged
  <2>6. CASE Answer(w)
    BY <2>1, <2>2, <2>6, PlaceChanges DEF Answer
  <2>7. CASE Transmit(w)
    BY <2>7, RuntimeStutter DEF Transmit
  <2>8. CASE CompleteRun(w)
    BY <2>8, IdleStep DEF CompleteRun, EndRun
  <2>9. CASE FailRun(w)
    BY <2>9, IdleStep DEF FailRun, EndRun
  <2>10. ASSUME NEW r \in Runs, StartRun(w, r) PROVE RuntimeInv'
    BY <2>1, <2>2, <2>10, PlaceChanges DEF StartRun
  <2>11. ASSUME NEW r \in Runs, Skip(w, r) PROVE RuntimeInv'
    BY <2>11, IdleStep DEF Skip
  <2> QED
    BY <1>3, <2>3, <2>4, <2>5, <2>6, <2>7, <2>8, <2>9, <2>10, <2>11 DEF WorkerStep
<1>4. ASSUME NEW r \in Runs, LogStep(r) PROVE RuntimeInv'
  BY <1>4, RuntimeStutter DEF LogStep
<1>5. CASE UNCHANGED vars
  BY <1>5, RuntimeStutter DEF vars
<1> QED
  BY <1>1, <1>2, <1>3, <1>4, <1>5 DEF Next

\* A batch is run, or left, on a flag that the platform held at most the
\* cache's and the stale time before the batch's runtime was resolved
\* (observability.py:319-331).
THEOREM RunsOnRecentRuntime == Spec => []RuntimeRecent
<1>1. RuntimeInv => RuntimeRecent
  BY DEF RuntimeInv
<1> QED
  BY RuntimeAtInit, RuntimeStep, <1>1, PTL DEF Spec

-----------------------------------------------------------------------------
(* What the lead gets. *)

LEMMA NotSendingShape == SendShape(NotSending)
<1>1. NotSending \in Senderlike
  BY DEF NotSending, Senderlike
<1>2. \A p \in 1..Parts : Copies(FALSE, 0, p) = 0
  BY DEF Copies
<1>3. Prefix(NotSending, 0)
  BY <1>2 DEF Prefix, NotSending
<1> QED
  BY <1>1, <1>3 DEF SendShape, NotSending

LEMMA SendAtInit == Init => SendInv
BY NotSendingShape DEF Init, SendInit, SendInv

\* One sender becomes another that is in shape.
LEMMA SenderMoves ==
    ASSUME SendInv, NEW w \in Senders, NEW s, SendShape(s), send' = [send EXCEPT ![w] = s]
    PROVE  SendInv'
BY DEF SendInv

\* A sender that goes to another place with what it has, or with one part more.
Moved(s, where) == [s EXCEPT !.at = where, !.next = 1]
Given(s, where, next, lost) ==
    [at |-> where, next |-> next, got |-> [s.got EXCEPT ![s.next] = @ + 1], lost |-> lost]

LEMMA PlaceOfSender ==
    ASSUME NEW s \in Senderlike, NEW where \in Sending \cup {"sent", "failed"}
    PROVE  /\ Moved(s, where) \in Senderlike
           /\ Moved(s, where).at = where /\ Moved(s, where).next = 1
           /\ Moved(s, where).lost = s.lost
           /\ \A k : Prefix(Moved(s, where), k) <=> Prefix(s, k)
<1> DEFINE t == Moved(s, where)
<1>1. 1 \in 1..Parts /\ where \in Sending \cup {"idle", "sent", "failed"}
  OBVIOUS
<1>2. t \in Senderlike /\ t.at = where /\ t.next = 1 /\ t.got = s.got /\ t.lost = s.lost
  BY <1>1 DEF Senderlike, Moved
<1> QED
  BY <1>2 DEF Prefix

LEMMA DeliverOne ==
    ASSUME NEW s \in Senderlike, Prefix(s, s.next - 1), NEW lost \in BOOLEAN,
           NEW next \in 1..Parts, NEW where \in Sending \cup {"sent", "failed"}
    PROVE  LET t == Given(s, where, next, lost)
           IN  /\ t \in Senderlike /\ t.at = where /\ t.next = next /\ t.lost = lost
               /\ lost = s.lost => Prefix(t, s.next)
               /\ lost /\ ~s.lost /\ s.next = 1 => Prefix(t, 0)
<1> DEFINE t == Given(s, where, next, lost)
<1>1. s.next \in 1..Parts /\ s.lost \in BOOLEAN /\ s.got \in [1..Parts -> 0..2]
  BY DEF Senderlike
<1>2. s.got[s.next] \in {0, 1}
  BY <1>1 DEF Prefix, Copies
<1>3. /\ t.got = [s.got EXCEPT ![s.next] = @ + 1] /\ t.at = where /\ t.next = next
      /\ t.lost = lost
  BY DEF Given
<1>4. t.got \in [1..Parts -> 0..2]
  BY <1>1, <1>2, <1>3
<1>5. t \in Senderlike
  <2>1. where \in Sending \cup {"idle", "sent", "failed"}
    OBVIOUS
  <2>2. [s.got EXCEPT ![s.next] = @ + 1] \in [1..Parts -> 0..2]
    BY <1>3, <1>4
  <2> QED
    BY <2>1, <2>2 DEF Senderlike, Given
<1>6. ASSUME NEW p \in 1..Parts PROVE t.got[p] = Copies(s.lost, s.next, p)
  <2>1. s.got[p] = Copies(s.lost, s.next - 1, p)
    BY DEF Prefix
  <2>2. t.got[p] = IF p = s.next THEN s.got[p] + 1 ELSE s.got[p]
    BY <1>1, <1>3
  <2>3. CASE p = s.next
    <3>1. ~(p <= s.next - 1) /\ p <= s.next
      BY <1>1, <2>3
    <3> QED
      BY <2>1, <2>2, <2>3, <3>1 DEF Copies
  <2>4. CASE p # s.next
    <3>1. p <= s.next - 1 <=> p <= s.next
      BY <1>1, <2>4
    <3> QED
      BY <2>1, <2>2, <2>4, <3>1 DEF Copies
  <2> QED
    BY <2>3, <2>4
<1>7. lost = s.lost => Prefix(t, s.next)
  BY <1>3, <1>4, <1>6 DEF Prefix
<1>8. ASSUME lost, ~s.lost, s.next = 1 PROVE Prefix(t, 0)
  <2>1. \A p \in 1..Parts : Copies(s.lost, 1, p) = Copies(TRUE, 0, p)
    BY <1>8 DEF Copies
  <2>2. t.lost = TRUE
    BY <1>3, <1>8
  <2>3. \A p \in 1..Parts : t.got[p] = Copies(t.lost, 0, p)
    BY <1>6, <1>8, <2>1, <2>2
  <2> QED
    BY <1>4, <2>3 DEF Prefix
<1> QED
  BY <1>3, <1>5, <1>7, <1>8

LEMMA SendSteps ==
    ASSUME SendInv, NEW w \in Senders, SendStep(w) PROVE SendInv'
<1> DEFINE s == send[w]
<1>1. SendShape(s) /\ s \in Senderlike /\ s.next \in 1..Parts /\ s.lost \in BOOLEAN
      /\ 1 \in 1..Parts /\ Parts \in 1..Parts
  BY DEF SendInv, SendShape, Senderlike
<1>2. {"public", "text", "lookup", "buttons"} \subseteq Sending
  BY DEF Sending
<1>3. CASE Lookup(w)
  <2>1. PICK where \in {"public", "text"} : Leave(w, where)
    BY <1>3 DEF Lookup
  <2> DEFINE t == Moved(s, where)
  <2>2. /\ t \in Senderlike /\ t.at = where /\ t.next = 1 /\ t.lost = s.lost
        /\ Prefix(t, 0) <=> Prefix(s, 0)
    <3>1. where \in Sending \cup {"sent", "failed"}
      BY <1>2
    <3> QED
      BY <1>1, <3>1, PlaceOfSender
  <2>3. Prefix(s, 0) /\ ~s.lost
    BY <1>1, <1>3 DEF Lookup, At, SendShape
  <2>4. SendShape(t)
    <3>1. t.next - 1 = 0
      BY <2>2
    <3> QED
      BY <2>2, <2>3, <3>1 DEF SendShape
  <2> QED
    BY <2>1, <2>4, SenderMoves DEF Leave, Moved
<1> DEFINE n(where) == IF where = s.at THEN s.next + 1 ELSE 1
           l(where) == s.lost \/ (s.at = "public" /\ where = "text")
           d(where) == Given(s, where, n(where), l(where))
<1>4. ASSUME NEW where, Deliver(w, where) PROVE send' = [send EXCEPT ![w] = d(where)]
  BY <1>4 DEF Deliver, At, Given
<1> DEFINE fields(where) == d(where).at = where /\ d(where).next = n(where) /\ d(where).lost = l(where)
<1>9. fields("sent") /\ fields("text") /\ fields("failed") /\ fields(s.at)
  BY DEF Given
<1>5. CASE Accept(w)
  <2>1. s.at \in {"public", "text"} /\ Prefix(s, s.next - 1)
    BY <1>1, <1>5 DEF Accept, At, SendShape
  <2>2. CASE s.next = Parts
    <3>1. send' = [send EXCEPT ![w] = d("sent")]
      BY <1>4, <1>5, <2>2 DEF Accept
    <3>2. n("sent") \in 1..Parts /\ l("sent") = s.lost
      BY <1>1, <2>1
    <3>3. d("sent") \in Senderlike /\ Prefix(d("sent"), s.next)
      BY <1>1, <2>1, <3>2, DeliverOne
    <3>4. SendShape(d("sent"))
      BY <1>1, <1>9, <3>3 DEF SendShape
    <3> QED
      BY <3>1, <3>4, SenderMoves
  <2>3. CASE s.next # Parts
    <3>1. send' = [send EXCEPT ![w] = d(s.at)]
      BY <1>4, <1>5, <2>3 DEF Accept, At
    <3>2. n(s.at) = s.next + 1 /\ n(s.at) \in 1..Parts /\ l(s.at) = s.lost
      BY <1>1, <2>1, <2>3
    <3>3. d(s.at) \in Senderlike /\ Prefix(d(s.at), s.next)
      BY <1>1, <1>2, <2>1, <3>2, DeliverOne
    <3>4. s.at = "public" => ~s.lost
      BY <1>1 DEF SendShape
    <3>5. d(s.at).at = s.at /\ d(s.at).next - 1 = s.next /\ d(s.at).lost = s.lost
      BY <1>1, <1>9, <3>2
    <3>6. SendShape(d(s.at))
      BY <2>1, <3>3, <3>4, <3>5 DEF SendShape
    <3> QED
      BY <3>1, <3>6, SenderMoves
  <2> QED
    BY <2>2, <2>3
<1>6. CASE AcceptButtons(w)
  <2>1. s.at = "buttons" /\ Prefix(s, 0) /\ s.next = 1 /\ ~s.lost
    BY <1>1, <1>6 DEF AcceptButtons, At, SendShape
  <2>2. n("sent") \in 1..Parts /\ l("sent") = s.lost /\ s.next - 1 = 0
    BY <1>1, <2>1
  <2>3. d("sent") \in Senderlike /\ Prefix(d("sent"), s.next)
    BY <1>1, <2>1, <2>2, DeliverOne
  <2>4. SendShape(d("sent"))
    BY <1>1, <1>9, <2>3 DEF SendShape
  <2> QED
    BY <1>4, <1>6, <2>4, SenderMoves DEF AcceptButtons
<1>7. CASE ChatwootFails(w)
  <2> DEFINE where == AfterChatwootError(w)
             t == Moved(s, where)
  <2>1. s.at = "public" /\ Prefix(s, s.next - 1) /\ ~s.lost
    BY <1>1, <1>7 DEF ChatwootFails, At, SendShape
  <2>2. where = IF s.next > 1 THEN "sent" ELSE "text"
    BY DEF AfterChatwootError
  <2>3. where \in Sending \cup {"sent", "failed"}
    BY <1>2, <2>2
  <2>4. SendShape(t)
    <3>1. /\ t \in Senderlike /\ t.at = where /\ t.next = 1 /\ t.lost = s.lost
          /\ Prefix(t, s.next - 1)
      BY <1>1, <2>1, <2>3, PlaceOfSender
    <3>2. CASE s.next > 1
      <4>1. s.next - 1 \in 1..Parts
        BY <1>1, <3>2
      <4> QED
        BY <2>2, <3>1, <3>2, <4>1 DEF SendShape
    <3>3. CASE ~(s.next > 1)
      <4>1. s.next - 1 = 0 /\ t.next - 1 = 0
        BY <1>1, <3>1, <3>3
      <4> QED
        BY <2>2, <3>1, <3>3, <4>1 DEF SendShape
    <3> QED
      BY <3>2, <3>3
  <2>5. SendShape(d(where))
    <3>1. n(where) = 1 /\ n(where) \in 1..Parts /\ l(where) \in BOOLEAN
      BY <1>1, <2>1, <2>2
    <3>2. d(where) \in Senderlike
      BY <1>1, <2>1, <2>3, <3>1, DeliverOne
    <3>3. CASE s.next > 1
      <4>1. where = "sent" /\ l(where) = s.lost
        BY <1>1, <2>1, <2>2, <3>3
      <4>2. Prefix(d(where), s.next)
        BY <1>1, <2>1, <2>3, <3>1, <4>1, DeliverOne
      <4> QED
        BY <1>1, <1>9, <3>2, <4>1, <4>2 DEF SendShape
    <3>4. CASE ~(s.next > 1)
      <4>1. where = "text" /\ l(where) = TRUE /\ s.next = 1
        BY <1>1, <2>1, <2>2, <3>4
      <4>2. Prefix(d(where), 0)
        BY <1>1, <2>1, <2>3, <3>1, <4>1, DeliverOne
      <4>3. d(where).at = "text" /\ d(where).next - 1 = 0
        BY <1>9, <3>1, <4>1
      <4> QED
        BY <3>2, <4>2, <4>3 DEF SendShape
    <3> QED
      BY <3>3, <3>4
  <2>6. send' = [send EXCEPT ![w] = t] \/ send' = [send EXCEPT ![w] = d(where)]
    BY <1>4, <1>7 DEF ChatwootFails, Leave, Moved
  <2> QED
    BY <2>4, <2>5, <2>6, SenderMoves
<1>8. CASE WhatsAppFails(w)
  <2> DEFINE t == Moved(s, "failed")
  <2>1. PICK k \in 0..Parts : Prefix(s, k) /\ k = s.next - 1
    BY <1>1, <1>8 DEF WhatsAppFails, At, SendShape
  <2>2. SendShape(t)
    <3>1. t \in Senderlike /\ t.at = "failed" /\ Prefix(t, k)
      BY <1>1, <2>1, PlaceOfSender
    <3> QED
      BY <3>1 DEF SendShape
  <2>3. SendShape(d("failed"))
    <3>1. n("failed") \in 1..Parts /\ l("failed") = s.lost
      BY <1>1, <1>8 DEF WhatsAppFails, At
    <3>2. d("failed") \in Senderlike /\ Prefix(d("failed"), s.next) /\ d("failed").at = "failed"
      BY <1>1, <2>1, <3>1, DeliverOne
    <3>3. s.next \in 0..Parts
      BY <1>1
    <3> QED
      BY <3>2, <3>3 DEF SendShape
  <2> QED
    BY <1>4, <1>8, <2>2, <2>3, SenderMoves DEF WhatsAppFails, Leave, Moved
<1> QED
  BY <1>3, <1>5, <1>6, <1>7, <1>8 DEF SendStep

\* A sender at rest starts.
LEMMA StartSteps ==
    ASSUME SendInv, NEW w \in Senders, send[w] = NotSending,
           NEW where \in {"lookup", "text", "buttons"}, Leave(w, where)
    PROVE  SendInv'
<1> DEFINE t == Moved(NotSending, where)
<1>1. where \in Sending \cup {"sent", "failed"}
  BY DEF Sending
<1>2. NotSending \in Senderlike /\ NotSending.at = "idle"
  BY NotSendingShape DEF SendShape, NotSending
<1>3. Prefix(NotSending, 0) /\ ~NotSending.lost
  BY <1>2, NotSendingShape DEF SendShape
<1>4. t \in Senderlike /\ t.at = where /\ t.next = 1 /\ ~t.lost /\ Prefix(t, 0)
  BY <1>1, <1>2, <1>3, PlaceOfSender
<1>5. t.next - 1 = 0
  BY <1>4
<1>6. SendShape(t)
  BY <1>4, <1>5 DEF SendShape
<1> QED
  BY <1>6, SenderMoves DEF Leave, Moved

\* Where a thread that resolves may be, and where it goes.
LEMMA ResolvePlaces ==
    ASSUME NEW w \in Workers, ResolveStep(w)
    PROVE  /\ pc[w] \notin {"resolved", "agent", "sending"}
           /\ \E label \in PCs \ {"agent", "sending"} : pc' = [pc EXCEPT ![w] = label]
<1> DEFINE Labels == PCs \ {"agent", "sending"}
<1>1. {"idle", "redis", "keep", "fetch", "set", "publish", "resolved"} \subseteq Labels
  BY DEF PCs
<1>2. CASE Resolve(w)
  BY <1>1, <1>2 DEF Resolve, UseFound, Return, Goto
<1>3. CASE ReadRedis(w) \/ MissRedis(w)
  BY <1>1, <1>3 DEF ReadRedis, MissRedis, Goto
<1>4. CASE KeepCopy(w)
  BY <1>1, <1>4 DEF KeepCopy, UseFound, Return, Goto
<1>5. CASE Fetch(w) \/ UseStale(w) \/ GiveUp(w)
  BY <1>1, <1>5 DEF Fetch, UseStale, GiveUp, Return, Idle, Goto
<1>6. CASE SetCached(w) \/ Publish(w)
  BY <1>1, <1>6 DEF SetCached, Publish, Return, Goto
<1> QED
  BY <1>2, <1>3, <1>4, <1>5, <1>6 DEF ResolveStep

LEMMA BatchAtInit == Init => BatchInv
<1> SUFFICES ASSUME Init PROVE BatchInv
  OBVIOUS
<1>1. SendInv
  BY SendAtInit
<1>2. Quiet
  BY DEF Init, SendInit, Quiet
<1>3. LogTypeOK
  BY DEF Init, LogInit, LogTypeOK, Statuses
<1>4. pc \in [Workers -> PCs] /\ \A w \in Workers : run[w] = NoRun
  BY DEF Init, RuntimeInit, PCs
<1>5. /\ \A w \in Workers : Holding(w)
      /\ \A w, x \in Workers : run[w] = run[x] /\ run[w] # NoRun => w = x
  BY <1>4 DEF Holding
<1>6. \A r \in Runs : RunShape(r)
  BY <1>4 DEF Init, LogInit, RunShape
<1>7. LogInv
  BY <1>3, <1>4, <1>5, <1>6 DEF LogInv, Init
<1> QED
  BY <1>1, <1>2, <1>7 DEF BatchInv

-----------------------------------------------------------------------------
(* The runs of the batches. *)

\* A thread that changes its place and nothing of its run.
LEMMA PlaceOfBatch ==
    ASSUME BatchInv, NEW w \in Workers, UNCHANGED <<logVars, send, batchVars>>,
           NEW label \in PCs, pc' = [pc EXCEPT ![w] = label],
           run[w] # NoRun => label \in {"agent", "sending"},
           label # "sending" => send[w] = NotSending
    PROVE  BatchInv'
<1> USE DEF logVars, batchVars
<1>1. SendInv'
  BY DEF BatchInv, SendInv
<1>2. Quiet'
  BY DEF BatchInv, LogInv, Quiet
<1>3. pc' \in [Workers -> PCs] /\ \A x \in Workers : Holding(x)'
  BY DEF BatchInv, LogInv, Holding
<1>4. LogTypeOK' /\ \A r \in Runs : RunShape(r)'
  BY DEF BatchInv, LogInv, LogTypeOK, RunShape
<1>5. LogInv'
  BY <1>3, <1>4 DEF BatchInv, LogInv
<1> QED
  BY <1>1, <1>2, <1>5 DEF BatchInv

\* The threads of the log.
LEMMA ThreadSteps ==
    ASSUME BatchInv, NEW r \in Runs, LogStep(r) PROVE BatchInv'
<1> USE DEF runtimeVars, batchVars, logVars, eventVars
<1>1. ThreadStep(r) /\ UNCHANGED <<pc, send, run, outcome, reached>>
  BY DEF LogStep
<1>2. SendInv' /\ Quiet'
  BY <1>1 DEF BatchInv, SendInv, Quiet
<1>3. LogInv /\ LogTypeOK /\ RunShape(r) /\ \A w \in Workers : Holding(w)
  BY DEF BatchInv, LogInv
<1>4. CASE CreateRun(r)
  <2>1. /\ create' = [create EXCEPT ![r] = "over"]
        /\ UNCHANGED <<update, event, conflicts>>
        /\ \/ row' = [row EXCEPT ![r] = create[r]]
           \/ row' = row
        /\ create[r] \in {"running", "cancelled"}
    BY <1>4 DEF CreateRun
  <2>2. LogTypeOK'
    BY <1>3, <2>1 DEF LogTypeOK, Statuses
  <2>3. \A w \in Workers : Holding(w)'
    BY <1>1, <1>3, <2>1 DEF Holding, LogInv, LogTypeOK
  <2>4. RunShape(r)'
    BY <1>1, <1>3, <2>1 DEF RunShape, LogTypeOK, LogInv
  <2>5. \A q \in Runs : RunShape(q)'
    BY <1>1, <1>3, <2>1, <2>4 DEF RunShape, LogTypeOK, LogInv
  <2> QED
    BY <1>1, <1>2, <1>3, <2>2, <2>3, <2>5 DEF BatchInv, LogInv
<1>5. CASE UpdateRun(r)
  <2>1. /\ update[r] \in {"success", "failed"} /\ UNCHANGED <<create, event, conflicts>>
        /\ \/ /\ row[r] # "absent" /\ row' = [row EXCEPT ![r] = update[r]]
              /\ update' = [update EXCEPT ![r] = "done"]
           \/ /\ row' = row
              /\ \/ update' = [update EXCEPT ![r] = "missed"]
                 \/ update' = [update EXCEPT ![r] = "lost"]
    BY <1>5 DEF UpdateRun, UpdateRows
  <2>2. LogTypeOK'
    BY <1>3, <2>1 DEF LogTypeOK, Statuses
  <2>6. \A w \in Workers : run[w] # r
    BY <1>3, <2>1 DEF Holding
  <2>3. \A w \in Workers : Holding(w)'
    <3>1. ASSUME NEW w \in Workers, run[w] # NoRun
          PROVE  row'[run[w]] = row[run[w]] /\ update'[run[w]] = update[run[w]]
      BY <1>3, <2>1, <2>6, <3>1 DEF LogInv, LogTypeOK
    <3> QED
      BY <1>1, <1>3, <2>1, <3>1 DEF Holding
  <2>4. RunShape(r)'
    BY <1>1, <1>3, <2>1 DEF RunShape, LogTypeOK, LogInv
  <2>5. \A q \in Runs : RunShape(q)'
    BY <1>1, <1>3, <2>1, <2>4 DEF RunShape, LogTypeOK, LogInv
  <2> QED
    BY <1>1, <1>2, <1>3, <2>2, <2>3, <2>5 DEF BatchInv, LogInv
<1>6. ASSUME NEW e \in EventTypes, EventStep(r, e) PROVE BatchInv'
  <2>1. UNCHANGED <<row, create, update>>
    BY <1>6 DEF EventStep, RecordEvent, DropEvent, RetryEvent, EndEvent
  <2>2. conflicts[r][e] \in 0..Retries /\ 0 \in 0..Retries
        /\ (MayRetry(r, e) => conflicts[r][e] + 1 \in 0..Retries)
    BY <1>3 DEF LogTypeOK, MayRetry
  <2>3. event' \in [Runs -> [EventTypes -> {"none", "pending", "recorded", "dropped"}]]
    <3>1. PICK v \in {"pending", "recorded", "dropped"} : event' = [event EXCEPT ![r][e] = v]
      <4>1. CASE RecordEvent(r, e) \/ DropEvent(r, e)
        BY <4>1 DEF RecordEvent, DropEvent, EndEvent
      <4>2. CASE RetryEvent(r, e)
        BY <1>3, <4>2 DEF RetryEvent, LogTypeOK
      <4> QED
        BY <1>6, <4>1, <4>2 DEF EventStep
    <3> QED
      BY <1>3, <3>1 DEF LogTypeOK
  <2>7. conflicts' \in [Runs -> [EventTypes -> 0..Retries]]
    <3>1. PICK n \in 0..Retries : conflicts' = [conflicts EXCEPT ![r][e] = n]
      <4>1. CASE RecordEvent(r, e) \/ DropEvent(r, e)
        BY <2>2, <4>1 DEF RecordEvent, DropEvent, EndEvent
      <4>2. CASE RetryEvent(r, e)
        BY <2>2, <4>2 DEF RetryEvent
      <4> QED
        BY <1>6, <4>1, <4>2 DEF EventStep
    <3> QED
      BY <1>3, <3>1 DEF LogTypeOK
  <2>4. LogTypeOK'
    BY <1>3, <2>1, <2>3, <2>7 DEF LogTypeOK
  <2>5. (\A w \in Workers : Holding(w)') /\ (\A q \in Runs : RunShape(q)')
    BY <1>1, <2>1 DEF BatchInv, LogInv, Holding, RunShape
  <2> QED
    BY <1>1, <1>2, <2>4, <2>5 DEF BatchInv, LogInv
<1> QED
  BY <1>1, <1>4, <1>5, <1>6 DEF ThreadStep

\* The actions of a worker on its batch.
LEMMA OpenSteps ==
    ASSUME BatchInv, NEW w \in Workers, NEW r \in Runs, StartRun(w, r) \/ Skip(w, r)
    PROVE  BatchInv'
<1> USE DEF logVars, eventVars
<1>1. /\ LogInv /\ LogTypeOK /\ RunShape(r) /\ \A x \in Workers : Holding(x)
      /\ run \in [Workers -> Runs \cup {NoRun}] /\ pc \in [Workers -> PCs]
      /\ outcome \in [Runs -> {"none", "skipped", "sent", "raised", "crashed"}]
  BY DEF BatchInv, LogInv
<1>2. /\ pc[w] = "resolved" /\ run[w] = NoRun /\ send[w] = NotSending
      /\ create[r] = "none" /\ row[r] = "absent" /\ outcome[r] = "none" /\ update[r] = "none"
      /\ reached[r] = "nothing" /\ \A x \in Workers : run[x] # r
  BY <1>1 DEF StartRun, Skip, NewRun, Holding, RunShape, BatchInv, Quiet
<1>3. UNCHANGED <<row, update, conflicts, send, reached>>
  BY DEF StartRun, Skip
<1>4. PICK es \in SUBSET EventTypes : StartEvents(r, es)
  BY DEF StartRun, Skip, EventTypes
<1>5. event' \in [Runs -> [EventTypes -> {"none", "pending", "recorded", "dropped"}]]
  BY <1>1, <1>4 DEF StartEvents, LogTypeOK
<1>6. SendInv'
  BY <1>3 DEF BatchInv, SendInv
<1>7. PICK status \in {"running", "cancelled"} :
        /\ create' = [create EXCEPT ![r] = status]
        /\ status = "running" => /\ run' = [run EXCEPT ![w] = r] /\ outcome' = outcome
                                 /\ pc' = [pc EXCEPT ![w] = "agent"]
        /\ status = "cancelled" => /\ run' = run /\ outcome' = [outcome EXCEPT ![r] = "skipped"]
                                   /\ pc' = [pc EXCEPT ![w] = "idle"]
  BY DEF StartRun, Skip, StartCreate, Goto, Idle
<1>8. LogTypeOK'
  BY <1>1, <1>3, <1>5, <1>7 DEF LogTypeOK
<1>9. pc' \in [Workers -> PCs] /\ Quiet'
  BY <1>1, <1>2, <1>3, <1>7 DEF BatchInv, Quiet, PCs
<1>10. CASE status = "running"
  <2>1. \A x \in Workers : Holding(x)'
    BY <1>1, <1>2, <1>3, <1>7, <1>10 DEF Holding, LogTypeOK
  <2>2. \A x, y \in Workers : run'[x] = run'[y] /\ run'[x] # NoRun => x = y
    BY <1>1, <1>2, <1>7, <1>10 DEF LogInv
  <2>3. RunShape(r)'
    BY <1>1, <1>2, <1>3, <1>7, <1>10 DEF RunShape, LogTypeOK
  <2>4. \A q \in Runs : q # r => RunShape(q)'
    BY <1>1, <1>2, <1>3, <1>7, <1>10 DEF RunShape, LogTypeOK, LogInv
  <2>5. \A q \in Runs : RunShape(q)'
    BY <2>3, <2>4
  <2>6. run' \in [Workers -> Runs \cup {NoRun}] /\ outcome' = outcome
    BY <1>1, <1>7, <1>10
  <2> QED
    BY <1>1, <1>3, <1>6, <1>8, <1>9, <2>1, <2>2, <2>5, <2>6 DEF BatchInv, LogInv
<1>11. CASE status = "cancelled"
  <2>1. \A x \in Workers : Holding(x)'
    <3>1. ASSUME NEW x \in Workers, run[x] # NoRun
          PROVE  /\ run[x] \in Runs /\ run[x] # r /\ x # w
                 /\ outcome'[run[x]] = outcome[run[x]] /\ create'[run[x]] = create[run[x]]
                 /\ pc'[x] = pc[x]
      BY <1>1, <1>2, <1>7, <1>11, <3>1 DEF LogTypeOK
    <3> QED
      BY <1>1, <1>3, <1>7, <1>11, <3>1 DEF Holding
  <2>3. RunShape(r)'
    BY <1>1, <1>2, <1>3, <1>7, <1>11 DEF RunShape, LogTypeOK
  <2>4. \A q \in Runs : q # r => RunShape(q)'
    BY <1>1, <1>2, <1>3, <1>7, <1>11 DEF RunShape, LogTypeOK, LogInv
  <2>5. \A q \in Runs : RunShape(q)'
    BY <2>3, <2>4
  <2>6. run' = run /\ outcome' \in [Runs -> {"none", "skipped", "sent", "raised", "crashed"}]
    BY <1>1, <1>7, <1>11
  <2> QED
    BY <1>1, <1>3, <1>6, <1>8, <1>9, <2>1, <2>5, <2>6 DEF BatchInv, LogInv
<1> QED
  BY <1>10, <1>11

\* The agent answered: the sending starts, and goes on.
LEMMA SendingSteps ==
    ASSUME BatchInv, NEW w \in Workers, Answer(w) \/ Transmit(w)
    PROVE  BatchInv'
<1> USE DEF logVars, batchVars, runtimeVars
<1>1. LogInv /\ pc \in [Workers -> PCs] /\ \A x \in Workers : Holding(x)
  BY DEF BatchInv, LogInv
<1>2. CASE Answer(w)
  <2>1. pc' = [pc EXCEPT ![w] = "sending"] /\ send[w] = NotSending /\ pc[w] = "agent"
    BY <1>2 DEF Answer, Goto, BatchInv, Quiet
  <2>2. PICK where \in {"lookup", "text", "buttons"} : Leave(w, where)
    BY <1>2 DEF Answer, StartSending, StartButtons
  <2>3. SendInv'
    BY <2>1, <2>2, StartSteps DEF BatchInv
  <2>4. Quiet'
    BY <1>1, <2>1, <2>2 DEF BatchInv, Quiet, SendInv, Leave
  <2>5. pc' \in [Workers -> PCs] /\ \A x \in Workers : Holding(x)'
    BY <1>1, <1>2, <2>1 DEF Holding, Answer, PCs
  <2>6. LogTypeOK' /\ \A r \in Runs : RunShape(r)'
    BY <1>2 DEF Answer, BatchInv, LogInv, LogTypeOK, RunShape
  <2> QED
    BY <1>1, <1>2, <2>3, <2>4, <2>5, <2>6 DEF Answer, BatchInv, LogInv
<1>3. CASE Transmit(w)
  <2>1. SendInv'
    BY <1>3, SendSteps DEF Transmit, BatchInv
  <2>2. \A x \in Workers : x # w => send'[x] = send[x]
    BY <1>3 DEF Transmit, SendStep, Lookup, Accept, AcceptButtons, ChatwootFails, WhatsAppFails,
                Leave, Deliver, BatchInv, SendInv
  <2>3. Quiet'
    BY <1>3, <2>2 DEF Transmit, BatchInv, Quiet
  <2>4. LogInv'
    BY <1>3 DEF Transmit, BatchInv, LogInv, LogTypeOK, RunShape, Holding
  <2> QED
    BY <2>1, <2>3, <2>4 DEF BatchInv
<1> QED
  BY <1>2, <1>3

\* Sent means that at least the beginning has reached the lead.
LEMMA SentReached ==
    ASSUME BatchInv, NEW w \in Workers, At(w) = "sent" PROVE Reach(w) # "nothing"
<1>1. PICK k \in 1..Parts : Prefix(send[w], k)
  BY DEF BatchInv, SendInv, SendShape, At
<1>2. 1 \in 1..Parts /\ 1 <= k
  OBVIOUS
<1>3. send[w].got[1] = Copies(send[w].lost, k, 1)
  BY <1>1, <1>2 DEF Prefix
<1>4. send[w].got[1] > 0
  BY <1>2, <1>3 DEF Copies
<1> QED
  BY <1>2, <1>4 DEF Reach

\* A batch ends, with a run that is logged or without.
LEMMA EndSteps ==
    ASSUME BatchInv, NEW w \in Workers, CompleteRun(w) \/ FailRun(w)
    PROVE  BatchInv'
<1> USE DEF logVars, batchVars
<1>1. /\ LogInv /\ LogTypeOK /\ pc \in [Workers -> PCs] /\ \A x \in Workers : Holding(x)
      /\ run \in [Workers -> Runs \cup {NoRun}]
      /\ outcome \in [Runs -> {"none", "skipped", "sent", "raised", "crashed"}]
      /\ reached \in [Runs -> {"nothing", "some", "all"}]
      /\ \A x, y \in Workers : run[x] = run[y] /\ run[x] # NoRun => x = y
      /\ SendInv /\ Quiet
  BY DEF BatchInv, LogInv
<1>2. PICK status \in {"success", "failed"}, how \in {"sent", "raised"} :
        /\ EndRun(w, status, how)
        /\ status = "success" <=> how = "sent"
        /\ how = "sent" => Reach(w) # "nothing"
  BY SentReached DEF CompleteRun, FailRun
<1>3. /\ pc' = [pc EXCEPT ![w] = "idle"] /\ send' = [send EXCEPT ![w] = NotSending]
      /\ run' = [run EXCEPT ![w] = NoRun]
      /\ UNCHANGED <<row, create, conflicts>>
  BY <1>2 DEF EndRun, Idle, Goto, StopSending
<1>4. SendInv' /\ Quiet'
  BY <1>1, <1>3, NotSendingShape, SenderMoves DEF SendInv, Quiet
<1>5. pc' \in [Workers -> PCs] /\ run' \in [Workers -> Runs \cup {NoRun}]
      /\ \A x, y \in Workers : run'[x] = run'[y] /\ run'[x] # NoRun => x = y
  BY <1>1, <1>3 DEF PCs
<1>6. CASE run[w] = NoRun
  <2>1. UNCHANGED <<update, event, outcome, reached>>
    BY <1>2, <1>6 DEF EndRun
  <2>2. \A x \in Workers : Holding(x)'
    BY <1>1, <1>3, <1>6, <2>1 DEF Holding
  <2>3. LogTypeOK' /\ \A r \in Runs : RunShape(r)'
    BY <1>1, <1>3, <1>6, <2>1 DEF LogInv, LogTypeOK, RunShape
  <2> QED
    BY <1>1, <1>4, <1>5, <2>1, <2>2, <2>3 DEF BatchInv, LogInv
<1>7. CASE run[w] # NoRun
  <2>0. PICK r \in Runs : r = run[w]
    BY <1>1, <1>7
  <2>1. RunShape(r) /\ outcome[r] = "none" /\ update[r] = "none"
        /\ create[r] \in {"running", "over"} /\ row[r] \in {"absent", "running"}
    BY <1>1, <1>7, <2>0 DEF Holding, LogInv
  <2>2. /\ update' = [update EXCEPT ![r] = status]
        /\ outcome' = [outcome EXCEPT ![r] = how]
        /\ reached' = [reached EXCEPT ![r] = Reach(w)]
        /\ StartEvents(r, {"closed"})
    BY <1>2, <1>7, <2>0 DEF EndRun, CloseRun, StartUpdate
  <2>3. Reach(w) \in {"nothing", "some", "all"}
    BY DEF Reach
  <2>4. event' \in [Runs -> [EventTypes -> {"none", "pending", "recorded", "dropped"}]]
    BY <1>1, <2>2 DEF StartEvents, LogTypeOK
  <2>5. LogTypeOK'
    BY <1>1, <1>3, <2>2, <2>4 DEF LogTypeOK
  <2>6. \A x \in Workers : Holding(x)'
    <3>1. ASSUME NEW x \in Workers, run'[x] # NoRun
          PROVE  /\ x # w /\ run'[x] = run[x] /\ run[x] \in Runs /\ run[x] # r
                 /\ outcome'[run[x]] = outcome[run[x]] /\ update'[run[x]] = update[run[x]]
                 /\ pc'[x] = pc[x]
      BY <1>1, <1>3, <1>7, <2>0, <2>2, <3>1 DEF LogTypeOK
    <3> QED
      BY <1>1, <1>3, <3>1 DEF Holding
  <2>7. RunShape(r)'
    <3>1. /\ update'[r] = status /\ outcome'[r] = how /\ reached'[r] = Reach(w)
          /\ create'[r] = create[r] /\ row'[r] = row[r]
      BY <1>1, <1>3, <2>1, <2>2 DEF LogTypeOK
    <3> QED
      BY <1>2, <1>3, <2>0, <2>1, <3>1 DEF RunShape
  <2>8. \A q \in Runs : q # r => RunShape(q)'
    BY <1>1, <1>3, <2>0, <2>2 DEF RunShape, LogTypeOK, LogInv
  <2>9. /\ \A q \in Runs : RunShape(q)'
        /\ outcome' \in [Runs -> {"none", "skipped", "sent", "raised", "crashed"}]
        /\ reached' \in [Runs -> {"nothing", "some", "all"}]
    BY <1>1, <2>2, <2>3, <2>7, <2>8
  <2> QED
    BY <1>4, <1>5, <2>5, <2>6, <2>9 DEF BatchInv, LogInv
<1> QED
  BY <1>6, <1>7

LEMMA CrashStep ==
    ASSUME BatchInv, Crash PROVE BatchInv'
<1>1. /\ LogInv /\ LogTypeOK /\ \A x \in Workers : Holding(x)
      /\ outcome \in [Runs -> {"none", "skipped", "sent", "raised", "crashed"}]
  BY DEF BatchInv, LogInv
<1>2. /\ pc' = [w \in Workers |-> "idle"] /\ run' = [w \in Workers |-> NoRun]
      /\ send' = [w \in Senders |-> NotSending] /\ UNCHANGED <<row, reached>>
  BY DEF Crash, Restart, KillThreads
<1>3. SendInv' /\ Quiet'
  BY <1>2, NotSendingShape DEF SendInv, Quiet
<1>4. LogTypeOK'
  BY <1>1, <1>2 DEF Crash, KillThreads, LogTypeOK
<1>5. /\ pc' \in [Workers -> PCs] /\ run' \in [Workers -> Runs \cup {NoRun}]
      /\ \A x \in Workers : Holding(x)'
      /\ \A x, y \in Workers : run'[x] = run'[y] /\ run'[x] # NoRun => x = y
  BY <1>2 DEF PCs, Holding
<1>6. outcome' \in [Runs -> {"none", "skipped", "sent", "raised", "crashed"}]
  BY <1>1 DEF Crash
<1>7. ASSUME NEW r \in Runs PROVE RunShape(r)'
  <2>1. /\ create'[r] = (IF create[r] = "none" THEN "none" ELSE "over")
        /\ update'[r] = (IF update[r] \in {"success", "failed"} THEN "lost" ELSE update[r])
        /\ row'[r] = row[r] /\ reached'[r] = reached[r] /\ RunShape(r)
    BY <1>1, <1>2 DEF Crash, KillThreads, LogInv
  <2>2. CASE \E w \in Workers : run[w] = r
    <3>1. PICK w \in Workers : run[w] = r
      BY <2>2
    <3>2. outcome[r] = "none" /\ update[r] = "none" /\ create[r] \in {"running", "over"}
          /\ row[r] \in {"absent", "running"} /\ pc[w] # "idle"
      BY <1>1, <3>1 DEF Holding
    <3>3. outcome'[r] = "crashed"
      BY <3>1, <3>2 DEF Crash
    <3> QED
      BY <1>2, <2>1, <3>2, <3>3 DEF RunShape
  <2>3. CASE ~\E w \in Workers : run[w] = r
    <3>1. outcome'[r] = outcome[r]
      BY <2>3 DEF Crash
    <3> QED
      BY <1>2, <2>1, <3>1 DEF RunShape
  <2> QED
    BY <2>2, <2>3
<1> QED
  BY <1>1, <1>2, <1>3, <1>4, <1>5, <1>6, <1>7 DEF BatchInv, LogInv

LEMMA BatchStep == BatchInv /\ [Next]_vars => BatchInv'
<1> SUFFICES ASSUME BatchInv, [Next]_vars PROVE BatchInv'
  OBVIOUS
<1>1. ASSUME UNCHANGED <<pc, logVars, send, batchVars>> PROVE BatchInv'
  BY <1>1 DEF BatchInv, SendInv, Quiet, LogInv, LogTypeOK, RunShape, Holding, logVars, eventVars,
              batchVars
<1>2. CASE PlatformStep /\ UNCHANGED <<logVars, send, batchVars>>
  <2>1. pc' = pc
    BY <1>2 DEF PlatformStep, Tick, Toggle, SyncAgent, SyncVersion, SyncFails, ManualSync
  <2> QED
    BY <1>1, <1>2, <2>1
<1>3. CASE Crash
  BY <1>3, CrashStep
<1>4. ASSUME NEW w \in Workers, WorkerStep(w) PROVE BatchInv'
  <2>1. /\ run[w] # NoRun => pc[w] \in {"agent", "sending"}
        /\ pc[w] # "sending" => send[w] = NotSending
        /\ {"agent", "idle"} \subseteq PCs
    BY DEF BatchInv, LogInv, Holding, Quiet, PCs
  <2>2. CASE ResolveStep(w) /\ UNCHANGED <<logVars, send, batchVars>>
    <3>1. PICK label \in PCs \ {"agent", "sending"} : pc' = [pc EXCEPT ![w] = label]
      BY <2>2, ResolvePlaces
    <3>2. pc[w] \notin {"agent", "sending"}
      BY <2>2, ResolvePlaces
    <3> QED
      BY <2>1, <2>2, <3>1, <3>2, PlaceOfBatch
  <2>3. CASE StartUnlogged(w)
    BY <2>1, <2>3, PlaceOfBatch DEF StartUnlogged, Goto
  <2>4. CASE SkipUnlogged(w)
    BY <2>1, <2>4, PlaceOfBatch DEF SkipUnlogged, Idle, Goto
  <2>5. CASE Answer(w) \/ Transmit(w)
    BY <2>5, SendingSteps
  <2>6. CASE CompleteRun(w) \/ FailRun(w)
    BY <2>6, EndSteps
  <2>7. ASSUME NEW r \in Runs, StartRun(w, r) \/ Skip(w, r) PROVE BatchInv'
    BY <2>7, OpenSteps
  <2> QED
    BY <1>4, <2>2, <2>3, <2>4, <2>5, <2>6, <2>7 DEF WorkerStep
<1>5. ASSUME NEW r \in Runs, LogStep(r) PROVE BatchInv'
  BY <1>5, ThreadSteps
<1>6. CASE UNCHANGED vars
  <2>1. UNCHANGED <<pc, logVars, send, batchVars>>
    BY <1>6 DEF vars, runtimeVars, batchVars
  <2> QED
    BY <1>1, <2>1
<1> QED
  BY <1>2, <1>3, <1>4, <1>5, <1>6 DEF Next

-----------------------------------------------------------------------------
(* The theorems. *)

LEMMA Invariants == Spec => [](RuntimeInv /\ BatchInv)
BY RuntimeAtInit, RuntimeStep, BatchAtInit, BatchStep, PTL DEF Spec

\* The variables keep their types, the bounds of the retries and of the parts
\* the lead may get included (observability.py:477-497, queue.py:690-767).
THEOREM TypesAreKept == Spec => []TypeOK
<1>1. RuntimeInv /\ BatchInv => TypeOK
  <2> SUFFICES ASSUME RuntimeInv, BatchInv PROVE TypeOK
    OBVIOUS
  <2>1. SendTypeOK
    BY DEF BatchInv, SendInv, SendShape, Senderlike, SendTypeOK
  <2> QED
    BY <2>1 DEF RuntimeInv, BatchInv, LogInv, TypeOK
<1> QED
  BY Invariants, <1>1, PTL

\* What the log says of a run is what happened to its batch
\* (queue.py:523-674).
THEOREM LogIsTrue == Spec => []LogTellsTruth
<1>1. BatchInv => LogTellsTruth
  BY DEF BatchInv, LogInv, RunShape, LogTellsTruth
<1> QED
  BY Invariants, <1>1, PTL

\* A batch that has ended has an update of its run under way, unless that was
\* lost or had overtaken the insert (observability.py:452-509).
THEOREM EndedRunsClose == Spec => []EndedRunIsClosed
<1>1. BatchInv => EndedRunIsClosed
  BY DEF BatchInv, LogInv, LogTypeOK, RunShape, EndedRunIsClosed
<1> QED
  BY Invariants, <1>1, PTL

\* The lead gets a beginning of the answer, in order, and no part twice but
\* the first, after an answer of Chatwoot was lost (queue.py:725-747).
THEOREM NoPartTwice == Spec => []AnswerOnce
<1>1. BatchInv => AnswerOnce
  <2> SUFFICES ASSUME BatchInv, NEW w \in Workers
               PROVE  /\ \A p \in 2..Parts : send[w].got[p] > 0 => send[w].got[p - 1] > 0
                      /\ \A p \in 1..Parts : send[w].got[p] > 1 => p = 1 /\ send[w].lost
    BY DEF AnswerOnce
  <2>1. SendShape(send[w])
    BY DEF BatchInv, SendInv
  <2>2. PICK k \in 0..Parts : Prefix(send[w], k)
    <3>1. send[w].next - 1 \in 0..Parts /\ 0 \in 0..Parts
      BY <2>1 DEF SendShape, Senderlike
    <3>2. send[w].at \in Sending \cup {"idle", "sent", "failed"}
      BY <2>1 DEF SendShape, Senderlike
    <3> QED
      BY <2>1, <3>1, <3>2 DEF SendShape, Sending
  <2>3. \A p \in 1..Parts : send[w].got[p] = Copies(send[w].lost, k, p)
    BY <2>2 DEF Prefix
  <2>4. ASSUME NEW p \in 2..Parts, send[w].got[p] > 0 PROVE send[w].got[p - 1] > 0
    <3>1. p \in 1..Parts /\ p - 1 \in 1..Parts
      OBVIOUS
    <3>2. p <= k
      BY <2>3, <2>4, <3>1 DEF Copies
    <3>3. p - 1 <= k
      BY <3>2
    <3> QED
      BY <2>3, <3>1, <3>3 DEF Copies
  <2>5. ASSUME NEW p \in 1..Parts, send[w].got[p] > 1 PROVE p = 1 /\ send[w].lost
    BY <2>3, <2>5 DEF Copies
  <2> QED
    BY <2>4, <2>5
<1> QED
  BY Invariants, <1>1, PTL

\* No thread of a run, in whatever order they write, reopens or changes a run
\* that is finished in the log (observability.py:407-475).
THEOREM FinishedStays == Spec => FinishedIsFinal
<1>1. BatchInv /\ [Next]_vars =>
        [\A r \in Runs : row[r] \in Finished => row'[r] = row[r]]_vars
  <2> SUFFICES ASSUME BatchInv, [Next]_vars, NEW r \in Runs, row[r] \in Finished
               PROVE  row'[r] = row[r]
    OBVIOUS
  <2> USE DEF logVars
  <2>1. /\ create[r] \notin {"none", "running", "cancelled"}
        /\ update[r] \notin {"success", "failed"}
        /\ row \in [Runs -> {"absent"} \cup Statuses]
    BY DEF BatchInv, LogInv, LogTypeOK, RunShape, Finished
  <2>2. CASE UNCHANGED row
    BY <2>2
  <2>3. ASSUME NEW q \in Runs, LogStep(q) PROVE row'[r] = row[r]
    <3>1. CASE CreateRun(q)
      BY <2>1, <3>1 DEF CreateRun
    <3>2. CASE UpdateRun(q)
      BY <2>1, <3>2 DEF UpdateRun, UpdateRows
    <3>4. CASE \E e \in EventTypes : EventStep(q, e)
      BY <3>4 DEF EventStep, RecordEvent, DropEvent, RetryEvent, EndEvent
    <3> QED
      BY <2>3, <3>1, <3>2, <3>4 DEF LogStep, ThreadStep
  <2>4. ASSUME NEW w \in Workers, WorkerStep(w) PROVE UNCHANGED row
    <3>1. CASE UNCHANGED logVars
      BY <3>1
    <3>2. CASE StartUnlogged(w) \/ SkipUnlogged(w) \/ Answer(w) \/ Transmit(w)
      BY <3>2 DEF StartUnlogged, SkipUnlogged, Answer, Transmit
    <3>3. CASE CompleteRun(w) \/ FailRun(w)
      BY <3>3 DEF CompleteRun, FailRun, EndRun
    <3>4. CASE \E q \in Runs : StartRun(w, q) \/ Skip(w, q)
      BY <3>4 DEF StartRun, Skip
    <3> QED
      BY <2>4, <3>1, <3>2, <3>3, <3>4 DEF WorkerStep
  <2>5. CASE Crash
    BY <2>5 DEF Crash, KillThreads
  <2>6. CASE UNCHANGED vars
    BY <2>6 DEF vars
  <2> QED
    BY <2>2, <2>3, <2>4, <2>5, <2>6 DEF Next
<1> QED
  BY Invariants, <1>1, PTL DEF Spec, FinishedIsFinal
=============================================================================
