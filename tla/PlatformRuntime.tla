-------------------------- MODULE PlatformRuntime --------------------------
(***************************************************************************)
(* Whether the platform lets the agent run: the rows of the agents and       *)
(* agent_versions tables, the registry sync that writes them when a process  *)
(* starts (platform/registry_sync.py), and PlatformRuntimeResolver, which     *)
(* reads them through a cache (platform/observability.py).                   *)
(*                                                                         *)
(* Each service object has a resolver, with the dictionary _cache, and the    *)
(* resolvers share a copy in Redis.  A resolution is suspended wherever       *)
(* another thread of the process may get in: between the look in the          *)
(* dictionary, the one in Redis, each request to the platform, and the two    *)
(* writes.  Every request may fail.                                         *)
(*                                                                         *)
(* The clock counts units of MOVIA_PLATFORM_RUNTIME_CACHE_SECONDS' default;   *)
(* the processes' clocks agree.  Of AgentRuntimeInfo only enabled is kept:    *)
(* the ids it carries do not change for a key and a version.  The dictionary  *)
(* MemoryStore falls back to without Redis is left out: only a resolver with  *)
(* no entry of its own would ever read it.                                  *)
(*                                                                         *)
(* A definition named ...Mutant is a deliberate mistake that PROJECT.json     *)
(* puts in the place of the definition after it.                            *)
(***************************************************************************)
EXTENDS Integers

CONSTANTS
    Workers,        \* the threads that resolve the runtime
    Resolvers,      \* the PlatformRuntimeResolver objects
    ResolverOf,     \* the resolver each thread uses
    CacheSeconds,   \* platform_runtime_cache_seconds, in units
    DefaultSeconds, \* what 0 stands for: 30 seconds, in units
    MinStale,       \* the least time a stale runtime may serve: 30 seconds, in units
    FileEnabled,    \* "enabled" of the agent in platform_registry/agents.json
    MaxTime,        \* bound of the clock
    MaxSyncs        \* bound of the restarts and manual syncs

ASSUME RuntimeAssumption ==
    /\ ResolverOf \in [Workers -> Resolvers]
    /\ CacheSeconds \in Int /\ DefaultSeconds \in Nat \ {0} /\ MinStale \in Nat
    /\ FileEnabled \in BOOLEAN
    /\ MaxTime \in Nat /\ MaxSyncs \in Nat

VARIABLES
    clock,      \* time.time()
    agent,      \* the agents row: whether it is there, and its enabled flag
    versionRow, \* the requested version has a row
    heldAt,     \* the last instant the flag had each value, -1 for never
    syncing,    \* what the registry sync writes next
    syncs,      \* restarts and manual syncs so far
    up,         \* the service takes webhooks
    cache,      \* _cache of each resolver
    shared,     \* the entry in Redis and the instant it expires
    pc,         \* where each thread is
    began,      \* the now of its resolve()
    found,      \* its local variable cached
    flag        \* enabled: read from the agents row, then of the runtime returned

rowVars == <<agent, versionRow, heldAt>>
syncVars == <<syncing, syncs, up>>
cacheVars == <<cache, shared>>
resolveVars == <<began, found, flag>>
runtimeVars == <<clock, rowVars, syncVars, cacheVars, pc, resolveVars>>

\* A CachedRuntime: its deadlines follow from the instant it was fetched at.
Entries == [fetchedAt: 0..MaxTime, enabled: BOOLEAN]
NoEntry == [fetchedAt |-> -1, enabled |-> FALSE]
Present(entry) == entry.fetchedAt >= 0

Ttl == LET seconds == IF CacheSeconds = 0 THEN DefaultSeconds ELSE CacheSeconds
       IN  IF seconds > 1 THEN seconds ELSE 1
StaleFor == IF 2 * Ttl > MinStale THEN 2 * Ttl ELSE MinStale
ExpiresAt(entry) == entry.fetchedAt + Ttl
StaleUntil(entry) == entry.fetchedAt + Ttl + StaleFor

PCs == {"idle", "redis", "keep", "fetch", "set", "publish", "resolved", "agent", "sending"}

RuntimeInit ==
    /\ clock = 0
    /\ agent \in [there: BOOLEAN, enabled: BOOLEAN]
    /\ agent.enabled => agent.there
    /\ versionRow \in BOOLEAN
    /\ versionRow => agent.there
    /\ heldAt = [v \in BOOLEAN |-> IF agent.there /\ v = agent.enabled THEN 0 ELSE -1]
    /\ syncing = "agent"
    /\ syncs = 0
    /\ up = FALSE
    /\ cache = [r \in Resolvers |-> NoEntry]
    /\ shared = [entry |-> NoEntry, until |-> 0]
    /\ pc = [w \in Workers |-> "idle"]
    /\ began = [w \in Workers |-> 0]
    /\ found = [w \in Workers |-> NoEntry]
    /\ flag = [w \in Workers |-> FALSE]

-----------------------------------------------------------------------------
(* Time, the operator and the registry sync. *)

Tick ==
    /\ clock < MaxTime
    /\ clock' = clock + 1
    /\ heldAt' = IF agent.there THEN [heldAt EXCEPT ![agent.enabled] = clock'] ELSE heldAt
    /\ UNCHANGED <<agent, versionRow, syncVars, cacheVars, pc, resolveVars>>

\* The row gets a flag: by the operator, or by ensure_agent.
WriteFlag(enabled) ==
    /\ agent' = [there |-> TRUE, enabled |-> enabled]
    /\ heldAt' = [heldAt EXCEPT ![enabled] = clock]

\* The operator turns the agent on or off in the platform.
Toggle ==
    /\ agent.there
    /\ WriteFlag(~agent.enabled)
    /\ UNCHANGED <<clock, versionRow, syncVars, cacheVars, pc, resolveVars>>

\* ensure_agent: whatever the row said, it says what the file says afterwards.
SyncAgent ==
    /\ syncing = "agent"
    /\ WriteFlag(FileEnabled)
    /\ syncing' = "version"
    /\ UNCHANGED <<clock, versionRow, syncs, up, cacheVars, pc, resolveVars>>

\* ensure_agent_version, and the end of the sync.
SyncVersion ==
    /\ syncing = "version"
    /\ versionRow' = TRUE
    /\ syncing' = "none"
    /\ up' = TRUE
    /\ UNCHANGED <<clock, agent, heldAt, syncs, cacheVars, pc, resolveVars>>

\* A failed sync is only logged: the service starts without it.
SyncFails ==
    /\ syncing # "none"
    /\ syncing' = "none"
    /\ up' = TRUE
    /\ UNCHANGED <<clock, rowVars, syncs, cacheVars, pc, resolveVars>>

\* The operator runs movia-platform-sync while the service is up.
ManualSync ==
    /\ up /\ syncing = "none"
    /\ syncs < MaxSyncs
    /\ syncs' = syncs + 1
    /\ syncing' = "agent"
    /\ UNCHANGED <<clock, rowVars, up, cacheVars, pc, resolveVars>>

\* The process dies and a new one starts: only Redis and the platform remain.
Restart ==
    /\ up
    /\ syncs < MaxSyncs
    /\ syncs' = syncs + 1
    /\ syncing' = "agent"
    /\ up' = FALSE
    /\ cache' = [r \in Resolvers |-> NoEntry]
    /\ pc' = [w \in Workers |-> "idle"]
    /\ began' = [w \in Workers |-> 0]
    /\ found' = [w \in Workers |-> NoEntry]
    /\ flag' = [w \in Workers |-> FALSE]
    /\ UNCHANGED <<clock, rowVars, shared>>

-----------------------------------------------------------------------------
(* PlatformRuntimeResolver.resolve. *)

Goto(w, label) == pc' = [pc EXCEPT ![w] = label]

\* resolve() returns a runtime to the thread.
Return(w, enabled) ==
    /\ found' = [found EXCEPT ![w] = NoEntry]
    /\ flag' = [flag EXCEPT ![w] = enabled]
    /\ Goto(w, "resolved")

\* The thread is done with its batch.
Idle(w) ==
    /\ Goto(w, "idle")
    /\ began' = [began EXCEPT ![w] = 0]
    /\ found' = [found EXCEPT ![w] = NoEntry]
    /\ flag' = [flag EXCEPT ![w] = FALSE]

\* A fresh entry is the answer, any other only a reserve.
UseFound(w, entry, now) ==
    IF Present(entry) /\ ExpiresAt(entry) >= now
    THEN Return(w, entry.enabled)
    ELSE /\ found' = [found EXCEPT ![w] = entry]
         /\ Goto(w, "fetch")
         /\ UNCHANGED flag

\* The thread looks in the dictionary, which is preferred even when expired.
Resolve(w) ==
    /\ up
    /\ pc[w] = "idle"
    /\ began' = [began EXCEPT ![w] = clock]
    /\ IF Present(cache[ResolverOf[w]])
       THEN UseFound(w, cache[ResolverOf[w]], clock)
       ELSE Goto(w, "redis") /\ UNCHANGED <<found, flag>>
    /\ UNCHANGED <<clock, rowVars, syncVars, cacheVars>>

\* It looks in Redis and finds an entry that has not expired there.
ReadRedis(w) ==
    /\ pc[w] = "redis"
    /\ Present(shared.entry)
    /\ shared.until > clock
    /\ found' = [found EXCEPT ![w] = shared.entry]
    /\ Goto(w, "keep")
    /\ UNCHANGED <<clock, rowVars, syncVars, cacheVars, began, flag>>

\* Redis has nothing, or fails.
MissRedis(w) ==
    /\ pc[w] = "redis"
    /\ Goto(w, "fetch")
    /\ UNCHANGED <<clock, rowVars, syncVars, cacheVars, resolveVars>>

\* It copies the entry of Redis into the dictionary, over whatever is there.
KeepCopy(w) ==
    /\ pc[w] = "keep"
    /\ cache' = [cache EXCEPT ![ResolverOf[w]] = found[w]]
    /\ UseFound(w, found[w], began[w])
    /\ UNCHANGED <<clock, rowVars, syncVars, shared, began>>

\* resolve_agent_runtime finds the agents row, and a row of the version.
Fetch(w) ==
    /\ pc[w] = "fetch"
    /\ agent.there /\ versionRow
    /\ flag' = [flag EXCEPT ![w] = agent.enabled]
    /\ Goto(w, "set")
    /\ UNCHANGED <<clock, rowVars, syncVars, cacheVars, began, found>>

\* A request fails or a row is missing: the entry that was found serves until
\* its stale_until.
Servable(w) == Present(found[w]) /\ StaleUntil(found[w]) >= began[w]

UseStale(w) ==
    /\ pc[w] = "fetch"
    /\ Servable(w)
    /\ Return(w, found[w].enabled)
    /\ UNCHANGED <<clock, rowVars, syncVars, cacheVars, began>>

\* With no such entry there is no runtime, and the batch is left.
GiveUp(w) ==
    /\ pc[w] = "fetch"
    /\ ~Servable(w)
    /\ Idle(w)
    /\ UNCHANGED <<clock, rowVars, syncVars, cacheVars>>

\* The entry _set_cached makes: it is dated back to the start of resolve().
FetchedMutant(w) == [fetchedAt |-> clock, enabled |-> flag[w]]
Fetched(w) == [fetchedAt |-> began[w], enabled |-> flag[w]]

\* _set_cached writes the dictionary, over whatever is there.
SetCached(w) ==
    /\ pc[w] = "set"
    /\ cache' = [cache EXCEPT ![ResolverOf[w]] = Fetched(w)]
    /\ found' = [found EXCEPT ![w] = Fetched(w)]
    /\ Goto(w, "publish")
    /\ UNCHANGED <<clock, rowVars, syncVars, shared, began, flag>>

\* _set_cached writes Redis, which fails silently, and resolve() returns.
Publish(w) ==
    /\ pc[w] = "publish"
    /\ shared' \in {[entry |-> found[w], until |-> clock + Ttl], shared}
    /\ Return(w, flag[w])
    /\ UNCHANGED <<clock, rowVars, syncVars, cache, began>>

ResolveStep(w) ==
    \/ Resolve(w) \/ ReadRedis(w) \/ MissRedis(w) \/ KeepCopy(w)
    \/ Fetch(w) \/ UseStale(w) \/ GiveUp(w) \/ SetCached(w) \/ Publish(w)

PlatformStep ==
    Tick \/ Toggle \/ SyncAgent \/ SyncVersion \/ SyncFails \/ ManualSync

=============================================================================
