---------------------------- MODULE MemoryStore ----------------------------
(***************************************************************************)
(* The recent conversation of a lead (memory/store.py): a list in Redis, and  *)
(* a deque of the process that takes its place for good at the first Redis    *)
(* error, of whoever uses the store: every lead's turns, the cache of the      *)
(* knowledge search and the loaders of the configuration share one of it.       *)
(* Entries are written oldest first here, newest first in Redis.                 *)
(***************************************************************************)
EXTENDS Naturals, Sequences

CONSTANT RingSize  \* entries kept and read: 12

ASSUME MemoryAssumption == RingSize \in Nat \ {0}

VARIABLES
    redisUrl,  \* settings.redis_url is set
    redis,     \* the list movia:recent:<key>
    local,     \* self._buffers[key]
    up,        \* self._redis is set
    split      \* a process left entries in its deque and the next one has Redis

memoryVars == <<redisUrl, redis, local, up, split>>

\* The last n entries of s.
Newest(s, n) == IF Len(s) <= n THEN s ELSE SubSeq(s, Len(s) - n + 1, Len(s))

MemoryInit ==
    /\ redisUrl \in BOOLEAN
    /\ redis = <<>>
    /\ local = <<>>
    /\ up = redisUrl
    /\ split = FALSE

\* What the process would read now.
RecentMutant == IF up THEN Newest(redis, RingSize - 1) ELSE local
Recent == IF up THEN Newest(redis, RingSize) ELSE local

Trimmed(s) == Newest(s, RingSize)

\* LPUSH, LTRIM and EXPIRE, or the deque when Redis is off.
Add(entry) ==
    /\ IF up
       THEN redis' = Trimmed(Append(redis, entry)) /\ UNCHANGED local
       ELSE local' = Trimmed(Append(local, entry)) /\ UNCHANGED redis
    /\ UNCHANGED <<redisUrl, up, split>>

\* The fallback's append, which follows a failed command.
DisabledMutant(entry) ==
    /\ UNCHANGED <<up, redisUrl, split>>
    /\ local' = Trimmed(Append(local, entry))
Disabled(entry) ==
    /\ up' = FALSE
    /\ UNCHANGED <<redisUrl, split>>
    /\ local' = Trimmed(Append(local, entry))

\* One of the three commands fails: nothing was pushed, the push was not
\* trimmed, or the list was not given its expiry.
AddFails(entry) ==
    /\ up
    /\ Disabled(entry)
    /\ redis' \in {redis, Append(redis, entry), Trimmed(Append(redis, entry))}

\* LRANGE fails, or a command of another user of the store.
ReadFails ==
    /\ up
    /\ up' = FALSE
    /\ UNCHANGED <<redisUrl, redis, local, split>>

\* A day without a message.
Expire ==
    /\ redis # <<>>
    /\ redis' = <<>>
    /\ UNCHANGED <<redisUrl, local, up, split>>

\* A new process: an empty deque, and Redis again.
NewStore ==
    /\ local' = <<>>
    /\ up' = redisUrl
    /\ split' = (split \/ (redisUrl /\ local # <<>>))
    /\ UNCHANGED <<redisUrl, redis>>
=============================================================================
