----------------------------- MODULE LeadTurns -----------------------------
(***************************************************************************)
(* Who runs turns of a lead, and what becomes of them: the workers of the     *)
(* queue under the lead's lock (whatsapp/queue.py), the webhook without a       *)
(* queue, which asks the table whether it knows the message, and POST /chat      *)
(* (api/main.py).  Each sends the answer after the turn has saved it and then     *)
(* starts the thread of the conversion events.  AgentTurn and MetaConversions      *)
(* composed; the sending of an answer is one step (Outbound has its parts), and     *)
(* a message of the queue is a batch.                                               *)
(***************************************************************************)
EXTENDS AgentTurn, MetaConversions, FiniteSets

CONSTANTS
    Click,          \* the click in the referral of a message, or NoClick
    MaxDeliveries,  \* bound: deliveries of a message
    MaxLosses       \* bound: locks lost by a running turn

ASSUME LeadAssumption ==
    /\ IsFiniteSet(Turns)
    /\ Click \in [Messages -> Clicks \cup {NoClick}]
    /\ MaxDeliveries \in Nat \ {0} /\ MaxLosses \in Nat

VARIABLES
    queued,      \* settings.webhook_queue_enabled
    lock,        \* the lead's lock in the queue
    losses,      \* how often the lock went while a turn ran under it
    outside,     \* a turn has run without the lock
    chatted,     \* messages that came through /chat
    deliveries,  \* how often each message came
    sent,        \* how often its answer reached the lead
    raced,       \* messages that came again while a turn of theirs ran
    faulty       \* messages with a turn that raised, died, or did not send

callVars == <<queued, lock, losses, outside, chatted, deliveries, sent, raced, faulty>>
vars == <<turnVars, conversionVars, callVars>>

Init ==
    /\ TurnInit
    /\ ConversionInit
    /\ queued \in BOOLEAN
    /\ lock = FALSE
    /\ losses = 0
    /\ outside = FALSE
    /\ chatted = {}
    /\ deliveries = [m \in Messages |-> 0]
    /\ sent = [m \in Messages |-> 0]
    /\ raced = {}
    /\ faulty = {}

Under(via) == {t \in Turns : turn[t].at # "idle" /\ turn[t].via = via}
Running(m) == \E t \in Turns : Busy(t) /\ Msg(t) = m

\* message_exists was asked before the turn, and nobody asks again.
MayProcessMutant(m) == TRUE
MayProcess(m) == ~MessageExists(m)

\* The webhook without a queue: a delivery is processed or a duplicate.
Deliver(m) ==
    /\ ~queued
    /\ m \notin chatted
    /\ deliveries[m] < MaxDeliveries
    /\ deliveries' = [deliveries EXCEPT ![m] = @ + 1]

Process(t, m) ==
    /\ Deliver(m)
    /\ MayProcess(m)
    /\ Begin(t, m, "webhook")
    /\ outside' = TRUE
    /\ raced' = IF Running(m) THEN raced \cup {m} ELSE raced
    /\ UNCHANGED <<memoryVars, enabled, profile, stage, rows, learned, overlapped, torn, said,
                   conversionVars, queued, lock, losses, chatted, sent, faulty>>

Duplicate(m) ==
    /\ Deliver(m)
    /\ ~MayProcess(m)
    /\ UNCHANGED <<turnVars, conversionVars, queued, lock, losses, outside, chatted, sent, raced, faulty>>

\* set nx
MayLockMutant == TRUE
MayLock == ~lock

\* A worker takes the batch of the lead under its lock; a message is taken once.
Take(t, m) ==
    /\ queued
    /\ MayLock
    /\ deliveries[m] = 0
    /\ deliveries' = [deliveries EXCEPT ![m] = 1]
    /\ Begin(t, m, "worker")
    /\ lock' = TRUE
    /\ UNCHANGED <<memoryVars, enabled, profile, stage, rows, learned, overlapped, torn, said,
                   conversionVars, queued, losses, outside, chatted, sent, raced, faulty>>

\* POST /chat: no lock and no look at the table.
Chat(t, m) ==
    /\ deliveries[m] = 0
    /\ deliveries' = [deliveries EXCEPT ![m] = 1]
    /\ chatted' = chatted \cup {m}
    /\ Begin(t, m, "chat")
    /\ outside' = TRUE
    /\ UNCHANGED <<memoryVars, enabled, profile, stage, rows, learned, overlapped, torn, said,
                   conversionVars, queued, lock, losses, sent, raced, faulty>>

\* The lock of a running turn goes: it expired, or stop cancelled its worker,
\* whose thread runs on.
LoseLock ==
    /\ lock
    /\ Under("worker") # {}
    /\ losses < MaxLosses
    /\ losses' = losses + 1
    /\ lock' = FALSE
    /\ UNCHANGED <<turnVars, conversionVars, queued, outside, chatted, deliveries, sent, raced, faulty>>

\* The lock of a dead process expires.
ExpireLock ==
    /\ lock
    /\ Under("worker") = {}
    /\ lock' = FALSE
    /\ UNCHANGED <<turnVars, conversionVars, queued, losses, outside, chatted, deliveries, sent, raced, faulty>>

\* release_lead_lock deletes the lock, whoever holds it.
Release(t) == lock' = IF turn[t].via = "worker" THEN FALSE ELSE lock

EndTurn(t) ==
    /\ turn' = [turn EXCEPT ![t] = IdleTurn]
    /\ Release(t)

\* The answer goes out, and the events follow in a thread.
Send(t) ==
    /\ At(t, "send")
    /\ turn[t].via # "chat"
    /\ sent' = [sent EXCEPT ![Msg(t)] = @ + 1]
    /\ \E h \in Threads, names \in Applicable : Schedule(h, Click[Msg(t)], names)
    /\ EndTurn(t)
    /\ UNCHANGED <<memoryVars, enabled, profile, stage, rows, learned, overlapped, torn, said,
                   queued, losses, outside, chatted, deliveries, raced, faulty>>

\* Sending raises, the answer out or not: the events are not scheduled.
SendRaises(t) ==
    /\ At(t, "send")
    /\ turn[t].via # "chat"
    /\ sent' \in {sent, [sent EXCEPT ![Msg(t)] = @ + 1]}
    /\ faulty' = faulty \cup {Msg(t)}
    /\ EndTurn(t)
    /\ UNCHANGED <<memoryVars, enabled, profile, stage, rows, learned, overlapped, torn, said,
                   conversionVars, queued, losses, outside, chatted, deliveries, raced>>

\* /chat returns the answer in its response.
Reply(t) ==
    /\ At(t, "send")
    /\ turn[t].via = "chat"
    /\ EndTurn(t)
    /\ UNCHANGED <<memoryVars, enabled, profile, stage, rows, learned, overlapped, torn, said,
                   conversionVars, queued, losses, outside, chatted, deliveries, sent, raced, faulty>>

\* The turn raises: a worker drops the batch, the webhook answers 500.
TurnFails(t) ==
    /\ Abandon(t)
    /\ EndTurn(t)
    /\ faulty' = faulty \cup {Msg(t)}
    /\ UNCHANGED <<conversionVars, queued, losses, outside, chatted, deliveries, sent, raced>>

\* The process dies; the lock of its workers stays in Redis.
Crash ==
    /\ Restart
    /\ KillConversions
    /\ faulty' = faulty \cup {Msg(t) : t \in {t \in Turns : Busy(t)}}
    /\ UNCHANGED <<queued, lock, losses, outside, chatted, deliveries, sent, raced>>

\* A day without a message.
ExpireMemory ==
    /\ \A t \in Turns : ~Saving(t)
    /\ Expire
    /\ UNCHANGED <<enabled, profile, stage, rows, turn, learned, overlapped, torn, said,
                   conversionVars, callVars>>

\* Somebody else in the process has a Redis error.
LoseRedis == OthersGiveUp /\ UNCHANGED <<conversionVars, callVars>>

AgentStep(t) == TurnStep(t) /\ UNCHANGED <<conversionVars, callVars>>
EventStep(h) == ConversionStep(h) /\ UNCHANGED <<turnVars, callVars>>

Next ==
    \/ \E t \in Turns : AgentStep(t) \/ Send(t) \/ SendRaises(t) \/ Reply(t) \/ TurnFails(t)
    \/ \E t \in Turns, m \in Messages : Process(t, m) \/ Take(t, m) \/ Chat(t, m)
    \/ \E m \in Messages : Duplicate(m)
    \/ \E h \in Threads : EventStep(h)
    \/ LoseLock \/ ExpireLock \/ Crash \/ ExpireMemory \/ LoseRedis

Spec == Init /\ [][Next]_vars

-----------------------------------------------------------------------------
(* Properties. *)

Entries == {Entry(role, m) : role \in {"user", "assistant"}, m \in Messages}
Places == {"load", "learn", "user", "answer", "ring user", "ring answer", "stage", "send"}

IdleTurns == [at : {"idle"}, msg : {NoMessage}, via : {"none"}, known : {{}}]
BusyTurns == [at : Places, msg : Messages, via : {"webhook", "worker", "chat"},
              known : SUBSET Messages]

Latest == Clicks \cup {NoClick}
Reading == [at : {"idle", "store", "lookup"}, latest : Latest, clid : {NoClick},
            todo : SUBSET EventNames, now : {"none"}]
Creating == [at : {"create"}, latest : Latest, clid : Clicks,
             todo : SUBSET EventNames, now : {"none"}]
Sending == [at : {"send", "mark", "fail"}, latest : Latest, clid : Clicks,
            todo : SUBSET EventNames, now : EventNames]

MemoryTypeOK ==
    /\ redisUrl \in BOOLEAN /\ up \in BOOLEAN /\ split \in BOOLEAN
    /\ redis \in Seq(Entries) /\ local \in Seq(Entries)
TurnTypeOK ==
    /\ enabled \in BOOLEAN
    /\ profile \subseteq Messages /\ learned \subseteq Messages
    /\ overlapped \subseteq Messages /\ torn \subseteq Messages
    /\ stage \in Messages \cup {NoMessage}
    /\ rows \in Seq(Entries) /\ said \in Seq(Entries)
    /\ turn \in [Turns -> IdleTurns \cup BusyTurns]
ConversionTypeOK ==
    /\ configured \in BOOLEAN
    /\ attribution \in Latest /\ storeFailed \subseteq Clicks
    /\ event \in [EventNames -> {"none", "pending", "sent", "failed"}]
    /\ payload \in [EventNames -> Latest]
    /\ sends \in [EventNames -> Nat]
    /\ thread \in [Threads -> Reading \cup Creating \cup Sending]
CallTypeOK ==
    /\ queued \in BOOLEAN /\ lock \in BOOLEAN /\ outside \in BOOLEAN
    /\ losses \in 0..MaxLosses
    /\ deliveries \in [Messages -> 0..MaxDeliveries]
    /\ sent \in [Messages -> Nat]
    /\ raced \subseteq Messages /\ chatted \subseteq Messages /\ faulty \subseteq Messages

\* The types of the variables: an idle turn has no message, a thread creates
\* events with a click only and has a row's event in hand while it sends.
TypeOK == MemoryTypeOK /\ TurnTypeOK /\ ConversionTypeOK /\ CallTypeOK

\* The lock deletes whatever lock there is when its turn ends (queue.py:344), so
\* one lost lock lets turns overlap for as long as the lead writes.  But it never
\* lets more than two run at once: every further one takes a further lost lock.
OverlapPaid == Cardinality(Under("worker")) <= losses + IF lock THEN 1 ELSE 0

\* What a turn learned stays in the profile, unless another turn had read the
\* profile before it was written and wrote its own later (graph.py:388); and
\* that takes a lost lock or a turn without one.
LossNeedsOverlap ==
    /\ learned \ overlapped \subseteq profile
    /\ overlapped # {} => losses > 0 \/ outside

\* _turn_pairs: where an answer follows its question.
PairEnds(s) == { i \in DOMAIN s \ {1} : s[i][1] = "assistant" /\ s[i - 1][1] = "user" }

\* The recent conversation a turn reads consists of whole turns, a question and
\* its answer, whenever no turn in it was torn: by a fault of its own, by another
\* turn, or by an error of anybody in the process that turned Redis off meanwhile
\* (graph.py:628-683, store.py:28-56): both limits, 8 rows and 12 entries, are even.
WholeTurns(s) ==
    /\ Len(s) = 2 * Cardinality(PairEnds(s))
    /\ \A i \in PairEnds(s) : s[i - 1] = Entry("user", s[i][2])
RecentAreTurns ==
    (\A t \in Turns : ~Saving(t)) /\ (\A i \in DOMAIN LoadRecent : LoadRecent[i][2] \notin torn)
        => WholeTurns(LoadRecent)

\* What the memory store returns is the latest part of what was said, without a
\* gap, through any failure of Redis, whoever met it (store.py:25): a gap takes a restart, which
\* forgets the deque and finds the older list in Redis.
RecentIsTail ==
    split \/ \E i \in 0..Len(said) : Recent = SubSeq(said, i + 1, Len(said))

\* A WhatsApp message is answered once.  Twice takes a delivery while a turn of
\* the message runs, or a service without a database (main.py:273); never takes
\* a fault, after which the saved message makes every redelivery a duplicate.
AnsweredOnce ==
    \A m \in Messages :
        /\ sent[m] > 1 => m \in raced \/ ~enabled
        /\ MessageExists(m) /\ ~Running(m) /\ m \notin faulty
             => sent[m] > 0 \/ m \in chatted

\* Meta gets an event of a lead once at most, with the lead's first click unless
\* storing that click failed; an event that is marked as sent was sent
\* (conversions.py:126-173).
ConversionsOnce ==
    \A e \in EventNames :
        /\ sends[e] <= 1
        /\ sends[e] > 0 => payload[e] = attribution \/ payload[e] \in storeFailed
        /\ event[e] = "sent" => sends[e] = 1
=============================================================================
