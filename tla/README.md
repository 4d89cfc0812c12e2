# A verification project for the Movia sales agent

TLA+ modules for the service under `src/movia_sales_agent`, the TLC configurations
that check them on small instances, and TLAPS proofs of what holds for every
value of the constants. All paths below are relative to the repository; source
paths without a directory are relative to `src/movia_sales_agent`.

## 1. The system

The service answers WhatsApp messages of sales leads. A webhook queues each
message; workers wait for a lead to stop typing, combine its messages into one
batch and run the agent on it; the agent's answer goes out through Chatwoot or
WhatsApp; a scheduler nudges the leads that did not reply. Supabase (Postgres)
keeps profiles, messages and follow-up attempts; Redis, when there is one, keeps
the queue, the recent conversation and a copy of the platform's runtime.

### Components

| component | state it keeps | operations | what makes it correct |
|---|---|---|---|
| In-memory queue (`whatsapp/queue.py:81`) | `_dedupe`, `_buffers`, `_scheduled`, `_locks`, `_lead_queue` | `enqueue`, `next_lead`, `acquire_lead_lock`, `collect_batch`, `release_lead_lock`, `reschedule` | a queued message is run once and in order, a lead has one run at a time, messages inside the window share a run, no lead with messages is forgotten |
| Redis queue (`whatsapp/queue.py:143`) | keys `message:<id>`, `lead:<key>:messages`, `:scheduled`, `:lock`, the stream of jobs | the same, each as several Redis commands sent from executor threads, and a scan for stale buffers | the same, between any two commands and over crashes |
| Worker pool (`whatsapp/queue.py:362`) | the tasks, `_stopping`, the batch in each executor thread | `start`, `stop`, `ensure_running`, `_worker_loop`, `_process_batch_sync` | locks are given back, dead workers come back, stop leaves nothing half done |
| Follow-up scheduler (`followup/scheduler.py`, `db/repository.py:501-758`) | rows of `movia_followup_attempts` | `scan_once`, `_process_candidate`, `_send_followup`; find, claim, check, mark | one follow-up per silent lead, none twice, none after a reply, a dead claim is taken over |
| Meta conversions (`meta/conversions.py`) | attribution of a lead, `movia_meta_conversion_events` | store the click, look it up, create, send and mark an event | each event is sent at most once, whatever threads of the lead overlap |
| Outbound sending (`whatsapp/queue.py:620-930`, `whatsapp/formatting.py`, `whatsapp/interactive_policy.py`, `chatwoot/client.py`, `whatsapp/client.py`) | count of interactive packets | split into messages, send through Chatwoot, else WhatsApp, or send buttons instead | an answer is delivered whole, in order and no part twice |
| Platform run log (`platform/observability.py:355-541`) | rows of runs and events in the platform | start, update, finish, add event, each on a thread of its own | a finished run reads as finished |
| Platform runtime cache (`platform/observability.py:60-355`) | cached runtime, its expiry, a copy in Redis | fetch, resolve, fall back to stale | a batch runs on a flag the platform held within the cache's and the stale time |
| Conversation memory (`memory/store.py`, `agent/memory.py`) | ring of recent messages in Redis or in the process | append, recent | both roles of a turn are seen by the next one |
| Agent turn (`agent/graph.py`) | profile, conversation, messages, stage | load, analyse, merge, plan, retrieve, answer, save | what a turn learned is not lost, no answer asks what is known or lacks what it is made of |
| Sales stages (`agent/stages.py`, `agent/objections.py`, `agent/commercial_state.py`) | `current_stage`, `stage_before_objection`, purchase status | the stage machine, the objection overlay | no close under a hard objection, an objection ends by being resolved, closing is not left for an earlier stage |
| Planner (`agent/planners.py`, `agent/fulfillment.py`, `agent/reply_frame.py`) | the reply frame of the last answer | choose the plan of a turn, its question and its sources | the first case that fits is the one that was meant; no known slot is asked for; a close gives its link |
| Requirement profile (`agent/requirements.py`) | the requirement profile of a lead | delta of a turn, semantic resolution, merge, class, product fit | nothing is taken up that nobody said; the fit is that of the requirements |
| Turn analysis (`analyzer/`) | none | sanitize, validate and normalise the model's output, or the fallback's | what is left of an output is in the message |
| HTTP API (`api/main.py`) | the service objects | chat, webhooks (queued and direct), health, shutdown | a webhook answers once per message |
| Repository (`db/repository.py`) | a connection per call | one transaction per method | each method is atomic |
| Registry sync (`platform/registry_sync.py`) | rows of the platform's registry | insert what is missing at startup | the operator's own switch survives it |
| Response text (`agent/response.py`, `agent/memory.py`) | none | build the text of a plan, or take the model's; sanitize it | it says nothing made up and asks nothing known |
| Services (`services/`), evaluation (`evaluation/`), configuration and schemas | none that outlives a call | language model, retrieval, offline scoring, data definitions | what they may return is an input of the models; the rest has no behaviour of its own |

### How they interact

- webhook -> queue: `WhatsAppWorkerManager.enqueue` runs `ensure_running`, which
  restarts dead workers, and then the queue's `enqueue`.
- queue -> worker -> agent: a worker takes a job (a lead, not a message), locks
  the lead, sleeps for the window, collects the batch and runs it in an executor
  thread. The queue's state is shared by all workers and all webhooks: under one
  asyncio mutex in memory, under nothing but single commands in Redis.
- agent -> database: a turn reads the profile at its start and saves the user's
  message, the answer and the stage in three transactions at its end.
- turn -> queue -> lead: the answer is saved with its reply frame first and sent
  afterwards, or replaced by buttons; the next message is read against the frame
  that was saved, sent or not.
- message -> profile -> plan -> text: each stage decides again, from its own
  fields, what the earlier ones decided (what is known, whether to give the link,
  which prices are needed); nothing but their agreement makes an answer right.
- scheduler -> database -> transports: the scheduler sees turns only through
  those rows, and coordinates with schedulers of other processes only through
  the row of the attempt.
- everything -> platform: runs and events are reported by threads nobody waits
  for; the runtime says whether the agent is enabled.

### What is hard here

Interleavings of workers, webhook threads and scan threads; crashes between two
commands that belong together; locks and flags that expire; messages delivered
again by Meta; answers lost after the work was done; timeouts that fall back to
another transport; reads that are stale when they are used. And, within a turn,
long chains of cases whose conditions overlap, each written for a situation and
tested in it alone, over a profile that any sequence of turns may have left.
`PROJECT.json` lists
each such place with its line under "hazards", and the properties below are
aimed at them.

## 2. The modules

| module | models | role |
|---|---|---|
| `BestEffort` | the promise of either queue and its workers, losses allowed | abstract specification |
| `LeadBatches` | the same without losses, and in order | abstract specification |
| `MemoryQueue` | the in-memory queue with the worker loop, stop and time | implements `LeadBatches`, and so `BestEffort` |
| `MCMemoryQueue` | small instances of it | for TLC |
| `MemoryQueueProofs` | theorems about `MemoryQueue` | for TLAPS |
| `RedisQueue` | the Redis queue with the worker loop, command by command | implements `BestEffort` |
| `MCRedisQueue`, `RedisQueueProofs` | a small instance, theorems | for TLC, for TLAPS |
| `FollowUp` | the follow-up scheduler, its rows and the part of a turn it sees | |
| `FollowUpProofs` | theorems about `FollowUp` | for TLAPS |
| `PlatformRuntime` | the rows of the registry, the sync, the resolvers and their caches | component |
| `RunLog` | the rows of runs and events and the threads that write them | component |
| `Outbound` | the sending of an answer, part by part, over two transports | component |
| `BatchRuns` | what the workers do with a batch: gate, log, run, sending | composes the three |
| `MCBatchRuns`, `BatchRunsProofs` | a small instance, theorems | for TLC, for TLAPS |
| `MemoryStore` | the recent conversation in Redis or in the process | component |
| `AgentTurn` | the reads and writes of a turn, on top of the memory store | component |
| `MetaConversions` | the threads of the conversion events | component |
| `LeadTurns` | who runs turns of a lead and when: workers, webhook, `/chat` | composes the three |
| `MCLeadTurns`, `LeadTurnsProofs` | a small instance, theorems | for TLC, for TLAPS |
| `SalesStages` | what a turn does to profile, plan, stage and objection | abstract for `LeadConversation` |
| `SalesStagesProofs` | theorems about `SalesStages` | for TLAPS |
| `RequirementProfile` | requirement deltas, their merge, class and product | operators |
| `TurnReading` | what a message may be read as: sanitizer, fallback, normalizer | operators |
| `DiscoveryPlan` | the question that ends a plan, the link, the reply frame | operators |
| `LeadConversation` | a conversation: readings, replies, profile, question | composes the three, implements the profile of `SalesStages` |
| `MCLeadConversation`, `LeadConversationProofs` | a small instance, theorems | for TLC, for TLAPS |
| `AnswerPlan` | the planner's cases in order, the knowledge plan, the context | operators |
| `AnswerText` | the built text, the model's text, the sanitizer | operators |
| `MessageParts` | the split of a text into messages | operators |
| `LeadAnswers` | the conversation with its plans, texts and sending | composes the three, implements `LeadConversation` |
| `MCLeadAnswers`, `LeadAnswersProofs` | a small instance, theorems | for TLC, for TLAPS |

### MemoryQueue

State: the five fields of `InMemoryWhatsAppQueue` keep their names (`dedupe`,
`buffers`, `scheduled`, `leadQueue`, `locks`); a worker is its place in
`_worker_loop` (`pc`), its local variable `lead` (`job`), the rest of its sleep
(`left`) and the batch in its executor thread (`batch`). A buffer is a set: the
order of the list is the order of `enqueued_at`, which `split_batch_by_window`
sorts by.

Granularity: the methods of the queue hold one asyncio mutex and never suspend
under it (`Queue.put` on an unbounded queue does not suspend), so a method is a
step. `Enqueue` and `Redeliver` are `enqueue`; `NextLead`, `Acquire`,
`AcquireFails`, `Reschedule`, `Collect`, `FinishRun` are the stretches of
`_worker_loop` between two awaits, each with the calls it makes (`Collect`
includes the split, the new job for what is left, and the `finally` clause when
the batch is empty). `Stop` cancels the workers: their `finally` clauses free the
locks while the executor threads run on, which `FinishOrphan` ends.

Time is counted in ticks of 0.25 s, the slack that `split_batch_by_window` adds.

### LeadBatches

A message is accepted, waits, joins a batch of its own lead, and the batch is
run. A lead has one running batch, and a batch takes the oldest messages that
wait. `MemoryQueue` implements it with `waiting` as the union of the buffers and
`running[l]` as the messages of `l` in executor threads.

### BestEffort

What the rest of the service may expect of a queue without knowing which of the two
the settings chose: a message is accepted once, joins one batch of its own lead, and
that batch is alone and unchanged until it ends. Messages may be lost while they
wait (`Drop`), and everything that runs is lost when the service dies (`Die`), but
what was lost never comes back and is never accepted again. `RedisQueue` implements it: a
message waits from `SET message:<id>` on, in the hand of its `enqueue` thread, in the
list and in the rows a worker has read, until its batch starts; `lost` is what has a
dedupe key and is nowhere. The order of `LeadBatches` is not promised, because the
thread of an older message may be overtaken between its SET and its RPUSH. `MemoryQueue`
implements it with `lost` empty.

### RedisQueue

Every Redis command is a step, since each is sent from an executor thread with
nothing around it; the MULTI/EXEC pipeline that pushes the rest of a batch back
is one step. `sender` is where the `enqueue` thread of a message stands; `rows`
is what a worker has read and not yet split; `toScan` is the list of keys the
scan for stale buffers works through. Keys survive `Crash`, threads do not.
`EnqueueFails`, `ScanFails`, `CollectFails` and `WorkerDies` are a command that
raises, told apart by who catches it: the webhook answers with an error, the
scan passes the buffer over, the worker logs and unlocks, or the worker task ends.

Time is abstracted to what may have passed: sleeps end, flags expire and
messages grow stale at any moment, and any non-empty prefix of the rows may be
the batch. A lock expires only once its owner is gone: that no run outlasts the
120 s of its lock is an assumption here; `LeadTurns` is about those that do.
An orderly stop is in `MemoryQueue` only.

### FollowUp

One lead. A scanner is the scan thread of a process, of which there are several
during a deployment. Every repository call is a transaction and a step; every
HTTP request is a step that succeeds (`SendSucceeds`), is refused (`SendFails`)
or is done while its answer is lost (`AnswerLost`). An attempt is the row of its
trigger, the user's message that was answered and then met by silence. `SaveUser`,
`SaveAnswer` and `SaveStage` are the three transactions of `save_memory`.

A repository call that raises has done nothing (`DatabaseFails`) or is committed
all the same (`CommitUnanswered`); the scanner cannot tell and goes on alike
(`AfterRaise`). After `mark_followup_sent` this matters most: the `except` branch then
marks the sent row failed, which `mark_followup_failed` does by id whatever the
status, and one attempt counts twice.

Assumed: no scanner spends 20 minutes on one claim (the time-outs of its requests
are tens of seconds), so a claim grows stale only when nobody works on it.

### PlatformRuntime, RunLog, Outbound, BatchRuns

`BatchRuns` is `_process_batch_sync`: a worker resolves the runtime, opens a run
in the log, leaves the batch when the agent is disabled, runs the agent (one step
that answers or raises), sends the answer and closes the run.

`PlatformRuntime` has the two rows of the registry (`agent`, `versionRow`), which
the operator and the sync at startup write; the dictionary of each resolver
(`cache`) and the copy that all share in Redis (`shared`); and where each worker
stands in its resolution (`pc`, `began`, `found`, `flag`): every request and every
read or write of a cache is a step, so a fetch that started earlier may end later.
`heldAt` is history: when the platform last held each value of the flag.

`RunLog` has the row of each run, and the threads of its insert, its updates and
its events, which nothing orders. An update that finds no row is lost; an event
that comes before the row is tried again, three times.

`Outbound` sends part after part through Chatwoot and, when that fails before it
accepted anything, through the WhatsApp API. A request is accepted, refused, or
accepted while its answer is lost.

### MemoryStore, AgentTurn, MetaConversions, LeadTurns

`AgentTurn` is what a turn reads (`Load`) and writes (`Learn`, the two messages,
their two copies in the memory store, the stage), each in its own transaction; it
may fail between any two. What a turn learns is the message it answers: `profile`
is the set of the messages whose lesson it holds, and a turn writes back what it
read with its own. `MemoryStore` is the list in Redis and the deque that replaces
it for good at the first error. The process has one store, which the turns of every
lead, the cache of the knowledge base and the runtime resolvers share: whoever meets
the error, this lead's turns (`Load`, `AddRecent`) or anybody else (`LoseRedis`),
a turn in the middle of saving then has its message in Redis and its answer in the
deque (`RedisGivenUp`). `MetaConversions` is the thread that each answer
starts: store the click, look it up, and for every event create the row, send,
mark.

`LeadTurns` says who runs turns: workers under the lead's lock, which may expire
and may be deleted by whoever ends first; the webhook without a queue, which asks
the table whether it knows the message; and `/chat`, which asks nothing.
`overlapped`, `torn`, `raced`, `losses` and the like are history: they say which
turns had to do with a fault or with another turn, so that the properties can
say what happens to all others.

Assumed: a message of the queue stands for a batch, the sending of an answer is
one step (its parts are `Outbound`'s), one process uses the memory store at a
time, and `/chat` is called once for a message.

### SalesStages

One lead, one turn after another. A turn reads the row of the lead (`profile`,
`stage`, `before`, `mode`, `objection`, `last`) and writes it back: `Answer` is
`update_lead_state`, the planner, the stage service, the objection service and
`save_memory`; `TurnFails` is a turn that fails after `update_lead_state`, which
saves the profile in a transaction of its own.

`Plans` is the list of cases of `SalesPolicyPlanner._plan_state` in its order,
as the set of plans the message may lead to. What the language model makes of a
message is any `Readings` and `Turns` the analyzer's contract admits. Intent,
topics, discovery slots, buying signal and active product are not kept, so a case
that asks only for them may hold or not; whatever asks for stage, objection, last
action or profile is exact. A plan is its macro action (the four that other code
asks about, the rest is "other"), its objection step and its target stage.

Left out: `previous_stage` (only `objection_handling`, which is no longer
written, would read it), `confirmed_product` and `existing_client` (nothing sets them), the
branches for soft objections in the record (only hard ones are recorded), and
`post_purchase` as a target (no plan has it).

### RequirementProfile, TurnReading, DiscoveryPlan, LeadConversation

One lead, one turn after another, and what the agent knows of it. A message is
what it holds (`Messages`): words for capabilities and actions, the products it
names, facts, a number, a wish to start. What the language model may report of it
(`Claims`, `Observations`) is anything the schema admits, with evidence that is
apt, beside the point, or not in the message; `KeptItems`, `KeptReferences` and
`ValidRequirements` are what `contract_v3.py` leaves of that; `HeuristicObservation`
is the fallback, and `Normalized` the turn that follows. Facts are taken as the model
gives them and references keep the model's role, as in the code.

`RequirementProfile` has the resolver of the delta (a second question to the model,
whose answer may be refused, cleaned or missing), the merge, the class and the
product. `DiscoveryPlan` has the two memories of what is known, the ends of all
plans, the finalization that takes a known question out of one, the smaller
question that goes with the link, and the reply frame.

`LeadConversation` has two steps for a turn, since it makes two writes: `Understand`
(everything up to `update_lead_state`) and `Answer` (planner to `save_memory`); a
turn may fail in between. `invented` is history. `asked` is the question of the last
answer, until the next message.

Dead in the code and left out: a sceptical tone (no analysis that reaches the planner
has it), `_detect_explicit_removals`, the continuation plan, `confirmed_product`,
and `contextual_reply.py`, which is switched off
(`CONTEXTUAL_REPLY_MUTATIONS_ENABLED`).

`ImplementsStages` ties the two views of a turn together: `SalesStages` takes any
need and any choice for granted, and every `Understand` changes fit and choice as a
turn of that module with the requirements of this one.

### AnswerPlan, AnswerText, MessageParts, LeadAnswers

The answers of the same conversation. In `LeadConversation` a turn may end with any
plan that its lead allows; here the planner chooses. What decides besides the
profile is a set of points (`Points`: the intent, topics, words, objections and
what earlier turns left), and `Plans` is the list of cases in the code's order, as
sequences of sets of which `First` takes the first that is not empty. `Needs`,
`Sources` and `ContextFacts` are the knowledge plan and what the context then
holds; `BuiltText` is `fallback_response`, case by case, with the questions it asks
and the facts it is built of (`due`); `ModelTexts` is what the language model may
write instead; `SanitizedText` is what the memory's patterns leave of either. A
question about a slot is in the slot's own words, which the patterns know; in other
words of the code (`InOtherWords`); or in words of the model's own (`InOwnWords`).
`Sending` says whether the queue sends the text, buttons, or a packet of buttons
that takes the answer's place.

`MessageParts` has the four levels of `split_whatsapp_messages` (blocks, sentences,
words, short ends) over texts of words that have lengths; a part is the words it
holds and its length, and whether it is one chunk or two put together. The latter
matters for what can be promised: `merge_short_chunks` never looks back at two short
chunks that it has put together, so that they may stay short beside a message with
room, and only a chunk left alone is never short beside one it would fit with.

`ReadMessage` is `Understand`; `MakePlan` is the plan, the policy, the knowledge plan
and the context; `Reply` is the text and `save_memory`; `Fail`, `SendText`,
`SendButtons`, `SendPacket` are the rest. Retrieved documents, prompts and wording
hints are left out: they reach the lead through the model's text alone, which is free.

## 3. The runs

| run | question | bounds |
|---|---|---|
| `memory_queue_two_workers` | Is a message ever lost, run twice, run beside another run of its lead, run out of order or cut out of its window, and does the queue keep the promise of `LeadBatches`, stop included? No. Is every message run, but for a lead whose job `reschedule` dropped? Yes. | 2 workers, 2 leads, 4 messages (3 of one lead, in their order), window of 2 ticks, slack 1, clock up to 5 |
| `memory_queue_stranded` | Is every message run? No: see the findings. | the same, window 1, clock up to 3 |
| `redis_queue_races` | Over every interleaving of the commands and one fault: do runs of a lead exclude each other, is nothing run twice, are losses explained, is what is not lost run, and does the queue keep the promise of `BestEffort`? Yes. | 2 workers, 1 lead, 2 messages in their order, 1 fault |
| `redis_queue_loss` | Is nothing lost without a fault? No: see the findings. | the same, no fault |
| `followup_overlap` | With overlapping scanners and faults: do claims exclude each other, are copies explained by faults, is a silent lead followed up? Yes. Do settled rows stay, and do the attempts keep their limit? But for a commit whose answer is lost, which takes one sent row back to failed and one count past the limit. | 2 scanners, 2 attempts, 2 user messages, 2 faults |
| `followup_reply` | Does a reply stop the follow-up? No: see the findings. | the same, no fault |
| `sales_turns` | Over every sequence of turns: does a lead ever enter closing with a live objection or with a product that it did not choose or that does not fit, leave a late stage, or lose an objection that was not resolved? No, with the exception of the findings. | 5 of the 6 requirement classes (`over_limit` has the fit of `mixed`), 2 purchase statuses; no bound on the turns |
| `objection_moves_stage` | Does an objection that is being handled leave the stage as it is? No: see the findings. | 2 requirement classes |
| `batch_runs` | How old is the flag a batch runs on; does the log tell what happened, for good; does the lead get a part twice? At most the cache's and the stale time; yes; only the first part, after a lost answer. | 2 workers, 1 resolver, 1 run, 2 parts, 3 tries of an event; cache and stale time 1, clock up to 4, rows that change and 1 restart before 3; two settings (below) |
| `lead_turns` | What can overlapping turns of a lead lose, and what do lead and Meta get twice? A lesson only if the turn was overlapped, which takes a lost lock or a turn outside of it; an answer is sent twice only if the message was delivered while its turn ran, or without a database; a conversion event is never. | 3 turns, 3 messages, 2 deliveries of each, 1 lost lock, 2 threads, 2 clicks, 2 rows and 4 entries of recent conversation; five settings (below) |
| `lead_conversation` | Does the profile ever take up what nobody said, is a known slot asked for, and does the profile move as in `SalesStages`? No, no, yes. | 1 informational and 2 external items, 1 declared number (3, past the limit), 2 products, 1 slot, messages of 1 aspect; the product that is not sold stays active without a declared number only; no bound on the turns |
| `lead_answers` | Is a known slot asked for in its own words by whoever writes the text; is a text built without its facts; does a close give the link; is a text sent whole; does each of the planner's cases end a turn as `LeadConversation` allows? No; no; yes; yes; yes. | the same with 1 external item; the points one by one and in 12 pairs; 1 packet, and after it no requirements; parts of up to 6 characters, at most 10, short below 5; words of 1, 5 and 11, two to a sentence, a block and a text |

Why the bounds are enough. A clock that reaches 5 is past window + slack, so a
batch really splits and its rest is queued again while a third message of the
lead arrives; with 4 it never does, and the mutants of the split survive. Two
workers (scanners) are what it takes to disagree, and every guard of the code
looks at one key at a time, so a third adds no new pair; turns are three, since a
third one is what an ended turn that deletes another's lock lets in. Two messages of one
lead are what a race of a push with a collection takes; the leads of the Redis
queue share only the stream. Two faults give a crash in the retry of a crash.
In `batch_runs` the clock takes a runtime through fresh, stale and too old; at its
last two instants the platform stands still, since by then only what was read
before has an age to reach. The messages of a lead of the queues have no marks of
their own: that the first to come is `m1` leaves out only renamings. A packet
changes nothing of a turn but whether there is another packet. A
lead's requirements decide by what kinds of items there are, so that one or two of a kind suffice: with all
three products and an unsold one beside any number `lead_conversation` has 29,835
states instead of 12,801, and the properties hold too. The points of `lead_answers` are met one by one because a
case of the planner asks for one of them besides the profile; the pairs are those
of which a case wants both, or one of which hides the other. The limits of
message parts are to scale: the words fit several times, once, or not at all.
Every passing property has a mutant in `PROJECT.json`, a mistake in the modelled
code that makes the same run fail, so no property holds for lack of a case.

Settings. Where a run has settings, each is a part of the state space, chosen at
the start, in which what the others vary stands still, because it does not meet:
`batch_runs` has the runtime with two workers, clock, caches and restart ("runtime"),
and a batch with its sending and its log ("log"); the two share only the flag of a
batch, which the second takes as it comes. `lead_turns` has workers and `/chat` with
lost locks ("queue"), redeliveries without a queue ("webhook"), the memory store
(with a database nobody reads it) over three deliveries, turn after turn ("memory"),
and over two whose turns overlap ("overlap"), and the threads
of the events ("events": they share nothing with a turn before it sends). The
settings are written in `MCBatchRuns` and `MCLeadTurns`; the proofs have none of
these bounds, nor of those that the other `MC` modules put on a run.

Deadlock is checked for the Redis queue, where a webhook may always call again,
and for `SalesStages`, `LeadConversation` and `LeadAnswers`, where a lead may always
write again. In `MemoryQueue` a run ends at the horizon or after `stop`, in `FollowUp`
when no lead waits and no message is left, and in `BatchRuns` and `LeadTurns` when all
runs, or all deliveries, are used up, so there `CHECK_DEADLOCK` is off.

Fairness. `MemoryQueue`: weak fairness of every worker's step and of the clock:
the event loop runs every ready task, an agent run ends (its requests have
time-outs) and sleeps end. `RedisQueue`: weak fairness of started `enqueue`
threads, of workers, of ageing and of the expiry of locks nobody owns.
`FollowUp`: scans are repeated every interval and run to their end, and the 20
minutes and the delay pass. The other specifications have no liveness property and
no fairness: log threads and event threads are fired and forgotten, and nothing in
the code makes a lost update or a failed event good. Nothing is assumed of arrivals, stops, crashes or failing
commands. `RunOrLost` has two workers and one fault: a pool whose workers have
all died waits for the next webhook (`ensure_running`). `RunOrStranded` is what is left
of liveness in memory: nothing but a job that `reschedule` dropped, or a stop, keeps
a message waiting for ever.

Exceptions. Some properties name what the code does not keep out, so that they say
something of all the rest. `AnswerOnce`: the first part is sent twice when Chatwoot accepted
it and its answer was lost. `LateStagesHeld`: a second objection may take a lead
out of closing (see the findings). `SettledStays` and `TriesBounded`: a committed
`mark_followup_sent` whose answer is lost. `ReasksInOtherWordsOnly`: the patterns of
`_response_asks_for_key` (`agent/memory.py:361`) know fixed phrases, so whatever asks for
a known slot in other words passes: the language model in words of its own, about any
slot, and four questions of the code, about the requirement. The latter are the link's
(`agent/fulfillment.py:18`) and those that end the comparison (`agent/response.py:245`),
the answer about a product that is not sold (`258`, `265`) and the one that narrows the
choice (`423`); `docs/implementation/PHASE_V3_3_REPORT.md:89`, "Known slots are never
casually re-requested: completed by planner contract and response validator", is more
than the validator does.

## 4. Findings

- `reschedule` of the in-memory queue never does anything (`whatsapp/queue.py:138`):
  whoever gives a job back gives it back for a lead that is still in `_scheduled`,
  because only `collect_batch` removes it. So a message that comes while its lead
  is being run waits for ever when a second worker takes its job meanwhile, and so
  does all that the lead writes later. It needs `job_concurrency` > 1. Run
  `memory_queue_stranded`; `RescheduleDropsJob` proves the step, `StrandedForGood`
  that it is for ever, and `OneWorkerStrandsNobody` that one worker is safe.
- `_collect_batch_sync` reads with LRANGE and deletes with a separate DEL
  (`whatsapp/queue.py:279-280`): a message pushed between the two is deleted
  unread. Run `redis_queue_loss`; `LossNeedsRaceOrFault` says that this and
  faults are the only ways to lose a message.
- The validity check of a follow-up and its send are two steps
  (`followup/scheduler.py:125-138`): a reply saved in between does not stop it,
  which is more than `tests/test_followup_scheduler.py:91` promises by its name.
  Run `followup_reply`.
- An objection does not "preserve the commercial `current_stage`"
  (`docs/architecture/PARALLEL_OBJECTION_DESIGN.md:52`): a plan that handles an
  objection aims at `stage_before_objection`, which is set at the lead's first
  objection and never again (`agent/planners.py:664`, `agent/stages.py:129-135`).
  A lead that asks a price in the middle of an objection falls back to the stage
  before that question; a lead in closing with a second objection falls back to
  `unknown_recovery` if its first one came there. Run `objection_moves_stage`;
  `LateStagesHeld` says that this is the only way out of closing.

## 5. The proofs

`tlapm` checks `MemoryQueueProofs`, `RedisQueueProofs`, `FollowUpProofs`,
`BatchRunsProofs`, `LeadTurnsProofs`, `SalesStagesProofs`, `LeadConversationProofs`
and `LeadAnswersProofs`. They assume what their modules assume of the constants by
name: `LeadOf` is a function to leads, times and limits are naturals, at least one
attempt and one part, the values that stand for none are no others, the kinds of
requirements are disjoint. Sets of leads, messages, workers, scanners, resolvers,
runs, turns, threads, capabilities, actions, slots and combined points are arbitrary,
and the bounds that keep the state space of a run small are in no proof. Two theorems
have a hypothesis of their own: `OneWorkerStrandsNobody` is about a pool of one worker
(`job_concurrency` is 4 by default), and `RecentIsWhole` takes both limits of the recent
conversation to be even, as the 8 rows and 12 entries of the code are. Every
invariant and every action property of a passing run is stated by a theorem.

`MemoryQueueProofs`. No property of the queue is inductive as stated, so the
inductive invariant is built in layers, each proved under the ones before it:

1. `Typed` adds to the types that a worker that is not idle has a job
   (`TypeCorrect`);
2. `Ownership`: a worker in its window or running holds the lock of its job, no
   two such workers have one lead, every lock has such an owner, and a batch is
   of the lead of its worker's job. A stopped worker has given its lock away while
   its batch still runs, so that no worker collects after a stop is part of it
   (`RunsExclusive`);
3. `Accounted` itself, which needs that a buffer holds messages of its own lead
   (`NothingLostOrRunTwice`);
4. `Ordered`: no stamp is ahead of the clock, and `InOrder` (`RunsInOrder`);
5. `Windows`: the sleep of a worker ends no earlier than a window after the first
   message it will collect (`WindowInOneRun`);
6. `Jobs`: a lead has messages exactly when it is in `_scheduled`, a job is for
   such a lead, and a lead has one job at most (`RescheduleDropsJob`,
   `StrandedForGood`);
7. refinement: every step maps to a step of `LeadBatches` or to a stutter, under
   layers 1 to 4 (`QueueKeepsPromise`), and a step of `LeadBatches` is one of
   `BestEffort` that loses nothing (`QueueKeepsWeaker`);
8. `JobKept`, for `Workers = {x}`: a scheduled lead keeps its job, since the one
   worker never meets a locked lead (`OneWorkerStrandsNobody`).

`RedisQueueProofs`. The keys are written by threads that hold nothing, so `RedisInv`
says what each place in the worker loop and in `enqueue` may rely on. `Owning`: a
worker past SET of the lock has it alone (`RunsExclude`). `Places`: what a list, the
rows a worker has read, or a batch hold was accepted, pushed and not ended yet; rows
and batches are of the lead that their worker has locked; and after the DEL what a
worker holds is in no list any more. Only between LRANGE and DEL is a message in two
places, and nothing ends there (`RunsAtMostOnce`). Its types are part of
`RedisInv` (`TypesAreKept`), and left to the proof. `Counting`: stamps tell messages
apart, so that the order of a push back (`ByArrival`) is a sequence without
repetition. `LossHasCause` goes through the steps: without a fault, a message leaves
the places that `RedisInv` knows only in a DEL of rows that were not read.
`RedisKeepsPromise` is the refinement of `BestEffort`. A command that only moves what
waits, or lets go of some of it, is a `Drop`, mostly of nothing (`DropStep`): every
push, LRANGE, DEL, expiry and step of the scan is one. A split that finds a batch is
the one step that starts (`SplitPromise`): by `Owning` and `RunOnce` the lead
has no other run and the batch is in nobody else's hands. A run ends, also when
its worker dies with it (`FinishPromise`), and a crash ends all (`CrashPromise`).

`FollowUpProofs`. `ClaimsExclude` rests on the row as a lock: a held attempt is
"claimed" and not stale, so nobody else may claim it. The exception is a holder
whose `mark_followup_sent` was committed unanswered: its row is "sent", a fault has
been spent on it, and the holder is about to fail it (`RowHeld` has the two cases). `SettledRowsStay` follows: an update is made by the
holder, whose row is settled in the second case alone. `TriesAreBounded`: a holder in
the first case has a try left, so its two counts for one attempt end one past the
limit at most, and a row there is failed and never claimed again. `NoCopyWithoutFault`
counts: each copy but one is paid for by a fault, because an attempt that was
delivered is either settled or was given up by a fault. `TypeCorrect` is types only.

`BatchRunsProofs` has one invariant for each part, conjuncts of which say what a
thread has in hand. `RuntimeInv`: no time lies ahead
of the clock (`Clocks`), and every entry, in a cache, in Redis or on its way, holds a flag
that the platform held lately enough for its expiry (`Honesty`, `ReadHonest`; `RunsOnRecentRuntime`). `LogInv` and `SendInv`: what each thread of a run is to write
is what happened to the batch, and what the lead got is the beginning of the answer
up to where its sender stands; together, `BatchInv`, they give `LogIsTrue`,
`EndedRunsClose`, `NoPartTwice` and, as an action property, `FinishedStays`.

`LeadTurnsProofs`. `OverlapPaid` counts the turns under the lock against the lost
locks: a turn enters by taking a free lock, and a lock is freed by a turn that ends
or by a loss (`OverlapIsPaid`). `LossTakesOverlap` needs two more facts: a turn about to
write the profile holds everything that was learned and not overlapped (`Snapshots`),
and until a turn runs outside of the lock every turn is a worker's (`Inside`).
`EventsOnce` (`EventInv`): a row that is not there was not sent and is in no thread's
hand, a row is in one hand at most, and the hand that is about to send has not sent
it; what a thread takes for the first click was stored, or failed to be.
`AnswersOnce` (`AnswerInv`): a message whose turn has passed `save_message`, or that was
answered, is in the table, and without a race the turns of a message exclude each
other and none follows its answer. `RecentHasNoGap` (`TailInv`): the list in
Redis ends what was said while the deque is empty, and the deque does once Redis is given up.
`RecentIsWhole` needs more (`PairInv`): in the table and in both lists, a message that is
not torn has its answer next to it, or is the last and its turn is still saving; only a
list that is full may begin with an answer, and an even limit then cuts between turns.
A loss of Redis, whoever meets it, tears every turn that is being saved (`RedisGivenUp`)
and leaves the pairs of all others (`GivenUp`, `LossKeepsPairs`).

`SalesStagesProofs`. Four of the five are about one turn, given `StageInv`: a lead in
closing has a known fit, and an objection goes back to the stage that was noted at
the first one. The former is why the table's way from closing to `unknown_recovery`
is never taken, the latter why `before` is the only other way out (`LateStagesAreHeld`).
The rest is the planner's order: a plan that closes has the guard of
`can_direct_close`, on the profile that the same turn has just saved
(`CloseNeedsNoObjection`, `CloseSellsTheFit`), and one that handles an objection is of
a live one, or of one that the message raises (`ObjectionsEndResolved`).

`LeadConversationProofs`. Every reading, by model or by fallback, of every message
has nothing unsaid (`ObservationType`); the resolver of the delta, which may add what
it likes with any literal evidence, is asked only when there are requirements already; so first requirements
and choices come from the message or from the question it replies to
(`InventsNothing`). `Finalized` leaves no question of a known slot, whatever
plan it is given, and the link's question is about none (`AsksNoKnownSlot`). The class of the
requirements maps to a need of `SalesStages` with the same fit
(`ConversationImplementsStages`).

`LeadAnswersProofs`. The plan of a turn is that of the first case that holds, so each
case is looked at under the failure of those before it (`FirstIsACase`,
`FirstCasesEnd`, `ExactCasesEnd`, `LateCasesEnd`): that a clash was answered, or a
missing slot asked for, is why the product is recommended or the default reached only
where `PlanEnds` has it (`PlansImplementConversation`); `AnswersAreConversations` then
carries over all of `LeadConversationProofs`. Each case of the built text
is built of facts that its plan or its topics made the knowledge plan need
(`FactsAreFetched`, `TopicTextsType`; `TextsHaveTheirFacts`). A close gives the link
because the fit of a lead follows its requirements when they have one
(`FitFollows`, the one new part of the inductive invariant): `can_direct_close` looks at the
fit, `_should_include_app_link` at the requirements (`TheCloseGivesTheLink`).
`QuestionsLeft` is about any text at all, and so about whatever the model writes: a
question that is left is not recognised as one of a known slot, so it is about none, or
about one in other words (`KnownSlotsInOtherWordsOnly`).

How a text is split is proved for every draft, however many blocks, sentences and
words it has, and all limits (`DraftIsSplit`; `AnswersAreSentWhole`). It is computed by
folds, and the library's inductions do not serve here, since they take an operator; but
a set of numbers has a least one (`LeastExists`), so what holds at the first position and
passes from each to the next holds at all (`RunInduction`). With it a fold has a run,
the function of what it has after each element (`FoldExists`, `RunExists`,
`FlattenRuns`), and a loop is proved by its step: `split_long_text` and
`split_oversized_block` keep chunks within the hard limit and the words so far, those
beyond the limit cut (`AddWordKeeps`, `LongTextIsSplit`, `AddSentenceKeeps`,
`BlockIsSplit`); the loop over blocks keeps them too, the open part counted by `Carried`
(`AddBlockKeeps`, `ChunksKeep`). `MergeInv` for `merge_short_chunks` has to say more
than its goal: besides the words of the chunks taken so far, that a short one left alone
at the end does not fit with the next chunk, because the step that left it alone looked
there first (`MergeStepKeeps`, `MergedKeeps`). It was this proof that corrected the
property, which once promised the same of two chunks put together.

Model-checked only: the liveness properties (`RunOrStranded`, `RunOrLost`,
`Followed`), which need fairness.

## 6. The plan

Done: the two queues, the follow-up scheduler, the batch with the platform, the turns
and their callers, the sales stages, the conversation, the answers. What is left, in this order:

1. Proofs: what a worker pool of one keeps in `RedisQueue`.
2. `LeadAnswers` with the stage and the objection of `SalesStages` as state instead
   of points, so that its planner and that module's are one.
3. An orderly stop of the Redis workers.

### Not modelled

- The offline evaluation harness (`evaluation/`, `scripts/`): sequential tooling that
  no part of the service uses, over a third of the lines of code.
- Prompts, wording, prices and names, the ingestion and the retrieval of documents
  (`services/`, `ingestion/`): they reach the lead through a text that `ModelTexts`
  leaves free, or decide nothing.
- Regular expressions over a message (`analyzer/shadow_parser.py`, the heuristics):
  what a message says is a free choice; what the code does with a match is modelled.
- The conversation summary, the debug pages, health, signature checks: plumbing
  with no state that another part reads.
- Configuration, contracts, schemas: data definitions; the settings that decide
  something are CONSTANTS.
