----------------------------- MODULE AgentTurn -----------------------------
(***************************************************************************)
(* What a turn of the agent (agent/graph.py) reads and writes: load_memory    *)
(* takes the lead's profile and the recent conversation, update_lead_state     *)
(* writes the profile it derived from what it took, and save_memory writes the *)
(* two messages, their two copies in the memory store and the stage.  Turns of *)
(* one lead may overlap.  What a turn learns is the message it answers.         *)
(***************************************************************************)
EXTENDS MemoryStore

CONSTANTS
    Turns,      \* threads a turn may run in
    Messages,   \* messages of the lead, by external id
    NoMessage,
    RecentRows  \* limit of load_recent_messages: 8

ASSUME TurnAssumption ==
    /\ NoMessage \notin Messages
    /\ RecentRows \in Nat \ {0}

VARIABLES
    enabled,     \* repository.enabled: there is a database
    profile,     \* messages whose facts are in profile_data.requirement_profile
    stage,       \* the message whose turn wrote current_stage
    rows,        \* movia_conversation_messages of the lead, oldest first
    turn,        \* where each turn stands: the next step, its message, its snapshot
    learned,     \* messages whose turn wrote the profile
    overlapped,  \* those another turn had read the profile before, and not yet written it
    torn,        \* messages whose turn did not save all, or saved while another did or Redis went
    said         \* everything that was to be added to the memory store

turnVars == <<memoryVars, enabled, profile, stage, rows, turn, learned, overlapped, torn, said>>

Entry(role, m) == <<role, m>>
IdleTurn == [at |-> "idle", msg |-> NoMessage, via |-> "none", known |-> {}]

TurnInit ==
    /\ MemoryInit
    /\ enabled \in BOOLEAN
    /\ profile = {}
    /\ stage = NoMessage
    /\ rows = <<>>
    /\ turn = [t \in Turns |-> IdleTurn]
    /\ learned = {}
    /\ overlapped = {}
    /\ torn = {}
    /\ said = <<>>

At(t, at) == turn[t].at = at
Msg(t) == turn[t].msg
Busy(t) == turn[t].at # "idle"
Continue(t, at) == turn' = [turn EXCEPT ![t].at = at]

\* message_exists
MessageExists(m) == enabled /\ \E i \in DOMAIN rows : rows[i] = Entry("user", m)

\* A caller starts a turn: invoke.
Begin(t, m, via) ==
    /\ ~Busy(t)
    /\ turn' = [turn EXCEPT ![t] = [at |-> "load", msg |-> m, via |-> via, known |-> {}]]

\* load_recent_messages, and memory.recent when there is nothing in the table.
LoadRecent == IF enabled /\ rows # <<>> THEN Newest(rows, RecentRows) ELSE Recent
ReadsStore == ~enabled \/ rows = <<>>

\* Turns in the middle of save_memory, and the messages a write of t mingles with.
Saving(s) == turn[s].at \in {"answer", "ring user", "ring answer"}
Mingled(t) == {Msg(s) : s \in {s \in Turns \ {t} : Saving(s)}}
Tear(t, broken) ==
    torn' = torn \cup Mingled(t) \cup IF broken \/ Mingled(t) # {} THEN {Msg(t)} ELSE {}

\* A Redis error turns Redis off in the middle of what any turn saves.
RedisGivenUp == ReadFails /\ torn' = torn \cup {Msg(s) : s \in {s \in Turns : Saving(s)}}

\* load_memory
Load(t) ==
    /\ At(t, "load")
    /\ turn' = [turn EXCEPT ![t].at = "learn", ![t].known = profile]
    /\ \/ UNCHANGED <<memoryVars, torn>>
       \/ ReadsStore /\ RedisGivenUp
    /\ UNCHANGED <<enabled, profile, stage, rows, learned, overlapped, said>>

\* profile_data || the whole profile derived from what was read.
DerivedMutant(known, m) == {m}
Derived(known, m) == known \cup {m}

\* Turns that have read the profile and not written it.
Deriving(t) == {s \in Turns \ {t} : At(s, "learn")}

\* update_lead_state
Learn(t) ==
    /\ At(t, "learn")
    /\ profile' = Derived(turn[t].known, Msg(t))
    /\ learned' = learned \cup {Msg(t)}
    /\ overlapped' = IF Deriving(t) = {} THEN overlapped ELSE overlapped \cup {Msg(t)}
    /\ Continue(t, "user")
    /\ UNCHANGED <<memoryVars, enabled, stage, rows, torn, said>>

\* save_message for the user: on conflict do nothing.
SaveUser(t) ==
    /\ At(t, "user")
    /\ rows' = IF ~enabled \/ MessageExists(Msg(t)) THEN rows
               ELSE Append(rows, Entry("user", Msg(t)))
    /\ Tear(t, MessageExists(Msg(t)))
    /\ Continue(t, "answer")
    /\ UNCHANGED <<memoryVars, enabled, profile, stage, learned, overlapped, said>>

\* save_message for the assistant, which has no external id.
SaveAnswer(t) ==
    /\ At(t, "answer")
    /\ rows' = IF enabled THEN Append(rows, Entry("assistant", Msg(t))) ELSE rows
    /\ Tear(t, FALSE)
    /\ Continue(t, "ring user")
    /\ UNCHANGED <<memoryVars, enabled, profile, stage, learned, overlapped, said>>

\* memory.add_recent, whose errors only turn Redis off.
AddRecent(t, at, role, next) ==
    /\ At(t, at)
    /\ Continue(t, next)
    /\ said' = Append(said, Entry(role, Msg(t)))
    /\ \/ Add(Entry(role, Msg(t))) /\ Tear(t, FALSE)
       \/ AddFails(Entry(role, Msg(t))) /\ Tear(t, TRUE)
    /\ UNCHANGED <<enabled, profile, stage, rows, learned, overlapped>>

RingUser(t) == AddRecent(t, "ring user", "user", "ring answer")
RingAnswer(t) == AddRecent(t, "ring answer", "assistant", "stage")

\* update_lead_profile at the end of save_memory; the answer is returned.
SaveStage(t) ==
    /\ At(t, "stage")
    /\ stage' = Msg(t)
    /\ Continue(t, "send")
    /\ UNCHANGED <<memoryVars, enabled, profile, rows, learned, overlapped, torn, said>>

\* A call of the turn raises and ends it: the model's before the messages are
\* saved, the database's at any step of its own.
MayRaise(t) == turn[t].at \in {"load", "learn", "user"} \cup IF enabled THEN {"answer", "stage"} ELSE {}
Abandon(t) ==
    /\ MayRaise(t)
    /\ torn' = IF Saving(t) THEN torn \cup {Msg(t)} ELSE torn
    /\ UNCHANGED <<memoryVars, enabled, profile, stage, rows, learned, overlapped, said>>

TurnStep(t) ==
    \/ Load(t) \/ Learn(t) \/ SaveUser(t) \/ SaveAnswer(t)
    \/ RingUser(t) \/ RingAnswer(t) \/ SaveStage(t)

\* The error is another lead's, the knowledge cache's or the configuration's.
OthersGiveUp ==
    /\ RedisGivenUp
    /\ UNCHANGED <<enabled, profile, stage, rows, turn, learned, overlapped, said>>

\* The process dies and a new one starts: without a database the leads are gone.
Restart ==
    /\ NewStore
    /\ turn' = [t \in Turns |-> IdleTurn]
    /\ torn' = torn \cup {Msg(t) : t \in {t \in Turns : Saving(t)}}
    /\ IF enabled THEN UNCHANGED <<profile, stage, learned>>
       ELSE profile' = {} /\ stage' = NoMessage /\ learned' = {}
    /\ UNCHANGED <<enabled, rows, overlapped, said>>
=============================================================================
