-------------------------- MODULE LeadTurnsProofs --------------------------
(***************************************************************************)
(* Proofs about LeadTurns, for every number of turns, messages, threads and   *)
(* clicks, every length of the memory and every bound.                        *)
(***************************************************************************)
EXTENDS LeadTurns, TLAPS, SequenceTheorems, FiniteSetTheorems, FunctionTheorems

-----------------------------------------------------------------------------
(* Types. *)

LEMMA NewestType ==
    ASSUME NEW S, NEW s \in Seq(S), NEW n \in Nat
    PROVE  Newest(s, n) \in Seq(S)
<1>1. CASE Len(s) <= n
    BY <1>1 DEF Newest
<1>2. CASE ~(Len(s) <= n)
    <2>1. Len(s) \in Nat /\ Len(s) - n + 1 \in 1..(Len(s) + 1)
        BY <1>2
    <2> QED
        BY <1>2, <2>1, SubSeqProperties DEF Newest
<1> QED
    BY <1>1, <1>2

LEMMA TrimmedType ==
    ASSUME NEW S, NEW s \in Seq(S), NEW x \in S
    PROVE  Trimmed(Append(s, x)) \in Seq(S)
<1>1. Append(s, x) \in Seq(S)
    OBVIOUS
<1> QED
    BY <1>1, NewestType, MemoryAssumption DEF Trimmed

LEMMA AddTypes ==
    ASSUME MemoryTypeOK, NEW entry \in Entries, Add(entry) \/ AddFails(entry)
    PROVE  MemoryTypeOK'
<1>1. /\ Trimmed(Append(redis, entry)) \in Seq(Entries)
      /\ Append(redis, entry) \in Seq(Entries)
      /\ Trimmed(Append(local, entry)) \in Seq(Entries)
    BY TrimmedType DEF MemoryTypeOK
<1>2. Entries' = Entries
    BY DEF Entries, Entry
<1> QED
    BY <1>1, <1>2 DEF MemoryTypeOK, Add, AddFails, Disabled

LEMMA EntryType ==
    ASSUME NEW m \in Messages
    PROVE  Entry("user", m) \in Entries /\ Entry("assistant", m) \in Entries
BY DEF Entries

\* A busy turn has a message of the lead.
LEMMA BusyTurn ==
    ASSUME TurnTypeOK, NEW t \in Turns, turn[t].at # "idle"
    PROVE  turn[t] \in BusyTurns /\ Msg(t) \in Messages /\ turn[t].at \in Places
<1>1. turn[t] \in BusyTurns
    BY DEF TurnTypeOK, IdleTurns
<1> QED
    BY <1>1 DEF BusyTurns, Msg

LEMMA IdleType == IdleTurn \in IdleTurns
BY DEF IdleTurn, IdleTurns

LEMMA ContinueType ==
    ASSUME TurnTypeOK, NEW t \in Turns, turn[t].at # "idle",
           NEW p \in Places, Continue(t, p)
    PROVE  turn' \in [Turns -> IdleTurns \cup BusyTurns]
<1>1. turn[t] \in BusyTurns
    BY BusyTurn
<1>2. [turn[t] EXCEPT !.at = p] \in BusyTurns
    BY <1>1 DEF BusyTurns
<1>3. turn' = [turn EXCEPT ![t] = [turn[t] EXCEPT !.at = p]]
    BY DEF Continue
<1> QED
    BY <1>2, <1>3 DEF TurnTypeOK

\* Messages the turns are about.
LEMMA MingledType ==
    ASSUME TurnTypeOK, NEW t \in Turns
    PROVE  Mingled(t) \subseteq Messages
BY BusyTurn DEF Mingled, Saving

LEMMA TearType ==
    ASSUME TurnTypeOK, NEW t \in Turns, turn[t].at # "idle", NEW broken \in BOOLEAN,
           Tear(t, broken)
    PROVE  torn' \subseteq Messages
BY BusyTurn, MingledType DEF Tear, TurnTypeOK

\* When Redis goes, everything that is being saved is torn, and nothing else changes.
LEMMA GivenUp ==
    ASSUME TurnTypeOK, RedisGivenUp
    PROVE  /\ torn \subseteq torn' /\ torn' \subseteq Messages
           /\ \A s \in Turns : Saving(s) => turn[s].msg \in torn'
           /\ up /\ ~up' /\ UNCHANGED <<redisUrl, redis, local, split>>
<1>1. torn' = torn \cup {Msg(s) : s \in {s \in Turns : Saving(s)}}
    BY DEF RedisGivenUp
<1>2. \A s \in Turns : Saving(s) => Msg(s) \in Messages
    BY BusyTurn DEF Saving
<1>3. \A s \in Turns : Saving(s) => turn[s].msg \in torn'
    BY <1>1 DEF Msg
<1> QED
    BY <1>1, <1>2, <1>3 DEF RedisGivenUp, ReadFails, TurnTypeOK

LEMMA SameEntries == Entries' = Entries
BY DEF Entries, Entry

LEMMA TurnStepTypes ==
    ASSUME MemoryTypeOK, TurnTypeOK, NEW t \in Turns, TurnStep(t)
    PROVE  MemoryTypeOK' /\ TurnTypeOK'
<1> USE SameEntries
<1>0. turn[t].at # "idle"
    BY DEF TurnStep, Load, Learn, SaveUser, SaveAnswer, RingUser, RingAnswer, AddRecent, SaveStage, At
<1>m. Msg(t) \in Messages /\ turn[t] \in BusyTurns
    BY <1>0, BusyTurn
<1>e. Entry("user", Msg(t)) \in Entries /\ Entry("assistant", Msg(t)) \in Entries
    BY <1>m, EntryType
<1>1. CASE Load(t)
    <2>1. MemoryTypeOK'
        BY <1>1 DEF Load, MemoryTypeOK, memoryVars, RedisGivenUp, ReadFails
    <2>2. [turn[t] EXCEPT !.at = "learn", !.known = profile] \in BusyTurns
        BY <1>m DEF BusyTurns, Places, TurnTypeOK
    <2>3. turn' = [turn EXCEPT ![t] = [turn[t] EXCEPT !.at = "learn", !.known = profile]]
        BY <1>1 DEF Load
    <2>4. turn' \in [Turns -> IdleTurns \cup BusyTurns]
        BY <2>2, <2>3 DEF TurnTypeOK
    <2>5. torn' \subseteq Messages
        BY <1>1, GivenUp DEF Load, TurnTypeOK
    <2> QED
        BY <1>1, <2>1, <2>4, <2>5 DEF Load, TurnTypeOK
<1>2. CASE Learn(t)
    <2>1. turn' \in [Turns -> IdleTurns \cup BusyTurns]
        BY <1>0, <1>2, ContinueType DEF Learn, Places
    <2>2. turn[t].known \subseteq Messages
        BY <1>m DEF BusyTurns
    <2> QED
        BY <1>2, <1>m, <2>1, <2>2 DEF Learn, Derived, TurnTypeOK, MemoryTypeOK, memoryVars
<1>3. CASE SaveUser(t)
    <2>1. turn' \in [Turns -> IdleTurns \cup BusyTurns]
        BY <1>0, <1>3, ContinueType DEF SaveUser, Places
    <2>2. torn' \subseteq Messages
        BY <1>0, <1>3, TearType DEF SaveUser, MessageExists, TurnTypeOK
    <2>3. rows' \in Seq(Entries)
        BY <1>3, <1>e DEF SaveUser, TurnTypeOK
    <2> QED
        BY <1>3, <2>1, <2>2, <2>3 DEF SaveUser, TurnTypeOK, MemoryTypeOK, memoryVars
<1>4. CASE SaveAnswer(t)
    <2>1. turn' \in [Turns -> IdleTurns \cup BusyTurns]
        BY <1>0, <1>4, ContinueType DEF SaveAnswer, Places
    <2>0. Tear(t, FALSE) /\ FALSE \in BOOLEAN
        BY <1>4 DEF SaveAnswer
    <2>2. torn' \subseteq Messages
        BY <1>m, <2>0, MingledType DEF Tear, TurnTypeOK
    <2>3. rows' = rows \/ rows' = Append(rows, Entry("assistant", Msg(t)))
        BY <1>4 DEF SaveAnswer
    <2>4. rows' \in Seq(Entries)
        BY <1>e, <2>3 DEF TurnTypeOK
    <2> QED
        BY <1>4, <2>1, <2>2, <2>4 DEF SaveAnswer, TurnTypeOK, MemoryTypeOK, memoryVars
<1>5. ASSUME NEW at, NEW role \in {"user", "assistant"}, NEW next \in Places,
             at # "idle", AddRecent(t, at, role, next)
      PROVE  MemoryTypeOK' /\ TurnTypeOK'
    <2>1. turn' \in [Turns -> IdleTurns \cup BusyTurns]
        BY <1>0, <1>5, ContinueType DEF AddRecent
    <2>2. torn' \subseteq Messages
        BY <1>0, <1>5, TearType DEF AddRecent
    <2>e. Entry(role, Msg(t)) \in Entries
        BY <1>e
    <2>3. said' \in Seq(Entries)
        BY <1>5, <2>e DEF AddRecent, TurnTypeOK
    <2>4. MemoryTypeOK'
        BY <1>5, <2>e, AddTypes DEF AddRecent
    <2> QED
        BY <1>5, <2>1, <2>2, <2>3, <2>4 DEF AddRecent, TurnTypeOK
<1>6. CASE RingUser(t)
    BY <1>5, <1>6 DEF RingUser, Places
<1>7. CASE RingAnswer(t)
    BY <1>5, <1>7 DEF RingAnswer, Places
<1>8. CASE SaveStage(t)
    <2>1. turn' \in [Turns -> IdleTurns \cup BusyTurns]
        BY <1>0, <1>8, ContinueType DEF SaveStage, Places
    <2> QED
        BY <1>8, <1>m, <2>1 DEF SaveStage, TurnTypeOK, MemoryTypeOK, memoryVars
<1> QED
    BY <1>1, <1>2, <1>3, <1>4, <1>6, <1>7, <1>8 DEF TurnStep

LEMMA OrderType == EventNames # {} /\ \A e \in EventNames : e # "none"
BY ConversionAssumption DEF EventNames

\* What a thread is at each of its steps.
LEMMA ThreadTypes ==
    ASSUME ConversionTypeOK, NEW h \in Threads
    PROVE  /\ thread[h] \in Reading \cup Creating \cup Sending
           /\ thread[h].at \in {"idle", "store", "lookup"} => thread[h] \in Reading
           /\ thread[h].at = "create" => thread[h] \in Creating
           /\ thread[h].at \in {"send", "mark", "fail"}
                => thread[h] \in Sending /\ Current(h) \in EventNames
<1>1. thread[h] \in Reading \cup Creating \cup Sending
    BY DEF ConversionTypeOK
<1>2. \A x \in Reading : x.at \in {"idle", "store", "lookup"}
    BY DEF Reading
<1>3. \A x \in Creating : x.at = "create"
    BY DEF Creating
<1>4. \A x \in Sending : x.at \in {"send", "mark", "fail"} /\ x.now \in EventNames
    BY DEF Sending
<1> QED
    BY <1>1, <1>2, <1>3, <1>4 DEF Current

LEMMA ThreadUpdate ==
    ASSUME ConversionTypeOK, NEW h \in Threads,
           NEW x \in Reading \cup Creating \cup Sending,
           thread' = [thread EXCEPT ![h] = x]
    PROVE  thread' \in [Threads -> Reading \cup Creating \cup Sending]
BY DEF ConversionTypeOK

LEMMA EndType ==
    ASSUME ConversionTypeOK, NEW h \in Threads, End(h)
    PROVE  thread' \in [Threads -> Reading \cup Creating \cup Sending]
<1>1. IdleThread \in Reading
    BY DEF IdleThread, Reading, Latest
<1> QED
    BY <1>1, ThreadUpdate DEF End

LEMMA AfterStoreType ==
    ASSUME ConversionTypeOK, NEW h \in Threads, Thread(h, "store"), AfterStore(h)
    PROVE  thread' \in [Threads -> Reading \cup Creating \cup Sending]
<1>1. thread[h] \in Reading
    BY ThreadTypes DEF Thread
<1>2. [thread[h] EXCEPT !.at = "lookup"] \in Reading
    BY <1>1 DEF Reading
<1>3. CASE configured
    BY <1>2, <1>3, ThreadUpdate DEF AfterStore, Step
<1>4. CASE ~configured
    BY <1>4, EndType DEF AfterStore
<1> QED
    BY <1>3, <1>4

LEMMA SendingStepType ==
    ASSUME ConversionTypeOK, NEW h \in Threads, thread[h].at \in {"send", "mark", "fail"},
           NEW at \in {"send", "mark", "fail"}, Step(h, at)
    PROVE  thread' \in [Threads -> Reading \cup Creating \cup Sending]
<1>1. thread[h] \in Sending
    BY ThreadTypes
<1>2. [thread[h] EXCEPT !.at = at] \in Sending
    BY <1>1 DEF Sending
<1> QED
    BY <1>2, ThreadUpdate DEF Step

LEMMA NextEventType ==
    ASSUME ConversionTypeOK, NEW h \in Threads, thread[h].at \in {"send", "mark", "fail"},
           NextEvent(h)
    PROVE  thread' \in [Threads -> Reading \cup Creating \cup Sending]
<1>1. thread[h] \in Sending
    BY ThreadTypes
<1> DEFINE x == [thread[h] EXCEPT !.at = "create"]
           y == [x EXCEPT !.now = "none"]
<1>2. x \in [at : {"create"}, latest : Latest, clid : Clicks, todo : SUBSET EventNames,
             now : EventNames]
    BY <1>1 DEF Sending
<1>3. y \in Creating
    BY <1>2 DEF Creating
<1>4. thread' = [thread EXCEPT ![h] = y]
    BY DEF NextEvent
<1> QED
    BY <1>3, <1>4, ThreadUpdate

LEMMA ConversionStepTypes ==
    ASSUME ConversionTypeOK, NEW h \in Threads, ConversionStep(h)
    PROVE  ConversionTypeOK'
<1> DEFINE States == [Threads -> Reading \cup Creating \cup Sending]
<1>c. /\ Reading' = Reading /\ Creating' = Creating /\ Sending' = Sending
      /\ Latest' = Latest /\ EventNames' = EventNames
    BY DEF Reading, Creating, Sending, Latest, EventNames
<1>1. CASE Store(h)
    <2>1. thread' \in States
        BY <1>1, AfterStoreType DEF Store
    <2>2. thread[h].latest \in Latest
        BY <1>1, ThreadTypes DEF Store, Thread, Reading
    <2> QED
        BY <1>1, <1>c, <2>1, <2>2 DEF Store, FirstTouch, ConversionTypeOK
<1>2. CASE StoreFails(h)
    <2>1. thread' \in States
        BY <1>2, AfterStoreType DEF StoreFails
    <2>2. thread[h].latest \in Latest
        BY <1>2, ThreadTypes DEF StoreFails, Thread, Reading
    <2> QED
        BY <1>2, <1>c, <2>1, <2>2 DEF StoreFails, ConversionTypeOK, Latest
<1>3. CASE Lookup(h)
    <2>1. thread[h] \in Reading /\ Clid(h) \in Latest
        BY <1>3, ThreadTypes DEF Lookup, Thread, Reading, Clid, ConversionTypeOK
    <2>2. CASE Clid(h) = NoClick
        BY <1>3, <1>c, <2>2, EndType DEF Lookup, ConversionTypeOK
    <2>3. CASE Clid(h) # NoClick
        <3>1. [thread[h] EXCEPT !.at = "create", !.clid = Clid(h)] \in Creating
            BY <2>1, <2>3 DEF Reading, Creating, Latest
        <3>2. thread' = [thread EXCEPT ![h] = [thread[h] EXCEPT !.at = "create", !.clid = Clid(h)]]
            BY <1>3, <2>3 DEF Lookup
        <3>3. thread' \in States
            BY <3>1, <3>2, ThreadUpdate
        <3> QED
            BY <1>3, <1>c, <3>3 DEF Lookup, ConversionTypeOK
    <2> QED
        BY <2>2, <2>3
<1>4. CASE LookupFails(h)
    BY <1>4, <1>c, EndType DEF LookupFails, ConversionTypeOK
<1>5. ASSUME NEW e \in EventNames, Create(h, e)
      PROVE  ConversionTypeOK'
    <2>1. thread[h] \in Creating
        BY <1>5, ThreadTypes DEF Create, Upcoming, Thread
    <2>2. [thread[h] EXCEPT !.at = "send", !.todo = @ \ {e}, !.now = e] \in Sending
        BY <2>1 DEF Creating, Sending
    <2>3. thread' = [thread EXCEPT ![h] = [thread[h] EXCEPT !.at = "send", !.todo = @ \ {e}, !.now = e]]
        BY <1>5 DEF Create
    <2>4. thread' \in States
        BY <2>2, <2>3, ThreadUpdate
    <2>5. thread[h].clid \in Latest
        BY <2>1 DEF Creating, Latest
    <2> QED
        BY <1>5, <1>c, <2>4, <2>5 DEF Create, ConversionTypeOK
<1>6. ASSUME NEW e \in EventNames, PassOver(h, e)
      PROVE  ConversionTypeOK'
    <2>1. thread[h] \in Creating
        BY <1>6, ThreadTypes DEF PassOver, Upcoming, Thread
    <2>2. [thread[h] EXCEPT !.todo = @ \ {e}] \in Creating
        BY <2>1 DEF Creating
    <2>3. thread' = [thread EXCEPT ![h] = [thread[h] EXCEPT !.todo = @ \ {e}]]
        BY <1>6 DEF PassOver
    <2>4. thread' \in States
        BY <2>2, <2>3, ThreadUpdate
    <2> QED
        BY <1>6, <1>c, <2>4 DEF PassOver, ConversionTypeOK
<1>7. CASE Finish(h)
    BY <1>7, <1>c, EndType DEF Finish, ConversionTypeOK
<1>8. CASE Post(h)
    <2>1. Current(h) \in EventNames
        BY <1>8, ThreadTypes DEF Post, Thread
    <2>2. thread' \in States
        BY <1>8, SendingStepType DEF Post, Thread
    <2> QED
        BY <1>8, <1>c, <2>1, <2>2 DEF Post, ConversionTypeOK
<1>9. CASE Raise(h)
    <2>2. thread' \in States
        BY <1>9, SendingStepType DEF Raise
    <2> QED
        BY <1>9, <1>c, <2>2 DEF Raise, ConversionTypeOK
<1>10. ASSUME NEW at \in {"mark", "fail"}, NEW status \in {"none", "pending", "sent", "failed"},
              Mark(h, at, status)
       PROVE  ConversionTypeOK'
    <2>1. Current(h) \in EventNames
        BY <1>10, ThreadTypes DEF Mark, Thread
    <2>2. thread' \in States
        BY <1>10, NextEventType DEF Mark, Thread
    <2> QED
        BY <1>10, <1>c, <2>1, <2>2 DEF Mark, ConversionTypeOK
<1>11. CASE MarkSent(h)
    BY <1>10, <1>11 DEF MarkSent
<1>12. CASE MarkFailed(h)
    BY <1>10, <1>12 DEF MarkFailed
<1>13. CASE MarkingFails(h)
    <2>1. Current(h) \in EventNames
        BY <1>13, ThreadTypes DEF MarkingFails, Mark, Thread
    <2>2. event[Current(h)] \in {"none", "pending", "sent", "failed"}
        BY <2>1 DEF ConversionTypeOK
    <2> QED
        BY <1>10, <1>13, <2>2 DEF MarkingFails
<1> QED
    BY <1>1, <1>2, <1>3, <1>4, <1>5, <1>6, <1>7, <1>8, <1>9, <1>11, <1>12, <1>13
    DEF ConversionStep

LEMMA SameConstants ==
    /\ Reading' = Reading /\ Creating' = Creating /\ Sending' = Sending
    /\ Latest' = Latest /\ EventNames' = EventNames
    /\ IdleTurns' = IdleTurns /\ BusyTurns' = BusyTurns
BY DEF Reading, Creating, Sending, Latest, EventNames, IdleTurns, BusyTurns, Places

\* Nothing of a component changes.
LEMMA SameTypes ==
    /\ MemoryTypeOK /\ UNCHANGED memoryVars => MemoryTypeOK'
    /\ TurnTypeOK /\ UNCHANGED turnVars => TurnTypeOK'
    /\ ConversionTypeOK /\ UNCHANGED conversionVars => ConversionTypeOK'
    /\ CallTypeOK /\ UNCHANGED callVars => CallTypeOK'
BY SameConstants, SameEntries
DEF MemoryTypeOK, memoryVars, TurnTypeOK, turnVars, ConversionTypeOK, conversionVars,
    CallTypeOK, callVars

LEMMA BeginType ==
    ASSUME TurnTypeOK, NEW t \in Turns, NEW m \in Messages,
           NEW via \in {"webhook", "worker", "chat"}, Begin(t, m, via)
    PROVE  turn' \in [Turns -> IdleTurns \cup BusyTurns]
<1>1. [at |-> "load", msg |-> m, via |-> via, known |-> {}] \in BusyTurns
    BY DEF BusyTurns, Places
<1> QED
    BY <1>1 DEF Begin, TurnTypeOK

LEMMA EndTurnType ==
    ASSUME TurnTypeOK, NEW t \in Turns, EndTurn(t)
    PROVE  turn' \in [Turns -> IdleTurns \cup BusyTurns]
BY IdleType DEF EndTurn, TurnTypeOK

LEMMA ReleaseType ==
    ASSUME CallTypeOK, NEW t, Release(t)
    PROVE  lock' \in BOOLEAN
BY DEF Release, CallTypeOK

LEMMA ScheduleType ==
    ASSUME ConversionTypeOK, NEW h \in Threads, NEW latest \in Latest,
           NEW names \in Applicable, Schedule(h, latest, names)
    PROVE  ConversionTypeOK'
<1>1. [at |-> "store", latest |-> latest, clid |-> NoClick, todo |-> names, now |-> "none"]
        \in Reading
    BY DEF Reading, Applicable
<1>2. thread' \in [Threads -> Reading \cup Creating \cup Sending]
    BY <1>1, ThreadUpdate DEF Schedule
<1> QED
    BY <1>2, SameConstants DEF Schedule, ConversionTypeOK

LEMMA ClickType ==
    ASSUME NEW m \in Messages
    PROVE  Click[m] \in Latest
BY LeadAssumption DEF Latest

LEMMA InitTypes == Init => TypeOK
<1> SUFFICES ASSUME Init PROVE TypeOK
    OBVIOUS
<1>1. MemoryTypeOK
    <2>1. redis \in Seq(Entries) /\ local \in Seq(Entries)
        BY DEF Init, TurnInit, MemoryInit
    <2>2. redisUrl \in BOOLEAN /\ up \in BOOLEAN /\ split \in BOOLEAN
        BY Zenon DEF Init, TurnInit, MemoryInit
    <2> QED
        BY <2>1, <2>2 DEF MemoryTypeOK
<1>2. TurnTypeOK
    BY IdleType DEF Init, TurnInit, TurnTypeOK
<1>3. ConversionTypeOK
    <2>1. IdleThread \in Reading
        BY DEF IdleThread, Reading, Latest
    <2>2. EventNames \subseteq EventNames /\ NoClick \in Latest
        BY DEF Latest
    <2> QED
        BY <2>1, <2>2 DEF Init, ConversionInit, ConversionTypeOK
<1>4. CallTypeOK
    <2>1. lock \in BOOLEAN /\ outside \in BOOLEAN /\ queued \in BOOLEAN
        BY Zenon DEF Init
    <2>2. 0 \in 0..MaxLosses /\ 0 \in 0..MaxDeliveries /\ 0 \in Nat
        BY LeadAssumption
    <2> QED
        BY <2>1, <2>2 DEF Init, CallTypeOK
<1> QED
    BY <1>1, <1>2, <1>3, <1>4 DEF TypeOK

LEMMA StepTypes == TypeOK /\ [Next]_vars => TypeOK'
<1> SUFFICES ASSUME TypeOK, [Next]_vars PROVE TypeOK'
    OBVIOUS
<1>0. MemoryTypeOK /\ TurnTypeOK /\ ConversionTypeOK /\ CallTypeOK
    BY DEF TypeOK
<1> USE <1>0, SameConstants, SameEntries
<1> DEFINE Turning == [Turns -> IdleTurns \cup BusyTurns]
<1>1. ASSUME NEW t \in Turns, AgentStep(t) PROVE TypeOK'
    BY <1>1, TurnStepTypes, SameTypes DEF AgentStep, TypeOK
<1>2. ASSUME NEW t \in Turns, Send(t) PROVE TypeOK'
    <2>1. Msg(t) \in Messages
        BY <1>2, BusyTurn DEF Send, At
    <2>2. turn' \in Turning /\ lock' \in BOOLEAN
        BY <1>2, EndTurnType, ReleaseType DEF Send, EndTurn
    <2>3. ConversionTypeOK'
        BY <1>2, <2>1, ClickType, ScheduleType DEF Send
    <2>4. MemoryTypeOK'
        BY <1>2, SameTypes DEF Send
    <2>5. TurnTypeOK'
        BY <1>2, <2>2 DEF Send, TurnTypeOK
    <2>6. CallTypeOK'
        BY <1>2, <2>1, <2>2 DEF Send, CallTypeOK
    <2> QED
        BY <2>3, <2>4, <2>5, <2>6 DEF TypeOK
<1>3. ASSUME NEW t \in Turns, SendRaises(t) PROVE TypeOK'
    <2>1. Msg(t) \in Messages
        BY <1>3, BusyTurn DEF SendRaises, At
    <2>2. turn' \in Turning /\ lock' \in BOOLEAN
        BY <1>3, EndTurnType, ReleaseType DEF SendRaises, EndTurn
    <2>5. TurnTypeOK'
        BY <1>3, <2>2 DEF SendRaises, TurnTypeOK
    <2>6. CallTypeOK'
        BY <1>3, <2>1, <2>2 DEF SendRaises, CallTypeOK
    <2> QED
        BY <1>3, <2>5, <2>6, SameTypes DEF SendRaises, TypeOK
<1>4. ASSUME NEW t \in Turns, Reply(t) PROVE TypeOK'
    <2>2. turn' \in Turning /\ lock' \in BOOLEAN
        BY <1>4, EndTurnType, ReleaseType DEF Reply, EndTurn
    <2>5. TurnTypeOK'
        BY <1>4, <2>2 DEF Reply, TurnTypeOK
    <2>6. CallTypeOK'
        BY <1>4, <2>2 DEF Reply, CallTypeOK
    <2> QED
        BY <1>4, <2>5, <2>6, SameTypes DEF Reply, TypeOK
<1>5. ASSUME NEW t \in Turns, TurnFails(t) PROVE TypeOK'
    <2>1. Msg(t) \in Messages
        BY <1>5, BusyTurn DEF TurnFails, Abandon, MayRaise
    <2>2. turn' \in Turning /\ lock' \in BOOLEAN
        BY <1>5, EndTurnType, ReleaseType DEF TurnFails, EndTurn
    <2>5. TurnTypeOK'
        BY <1>5, <2>1, <2>2 DEF TurnFails, Abandon, TurnTypeOK
    <2>6. CallTypeOK'
        BY <1>5, <2>1, <2>2 DEF TurnFails, CallTypeOK
    <2> QED
        BY <1>5, <2>5, <2>6, SameTypes DEF TurnFails, Abandon, TypeOK
<1>6. ASSUME NEW t \in Turns, NEW m \in Messages, Process(t, m) PROVE TypeOK'
    <2>2. turn' \in Turning
        BY <1>6, BeginType DEF Process
    <2>5. TurnTypeOK'
        BY <1>6, <2>2 DEF Process, TurnTypeOK
    <2>6. CallTypeOK'
        BY <1>6, LeadAssumption DEF Process, Deliver, CallTypeOK
    <2> QED
        BY <1>6, <2>5, <2>6, SameTypes DEF Process, TypeOK
<1>7. ASSUME NEW t \in Turns, NEW m \in Messages, Take(t, m) PROVE TypeOK'
    <2>2. turn' \in Turning
        BY <1>7, BeginType DEF Take
    <2>5. TurnTypeOK'
        BY <1>7, <2>2 DEF Take, TurnTypeOK
    <2>3. 1 \in 0..MaxDeliveries
        BY LeadAssumption
    <2>4. lock' \in BOOLEAN /\ outside' \in BOOLEAN
        BY <1>7, Zenon DEF Take, CallTypeOK
    <2>6. CallTypeOK'
        BY <1>7, <2>3, <2>4 DEF Take, CallTypeOK
    <2> QED
        BY <1>7, <2>5, <2>6, SameTypes DEF Take, TypeOK
<1>8. ASSUME NEW t \in Turns, NEW m \in Messages, Chat(t, m) PROVE TypeOK'
    <2>2. turn' \in Turning
        BY <1>8, BeginType DEF Chat
    <2>5. TurnTypeOK'
        BY <1>8, <2>2 DEF Chat, TurnTypeOK
    <2>3. 1 \in 0..MaxDeliveries
        BY LeadAssumption
    <2>4. lock' \in BOOLEAN /\ outside' \in BOOLEAN
        BY <1>8, Zenon DEF Chat, CallTypeOK
    <2>6. CallTypeOK'
        BY <1>8, <2>3, <2>4 DEF Chat, CallTypeOK
    <2> QED
        BY <1>8, <2>5, <2>6, SameTypes DEF Chat, TypeOK
<1>9. ASSUME NEW m \in Messages, Duplicate(m) PROVE TypeOK'
    <2>6. CallTypeOK'
        BY <1>9, LeadAssumption DEF Duplicate, Deliver, CallTypeOK
    <2> QED
        BY <1>9, <2>6, SameTypes DEF Duplicate, turnVars, TypeOK
<1>10. ASSUME NEW h \in Threads, EventStep(h) PROVE TypeOK'
    BY <1>10, ConversionStepTypes, SameTypes DEF EventStep, turnVars, TypeOK
<1>11. CASE LoseLock
    <2>1. losses' \in 0..MaxLosses
        BY <1>11, LeadAssumption DEF LoseLock, CallTypeOK
    <2>2. lock' \in BOOLEAN
        BY <1>11, Zenon DEF LoseLock
    <2>6. CallTypeOK'
        BY <1>11, <2>1, <2>2 DEF LoseLock, CallTypeOK
    <2> QED
        BY <1>11, <2>6, SameTypes DEF LoseLock, turnVars, TypeOK
<1>12. CASE ExpireLock
    <2>6. CallTypeOK'
        BY <1>12 DEF ExpireLock, CallTypeOK
    <2> QED
        BY <1>12, <2>6, SameTypes DEF ExpireLock, turnVars, TypeOK
<1>13. CASE Crash
    <2>1. \A t \in Turns : Busy(t) \/ Saving(t) => Msg(t) \in Messages
        BY BusyTurn DEF Busy, Saving
    <2>2. MemoryTypeOK'
        BY <1>13 DEF Crash, Restart, NewStore, MemoryTypeOK
    <2>3. TurnTypeOK'
        <3>1. turn' \in Turning
            BY <1>13, IdleType DEF Crash, Restart
        <3> QED
            BY <1>13, <2>1, <3>1 DEF Crash, Restart, TurnTypeOK
    <2>4. ConversionTypeOK'
        <3>1. IdleThread \in Reading
            BY DEF IdleThread, Reading, Latest
        <3> QED
            BY <1>13, <3>1 DEF Crash, KillConversions, ConversionTypeOK
    <2>5. CallTypeOK'
        BY <1>13, <2>1 DEF Crash, CallTypeOK
    <2> QED
        BY <2>2, <2>3, <2>4, <2>5 DEF TypeOK
<1>14. CASE ExpireMemory
    <2>1. MemoryTypeOK'
        BY <1>14 DEF ExpireMemory, Expire, MemoryTypeOK
    <2>2. TurnTypeOK'
        BY <1>14 DEF ExpireMemory, TurnTypeOK
    <2> QED
        BY <1>14, <2>1, <2>2, SameTypes DEF ExpireMemory, TypeOK
<1>15. CASE UNCHANGED vars
    BY <1>15, SameTypes DEF vars, turnVars, TypeOK
<1>16. CASE LoseRedis
    <2>1. MemoryTypeOK'
        BY <1>16, SameEntries DEF LoseRedis, OthersGiveUp, RedisGivenUp, ReadFails, MemoryTypeOK
    <2>2. torn' \subseteq Messages
        BY <1>16, GivenUp DEF LoseRedis, OthersGiveUp
    <2>3. TurnTypeOK'
        BY <1>16, <2>2, SameEntries, SameConstants DEF LoseRedis, OthersGiveUp, TurnTypeOK
    <2> QED
        BY <1>16, <2>1, <2>3, SameTypes DEF LoseRedis, TypeOK
<1> QED
    BY <1>1, <1>2, <1>3, <1>4, <1>5, <1>6, <1>7, <1>8, <1>9, <1>10, <1>11, <1>12, <1>13,
       <1>14, <1>15, <1>16 DEF Next

\* Every variable of the turns, the memory store, the events and the callers
\* keeps its type (agent/graph.py, memory/store.py, meta/conversions.py).
THEOREM TypesAreKept == Spec => []TypeOK
<1>1. Init => TypeOK
    BY InitTypes
<1>2. TypeOK /\ [Next]_vars => TypeOK'
    BY StepTypes
<1> QED
    BY <1>1, <1>2, PTL DEF Spec

-----------------------------------------------------------------------------
(* Locks.  Each action leaves the turns under the lock as they are, adds one    *)
(* while it takes the lock, or takes one away while it may free the lock.         *)

Workers == Under("worker")

LEMMA WorkersFinite == IsFiniteSet(Workers) /\ Cardinality(Workers) \in Nat
<1>1. Workers \in SUBSET Turns
    BY DEF Workers, Under
<1> QED
    BY <1>1, LeadAssumption, FS_Subset, FS_CardinalityType

\* A step of a turn that goes on: it stays busy, and under the lock it is under.
LEMMA TurnGoesOn ==
    ASSUME TurnTypeOK, NEW t \in Turns, TurnStep(t)
    PROVE  /\ turn[t].at # "idle" /\ turn'[t].at # "idle"
           /\ turn'[t].via = turn[t].via /\ turn'[t].msg = turn[t].msg
           /\ \A s \in Turns \ {t} : turn'[s] = turn[s]
<1>1. turn[t].at # "idle"
    BY DEF TurnStep, Load, Learn, SaveUser, SaveAnswer, RingUser, RingAnswer, AddRecent, SaveStage, At
<1>2. turn[t] \in BusyTurns
    BY <1>1, BusyTurn
<1>3. ASSUME NEW p \in Places, Continue(t, p)
      PROVE  /\ turn'[t].at # "idle"
             /\ turn'[t].via = turn[t].via /\ turn'[t].msg = turn[t].msg
             /\ \A s \in Turns \ {t} : turn'[s] = turn[s]
    BY <1>2, <1>3 DEF Continue, TurnTypeOK, BusyTurns, Places
<1>4. CASE Load(t)
    <2>1. turn'[t] = [turn[t] EXCEPT !.at = "learn", !.known = profile]
        BY <1>4 DEF Load, TurnTypeOK
    <2>2. \A s \in Turns \ {t} : turn'[s] = turn[s]
        BY <1>4 DEF Load, TurnTypeOK
    <2> QED
        BY <1>1, <1>2, <2>1, <2>2 DEF BusyTurns
<1>5. CASE Learn(t)
    BY <1>1, <1>3, <1>5 DEF Learn, Places
<1>6. CASE SaveUser(t)
    BY <1>1, <1>3, <1>6 DEF SaveUser, Places
<1>7. CASE SaveAnswer(t)
    BY <1>1, <1>3, <1>7 DEF SaveAnswer, Places
<1>8. CASE RingUser(t)
    BY <1>1, <1>3, <1>8 DEF RingUser, AddRecent, Places
<1>9. CASE RingAnswer(t)
    BY <1>1, <1>3, <1>9 DEF RingAnswer, AddRecent, Places
<1>10. CASE SaveStage(t)
    BY <1>1, <1>3, <1>10 DEF SaveStage, Places
<1> QED
    BY <1>4, <1>5, <1>6, <1>7, <1>8, <1>9, <1>10 DEF TurnStep

LEMMA EndedTurn ==
    ASSUME TurnTypeOK, NEW t \in Turns, EndTurn(t)
    PROVE  /\ turn'[t] = IdleTurn /\ turn'[t].at = "idle"
           /\ \A s \in Turns \ {t} : turn'[s] = turn[s]
           /\ Workers' = Workers \ {t}
<1>1. /\ turn'[t] = IdleTurn /\ turn'[t].at = "idle"
      /\ \A s \in Turns \ {t} : turn'[s] = turn[s]
    BY DEF EndTurn, TurnTypeOK, IdleTurn
<1> QED
    BY <1>1 DEF Workers, Under

LEMMA BegunTurn ==
    ASSUME TurnTypeOK, NEW t \in Turns, NEW m, NEW via, Begin(t, m, via)
    PROVE  /\ turn[t].at = "idle" /\ t \notin Workers
           /\ turn'[t].at = "load" /\ turn'[t].msg = m /\ turn'[t].via = via
           /\ \A s \in Turns \ {t} : turn'[s] = turn[s]
           /\ via = "worker" => Workers' = Workers \cup {t}
           /\ via # "worker" => Workers' = Workers
<1>1. /\ turn[t].at = "idle" /\ t \notin Workers
      /\ turn'[t].at = "load" /\ turn'[t].msg = m /\ turn'[t].via = via
      /\ \A s \in Turns \ {t} : turn'[s] = turn[s]
    BY DEF Begin, Busy, TurnTypeOK, Workers, Under
<1> QED
    BY <1>1 DEF Workers, Under

LEMMA SameWorkers == UNCHANGED turn => Workers' = Workers
BY DEF Workers, Under

LEMMA EndKeepsBound ==
    ASSUME TypeOK, OverlapPaid, NEW t \in Turns, turn[t].at # "idle", EndTurn(t),
           UNCHANGED losses
    PROVE  OverlapPaid'
<1>0. TurnTypeOK /\ losses \in Nat
    BY LeadAssumption DEF TypeOK, CallTypeOK
<1>1. Workers' = Workers \ {t}
    BY <1>0, EndedTurn
<1>2. IsFiniteSet(Workers) /\ Cardinality(Workers) \in Nat
    BY WorkersFinite
<1>3. Cardinality(Workers) <= losses + IF lock THEN 1 ELSE 0
    BY DEF OverlapPaid, Workers
<1>4. CASE turn[t].via = "worker"
    <2>1. t \in Workers /\ ~lock'
        BY <1>4 DEF Workers, Under, EndTurn, Release
    <2>2. Cardinality(Workers') = Cardinality(Workers) - 1
        BY <1>1, <1>2, <2>1, FS_RemoveElement
    <2> QED
        BY <1>0, <1>2, <1>3, <2>1, <2>2 DEF OverlapPaid, Workers
<1>5. CASE turn[t].via # "worker"
    <2>1. Workers' = Workers /\ lock' = lock
        BY <1>1, <1>5 DEF Workers, Under, EndTurn, Release
    <2> QED
        BY <1>3, <2>1 DEF OverlapPaid, Workers
<1> QED
    BY <1>4, <1>5

LEMMA OverlapStep == TypeOK /\ OverlapPaid /\ [Next]_vars => OverlapPaid'
<1> SUFFICES ASSUME TypeOK, OverlapPaid, [Next]_vars PROVE OverlapPaid'
    OBVIOUS
<1>0. TurnTypeOK /\ losses \in Nat
    BY LeadAssumption DEF TypeOK, CallTypeOK
<1>b. Cardinality(Workers) <= losses + IF lock THEN 1 ELSE 0
    BY DEF OverlapPaid, Workers
<1>f. IsFiniteSet(Workers) /\ Cardinality(Workers) \in Nat
    BY WorkersFinite
<1>s. Workers' = Workers /\ UNCHANGED <<lock, losses>> => OverlapPaid'
    BY <1>b DEF OverlapPaid, Workers
<1>1. ASSUME NEW t \in Turns, AgentStep(t) PROVE OverlapPaid'
    <2>1. Workers' = Workers
        BY <1>0, <1>1, TurnGoesOn DEF AgentStep, Workers, Under
    <2> QED
        BY <1>1, <1>s, <2>1 DEF AgentStep, callVars
<1>2. ASSUME NEW t \in Turns, Send(t) \/ SendRaises(t) \/ Reply(t) \/ TurnFails(t)
      PROVE  OverlapPaid'
    BY <1>2, EndKeepsBound DEF Send, SendRaises, Reply, TurnFails, Abandon, MayRaise, At
<1>3. ASSUME NEW t \in Turns, NEW m \in Messages, Process(t, m) \/ Chat(t, m)
      PROVE  OverlapPaid'
    BY <1>0, <1>3, <1>s, BegunTurn DEF Process, Chat
<1>4. ASSUME NEW t \in Turns, NEW m \in Messages, Take(t, m) PROVE OverlapPaid'
    <2>1. Workers' = Workers \cup {t} /\ t \notin Workers
        BY <1>0, <1>4, BegunTurn DEF Take
    <2>2. Cardinality(Workers') = Cardinality(Workers) + 1
        BY <1>f, <2>1, FS_AddElement
    <2>3. ~lock /\ lock' /\ losses' = losses
        BY <1>4 DEF Take, MayLock
    <2> QED
        BY <1>0, <1>b, <1>f, <2>2, <2>3 DEF OverlapPaid, Workers
<1>5. CASE LoseLock
    <2>1. Workers' = Workers
        BY <1>5, SameWorkers DEF LoseLock, turnVars
    <2>2. lock /\ ~lock' /\ losses' = losses + 1
        BY <1>5 DEF LoseLock
    <2> QED
        BY <1>0, <1>b, <1>f, <2>1, <2>2 DEF OverlapPaid, Workers
<1>6. CASE ExpireLock
    <2>1. Workers' = Workers /\ Workers = {}
        BY <1>6, SameWorkers DEF ExpireLock, turnVars, Workers
    <2>2. Cardinality(Workers') = 0 /\ losses' = losses
        BY <1>6, <2>1, FS_EmptySet DEF ExpireLock
    <2> QED
        BY <1>0, <2>2 DEF OverlapPaid, Workers
<1>7. CASE Crash
    <2>1. Workers' = {}
        BY <1>7 DEF Crash, Restart, Workers, Under, IdleTurn
    <2>2. Cardinality(Workers') = 0 /\ losses' = losses
        BY <1>7, <2>1, FS_EmptySet DEF Crash
    <2> QED
        BY <1>0, <2>2 DEF OverlapPaid, Workers
<1>8. ASSUME NEW m \in Messages, Duplicate(m) PROVE OverlapPaid'
    BY <1>8, <1>s, SameWorkers DEF Duplicate, turnVars
<1>9. ASSUME NEW h \in Threads, EventStep(h) PROVE OverlapPaid'
    BY <1>9, <1>s, SameWorkers DEF EventStep, turnVars, callVars
<1>10. CASE ExpireMemory
    BY <1>10, <1>s, SameWorkers DEF ExpireMemory, callVars
<1>11. CASE UNCHANGED vars
    BY <1>11, <1>s, SameWorkers DEF vars, turnVars, callVars
<1>12. CASE LoseRedis
    BY <1>12, <1>s, SameWorkers DEF LoseRedis, OthersGiveUp, callVars
<1> QED
    BY <1>1, <1>2, <1>3, <1>4, <1>5, <1>6, <1>7, <1>8, <1>9, <1>10, <1>11, <1>12 DEF Next

\* At most one turn runs under the lock, plus one for every lock that a running
\* turn has lost (whatsapp/queue.py:332-344), for any number of workers.
THEOREM OverlapIsPaid == Spec => []OverlapPaid
<1>1. Init => OverlapPaid
    <2> SUFFICES ASSUME Init PROVE OverlapPaid
        OBVIOUS
    <2>1. Workers = {}
        BY DEF Init, TurnInit, IdleTurn, Workers, Under
    <2> QED
        BY <2>1, FS_EmptySet DEF Init, OverlapPaid, Workers
<1>2. TypeOK /\ OverlapPaid /\ [Next]_vars => OverlapPaid'
    BY OverlapStep
<1> QED
    BY <1>1, <1>2, TypesAreKept, PTL DEF Spec

-----------------------------------------------------------------------------
(* The profile.  A turn about to write holds everything learned that was not     *)
(* overlapped, and two turns at once take a lost lock or a turn without one.        *)

Snapshots == \A t \in Turns : turn[t].at = "learn" => learned \ overlapped \subseteq turn[t].known

Inside == ~outside => \A t \in Turns : turn[t].at # "idle" => turn[t].via = "worker"

ProfileInv == LossNeedsOverlap /\ Snapshots /\ Inside

LEMMA TwoUnderLock ==
    ASSUME TypeOK, OverlapPaid, Inside, ~outside,
           NEW s \in Turns, NEW t \in Turns, s # t, turn[s].at # "idle", turn[t].at # "idle"
    PROVE  losses > 0
<1>1. s \in Workers /\ t \in Workers
    BY DEF Inside, Workers, Under
<1>2. Cardinality({s, t}) = 2
    <2>1. IsFiniteSet({s}) /\ Cardinality({s}) = 1
        BY FS_Singleton
    <2>2. Cardinality({s} \cup {t}) = 2
        BY <2>1, FS_AddElement
    <2>3. {s, t} = {s} \cup {t}
        OBVIOUS
    <2> QED
        BY <2>2, <2>3
<1>3. {s, t} \subseteq Workers /\ IsFiniteSet(Workers) /\ Cardinality(Workers) \in Nat
    BY <1>1, WorkersFinite
<1>4. Cardinality({s, t}) <= Cardinality(Workers)
    BY <1>3, FS_Subset
<1>5. losses \in Nat /\ Cardinality(Workers) <= losses + IF lock THEN 1 ELSE 0
    BY LeadAssumption DEF TypeOK, CallTypeOK, OverlapPaid, Workers
<1> QED
    BY <1>2, <1>3, <1>4, <1>5

LEMMA LearnKeepsProfile ==
    ASSUME TypeOK, OverlapPaid, ProfileInv, NEW t \in Turns, Learn(t), UNCHANGED callVars
    PROVE  ProfileInv'
<1>0. /\ TurnTypeOK /\ turn[t].at = "learn"
      /\ profile' = turn[t].known \cup {Msg(t)} /\ learned' = learned \cup {Msg(t)}
      /\ UNCHANGED <<losses, outside>>
    BY DEF TypeOK, Learn, At, Derived, callVars
<1>1. /\ turn'[t].at = "user" /\ turn'[t].via = turn[t].via
      /\ \A s \in Turns \ {t} : turn'[s] = turn[s]
    <2>1. turn[t] \in BusyTurns
        BY <1>0, BusyTurn
    <2> QED
        BY <1>0, <2>1 DEF Learn, Continue, TurnTypeOK, BusyTurns
<1>2. overlapped \subseteq overlapped'
    BY DEF Learn
<1>3. (learned' \ overlapped') \subseteq profile'
    BY <1>0, <1>2 DEF ProfileInv, Snapshots
<1>4. overlapped' # {} => losses' > 0 \/ outside'
    <2>1. CASE Deriving(t) = {}
        BY <1>0, <2>1 DEF Learn, ProfileInv, LossNeedsOverlap
    <2>2. CASE Deriving(t) # {}
        <3>1. PICK s \in Turns : s # t /\ turn[s].at = "learn"
            BY <2>2 DEF Deriving, At
        <3> QED
            BY <1>0, <3>1, TwoUnderLock DEF ProfileInv
    <2> QED
        BY <2>1, <2>2
<1>5. Snapshots'
    <2> SUFFICES ASSUME NEW s \in Turns, turn'[s].at = "learn"
                 PROVE  (learned' \ overlapped') \subseteq turn'[s].known
        BY DEF Snapshots
    <2>1. s # t /\ turn'[s] = turn[s]
        BY <1>1
    <2>2. overlapped' = overlapped \cup {Msg(t)}
        BY <2>1 DEF Learn, Deriving, At
    <2>3. (learned \ overlapped) \subseteq turn[s].known
        BY <2>1 DEF ProfileInv, Snapshots
    <2> QED
        BY <1>0, <2>1, <2>2, <2>3
<1>6. Inside'
    BY <1>0, <1>1 DEF ProfileInv, Inside
<1> QED
    BY <1>3, <1>4, <1>5, <1>6 DEF ProfileInv, LossNeedsOverlap

\* A step that learns nothing keeps the profile, its snapshots and the callers,
\* when each turn about to write is as it was, or has read the profile now.
LEMMA OthersKeepProfile ==
    ASSUME ProfileInv, UNCHANGED <<profile, learned, overlapped>>,
           losses' = losses \/ losses' > 0, outside => outside',
           \A s \in Turns : turn'[s].at = "learn" => turn'[s] = turn[s] \/ turn'[s].known = profile,
           \A s \in Turns : ~outside' /\ turn'[s].at # "idle" =>
               turn'[s].via = "worker" \/ (turn[s].at # "idle" /\ turn'[s].via = turn[s].via)
    PROVE  ProfileInv'
BY DEF ProfileInv, LossNeedsOverlap, Snapshots, Inside

LEMMA TurnStepKeepsProfile ==
    ASSUME TypeOK, OverlapPaid, ProfileInv, NEW t \in Turns, AgentStep(t)
    PROVE  ProfileInv'
<1>0. TurnTypeOK /\ TurnStep(t) /\ UNCHANGED callVars /\ UNCHANGED <<losses, outside>>
    BY DEF AgentStep, TypeOK, callVars
<1>1. CASE Learn(t)
    BY <1>0, <1>1, LearnKeepsProfile
<1>2. CASE ~Learn(t)
    <2>1. turn[t].at # "idle" /\ turn'[t].via = turn[t].via /\ \A s \in Turns \ {t} : turn'[s] = turn[s]
        BY <1>0, TurnGoesOn
    <2>2. UNCHANGED <<profile, learned, overlapped>>
        BY <1>0, <1>2 DEF TurnStep, Load, SaveUser, SaveAnswer, RingUser, RingAnswer, AddRecent, SaveStage
    <2>b. turn[t] \in BusyTurns
        BY <1>0, <2>1, BusyTurn
    <2>3. turn'[t].at = "learn" => turn'[t].known = profile
        <3>1. CASE Load(t)
            BY <1>0, <2>b, <3>1 DEF Load, TurnTypeOK, BusyTurns
        <3>2. ASSUME NEW p \in Places \ {"learn"}, Continue(t, p) PROVE turn'[t].at # "learn"
            BY <1>0, <2>b, <3>2 DEF Continue, TurnTypeOK, BusyTurns
        <3>3. CASE ~Load(t)
            BY <1>0, <1>2, <3>2, <3>3 DEF TurnStep, SaveUser, SaveAnswer, RingUser, RingAnswer,
                                         AddRecent, SaveStage, Places
        <3> QED
            BY <3>1, <3>3
    <2>4. \A s \in Turns : turn'[s].at = "learn" => turn'[s] = turn[s] \/ turn'[s].known = profile
        BY <2>1, <2>3
    <2>5. \A s \in Turns : turn'[s].at # "idle" => turn[s].at # "idle" /\ turn'[s].via = turn[s].via
        BY <2>1
    <2> QED
        BY <1>0, <2>2, <2>4, <2>5, OthersKeepProfile
<1> QED
    BY <1>1, <1>2

LEMMA ProfileStep == TypeOK /\ OverlapPaid /\ ProfileInv /\ [Next]_vars => ProfileInv'
<1> SUFFICES ASSUME TypeOK, OverlapPaid, ProfileInv, [Next]_vars PROVE ProfileInv'
    OBVIOUS
<1>0. TurnTypeOK /\ losses \in Nat
    BY LeadAssumption DEF TypeOK, CallTypeOK
<1>s. ASSUME UNCHANGED <<profile, learned, overlapped, turn>>, outside' = outside,
             losses' = losses \/ losses' > 0
      PROVE  ProfileInv'
    BY <1>s, OthersKeepProfile
<1>1. ASSUME NEW t \in Turns, AgentStep(t) PROVE ProfileInv'
    BY <1>1, TurnStepKeepsProfile
<1>2. ASSUME NEW t \in Turns, Send(t) \/ SendRaises(t) \/ Reply(t) \/ TurnFails(t)
      PROVE  ProfileInv'
    <2>1. EndTurn(t) /\ UNCHANGED <<profile, learned, overlapped, losses, outside>>
        BY <1>2 DEF Send, SendRaises, Reply, TurnFails, Abandon
    <2>2. turn'[t].at = "idle" /\ \A s \in Turns \ {t} : turn'[s] = turn[s]
        BY <1>0, <2>1, EndedTurn
    <2> QED
        BY <2>1, <2>2, OthersKeepProfile
<1>3. ASSUME NEW t \in Turns, NEW m \in Messages, NEW via, Begin(t, m, via),
             UNCHANGED <<profile, learned, overlapped, losses>>, outside => outside',
             via = "worker" \/ outside'
      PROVE  ProfileInv'
    <2>1. /\ turn'[t].at = "load" /\ turn'[t].via = via
          /\ \A s \in Turns \ {t} : turn'[s] = turn[s]
        BY <1>0, <1>3, BegunTurn
    <2> QED
        BY <1>3, <2>1, OthersKeepProfile
<1>4. ASSUME NEW t \in Turns, NEW m \in Messages, Process(t, m) \/ Take(t, m) \/ Chat(t, m)
      PROVE  ProfileInv'
    BY <1>3, <1>4 DEF Process, Take, Chat
<1>5. CASE LoseLock
    BY <1>0, <1>5, <1>s DEF LoseLock, turnVars
<1>6. CASE ExpireLock
    BY <1>6, <1>s DEF ExpireLock, turnVars
<1>7. CASE Crash
    <2>1. \A s \in Turns : turn'[s].at = "idle"
        BY <1>7 DEF Crash, Restart, IdleTurn
    <2>2. UNCHANGED <<overlapped, losses, outside>>
        BY <1>7 DEF Crash, Restart
    <2>3. UNCHANGED <<profile, learned>> \/ (profile' = {} /\ learned' = {})
        BY <1>7 DEF Crash, Restart
    <2> QED
        BY <2>1, <2>2, <2>3 DEF ProfileInv, LossNeedsOverlap, Snapshots, Inside
<1>8. ASSUME NEW m \in Messages, Duplicate(m) PROVE ProfileInv'
    BY <1>8, <1>s DEF Duplicate, turnVars
<1>9. ASSUME NEW h \in Threads, EventStep(h) PROVE ProfileInv'
    BY <1>9, <1>s DEF EventStep, turnVars, callVars
<1>10. CASE ExpireMemory
    BY <1>10, <1>s DEF ExpireMemory, callVars
<1>11. CASE UNCHANGED vars
    BY <1>11, <1>s DEF vars, turnVars, callVars
<1>12. CASE LoseRedis
    BY <1>12, <1>s DEF LoseRedis, OthersGiveUp, callVars
<1> QED
    BY <1>1, <1>2, <1>4, <1>5, <1>6, <1>7, <1>8, <1>9, <1>10, <1>11, <1>12 DEF Next

\* What a turn learned is lost only to a turn that overlapped it (agent/graph.py:388),
\* and turns overlap only by a lost lock or outside of the lock.
THEOREM LossTakesOverlap == Spec => []LossNeedsOverlap
<1>1. Init => ProfileInv
    BY DEF Init, TurnInit, IdleTurn, ProfileInv, LossNeedsOverlap, Snapshots, Inside
<1>2. TypeOK /\ OverlapPaid /\ ProfileInv /\ [Next]_vars => ProfileInv'
    BY ProfileStep
<1>3. ProfileInv => LossNeedsOverlap
    BY DEF ProfileInv
<1> QED
    BY <1>1, <1>2, <1>3, TypesAreKept, OverlapIsPaid, PTL DEF Spec

-----------------------------------------------------------------------------
(* Conversion events.  The row of an event is made once, by the one thread that *)
(* goes on to send it; and a click that a thread uses was stored or failed to be. *)

Known(c) == c = attribution \/ c \in storeFailed

\* Rows and sends: a row that is not there was not sent and is in no thread's hand.
EventRows ==
    \A e \in EventNames :
        /\ sends[e] <= 1
        /\ event[e] = "none" => sends[e] = 0
        /\ event[e] = "sent" => sends[e] = 1
        /\ event[e] \in {"none", "sent"} => \A h \in Threads : Current(h) # e

\* A row is in one hand at most, and the hand knows whether it was sent.
Hands ==
    /\ \A g, h \in Threads : Current(g) = Current(h) /\ Current(h) # "none" => g = h
    /\ \A h \in Threads : Thread(h, "send") => sends[Current(h)] = 0
    /\ \A h \in Threads : Thread(h, "mark") => sends[Current(h)] = 1

RowInv == EventRows /\ Hands

\* Clicks: what a thread that is past the store looks up, uses and has used.
ClickInv ==
    /\ \A h \in Threads : Thread(h, "lookup") /\ thread[h].latest # NoClick
                            => attribution # NoClick \/ thread[h].latest \in storeFailed
    /\ \A h \in Threads : thread[h].at \in {"create", "send", "mark", "fail"} => Known(thread[h].clid)
    /\ \A e \in EventNames : event[e] # "none" => payload[e] # NoClick /\ Known(payload[e])

EventInv == RowInv /\ ClickInv

\* A thread is a record with these fields.
LEMMA ThreadRecord ==
    ASSUME ConversionTypeOK, NEW h \in Threads
    PROVE  /\ thread[h] = [at |-> thread[h].at, latest |-> thread[h].latest, clid |-> thread[h].clid,
                           todo |-> thread[h].todo, now |-> thread[h].now]
           /\ thread[h].at \in {"idle", "store", "lookup", "create", "send", "mark", "fail"}
           /\ thread[h].at \in {"send", "mark", "fail"} <=> thread[h].now # "none"
           /\ thread[h].now # "none" => thread[h].now \in EventNames
           /\ thread[h].at \in {"create", "send", "mark", "fail"} => thread[h].clid \in Clicks
<1>1. thread[h] \in Reading \cup Creating \cup Sending
    BY DEF ConversionTypeOK
<1>2. CASE thread[h] \in Reading
    BY <1>2 DEF Reading
<1>3. CASE thread[h] \in Creating
    BY <1>3 DEF Creating
<1>4. CASE thread[h] \in Sending
    BY <1>4, OrderType DEF Sending
<1> QED
    BY <1>1, <1>2, <1>3, <1>4

\* What a step does to its thread; it leaves the others alone.
LEMMA Stepped ==
    ASSUME ConversionTypeOK, NEW h \in Threads, NEW p, Step(h, p)
    PROVE  /\ thread'[h].at = p /\ thread'[h].now = thread[h].now
           /\ thread'[h].latest = thread[h].latest /\ thread'[h].clid = thread[h].clid
           /\ \A g \in Threads \ {h} : thread'[g] = thread[g]
<1>1. /\ thread'[h] = [thread[h] EXCEPT !.at = p]
      /\ \A g \in Threads \ {h} : thread'[g] = thread[g]
    BY DEF Step, ConversionTypeOK
<1> DEFINE x == [at |-> thread[h].at, latest |-> thread[h].latest, clid |-> thread[h].clid,
                 todo |-> thread[h].todo, now |-> thread[h].now]
<1>2. thread[h] = x
    BY ThreadRecord
<1>3. thread'[h] = [x EXCEPT !.at = p]
    BY <1>1, <1>2
<1> QED
    BY <1>1, <1>3

LEMMA Ended ==
    ASSUME ConversionTypeOK, NEW h \in Threads, End(h)
    PROVE  /\ thread'[h].at = "idle" /\ thread'[h].now = "none"
           /\ \A g \in Threads \ {h} : thread'[g] = thread[g]
BY DEF End, IdleThread, ConversionTypeOK

LEMMA NextEvented ==
    ASSUME ConversionTypeOK, NEW h \in Threads, NextEvent(h)
    PROVE  /\ thread'[h].at = "create" /\ thread'[h].now = "none"
           /\ thread'[h].clid = thread[h].clid
           /\ \A g \in Threads \ {h} : thread'[g] = thread[g]
<1> DEFINE x == [at |-> thread[h].at, latest |-> thread[h].latest, clid |-> thread[h].clid,
                 todo |-> thread[h].todo, now |-> thread[h].now]
<1>1. thread[h] = x
    BY ThreadRecord
<1>2. thread'[h] = [[thread[h] EXCEPT !.at = "create"] EXCEPT !.now = "none"]
    BY DEF NextEvent, ConversionTypeOK
<1>3. thread'[h] = [x EXCEPT !.at = "create", !.now = "none"]
    BY <1>1, <1>2
<1>4. \A g \in Threads \ {h} : thread'[g] = thread[g]
    BY DEF NextEvent, ConversionTypeOK
<1> QED
    BY <1>3, <1>4

\* A step that makes no row, sends nothing and takes no row in hand.
LEMMA NoRowTouched ==
    ASSUME RowInv, NEW h \in Threads, UNCHANGED <<event, sends>>,
           \A g \in Threads \ {h} : thread'[g] = thread[g],
           \/ thread'[h].now = "none" /\ thread'[h].at \notin {"send", "mark"}
           \/ thread'[h].now = thread[h].now /\ thread'[h].at \in {"fail", thread[h].at}
    PROVE  RowInv'
<1>1. EventNames' = EventNames
    BY DEF EventNames
<1>2. \A g \in Threads : thread'[g].now = "none" \/ thread'[g].now = thread[g].now
    OBVIOUS
<1>3. EventRows'
    BY <1>1, <1>2, OrderType DEF RowInv, EventRows, Current
<1>4. Hands'
    BY DEF RowInv, Hands, Current, Thread
<1> QED
    BY <1>3, <1>4 DEF RowInv

LEMMA CreateKeepsRows ==
    ASSUME ConversionTypeOK, RowInv, NEW h \in Threads, NEW e \in EventNames, Create(h, e)
    PROVE  RowInv'
<1>1. /\ thread'[h].at = "send" /\ thread'[h].now = e
      /\ \A g \in Threads \ {h} : thread'[g] = thread[g]
    <2> DEFINE x == [at |-> thread[h].at, latest |-> thread[h].latest, clid |-> thread[h].clid,
                     todo |-> thread[h].todo, now |-> thread[h].now]
    <2>1. thread[h] = x
        BY ThreadRecord
    <2>2. thread'[h] = [thread[h] EXCEPT !.at = "send", !.todo = @ \ {e}, !.now = e]
        BY DEF Create, ConversionTypeOK
    <2>3. thread'[h] = [x EXCEPT !.at = "send", !.todo = @ \ {e}, !.now = e]
        BY <2>1, <2>2
    <2> QED
        BY <2>3 DEF Create, ConversionTypeOK
<1>2. /\ event[e] = "none" /\ event' = [event EXCEPT ![e] = "pending"] /\ sends' = sends
      /\ sends[e] = 0 /\ \A g \in Threads : Current(g) # e
    BY DEF Create, RowInv, EventRows
<1>3. EventNames' = EventNames
    BY DEF EventNames
<1>4. event'[e] = "pending" /\ \A d \in EventNames \ {e} : event'[d] = event[d]
    BY <1>2 DEF ConversionTypeOK
<1>5. EventRows'
    <2> SUFFICES ASSUME NEW d \in EventNames
                 PROVE  /\ sends'[d] <= 1
                        /\ event'[d] = "none" => sends'[d] = 0
                        /\ event'[d] = "sent" => sends'[d] = 1
                        /\ event'[d] \in {"none", "sent"} => \A g \in Threads : Current(g)' # d
        BY <1>3 DEF EventRows
    <2>1. CASE d = e
        BY <1>2, <1>4, <2>1
    <2>2. CASE d # e
        BY <1>1, <1>2, <1>4, <2>2 DEF RowInv, EventRows, Current
    <2> QED
        BY <2>1, <2>2
<1>6. Hands'
    BY <1>1, <1>2 DEF RowInv, Hands, Current, Thread
<1> QED
    BY <1>5, <1>6 DEF RowInv

LEMMA PostKeepsRows ==
    ASSUME ConversionTypeOK, RowInv, NEW h \in Threads, Post(h)
    PROVE  RowInv'
<1> DEFINE e == Current(h)
<1>1. /\ e \in EventNames /\ thread[h].at = "send" /\ sends[e] = 0
      /\ event' = event /\ sends' = [sends EXCEPT ![e] = @ + 1]
    BY ThreadTypes DEF Post, Thread, RowInv, Hands
<1>2. /\ thread'[h].at \in {"mark", "fail"} /\ thread'[h].now = e
      /\ \A g \in Threads \ {h} : thread'[g] = thread[g]
    BY Stepped DEF Post, Current
<1>3. sends'[e] = 1 /\ \A d \in EventNames \ {e} : sends'[d] = sends[d]
    BY <1>1 DEF ConversionTypeOK
<1>4. EventNames' = EventNames
    BY DEF EventNames
<1>5. \A g \in Threads : thread'[g].now = thread[g].now
    BY <1>2 DEF Current
<1>6. EventRows'
    <2> SUFFICES ASSUME NEW d \in EventNames
                 PROVE  /\ sends'[d] <= 1
                        /\ event'[d] = "none" => sends'[d] = 0
                        /\ event'[d] = "sent" => sends'[d] = 1
                        /\ event'[d] \in {"none", "sent"} => \A g \in Threads : Current(g)' # d
        BY <1>4 DEF EventRows
    <2>1. CASE d = e
        BY <1>1, <1>3, <2>1 DEF RowInv, EventRows
    <2>2. CASE d # e
        BY <1>1, <1>3, <1>5, <2>2 DEF RowInv, EventRows, Current
    <2> QED
        BY <2>1, <2>2
<1>7. e # "none"
    BY <1>1, OrderType
<1>8. \A g \in Threads \ {h} : Current(g) # e
    BY <1>7 DEF RowInv, Hands
<1>9. Hands'
    <2>1. \A f, g \in Threads : Current(f)' = Current(g)' /\ Current(f)' # "none" => f = g
        BY <1>5 DEF RowInv, Hands, Current
    <2>2. \A g \in Threads : Thread(g, "send")' => sends'[Current(g)'] = 0
        <3> SUFFICES ASSUME NEW g \in Threads, thread'[g].at = "send"
                     PROVE  sends'[thread'[g].now] = 0
            BY DEF Thread, Current
        <3>1. g # h /\ thread'[g] = thread[g]
            BY <1>2
        <3>2. thread[g].now \in EventNames /\ thread[g].now # e /\ sends[thread[g].now] = 0
            BY <1>8, <3>1, ThreadRecord, OrderType DEF RowInv, Hands, Thread, Current
        <3> QED
            BY <1>3, <3>1, <3>2
    <2>3. \A g \in Threads : Thread(g, "mark")' => sends'[Current(g)'] = 1
        <3> SUFFICES ASSUME NEW g \in Threads, thread'[g].at = "mark"
                     PROVE  sends'[thread'[g].now] = 1
            BY DEF Thread, Current
        <3>1. CASE g = h
            BY <1>2, <1>3, <3>1
        <3>2. CASE g # h
            <4>1. thread'[g] = thread[g]
                BY <1>2, <3>2
            <4>2. thread[g].now \in EventNames /\ thread[g].now # e /\ sends[thread[g].now] = 1
                BY <1>8, <3>2, <4>1, ThreadRecord, OrderType DEF RowInv, Hands, Thread, Current
            <4> QED
                BY <1>3, <4>1, <4>2
        <3> QED
            BY <3>1, <3>2
    <2> QED
        BY <2>1, <2>2, <2>3 DEF Hands
<1> QED
    BY <1>6, <1>9 DEF RowInv

\* Marking a row lets it go; it is marked as sent only after it was.
LEMMA MarkKeepsRows ==
    ASSUME ConversionTypeOK, RowInv, NEW h \in Threads, NEW at \in {"mark", "fail"},
           NEW status, Mark(h, at, status),
           status = "sent" => at = "mark", status # "none"
    PROVE  RowInv'
<1> DEFINE e == Current(h)
<1>1. /\ e \in EventNames /\ thread[h].at = at /\ e # "none"
      /\ event' = [event EXCEPT ![e] = status] /\ sends' = sends
    BY ThreadTypes, OrderType DEF Mark, Thread
<1>2. /\ thread'[h].at = "create" /\ thread'[h].now = "none"
      /\ \A g \in Threads \ {h} : thread'[g] = thread[g]
    BY NextEvented DEF Mark
<1>3. event'[e] = status /\ \A d \in EventNames \ {e} : event'[d] = event[d]
    BY <1>1 DEF ConversionTypeOK
<1>4. EventNames' = EventNames
    BY DEF EventNames
<1>5. \A g \in Threads : Current(g)' # e /\ (Current(g)' = "none" \/ Current(g)' = Current(g))
    BY <1>1, <1>2 DEF RowInv, Hands, Current
<1>6. status = "sent" => sends[e] = 1
    BY <1>1 DEF RowInv, Hands, Thread
<1>7. EventRows'
    <2> SUFFICES ASSUME NEW d \in EventNames
                 PROVE  /\ sends'[d] <= 1
                        /\ event'[d] = "none" => sends'[d] = 0
                        /\ event'[d] = "sent" => sends'[d] = 1
                        /\ event'[d] \in {"none", "sent"} => \A g \in Threads : Current(g)' # d
        BY <1>4 DEF EventRows
    <2>1. CASE d = e
        BY <1>1, <1>3, <1>5, <1>6, <2>1 DEF RowInv, EventRows
    <2>2. CASE d # e
        BY <1>1, <1>3, <1>5, <2>2, OrderType DEF RowInv, EventRows
    <2> QED
        BY <2>1, <2>2
<1>8. Hands'
    BY <1>1, <1>2 DEF RowInv, Hands, Current, Thread
<1> QED
    BY <1>7, <1>8 DEF RowInv

LEMMA ConversionKeepsRows ==
    ASSUME ConversionTypeOK, RowInv, NEW h \in Threads, ConversionStep(h)
    PROVE  RowInv'
<1>0. ASSUME End(h), UNCHANGED <<event, sends>> PROVE RowInv'
    BY <1>0, Ended, NoRowTouched
<1>1. ASSUME NEW p \in {"lookup", "create"}, thread[h].now = "none",
             thread'[h].at = p, thread'[h].now = "none", UNCHANGED <<event, sends>>,
             \A g \in Threads \ {h} : thread'[g] = thread[g]
      PROVE  RowInv'
    BY <1>1, NoRowTouched
<1>2. CASE Store(h) \/ StoreFails(h)
    <2>1. thread[h].now = "none" /\ UNCHANGED <<event, sends>> /\ AfterStore(h)
        BY <1>2, ThreadRecord DEF Store, StoreFails, Thread
    <2>2. CASE configured
        <3>1. Step(h, "lookup")
            BY <2>1, <2>2 DEF AfterStore
        <3> QED
            BY <1>1, <2>1, <3>1, Stepped
    <2>3. CASE ~configured
        BY <1>0, <2>1, <2>3 DEF AfterStore
    <2> QED
        BY <2>2, <2>3
<1>3. CASE Lookup(h)
    <2>1. thread[h].now = "none" /\ thread[h].at = "lookup" /\ UNCHANGED <<event, sends>>
        BY <1>3, ThreadRecord DEF Lookup, Thread
    <2>2. CASE Clid(h) = NoClick
        BY <1>0, <1>3, <2>2 DEF Lookup
    <2>3. CASE Clid(h) # NoClick
        <3> DEFINE x == [at |-> thread[h].at, latest |-> thread[h].latest, clid |-> thread[h].clid,
                         todo |-> thread[h].todo, now |-> thread[h].now]
        <3>1. /\ thread'[h] = [thread[h] EXCEPT !.at = "create", !.clid = Clid(h)]
              /\ \A g \in Threads \ {h} : thread'[g] = thread[g]
            BY <1>3, <2>3 DEF Lookup, ConversionTypeOK
        <3>2. thread'[h] = [x EXCEPT !.at = "create", !.clid = Clid(h)]
            BY <3>1, ThreadRecord
        <3> QED
            BY <1>1, <2>1, <3>1, <3>2
    <2> QED
        BY <2>2, <2>3
<1>4. CASE LookupFails(h) \/ Finish(h)
    BY <1>0, <1>4 DEF LookupFails, Finish
<1>5. ASSUME NEW e \in EventNames, Create(h, e) PROVE RowInv'
    BY <1>5, CreateKeepsRows
<1>6. ASSUME NEW e \in EventNames, PassOver(h, e) PROVE RowInv'
    <2>1. thread[h].now = "none" /\ thread[h].at = "create" /\ UNCHANGED <<event, sends>>
        BY <1>6, ThreadRecord DEF PassOver, Upcoming, Thread
    <2> DEFINE x == [at |-> thread[h].at, latest |-> thread[h].latest, clid |-> thread[h].clid,
                     todo |-> thread[h].todo, now |-> thread[h].now]
    <2>2. /\ thread'[h] = [thread[h] EXCEPT !.todo = @ \ {e}]
          /\ \A g \in Threads \ {h} : thread'[g] = thread[g]
        BY <1>6 DEF PassOver, ConversionTypeOK
    <2>3. thread'[h] = [x EXCEPT !.todo = @ \ {e}]
        BY <2>2, ThreadRecord
    <2> QED
        BY <1>1, <2>1, <2>2, <2>3
<1>7. CASE Post(h)
    BY <1>7, PostKeepsRows
<1>8. CASE Raise(h)
    BY <1>8, Stepped, NoRowTouched DEF Raise
<1>9. CASE MarkSent(h) \/ MarkFailed(h)
    BY <1>9, MarkKeepsRows DEF MarkSent, MarkFailed
<1>10. CASE MarkingFails(h)
    <2>1. Current(h) \in EventNames
        BY <1>10, ThreadTypes DEF MarkingFails, Mark, Thread
    <2>2. event[Current(h)] \notin {"none", "sent"}
        BY <2>1 DEF RowInv, EventRows
    <2> QED
        BY <1>10, <2>2, MarkKeepsRows DEF MarkingFails
<1> QED
    BY <1>2, <1>3, <1>4, <1>5, <1>6, <1>7, <1>8, <1>9, <1>10 DEF ConversionStep

-----------------------------------------------------------------------------
(* Clicks.  The first click is never replaced, and no click is forgotten.        *)

LEMMA KnownStays ==
    ASSUME NEW c, c # NoClick, Known(c), storeFailed \subseteq storeFailed',
           attribution' = attribution \/ attribution = NoClick
    PROVE  c = attribution' \/ c \in storeFailed'
BY DEF Known

\* A step that makes no row: what a thread has in hand it had before, or looked up.
LEMMA NoClickInvented ==
    ASSUME ConversionTypeOK, ClickInv, NEW h \in Threads,
           \A e \in EventNames : event[e] = "none" => event'[e] = "none",
           payload' = payload,
           storeFailed \subseteq storeFailed', attribution' = attribution \/ attribution = NoClick,
           \A g \in Threads \ {h} : thread'[g] = thread[g],
           thread'[h].at = "lookup" /\ thread'[h].latest # NoClick
               => attribution' # NoClick \/ thread'[h].latest \in storeFailed',
           thread'[h].at \in {"create", "send", "mark", "fail"}
               => thread'[h].clid # NoClick /\ Known(thread'[h].clid)
    PROVE  ClickInv'
<1>0. EventNames' = EventNames
    BY DEF EventNames
<1>1. attribution # NoClick => attribution' # NoClick
    OBVIOUS
<1>2. \A g \in Threads : thread'[g].at = "lookup" /\ thread'[g].latest # NoClick
                           => attribution' # NoClick \/ thread'[g].latest \in storeFailed'
    BY <1>1 DEF ClickInv, Thread
<1>3. ASSUME NEW g \in Threads, thread'[g].at \in {"create", "send", "mark", "fail"}
      PROVE  thread'[g].clid = attribution' \/ thread'[g].clid \in storeFailed'
    <2>1. CASE g = h
        BY <1>3, <2>1, KnownStays
    <2>2. CASE g # h
        <3>1. thread'[g] = thread[g]
            BY <2>2
        <3>2. Known(thread[g].clid) /\ thread[g].clid # NoClick
            BY <1>3, <3>1, ThreadRecord, ConversionAssumption DEF ClickInv
        <3> QED
            BY <3>1, <3>2, KnownStays
    <2> QED
        BY <2>1, <2>2
<1>4. ASSUME NEW e \in EventNames, event'[e] # "none"
      PROVE  payload'[e] # NoClick /\ (payload'[e] = attribution' \/ payload'[e] \in storeFailed')
    <2>1. payload[e] # NoClick /\ Known(payload[e])
        BY <1>4 DEF ClickInv
    <2> QED
        BY <2>1, KnownStays
<1> QED
    BY <1>0, <1>2, <1>3, <1>4 DEF ClickInv, Thread, Known

LEMMA CreateKeepsClicks ==
    ASSUME ConversionTypeOK, ClickInv, NEW h \in Threads, NEW e \in EventNames, Create(h, e)
    PROVE  ClickInv'
<1> DEFINE x == [at |-> thread[h].at, latest |-> thread[h].latest, clid |-> thread[h].clid,
                 todo |-> thread[h].todo, now |-> thread[h].now]
<1>1. thread'[h] = [x EXCEPT !.at = "send", !.todo = @ \ {e}, !.now = e]
    BY ThreadRecord DEF Create, ConversionTypeOK
<1>2. /\ thread'[h].at = "send" /\ thread'[h].clid = thread[h].clid
      /\ \A g \in Threads \ {h} : thread'[g] = thread[g]
    BY <1>1 DEF Create, ConversionTypeOK
<1>3. thread[h].clid # NoClick /\ Known(thread[h].clid)
    BY ThreadRecord, ConversionAssumption DEF Create, Upcoming, Thread, ClickInv
<1>4. /\ \A d \in EventNames \ {e} : event'[d] = event[d] /\ payload'[d] = payload[d]
      /\ payload'[e] = thread[h].clid
      /\ UNCHANGED <<attribution, storeFailed>>
    BY DEF Create, ConversionTypeOK
<1>5. EventNames' = EventNames
    BY DEF EventNames
<1>6. \A g \in Threads : thread'[g].at = "lookup" => thread'[g] = thread[g]
    BY <1>2
<1>7. \A g \in Threads : thread'[g].at \in {"create", "send", "mark", "fail"} => Known(thread'[g].clid)
    BY <1>2, <1>3 DEF ClickInv
<1>8. \A d \in EventNames : event'[d] # "none" => payload'[d] # NoClick /\ Known(payload'[d])
    BY <1>3, <1>4 DEF ClickInv
<1> QED
    BY <1>4, <1>5, <1>6, <1>7, <1>8 DEF ClickInv, Thread, Known

LEMMA ConversionKeepsClicks ==
    ASSUME ConversionTypeOK, RowInv, ClickInv, NEW h \in Threads, ConversionStep(h)
    PROVE  ClickInv'
<1>1. ASSUME End(h), UNCHANGED <<attribution, storeFailed, event, payload>> PROVE ClickInv'
    BY <1>1, Ended, NoClickInvented
<1>2. ASSUME Thread(h, "store"), AfterStore(h), UNCHANGED <<event, payload>>,
             storeFailed \subseteq storeFailed', attribution' = attribution \/ attribution = NoClick,
             thread[h].latest # NoClick => attribution' # NoClick \/ thread[h].latest \in storeFailed'
      PROVE  ClickInv'
    <2>1. CASE configured
        <3>1. /\ thread'[h].at = "lookup" /\ thread'[h].latest = thread[h].latest
              /\ \A g \in Threads \ {h} : thread'[g] = thread[g]
            BY <1>2, <2>1, Stepped DEF AfterStore
        <3> QED
            BY <1>2, <3>1, NoClickInvented
    <2>2. CASE ~configured
        BY <1>2, <2>2, Ended, NoClickInvented DEF AfterStore
    <2> QED
        BY <2>1, <2>2
<1>3. CASE Store(h)
    <2>1. thread[h].latest # NoClick => attribution' # NoClick
        BY <1>3 DEF Store, FirstTouch
    <2>2. attribution' = attribution \/ attribution = NoClick
        BY <1>3 DEF Store, FirstTouch
    <2> QED
        BY <1>2, <1>3, <2>1, <2>2 DEF Store
<1>4. CASE StoreFails(h)
    BY <1>2, <1>4 DEF StoreFails
<1>5. CASE Lookup(h)
    <2>1. CASE Clid(h) = NoClick
        BY <1>1, <1>5, <2>1 DEF Lookup
    <2>2. CASE Clid(h) # NoClick
        <3> DEFINE x == [at |-> thread[h].at, latest |-> thread[h].latest, clid |-> thread[h].clid,
                         todo |-> thread[h].todo, now |-> thread[h].now]
        <3>1. /\ thread'[h] = [thread[h] EXCEPT !.at = "create", !.clid = Clid(h)]
              /\ \A g \in Threads \ {h} : thread'[g] = thread[g]
            BY <1>5, <2>2 DEF Lookup, ConversionTypeOK
        <3>2. thread'[h] = [x EXCEPT !.at = "create", !.clid = Clid(h)]
            BY <3>1, ThreadRecord
        <3>3. thread'[h].at = "create" /\ thread'[h].clid = Clid(h)
            BY <3>2
        <3>4. Known(Clid(h))
            BY <1>5, <2>2 DEF Lookup, ClickInv, Clid, Known
        <3> QED
            BY <1>5, <2>2, <3>1, <3>3, <3>4, NoClickInvented DEF Lookup
    <2> QED
        BY <2>1, <2>2
<1>6. CASE LookupFails(h) \/ Finish(h)
    BY <1>1, <1>6 DEF LookupFails, Finish
<1>7. ASSUME NEW e \in EventNames, Create(h, e) PROVE ClickInv'
    BY <1>7, CreateKeepsClicks
<1>8. ASSUME thread[h].at \in {"create", "send", "mark", "fail"},
             thread'[h].at \in {"create", "send", "mark", "fail"}, thread'[h].clid = thread[h].clid,
             \A g \in Threads \ {h} : thread'[g] = thread[g],
             UNCHANGED <<attribution, storeFailed, payload>>,
             \A d \in EventNames : event[d] = "none" => event'[d] = "none"
      PROVE  ClickInv'
    <2>1. thread[h].clid # NoClick /\ Known(thread[h].clid)
        BY <1>8, ThreadRecord, ConversionAssumption DEF ClickInv
    <2> QED
        BY <1>8, <2>1, NoClickInvented
<1>9. ASSUME NEW e \in EventNames, PassOver(h, e) PROVE ClickInv'
    <2> DEFINE x == [at |-> thread[h].at, latest |-> thread[h].latest, clid |-> thread[h].clid,
                     todo |-> thread[h].todo, now |-> thread[h].now]
    <2>1. /\ thread'[h] = [thread[h] EXCEPT !.todo = @ \ {e}]
          /\ \A g \in Threads \ {h} : thread'[g] = thread[g]
        BY <1>9 DEF PassOver, ConversionTypeOK
    <2>2. thread'[h] = [x EXCEPT !.todo = @ \ {e}]
        BY <2>1, ThreadRecord
    <2>3. thread'[h].at = thread[h].at /\ thread'[h].clid = thread[h].clid
        BY <2>2
    <2> QED
        BY <1>8, <1>9, <2>1, <2>3 DEF PassOver, Upcoming, Thread
<1>10. CASE Post(h) \/ Raise(h)
    BY <1>8, <1>10, Stepped DEF Post, Raise, Thread
<1>11. ASSUME NEW at \in {"mark", "fail"}, NEW status, Mark(h, at, status)
       PROVE  ClickInv'
    <2>1. Current(h) \in EventNames /\ event[Current(h)] # "none"
        BY <1>11, ThreadTypes DEF Mark, Thread, RowInv, EventRows
    <2>2. \A d \in EventNames : event[d] = "none" => event'[d] = "none"
        BY <1>11, <2>1 DEF Mark, ConversionTypeOK
    <2> QED
        BY <1>8, <1>11, <2>2, NextEvented DEF Mark, Thread
<1> QED
    BY <1>3, <1>4, <1>5, <1>6, <1>7, <1>9, <1>10, <1>11
    DEF ConversionStep, MarkSent, MarkFailed, MarkingFails

LEMMA EventStepKeeps ==
    ASSUME ConversionTypeOK, EventInv, [Next]_vars
    PROVE  EventInv'
<1>1. ASSUME UNCHANGED conversionVars PROVE EventInv'
    <2>1. EventNames' = EventNames
        BY DEF EventNames
    <2> QED
        BY <1>1, <2>1 DEF conversionVars, EventInv, RowInv, EventRows, Hands, ClickInv, Known, Thread, Current
<1>2. ASSUME NEW h \in Threads, EventStep(h) PROVE EventInv'
    BY <1>2, ConversionKeepsRows, ConversionKeepsClicks DEF EventStep, EventInv
<1>3. ASSUME NEW t \in Turns, Send(t) PROVE EventInv'
    <2>1. PICK h \in Threads, names \in Applicable : Schedule(h, Click[Msg(t)], names)
        BY <1>3 DEF Send
    <2>2. /\ thread'[h].at = "store" /\ thread'[h].now = "none"
          /\ \A g \in Threads \ {h} : thread'[g] = thread[g]
          /\ UNCHANGED <<attribution, storeFailed, event, payload, sends>>
        BY <2>1 DEF Schedule, ConversionTypeOK
    <2>3. RowInv'
        BY <2>2, NoRowTouched DEF EventInv
    <2>4. ClickInv'
        BY <2>2, NoClickInvented DEF EventInv
    <2> QED
        BY <2>3, <2>4 DEF EventInv
<1>4. CASE Crash
    <2>1. /\ \A g \in Threads : thread'[g].at = "idle" /\ thread'[g].now = "none"
          /\ UNCHANGED <<attribution, storeFailed, event, payload, sends>>
        BY <1>4 DEF Crash, KillConversions, IdleThread
    <2>2. EventNames' = EventNames
        BY DEF EventNames
    <2>3. RowInv'
        BY <2>1, <2>2, OrderType DEF EventInv, RowInv, EventRows, Hands, Current, Thread
    <2>4. ClickInv'
        BY <2>1, <2>2 DEF EventInv, ClickInv, Known, Thread
    <2> QED
        BY <2>3, <2>4 DEF EventInv
<1> QED
    BY <1>1, <1>2, <1>3, <1>4
    DEF Next, vars, AgentStep, SendRaises, Reply, TurnFails, Process, Take, Chat, Duplicate,
        LoseLock, ExpireLock, ExpireMemory, LoseRedis

\* Meta gets an event of a lead once at most, and with the lead's first click
\* unless storing it failed; a row marked as sent was sent, whatever raises and
\* whenever the process dies (meta/conversions.py:126-173).
THEOREM EventsOnce == Spec => []ConversionsOnce
<1>1. Init => EventInv
    <2> SUFFICES ASSUME Init PROVE EventInv
        OBVIOUS
    <2>1. \A h \in Threads : thread[h].at = "idle" /\ thread[h].now = "none"
        BY DEF Init, ConversionInit, IdleThread
    <2>2. \A e \in EventNames : event[e] = "none" /\ sends[e] = 0
        BY DEF Init, ConversionInit
    <2>3. RowInv
        BY <2>1, <2>2, OrderType DEF RowInv, EventRows, Hands, Thread, Current
    <2>4. ClickInv
        BY <2>1, <2>2 DEF ClickInv, Thread
    <2> QED
        BY <2>3, <2>4 DEF EventInv
<1>2. TypeOK /\ EventInv /\ [Next]_vars => EventInv'
    BY EventStepKeeps DEF TypeOK
<1>3. EventInv => ConversionsOnce
    BY DEF EventInv, RowInv, EventRows, ClickInv, Known, ConversionsOnce
<1> QED
    BY <1>1, <1>2, <1>3, TypesAreKept, PTL DEF Spec

-----------------------------------------------------------------------------
(* Answers.  With a database a message that was answered is in the table, and   *)
(* one in the table begins no turn; a message comes to its first turn by its      *)
(* first delivery, and to a second one that runs beside it only by a race.         *)

\* A turn that is past save_message has its message in the table; one of /chat is
\* of a message that came through /chat.
TurnsAreKnown ==
    \A t \in Turns : Busy(t) =>
        /\ enabled /\ turn[t].at \notin {"load", "learn", "user"} => MessageExists(Msg(t))
        /\ turn[t].via = "chat" => Msg(t) \in chatted

FirstDelivery ==
    \A m \in Messages : deliveries[m] = 0 => sent[m] = 0 /\ ~Running(m)

AnswersAreKnown == \A m \in Messages : enabled /\ sent[m] > 0 => MessageExists(m)

\* Without a race the turns of a message exclude each other, and none follows its answer.
OneTurnEach ==
    \A m \in Messages : enabled /\ m \notin raced =>
        /\ sent[m] <= 1
        /\ sent[m] > 0 => ~Running(m)
        /\ \A s, t \in Turns : Busy(s) /\ Busy(t) /\ Msg(s) = m /\ Msg(t) = m => s = t

NoneForgotten ==
    \A m \in Messages : MessageExists(m) /\ ~Running(m) /\ m \notin faulty
                          => sent[m] > 0 \/ m \in chatted

AnswerInv == TurnsAreKnown /\ FirstDelivery /\ AnswersAreKnown /\ OneTurnEach /\ NoneForgotten

LEMMA ExistsAfterAppend ==
    ASSUME TurnTypeOK, NEW role \in {"user", "assistant"}, NEW n \in Messages, NEW m \in Messages,
           enabled' = enabled, rows' = Append(rows, Entry(role, n))
    PROVE  MessageExists(m)' <=> MessageExists(m) \/ (enabled /\ role = "user" /\ n = m)
<1>0. rows \in Seq(Entries) /\ Entry(role, n) \in Entries
    BY DEF TurnTypeOK, Entries
<1>1. /\ DOMAIN rows' = 1..(Len(rows) + 1) /\ DOMAIN rows = 1..Len(rows) /\ Len(rows) \in Nat
      /\ rows'[Len(rows) + 1] = Entry(role, n)
      /\ \A i \in 1..Len(rows) : rows'[i] = rows[i]
    BY <1>0, AppendProperties
<1>2. (\E i \in DOMAIN rows' : rows'[i] = Entry("user", m))
        <=> (\E i \in DOMAIN rows : rows[i] = Entry("user", m)) \/ Entry(role, n) = Entry("user", m)
    BY <1>1
<1>3. Entry(role, n) = Entry("user", m) <=> role = "user" /\ n = m
    BY DEF Entry
<1> QED
    BY <1>2, <1>3 DEF MessageExists, Entry

\* Only the turn that saves a message brings it into the table, and nothing
\* takes it out.
LEMMA ExistsStep ==
    ASSUME TypeOK, [Next]_vars, NEW m \in Messages
    PROVE  /\ enabled' = enabled
           /\ MessageExists(m) => MessageExists(m)'
           /\ MessageExists(m)' => \/ MessageExists(m)
                                   \/ \E t \in Turns : AgentStep(t) /\ SaveUser(t) /\ Msg(t) = m
<1>0. TurnTypeOK
    BY DEF TypeOK
<1>1. CASE UNCHANGED <<enabled, rows>>
    BY <1>1 DEF MessageExists
<1>2. ASSUME NEW t \in Turns, AgentStep(t), ~UNCHANGED <<enabled, rows>>
      PROVE  /\ enabled' = enabled
             /\ MessageExists(m) => MessageExists(m)'
             /\ MessageExists(m)' => MessageExists(m) \/ (SaveUser(t) /\ Msg(t) = m)
    <2>1. SaveUser(t) \/ SaveAnswer(t)
        BY <1>2 DEF AgentStep, TurnStep, Load, Learn, RingUser, RingAnswer, AddRecent, SaveStage
    <2>2. Msg(t) \in Messages
        BY <1>0, <2>1, BusyTurn DEF SaveUser, SaveAnswer, At
    <2>3. CASE SaveUser(t)
        <3>1. enabled' = enabled /\ rows' = Append(rows, Entry("user", Msg(t)))
            BY <1>2, <2>3 DEF SaveUser
        <3> QED
            BY <1>0, <2>2, <2>3, <3>1, ExistsAfterAppend
    <2>4. CASE SaveAnswer(t)
        <3>1. enabled' = enabled /\ rows' = Append(rows, Entry("assistant", Msg(t)))
            BY <1>2, <2>4 DEF SaveAnswer
        <3> QED
            BY <1>0, <2>2, <3>1, ExistsAfterAppend
    <2> QED
        BY <2>1, <2>3, <2>4
<1>3. (\E t \in Turns : AgentStep(t)) \/ UNCHANGED <<enabled, rows>>
    BY DEF Next, vars, turnVars, Send, SendRaises, Reply, TurnFails, Abandon, Process, Take, Chat,
           Duplicate, EventStep, LoseLock, ExpireLock, Crash, Restart, ExpireMemory, LoseRedis,
           OthersGiveUp
<1> QED
    BY <1>1, <1>2, <1>3

LEMMA PastUser ==
    ASSUME TurnTypeOK, NEW t \in Turns, TurnStep(t), turn'[t].at \notin {"load", "learn", "user"}
    PROVE  turn[t].at \notin {"load", "learn", "user"} \/ SaveUser(t)
<1>1. CASE Load(t)
    <2>1. turn[t] \in BusyTurns
        BY <1>1, BusyTurn DEF Load, At
    <2>2. turn'[t].at = "learn"
        BY <1>1, <2>1 DEF Load, TurnTypeOK, BusyTurns
    <2> QED
        BY <2>2
<1>2. CASE Learn(t)
    <2>1. turn[t] \in BusyTurns
        BY <1>2, BusyTurn DEF Learn, At
    <2>2. turn'[t].at = "user"
        BY <1>2, <2>1 DEF Learn, Continue, TurnTypeOK, BusyTurns
    <2> QED
        BY <2>2
<1>3. CASE SaveAnswer(t) \/ RingUser(t) \/ RingAnswer(t) \/ SaveStage(t)
    BY <1>3 DEF SaveAnswer, RingUser, RingAnswer, AddRecent, SaveStage, At
<1> QED
    BY <1>1, <1>2, <1>3 DEF TurnStep

LEMMA AgentKeepsAnswers ==
    ASSUME TypeOK, [Next]_vars, AnswerInv, NEW t \in Turns, AgentStep(t)
    PROVE  AnswerInv'
<1>0. /\ TurnTypeOK /\ TurnStep(t)
      /\ UNCHANGED <<chatted, deliveries, sent, raced, faulty>>
    BY DEF TypeOK, AgentStep, callVars
<1>1. /\ turn[t].at # "idle" /\ turn'[t].at # "idle"
      /\ turn'[t].via = turn[t].via /\ turn'[t].msg = turn[t].msg
      /\ \A s \in Turns \ {t} : turn'[s] = turn[s]
    BY <1>0, TurnGoesOn
<1>2. /\ \A s \in Turns : Busy(s)' <=> Busy(s)
      /\ \A s \in Turns : Msg(s)' = Msg(s) /\ turn'[s].via = turn[s].via
    BY <1>1 DEF Busy, Msg
<1>3. \A m \in Messages : Running(m)' <=> Running(m)
    BY <1>2 DEF Running
<1>4. TurnsAreKnown'
    <2> SUFFICES ASSUME NEW s \in Turns, Busy(s)'
                 PROVE  /\ enabled' /\ turn'[s].at \notin {"load", "learn", "user"} => MessageExists(Msg(s))'
                        /\ turn'[s].via = "chat" => Msg(s)' \in chatted'
        BY DEF TurnsAreKnown
    <2>1. Busy(s) /\ Msg(s)' = Msg(s) /\ turn'[s].via = turn[s].via
        BY <1>2
    <2>2. Msg(s) \in Messages
        BY <1>0, <2>1, BusyTurn DEF Busy
    <2>3. turn'[s].via = "chat" => Msg(s)' \in chatted'
        BY <1>0, <2>1 DEF AnswerInv, TurnsAreKnown
    <2>4. ASSUME enabled', turn'[s].at \notin {"load", "learn", "user"}
          PROVE  MessageExists(Msg(s))'
        <3>1. enabled /\ (MessageExists(Msg(s)) => enabled' /\ \E i \in DOMAIN rows' : rows'[i] = Entry("user", Msg(s)))
            BY <2>2, <2>4, ExistsStep DEF MessageExists, Entry
        <3>2. CASE turn[s].at \notin {"load", "learn", "user"}
            BY <2>1, <3>1, <3>2 DEF AnswerInv, TurnsAreKnown, MessageExists, Entry
        <3>3. CASE s = t /\ SaveUser(t)
            <4>1. CASE MessageExists(Msg(t))
                BY <2>1, <3>1, <3>3, <4>1 DEF MessageExists, Entry
            <4>2. CASE ~MessageExists(Msg(t))
                <5>1. enabled' = enabled /\ rows' = Append(rows, Entry("user", Msg(t)))
                    BY <3>1, <3>3, <4>2 DEF SaveUser
                <5>2. rows'[Len(rows) + 1] = Entry("user", Msg(t)) /\ Len(rows) + 1 \in DOMAIN rows'
                    <6>1. rows \in Seq(Entries) /\ Entry("user", Msg(t)) \in Entries
                        BY <1>0, <2>2, <3>3, EntryType DEF TurnTypeOK
                    <6> QED
                        BY <5>1, <6>1, AppendProperties
                <5> QED
                    BY <2>1, <3>3, <2>4, <5>2 DEF MessageExists, Entry
            <4> QED
                BY <4>1, <4>2
        <3>4. turn[s].at \notin {"load", "learn", "user"} \/ (s = t /\ SaveUser(t))
            BY <1>0, <1>1, <2>4, PastUser
        <3> QED
            BY <3>2, <3>3, <3>4
    <2> QED
        BY <2>3, <2>4
<1>5. FirstDelivery'
    BY <1>0, <1>3 DEF AnswerInv, FirstDelivery
<1>6. AnswersAreKnown'
    BY <1>0, ExistsStep DEF AnswerInv, AnswersAreKnown
<1>7. OneTurnEach'
    <2>1. enabled' = enabled
        BY <1>0 DEF TurnStep, Load, Learn, SaveUser, SaveAnswer, RingUser, RingAnswer, AddRecent, SaveStage
    <2> QED
        BY <1>0, <1>2, <1>3, <2>1 DEF AnswerInv, OneTurnEach
<1>8. NoneForgotten'
    <2> SUFFICES ASSUME NEW m \in Messages, MessageExists(m)', ~Running(m)', m \notin faulty'
                 PROVE  sent'[m] > 0 \/ m \in chatted'
        BY DEF NoneForgotten
    <2>1. ~Running(m) /\ m \notin faulty
        BY <1>0, <1>3
    <2>2. MessageExists(m)
        <3>1. \A s \in Turns : SaveUser(s) => Busy(s)
            BY DEF SaveUser, At, Busy
        <3> QED
            BY <2>1, <3>1, ExistsStep DEF Running
    <2> QED
        BY <1>0, <2>1, <2>2 DEF AnswerInv, NoneForgotten
<1> QED
    BY <1>4, <1>5, <1>6, <1>7, <1>8 DEF AnswerInv

\* A turn ends: it has sent its answer, has failed, or came through /chat.
LEMMA EndKeepsAnswers ==
    ASSUME TypeOK, [Next]_vars, AnswerInv, NEW t \in Turns, turn[t].at # "idle", EndTurn(t),
           UNCHANGED <<enabled, rows, chatted, deliveries, raced>>, faulty \subseteq faulty',
           sent' = sent \/ (turn[t].at = "send" /\ sent' = [sent EXCEPT ![Msg(t)] = @ + 1]),
           sent' # sent \/ Msg(t) \in faulty' \/ Msg(t) \in chatted
    PROVE  AnswerInv'
<1> DEFINE n == Msg(t)
<1>0. TurnTypeOK /\ CallTypeOK
    BY DEF TypeOK
<1>1. /\ turn'[t].at = "idle" /\ \A s \in Turns \ {t} : turn'[s] = turn[s]
    BY <1>0, EndedTurn
<1>2. /\ n \in Messages /\ Running(n) /\ Busy(t)
    BY <1>0, BusyTurn DEF Running, Busy
<1>3. \A s \in Turns : Busy(s)' => s # t /\ Busy(s) /\ turn'[s] = turn[s] /\ Msg(s)' = Msg(s)
    BY <1>1 DEF Busy, Msg
<1>4. /\ \A m \in Messages : Running(m)' => Running(m)
      /\ \A m \in Messages \ {n} : Running(m) => Running(m)'
    <2>1. \A s \in Turns : Busy(s) /\ s # t => Busy(s)' /\ Msg(s)' = Msg(s)
        BY <1>1 DEF Busy, Msg
    <2> QED
        BY <1>3, <2>1 DEF Running
<1>5. \A m \in Messages : MessageExists(m)' <=> MessageExists(m)
    BY DEF MessageExists, Entry
<1>6. /\ \A m \in Messages \ {n} : sent'[m] = sent[m]
      /\ sent'[n] = sent[n] \/ sent'[n] = sent[n] + 1
      /\ sent'[n] # sent[n] => turn[t].at = "send"
      /\ \A m \in Messages : sent[m] \in Nat
      /\ sent' # sent => sent'[n] = sent[n] + 1
    BY <1>0, <1>2 DEF CallTypeOK
<1>7. TurnsAreKnown'
    BY <1>3 DEF AnswerInv, TurnsAreKnown, MessageExists, Entry
<1>8. FirstDelivery'
    <2>1. deliveries[n] # 0
        BY <1>2 DEF AnswerInv, FirstDelivery
    <2> QED
        BY <1>4, <1>6, <2>1 DEF AnswerInv, FirstDelivery
<1>9. AnswersAreKnown'
    <2>1. enabled /\ turn[t].at = "send" => MessageExists(n)
        BY <1>2 DEF AnswerInv, TurnsAreKnown
    <2> QED
        BY <1>5, <1>6, <2>1 DEF AnswerInv, AnswersAreKnown
<1>10. OneTurnEach'
    <2> SUFFICES ASSUME NEW m \in Messages, enabled, m \notin raced
                 PROVE  /\ sent'[m] <= 1
                        /\ sent'[m] > 0 => ~Running(m)'
                        /\ \A r, s \in Turns : Busy(r)' /\ Busy(s)' /\ Msg(r)' = m /\ Msg(s)' = m => r = s
        BY DEF OneTurnEach
    <2>1. \A r, s \in Turns : Busy(r) /\ Busy(s) /\ Msg(r) = m /\ Msg(s) = m => r = s
        BY DEF AnswerInv, OneTurnEach
    <2>2. \A r, s \in Turns : Busy(r)' /\ Busy(s)' /\ Msg(r)' = m /\ Msg(s)' = m => r = s
        BY <1>3, <2>1
    <2>3. sent[m] <= 1 /\ (sent[m] > 0 => ~Running(m))
        BY DEF AnswerInv, OneTurnEach
    <2>4. CASE m = n
        <3>1. sent[n] = 0
            BY <1>2, <1>6, <2>3, <2>4
        <3>2. ~Running(m)'
            BY <1>2, <1>3, <2>1, <2>4 DEF Running
        <3> QED
            BY <1>6, <2>2, <2>4, <3>1, <3>2
    <2>5. CASE m # n
        BY <1>4, <1>6, <2>2, <2>3, <2>5
    <2> QED
        BY <2>4, <2>5
<1>11. NoneForgotten'
    <2> SUFFICES ASSUME NEW m \in Messages, MessageExists(m)', ~Running(m)', m \notin faulty'
                 PROVE  sent'[m] > 0 \/ m \in chatted
        BY DEF NoneForgotten
    <2>1. CASE m = n
        BY <1>6, <2>1
    <2>2. CASE m # n
        BY <1>4, <1>5, <1>6, <2>2 DEF AnswerInv, NoneForgotten
    <2> QED
        BY <2>1, <2>2
<1> QED
    BY <1>7, <1>8, <1>9, <1>10, <1>11 DEF AnswerInv

\* A turn of m begins: m was not answered, and a turn beside it is a race.
LEMMA BeginKeepsAnswers ==
    ASSUME TypeOK, [Next]_vars, AnswerInv, NEW t \in Turns, NEW m \in Messages, NEW via,
           Begin(t, m, via), UNCHANGED <<enabled, rows, sent, faulty>>,
           enabled => sent[m] = 0, enabled /\ Running(m) => m \in raced',
           raced \subseteq raced', chatted \subseteq chatted', via = "chat" => m \in chatted',
           \A n \in Messages : deliveries'[n] = 0 => n # m /\ deliveries[n] = 0
    PROVE  AnswerInv'
<1>0. TurnTypeOK
    BY DEF TypeOK
<1>1. /\ ~Busy(t) /\ turn'[t].at = "load" /\ turn'[t].msg = m /\ turn'[t].via = via
      /\ \A s \in Turns \ {t} : turn'[s] = turn[s]
    BY <1>0, BegunTurn DEF Busy
<1>2. \A s \in Turns \ {t} : (Busy(s)' <=> Busy(s)) /\ Msg(s)' = Msg(s)
    BY <1>1 DEF Busy, Msg
<1>3. Msg(t)' = m /\ Busy(t)'
    BY <1>1 DEF Msg, Busy
<1>4. \A n \in Messages \ {m} : Running(n)' <=> Running(n)
    BY <1>1, <1>2, <1>3 DEF Running
<1>5. TurnsAreKnown'
    BY <1>1, <1>2, <1>3 DEF AnswerInv, TurnsAreKnown, MessageExists, Entry
<1>6. FirstDelivery'
    BY <1>4 DEF AnswerInv, FirstDelivery
<1>7. AnswersAreKnown'
    BY DEF AnswerInv, AnswersAreKnown, MessageExists, Entry
<1>8. OneTurnEach'
    <2> SUFFICES ASSUME NEW n \in Messages, enabled, n \notin raced'
                 PROVE  /\ sent[n] <= 1
                        /\ sent[n] > 0 => ~Running(n)'
                        /\ \A r, s \in Turns : Busy(r)' /\ Busy(s)' /\ Msg(r)' = n /\ Msg(s)' = n => r = s
        BY DEF OneTurnEach
    <2>1. \A r, s \in Turns : Busy(r) /\ Busy(s) /\ Msg(r) = n /\ Msg(s) = n => r = s
        BY DEF AnswerInv, OneTurnEach
    <2>2. sent[n] <= 1 /\ (sent[n] > 0 => ~Running(n))
        BY DEF AnswerInv, OneTurnEach
    <2>3. CASE n = m
        <3>1. \A s \in Turns : Busy(s) => Msg(s) # m
            BY <2>3 DEF Running
        <3> QED
            BY <1>2, <1>3, <2>3, <3>1
    <2>4. CASE n # m
        BY <1>2, <1>3, <1>4, <2>1, <2>2, <2>4
    <2> QED
        BY <2>3, <2>4
<1>9. NoneForgotten'
    <2> SUFFICES ASSUME NEW n \in Messages, MessageExists(n)', ~Running(n)', n \notin faulty'
                 PROVE  sent'[n] > 0 \/ n \in chatted'
        BY DEF NoneForgotten
    <2>1. n # m
        BY <1>3 DEF Running
    <2>2. ~Running(n) /\ MessageExists(n)
        BY <1>4, <2>1 DEF MessageExists, Entry
    <2> QED
        BY <2>2 DEF AnswerInv, NoneForgotten
<1> QED
    BY <1>5, <1>6, <1>7, <1>8, <1>9 DEF AnswerInv

LEMMA AnswerStep == TypeOK /\ AnswerInv /\ [Next]_vars => AnswerInv'
<1> SUFFICES ASSUME TypeOK, AnswerInv, [Next]_vars PROVE AnswerInv'
    OBVIOUS
<1>0. TurnTypeOK /\ CallTypeOK
    BY DEF TypeOK
<1>s. ASSUME UNCHANGED <<enabled, rows, turn, chatted, sent, raced, faulty>>,
             \A m \in Messages : deliveries'[m] = 0 => deliveries[m] = 0
      PROVE  AnswerInv'
    BY <1>s DEF AnswerInv, TurnsAreKnown, FirstDelivery, AnswersAreKnown, OneTurnEach, NoneForgotten,
                Busy, Msg, Running, MessageExists, Entry
<1>1. ASSUME NEW t \in Turns, AgentStep(t) PROVE AnswerInv'
    BY <1>1, AgentKeepsAnswers
<1>2. ASSUME NEW t \in Turns, Send(t) PROVE AnswerInv'
    <2>1. /\ turn[t].at = "send" /\ EndTurn(t) /\ sent' = [sent EXCEPT ![Msg(t)] = @ + 1]
          /\ UNCHANGED <<enabled, rows, chatted, deliveries, raced, faulty>>
        BY <1>2 DEF Send, At
    <2>2. sent' # sent
        <3>1. Msg(t) \in Messages /\ sent[Msg(t)] \in Nat
            BY <1>0, <2>1, BusyTurn DEF CallTypeOK
        <3> QED
            BY <1>0, <2>1, <3>1 DEF CallTypeOK
    <2> QED
        BY <2>1, <2>2, EndKeepsAnswers
<1>3. ASSUME NEW t \in Turns, SendRaises(t) PROVE AnswerInv'
    BY <1>3, EndKeepsAnswers DEF SendRaises, At
<1>4. ASSUME NEW t \in Turns, Reply(t) PROVE AnswerInv'
    <2>1. turn[t].at = "send" /\ Msg(t) \in chatted
        BY <1>4 DEF Reply, At, Busy, AnswerInv, TurnsAreKnown
    <2> QED
        BY <1>4, <2>1, EndKeepsAnswers DEF Reply
<1>5. ASSUME NEW t \in Turns, TurnFails(t) PROVE AnswerInv'
    BY <1>5, EndKeepsAnswers DEF TurnFails, Abandon, MayRaise
<1>6. ASSUME NEW t \in Turns, NEW m \in Messages, Process(t, m) PROVE AnswerInv'
    <2>1. /\ Begin(t, m, "webhook") /\ UNCHANGED <<enabled, rows, sent, faulty, chatted>>
          /\ ~MessageExists(m) /\ raced' = IF Running(m) THEN raced \cup {m} ELSE raced
          /\ deliveries' = [deliveries EXCEPT ![m] = @ + 1]
        BY <1>6 DEF Process, Deliver, MayProcess
    <2>2. \A n \in Messages : deliveries[n] \in Nat /\ sent[n] \in Nat
        BY <1>0, LeadAssumption DEF CallTypeOK
    <2>3. enabled => sent[m] = 0
        BY <2>1, <2>2 DEF AnswerInv, AnswersAreKnown
    <2>4. \A n \in Messages : deliveries'[n] = 0 => n # m /\ deliveries[n] = 0
        BY <1>0, <2>1, <2>2 DEF CallTypeOK
    <2> QED
        BY <2>1, <2>3, <2>4, BeginKeepsAnswers
<1>7. ASSUME NEW t \in Turns, NEW m \in Messages, Take(t, m) \/ Chat(t, m) PROVE AnswerInv'
    <2>1. /\ Begin(t, m, "worker") \/ (Begin(t, m, "chat") /\ m \in chatted')
          /\ UNCHANGED <<enabled, rows, sent, faulty, raced>> /\ chatted \subseteq chatted'
          /\ deliveries[m] = 0 /\ deliveries' = [deliveries EXCEPT ![m] = 1]
        BY <1>7 DEF Take, Chat
    <2>2. sent[m] = 0 /\ ~Running(m)
        BY <2>1 DEF AnswerInv, FirstDelivery
    <2>3. \A n \in Messages : deliveries'[n] = 0 => n # m /\ deliveries[n] = 0
        BY <1>0, <2>1 DEF CallTypeOK
    <2> QED
        BY <2>1, <2>2, <2>3, BeginKeepsAnswers
<1>8. ASSUME NEW m \in Messages, Duplicate(m) PROVE AnswerInv'
    <2>1. \A n \in Messages : deliveries[n] \in Nat
        BY <1>0, LeadAssumption DEF CallTypeOK
    <2>2. \A n \in Messages : deliveries'[n] = 0 => deliveries[n] = 0
        BY <1>0, <1>8, <2>1 DEF Duplicate, Deliver, CallTypeOK
    <2> QED
        BY <1>8, <1>s, <2>2 DEF Duplicate, turnVars
<1>9. ASSUME NEW h \in Threads, EventStep(h) PROVE AnswerInv'
    BY <1>9, <1>s DEF EventStep, turnVars, callVars
<1>10. CASE LoseLock \/ ExpireLock
    BY <1>10, <1>s DEF LoseLock, ExpireLock, turnVars
<1>11. CASE Crash
    <2>1. /\ \A s \in Turns : ~Busy(s)'
          /\ UNCHANGED <<enabled, rows, chatted, deliveries, sent, raced>>
          /\ \A s \in Turns : Busy(s) => Msg(s) \in faulty'
          /\ faulty \subseteq faulty'
        BY <1>11 DEF Crash, Restart, Busy, IdleTurn
    <2>2. \A m \in Messages : ~Running(m)' /\ (Running(m) => m \in faulty')
        BY <2>1 DEF Running
    <2>3. \A m \in Messages : MessageExists(m)' <=> MessageExists(m)
        BY <2>1 DEF MessageExists, Entry
    <2> QED
        BY <2>1, <2>2, <2>3
        DEF AnswerInv, TurnsAreKnown, FirstDelivery, AnswersAreKnown, OneTurnEach, NoneForgotten
<1>12. CASE ExpireMemory
    BY <1>12, <1>s DEF ExpireMemory, callVars
<1>13. CASE UNCHANGED vars
    BY <1>13, <1>s DEF vars, turnVars, callVars
<1>14. CASE LoseRedis
    BY <1>14, <1>s DEF LoseRedis, OthersGiveUp, callVars
<1> QED
    BY <1>1, <1>2, <1>3, <1>4, <1>5, <1>6, <1>7, <1>8, <1>9, <1>10, <1>11, <1>12, <1>13,
       <1>14 DEF Next

\* A message is answered once, unless a redelivery came while its turn ran or
\* there is no database (api/main.py:273); and a message in the table that no turn
\* runs was answered, came through /chat, or had a fault.
THEOREM AnswersOnce == Spec => []AnsweredOnce
<1>1. Init => AnswerInv
    <2> SUFFICES ASSUME Init PROVE AnswerInv
        OBVIOUS
    <2>1. \A t \in Turns : ~Busy(t)
        BY DEF Init, TurnInit, IdleTurn, Busy
    <2>2. \A m \in Messages : sent[m] = 0 /\ ~MessageExists(m) /\ ~Running(m)
        BY <2>1 DEF Init, TurnInit, MessageExists, Running
    <2> QED
        BY <2>1, <2>2
        DEF AnswerInv, TurnsAreKnown, FirstDelivery, AnswersAreKnown, OneTurnEach, NoneForgotten
<1>2. TypeOK /\ AnswerInv /\ [Next]_vars => AnswerInv'
    BY AnswerStep
<1>3. TypeOK /\ AnswerInv => AnsweredOnce
    BY DEF TypeOK, CallTypeOK, AnswerInv, OneTurnEach, NoneForgotten, AnsweredOnce
<1> QED
    BY <1>1, <1>2, <1>3, TypesAreKept, PTL DEF Spec

-----------------------------------------------------------------------------
(* The memory store.  While Redis is up the deque is empty and the list ends     *)
(* what was said; once it is off the deque does; and an empty deque, which is all  *)
(* that a restart may forget, leaves the list without a gap.                        *)

\* s is the last part of a.
Ends(s, a) == Len(s) <= Len(a) /\ \A j \in 1..Len(s) : s[j] = a[Len(a) - Len(s) + j]

TailInv ==
    split \/ /\ up => redisUrl /\ local = <<>>
             /\ ~up => Ends(local, said)
             /\ local = <<>> => Ends(redis, said)
             /\ ~redisUrl => redis = <<>>

\* What Newest returns: the elements at the end.
LEMMA NewestProperties ==
    ASSUME NEW S, NEW s \in Seq(S), NEW n \in Nat
    PROVE  /\ Newest(s, n) \in Seq(S)
           /\ Len(Newest(s, n)) = IF Len(s) <= n THEN Len(s) ELSE n
           /\ Ends(Newest(s, n), s)
<1>0. Newest(s, n) \in Seq(S) /\ Len(s) \in Nat
    <2>1. Newest(s, n) \in Seq(S)
        BY NewestType
    <2> QED
        BY <2>1
<1>1. CASE Len(s) <= n
    BY <1>0, <1>1 DEF Newest, Ends
<1>2. CASE ~(Len(s) <= n)
    <2>1. Newest(s, n) = SubSeq(s, Len(s) - n + 1, Len(s))
        BY <1>2 DEF Newest
    <2>2. Len(s) - n + 1 \in Int /\ \A i \in (Len(s) - n + 1)..Len(s) : s[i] \in S
        BY <1>0, <1>2
    <2>3. /\ Len(Newest(s, n)) = IF Len(s) - n + 1 <= Len(s) THEN Len(s) - (Len(s) - n + 1) + 1 ELSE 0
          /\ \A i \in 1..(Len(s) - (Len(s) - n + 1) + 1) :
                Newest(s, n)[i] = s[(Len(s) - n + 1) + i - 1]
        BY <1>0, <2>1, <2>2, SubSeqProperties
    <2>4. Len(Newest(s, n)) = n
        BY <1>0, <1>2, <2>3
    <2>5. \A i \in 1..n : Newest(s, n)[i] = s[Len(s) - n + i]
        BY <1>0, <2>3
    <2> QED
        BY <1>0, <1>2, <2>4, <2>5 DEF Ends
<1> QED
    BY <1>1, <1>2

LEMMA EndsTransitive ==
    ASSUME NEW S, NEW r \in Seq(S), NEW s \in Seq(S), NEW a \in Seq(S), Ends(r, s), Ends(s, a)
    PROVE  Ends(r, a)
<1>1. Len(r) \in Nat /\ Len(s) \in Nat /\ Len(a) \in Nat /\ Len(r) <= Len(s) /\ Len(s) <= Len(a)
    BY DEF Ends
<1>2. ASSUME NEW j \in 1..Len(r) PROVE r[j] = a[Len(a) - Len(r) + j]
    <2>1. Len(s) - Len(r) + j \in 1..Len(s)
        BY <1>1
    <2>2. r[j] = s[Len(s) - Len(r) + j]
        BY DEF Ends
    <2>3. s[Len(s) - Len(r) + j] = a[Len(a) - Len(s) + (Len(s) - Len(r) + j)]
        BY <2>1 DEF Ends
    <2>4. Len(a) - Len(s) + (Len(s) - Len(r) + j) = Len(a) - Len(r) + j
        BY <1>1
    <2> QED
        BY <2>2, <2>3, <2>4
<1> QED
    BY <1>1, <1>2 DEF Ends

LEMMA EndsAppend ==
    ASSUME NEW S, NEW s \in Seq(S), NEW a \in Seq(S), NEW e \in S, Ends(s, a)
    PROVE  Ends(Append(s, e), Append(a, e))
<1> DEFINE t == Append(s, e)
           b == Append(a, e)
<1>1. /\ Len(s) \in Nat /\ Len(a) \in Nat /\ Len(s) <= Len(a)
      /\ Len(t) = Len(s) + 1 /\ Len(b) = Len(a) + 1
      /\ t[Len(s) + 1] = e /\ b[Len(a) + 1] = e
      /\ \A i \in 1..Len(s) : t[i] = s[i]
      /\ \A i \in 1..Len(a) : b[i] = a[i]
    BY AppendProperties DEF Ends
<1>2. ASSUME NEW j \in 1..Len(t) PROVE t[j] = b[Len(b) - Len(t) + j]
    <2>1. CASE j = Len(s) + 1
        <3>1. Len(b) - Len(t) + j = Len(a) + 1
            BY <1>1, <2>1
        <3> QED
            BY <1>1, <2>1, <3>1
    <2>2. CASE j # Len(s) + 1
        <3>1. j \in 1..Len(s) /\ Len(a) - Len(s) + j \in 1..Len(a)
            BY <1>1, <2>2
        <3>2. Len(b) - Len(t) + j = Len(a) - Len(s) + j
            BY <1>1
        <3>3. s[j] = a[Len(a) - Len(s) + j]
            BY <3>1 DEF Ends
        <3> QED
            BY <1>1, <3>1, <3>2, <3>3
    <2> QED
        BY <2>1, <2>2
<1>3. Len(t) <= Len(b)
    BY <1>1
<1> QED
    BY <1>2, <1>3 DEF Ends

LEMMA EndsEmpty ==
    ASSUME NEW S, NEW a \in Seq(S)
    PROVE  Ends(<<>>, a)
BY DEF Ends

\* The last part of a sequence, as what remains after its first i elements.
LEMMA EndsIsSubSeq ==
    ASSUME NEW S, NEW s \in Seq(S), NEW a \in Seq(S), Ends(s, a)
    PROVE  \E i \in 0..Len(a) : s = SubSeq(a, i + 1, Len(a))
<1> DEFINE i == Len(a) - Len(s)
           t == SubSeq(a, i + 1, Len(a))
<1>1. Len(s) \in Nat /\ Len(a) \in Nat /\ i \in 0..Len(a)
    BY DEF Ends
<1>2. \A k \in (i + 1)..Len(a) : a[k] \in S
    BY <1>1
<1>3. /\ t \in Seq(S) /\ Len(t) = IF i + 1 <= Len(a) THEN Len(a) - (i + 1) + 1 ELSE 0
      /\ \A j \in 1..(Len(a) - (i + 1) + 1) : t[j] = a[(i + 1) + j - 1]
    BY <1>1, <1>2, SubSeqProperties
<1>4. Len(t) = Len(s)
    BY <1>1, <1>3
<1>5. ASSUME NEW j \in 1..Len(s) PROVE s[j] = t[j]
    <2>1. j \in 1..(Len(a) - (i + 1) + 1) /\ (i + 1) + j - 1 = Len(a) - Len(s) + j
        BY <1>1
    <2> QED
        BY <1>3, <2>1 DEF Ends
<1>6. s = t
    BY <1>3, <1>4, <1>5, SeqEqual
<1> QED
    BY <1>1, <1>6

\* Adding an entry to the end and trimming to the newest.
LEMMA TrimmedEnds ==
    ASSUME NEW s \in Seq(Entries), NEW e \in Entries, TurnTypeOK, Ends(s, said)
    PROVE  Ends(Trimmed(Append(s, e)), Append(said, e)) /\ Trimmed(Append(s, e)) # <<>>
<1>0. said \in Seq(Entries) /\ RingSize \in Nat \ {0}
    BY MemoryAssumption DEF TurnTypeOK
<1>1. Append(s, e) \in Seq(Entries) /\ Append(said, e) \in Seq(Entries) /\ Len(Append(s, e)) = Len(s) + 1
    BY <1>0, AppendProperties
<1>2. /\ Trimmed(Append(s, e)) \in Seq(Entries) /\ Ends(Trimmed(Append(s, e)), Append(s, e))
      /\ Len(Trimmed(Append(s, e))) = IF Len(Append(s, e)) <= RingSize THEN Len(Append(s, e)) ELSE RingSize
    BY <1>0, <1>1, NewestProperties DEF Trimmed
<1>3. Ends(Append(s, e), Append(said, e))
    BY <1>0, EndsAppend
<1>4. Len(Trimmed(Append(s, e))) # 0
    <2>1. Len(s) \in Nat
        OBVIOUS
    <2> QED
        BY <1>0, <1>1, <1>2, <2>1
<1> QED
    BY <1>1, <1>2, <1>3, <1>4, EndsTransitive

LEMMA AddKeepsTail ==
    ASSUME TypeOK, TailInv, NEW e \in Entries, said' = Append(said, e), Add(e) \/ AddFails(e)
    PROVE  TailInv'
<1>0. /\ TurnTypeOK /\ redis \in Seq(Entries) /\ local \in Seq(Entries) /\ said \in Seq(Entries)
      /\ up \in BOOLEAN /\ redisUrl \in BOOLEAN
    BY DEF TypeOK, MemoryTypeOK, TurnTypeOK
<1>1. UNCHANGED <<redisUrl, split>>
    BY DEF Add, AddFails, Disabled
<1>2. CASE split
    BY <1>1, <1>2 DEF TailInv
<1>3. CASE ~split
    <2>0. /\ up => redisUrl /\ local = <<>>
          /\ ~up => Ends(local, said)
          /\ local = <<>> => Ends(redis, said)
          /\ ~redisUrl => redis = <<>>
        BY <1>3 DEF TailInv
    <2>1. CASE Add(e) /\ up
        <3>1. UNCHANGED <<up, local>> /\ redis' = Trimmed(Append(redis, e))
            BY <2>1 DEF Add
        <3>2. Ends(redis', said')
            BY <1>0, <2>0, <2>1, <3>1, TrimmedEnds
        <3> QED
            BY <1>1, <2>0, <2>1, <3>1, <3>2 DEF TailInv
    <2>2. CASE Add(e) /\ ~up
        <3>1. UNCHANGED <<up, redis>> /\ local' = Trimmed(Append(local, e))
            BY <2>2 DEF Add
        <3>2. Ends(local', said') /\ local' # <<>>
            BY <1>0, <2>0, <2>2, <3>1, TrimmedEnds
        <3> QED
            BY <1>1, <2>0, <2>2, <3>1, <3>2 DEF TailInv
    <2>3. CASE AddFails(e)
        <3>1. up /\ ~up' /\ local' = Trimmed(Append(local, e))
            BY <2>3 DEF AddFails, Disabled
        <3>2. Ends(local, said)
            BY <1>0, <2>0, <3>1, EndsEmpty
        <3>3. Ends(local', said') /\ local' # <<>>
            BY <1>0, <3>1, <3>2, TrimmedEnds
        <3> QED
            BY <1>1, <2>0, <3>1, <3>3 DEF TailInv
    <2> QED
        BY <2>1, <2>2, <2>3
<1> QED
    BY <1>2, <1>3

LEMMA TailStep == TypeOK /\ TailInv /\ [Next]_vars => TailInv'
<1> SUFFICES ASSUME TypeOK, TailInv, [Next]_vars PROVE TailInv'
    OBVIOUS
<1>0. /\ TurnTypeOK /\ redis \in Seq(Entries) /\ local \in Seq(Entries) /\ said \in Seq(Entries)
      /\ up \in BOOLEAN /\ redisUrl \in BOOLEAN
    BY DEF TypeOK, MemoryTypeOK, TurnTypeOK
<1>e. Ends(<<>>, said)
    BY <1>0, EndsEmpty
<1>s. UNCHANGED <<memoryVars, said>> => TailInv'
    BY DEF memoryVars, TailInv, Ends
<1>g. RedisGivenUp /\ UNCHANGED said => TailInv'
    <2> SUFFICES ASSUME RedisGivenUp, UNCHANGED said PROVE TailInv'
        OBVIOUS
    <2>1. up /\ ~up' /\ UNCHANGED <<redisUrl, redis, local, split, said>>
        BY DEF RedisGivenUp, ReadFails
    <2> QED
        BY <1>e, <2>1 DEF TailInv, Ends
<1>1. ASSUME NEW t \in Turns, AgentStep(t) PROVE TailInv'
    <2>1. CASE RingUser(t) \/ RingAnswer(t)
        <3>1. PICK role \in {"user", "assistant"} :
                 /\ said' = Append(said, Entry(role, Msg(t)))
                 /\ Add(Entry(role, Msg(t))) \/ AddFails(Entry(role, Msg(t)))
            BY <2>1 DEF RingUser, RingAnswer, AddRecent
        <3>2. Msg(t) \in Messages
            BY <1>0, <2>1, BusyTurn DEF RingUser, RingAnswer, AddRecent, At
        <3>3. Entry(role, Msg(t)) \in Entries
            BY <3>2 DEF Entries
        <3> QED
            BY <3>1, <3>3, AddKeepsTail
    <2>2. CASE Load(t)
        <3>1. CASE UNCHANGED memoryVars
            BY <1>s, <2>2, <3>1 DEF Load
        <3>2. CASE RedisGivenUp
            BY <1>g, <2>2, <3>2 DEF Load
        <3> QED
            BY <2>2, <3>1, <3>2 DEF Load
    <2>3. CASE Learn(t) \/ SaveUser(t) \/ SaveAnswer(t) \/ SaveStage(t)
        BY <1>s, <2>3 DEF Learn, SaveUser, SaveAnswer, SaveStage
    <2> QED
        BY <1>1, <2>1, <2>2, <2>3 DEF AgentStep, TurnStep
<1>2. CASE Crash
    <2>1. /\ local' = <<>> /\ up' = redisUrl /\ split' = (split \/ (redisUrl /\ local # <<>>))
          /\ UNCHANGED <<redisUrl, redis, said>>
        BY <1>2 DEF Crash, Restart, NewStore
    <2>2. CASE split
        BY <2>1, <2>2 DEF TailInv
    <2>3. CASE ~split /\ redisUrl /\ local = <<>>
        BY <1>e, <2>1, <2>3 DEF TailInv, Ends
    <2>4. CASE ~split /\ ~redisUrl
        BY <1>e, <2>1, <2>4 DEF TailInv, Ends
    <2>5. CASE redisUrl /\ local # <<>>
        BY <2>1, <2>5 DEF TailInv
    <2> QED
        BY <2>2, <2>3, <2>4, <2>5
<1>3. CASE ExpireMemory
    <2>1. redis' = <<>> /\ UNCHANGED <<redisUrl, local, up, split, said>>
        BY <1>3 DEF ExpireMemory, Expire
    <2> QED
        BY <1>e, <2>1 DEF TailInv, Ends
<1>4. ASSUME NEW t \in Turns, Send(t) \/ SendRaises(t) \/ Reply(t) \/ TurnFails(t) PROVE TailInv'
    BY <1>4, <1>s DEF Send, SendRaises, Reply, TurnFails, Abandon
<1>5. ASSUME NEW t \in Turns, NEW m \in Messages, Process(t, m) \/ Take(t, m) \/ Chat(t, m)
      PROVE  TailInv'
    BY <1>5, <1>s DEF Process, Take, Chat
<1>6. ASSUME NEW m \in Messages, Duplicate(m) PROVE TailInv'
    BY <1>6, <1>s DEF Duplicate, turnVars
<1>7. ASSUME NEW h \in Threads, EventStep(h) PROVE TailInv'
    BY <1>7, <1>s DEF EventStep, turnVars
<1>8. CASE LoseLock \/ ExpireLock \/ UNCHANGED vars
    BY <1>8, <1>s DEF LoseLock, ExpireLock, vars, turnVars
<1>9. CASE LoseRedis
    BY <1>9, <1>g DEF LoseRedis, OthersGiveUp
<1> QED
    BY <1>1, <1>2, <1>3, <1>4, <1>5, <1>6, <1>7, <1>8, <1>9 DEF Next

\* What the store returns is the end of what was said, through every failure of
\* Redis and at every size (memory/store.py:25-61), until a restart splits it.
THEOREM RecentHasNoGap == Spec => []RecentIsTail
<1>1. Init => TailInv
    BY DEF Init, TurnInit, MemoryInit, TailInv, Ends
<1>2. TypeOK /\ TailInv /\ [Next]_vars => TailInv'
    BY TailStep
<1>3. TypeOK /\ TailInv => RecentIsTail
    <2> SUFFICES ASSUME TypeOK, TailInv, ~split
                 PROVE  \E i \in 0..Len(said) : Recent = SubSeq(said, i + 1, Len(said))
        BY DEF RecentIsTail
    <2>0. /\ redis \in Seq(Entries) /\ local \in Seq(Entries) /\ said \in Seq(Entries)
          /\ RingSize \in Nat /\ up \in BOOLEAN
        BY MemoryAssumption DEF TypeOK, MemoryTypeOK, TurnTypeOK
    <2>1. CASE up
        <3>1. Ends(redis, said)
            BY <2>1 DEF TailInv
        <3>2. Newest(redis, RingSize) \in Seq(Entries) /\ Ends(Newest(redis, RingSize), redis)
            BY <2>0, NewestProperties
        <3>3. Ends(Newest(redis, RingSize), said)
            BY <2>0, <3>1, <3>2, EndsTransitive
        <3> QED
            BY <2>0, <2>1, <3>2, <3>3, EndsIsSubSeq DEF Recent
    <2>2. CASE ~up
        <3>1. Ends(local, said)
            BY <2>2 DEF TailInv
        <3> QED
            BY <2>0, <2>2, <3>1, EndsIsSubSeq DEF Recent
    <2> QED
        BY <2>1, <2>2
<1> QED
    BY <1>1, <1>2, <1>3, TypesAreKept, PTL DEF Spec

-----------------------------------------------------------------------------
(* Whole turns.  In each list a message that no fault and no other turn tore has *)
(* its answer next to it: the question at the end may wait for its answer while     *)
(* its turn saves, and a list of a length in cuts may begin with an answer.            *)

Paired(s, T, open, cuts) ==
    \A i \in 1..Len(s) : s[i][2] \notin T =>
        \/ s[i][1] = "user" /\ i < Len(s) /\ s[i + 1] = Entry("assistant", s[i][2])
        \/ s[i][1] = "user" /\ i = Len(s) /\ s[i][2] \in open
        \/ s[i][1] = "assistant" /\ i > 1 /\ s[i - 1] = Entry("user", s[i][2])
        \/ s[i][1] = "assistant" /\ i = 1 /\ Len(s) \in cuts

LastIsQuestion(s, m) == s # <<>> /\ s[Len(s)] = Entry("user", m)

LEMMA EntryParts ==
    ASSUME NEW role, NEW m
    PROVE  Entry(role, m)[1] = role /\ Entry(role, m)[2] = m
BY DEF Entry

LEMMA PairedEmpty ==
    ASSUME NEW T, NEW open, NEW cuts
    PROVE  Paired(<<>>, T, open, cuts)
BY DEF Paired

LEMMA PairedWeaker ==
    ASSUME NEW s, NEW T, NEW open, NEW cuts, Paired(s, T, open, cuts),
           NEW T2, NEW open2, T \subseteq T2, open \ T2 \subseteq open2
    PROVE  Paired(s, T2, open2, cuts)
BY DEF Paired

\* A question joins a list whose last question is answered or torn; an answer
\* follows its own question, or is torn.
LEMMA PairedAppend ==
    ASSUME NEW s \in Seq(Entries), NEW T, NEW open, NEW cuts, Paired(s, T, open, cuts),
           NEW role \in {"user", "assistant"}, NEW m \in Messages,
           NEW T2, NEW open2, T \subseteq T2, Len(s) \in cuts => Len(s) + 1 \in cuts,
           \A n \in open : n \in T2 \/ (role = "assistant" /\ n = m),
           m \notin T2 => \/ role = "user" /\ m \in open2
                          \/ role = "assistant" /\ LastIsQuestion(s, m)
    PROVE  Paired(Append(s, Entry(role, m)), T2, open2, cuts)
<1> DEFINE e == Entry(role, m)
           t == Append(s, e)
<1>1. /\ Len(s) \in Nat /\ Len(t) = Len(s) + 1 /\ t[Len(s) + 1] = e
      /\ \A i \in 1..Len(s) : t[i] = s[i]
    <2>1. e \in Entries
        BY DEF Entries
    <2> QED
        BY <2>1, AppendProperties
<1>2. e[1] = role /\ e[2] = m
    BY EntryParts
<1> SUFFICES ASSUME NEW i \in 1..Len(t), t[i][2] \notin T2
             PROVE  \/ t[i][1] = "user" /\ i < Len(t) /\ t[i + 1] = Entry("assistant", t[i][2])
                    \/ t[i][1] = "user" /\ i = Len(t) /\ t[i][2] \in open2
                    \/ t[i][1] = "assistant" /\ i > 1 /\ t[i - 1] = Entry("user", t[i][2])
                    \/ t[i][1] = "assistant" /\ i = 1 /\ Len(t) \in cuts
    BY DEF Paired
<1>3. CASE i = Len(s) + 1
    <2>1. t[i] = e /\ m \notin T2
        BY <1>1, <1>2, <1>3
    <2>2. CASE role = "user"
        BY <1>1, <1>2, <1>3, <2>1, <2>2
    <2>3. CASE role = "assistant"
        <3>1. Len(s) # 0 /\ s[Len(s)] = Entry("user", m)
            BY <2>1, <2>3 DEF LastIsQuestion
        <3>2. i > 1 /\ i - 1 = Len(s) /\ t[i - 1] = s[Len(s)]
            BY <1>1, <1>3, <3>1
        <3> QED
            BY <1>2, <2>1, <2>3, <3>1, <3>2
    <2> QED
        BY <2>2, <2>3
<1>4. CASE i # Len(s) + 1
    <2>1. i \in 1..Len(s) /\ t[i] = s[i] /\ s[i][2] \notin T
        BY <1>1, <1>4
    <2>2. CASE s[i][1] = "user" /\ i < Len(s) /\ s[i + 1] = Entry("assistant", s[i][2])
        <3>1. i + 1 \in 1..Len(s) /\ t[i + 1] = s[i + 1]
            BY <1>1, <2>1, <2>2
        <3> QED
            BY <1>1, <2>1, <2>2, <3>1
    <2>3. CASE s[i][1] = "user" /\ i = Len(s) /\ s[i][2] \in open
        <3>1. role = "assistant" /\ s[i][2] = m
            BY <2>1, <2>3
        <3> QED
            BY <1>1, <2>1, <2>3, <3>1
    <2>4. CASE s[i][1] = "assistant" /\ i > 1 /\ s[i - 1] = Entry("user", s[i][2])
        <3>1. i - 1 \in 1..Len(s) /\ t[i - 1] = s[i - 1]
            BY <1>1, <2>1, <2>4
        <3> QED
            BY <2>1, <2>4, <3>1
    <2>5. CASE s[i][1] = "assistant" /\ i = 1 /\ Len(s) \in cuts
        BY <1>1, <2>1, <2>5
    <2> QED
        BY <2>1, <2>2, <2>3, <2>4, <2>5 DEF Paired
<1> QED
    BY <1>3, <1>4

LEMMA PairedNewest ==
    ASSUME NEW s \in Seq(Entries), NEW T, NEW open, NEW cuts, Paired(s, T, open, cuts),
           NEW n \in Nat \ {0}, NEW cuts2,
           Len(s) \in cuts /\ Len(s) <= n => Len(s) \in cuts2, Len(s) > n => n \in cuts2
    PROVE  Paired(Newest(s, n), T, open, cuts2)
<1> DEFINE t == Newest(s, n)
<1>0. Len(s) \in Nat
    OBVIOUS
<1>1. CASE Len(s) <= n
    BY <1>1 DEF Newest, Paired
<1>2. CASE Len(s) > n
    <2> DEFINE k == Len(s) - n
    <2>1. Len(t) = n /\ Ends(t, s) /\ k \in Nat /\ n \in cuts2
        BY <1>0, <1>2, NewestProperties
    <2>2. \A j \in 1..n : t[j] = s[k + j] /\ k + j \in 1..Len(s)
        BY <1>0, <1>2, <2>1 DEF Ends
    <2> SUFFICES ASSUME NEW i \in 1..n, t[i][2] \notin T
                 PROVE  \/ t[i][1] = "user" /\ i < n /\ t[i + 1] = Entry("assistant", t[i][2])
                        \/ t[i][1] = "user" /\ i = n /\ t[i][2] \in open
                        \/ t[i][1] = "assistant" /\ i > 1 /\ t[i - 1] = Entry("user", t[i][2])
                        \/ t[i][1] = "assistant" /\ i = 1 /\ n \in cuts2
        BY <2>1 DEF Paired
    <2> DEFINE j == k + i
    <2>3. t[i] = s[j] /\ j \in 1..Len(s) /\ s[j][2] \notin T
        BY <2>2
    <2>4. CASE s[j][1] = "user" /\ j < Len(s) /\ s[j + 1] = Entry("assistant", s[j][2])
        <3>1. i + 1 \in 1..n /\ k + (i + 1) = j + 1
            BY <1>0, <2>1, <2>4
        <3>2. t[i + 1] = s[j + 1]
            BY <2>2, <3>1
        <3> QED
            BY <2>3, <2>4, <3>1, <3>2
    <2>5. CASE s[j][1] = "user" /\ j = Len(s) /\ s[j][2] \in open
        BY <1>0, <2>1, <2>3, <2>5
    <2>6. CASE s[j][1] = "assistant" /\ j > 1 /\ s[j - 1] = Entry("user", s[j][2])
        <3>1. CASE i = 1
            BY <2>1, <2>3, <2>6, <3>1
        <3>2. CASE i # 1
            <4>1. i - 1 \in 1..n /\ k + (i - 1) = j - 1
                BY <1>0, <2>1, <3>2
            <4>2. t[i - 1] = s[j - 1]
                BY <2>2, <4>1
            <4> QED
                BY <2>3, <2>6, <4>1, <4>2
        <3> QED
            BY <3>1, <3>2
    <2>7. CASE s[j][1] = "assistant" /\ j = 1 /\ Len(s) \in cuts
        BY <1>0, <2>1, <2>3, <2>7
    <2> QED
        BY <2>3, <2>4, <2>5, <2>6, <2>7 DEF Paired
<1> QED
    BY <1>0, <1>1, <1>2

LEMMA IntervalSize ==
    ASSUME NEW n \in Nat
    PROVE  IsFiniteSet(1..n) /\ Cardinality(1..n) = n
<1>1. 1 \in Int /\ n \in Int
    OBVIOUS
<1>2. IsFiniteSet(1..n) /\ Cardinality(1..n) = IF 1 > n THEN 0 ELSE n - 1 + 1
    BY <1>1, FS_Interval
<1> QED
    BY <1>2

\* A list without an open or a torn message is whole turns, unless it was cut in
\* the middle of one, which leaves an odd number of entries.
LEMMA PairedWhole ==
    ASSUME NEW s \in Seq(Entries), NEW T, NEW cuts, Paired(s, T, {}, cuts),
           Len(s) \in cuts => Len(s) % 2 = 0, \A i \in DOMAIN s : s[i][2] \notin T
    PROVE  WholeTurns(s)
<1> DEFINE P == PairEnds(s)
           U == {i \in 1..Len(s) : s[i][1] = "user"}
           A == {i \in 1..Len(s) : s[i][1] = "assistant"}
<1>0. Len(s) \in Nat /\ DOMAIN s = 1..Len(s)
    OBVIOUS
<1>1. \A i \in 1..Len(s) :
        \/ s[i][1] = "user" /\ i < Len(s) /\ s[i + 1] = Entry("assistant", s[i][2])
        \/ s[i][1] = "assistant" /\ i > 1 /\ s[i - 1] = Entry("user", s[i][2])
        \/ s[i][1] = "assistant" /\ i = 1 /\ Len(s) \in cuts
    BY <1>0 DEF Paired
<1>2. P = A \ {1}
    <2>1. \A i \in A \ {1} : s[i - 1][1] = "user"
        BY <1>1, EntryParts
    <2> QED
        BY <1>0, <2>1 DEF PairEnds
<1>3. \A i \in P : i - 1 \in U /\ s[i - 1] = Entry("user", s[i][2])
    <2> SUFFICES ASSUME NEW i \in P PROVE i - 1 \in U /\ s[i - 1] = Entry("user", s[i][2])
        OBVIOUS
    <2>1. i \in 1..Len(s) /\ i # 1 /\ s[i][1] = "assistant"
        BY <1>2
    <2>2. i > 1 /\ s[i - 1] = Entry("user", s[i][2])
        BY <1>1, <2>1
    <2>3. i - 1 \in 1..Len(s) /\ s[i - 1][1] = "user"
        BY <1>0, <2>1, <2>2, EntryParts
    <2> QED
        BY <2>2, <2>3
<1>4. \A i \in U : i + 1 \in P
    <2> SUFFICES ASSUME NEW i \in U PROVE i + 1 \in P
        OBVIOUS
    <2>1. i < Len(s) /\ s[i + 1] = Entry("assistant", s[i][2])
        BY <1>1
    <2>2. i + 1 \in 1..Len(s) /\ i + 1 # 1 /\ s[i + 1][1] = "assistant"
        BY <1>0, <2>1, EntryParts
    <2> QED
        BY <1>2, <2>2
<1>5. IsFiniteSet(U) /\ IsFiniteSet(A) /\ Cardinality(U) \in Nat /\ Cardinality(A) \in Nat
    <2>1. IsFiniteSet(1..Len(s))
        BY <1>0, IntervalSize
    <2>2. U \in SUBSET (1..Len(s)) /\ A \in SUBSET (1..Len(s))
        OBVIOUS
    <2>3. IsFiniteSet(U) /\ IsFiniteSet(A)
        BY <2>1, <2>2, FS_Subset
    <2> QED
        BY <2>3, FS_CardinalityType
<1>6. Cardinality(P) = Cardinality(U)
    <2> DEFINE f == [i \in U |-> i + 1]
    <2>1. f \in [U -> P]
        BY <1>4
    <2>2. \A a, b \in U : f[a] = f[b] => a = b
        BY <1>0
    <2>3. \A p \in P : \E i \in U : f[i] = p
        <3> SUFFICES ASSUME NEW p \in P PROVE \E i \in U : f[i] = p
            OBVIOUS
        <3>1. p - 1 \in U /\ p \in Nat
            BY <1>2, <1>3
        <3>2. f[p - 1] = p
            BY <3>1
        <3> QED
            BY <3>1, <3>2
    <2> HIDE DEF f
    <2>4. f \in Bijection(U, P)
        BY <2>1, <2>2, <2>3, Fun_IsBij
    <2>5. ExistsBijection(U, P)
        BY <2>4 DEF ExistsBijection
    <2> QED
        BY <1>5, <2>5, FS_Bijection
<1>7. 1 \in A => Len(s) \in cuts
    BY <1>1
<1> HIDE DEF P, U, A
<1>8. Len(s) = Cardinality(U) + Cardinality(A)
    <2>1. U \cup A = 1..Len(s) /\ U \cap A = {}
        BY <1>1 DEF U, A
    <2>2. Cardinality(U \cup A) = Cardinality(U) + Cardinality(A) - Cardinality(U \cap A)
        BY <1>5, FS_Union
    <2>3. Cardinality(1..Len(s)) = Len(s)
        BY <1>0, IntervalSize
    <2>4. Cardinality(U \cap A) = 0
        BY <2>1, FS_EmptySet
    <2>5. Cardinality(U \cup A) = Len(s)
        BY <2>1, <2>3, Zenon
    <2> QED
        BY <1>5, <2>2, <2>4, <2>5
<1>9. Len(s) = 2 * Cardinality(P)
    <2>1. CASE 1 \notin A
        <3>1. A = P
            BY <1>2, <2>1
        <3>2. Len(s) = Cardinality(P) + Cardinality(P) /\ Cardinality(P) \in Nat
            BY <1>5, <1>6, <1>8, <3>1
        <3> QED
            BY <3>2
    <2>2. CASE 1 \in A
        <3>1. Cardinality(P) = Cardinality(A) - 1
            BY <1>2, <1>5, <2>2, FS_RemoveElement
        <3>2. Len(s) = 2 * Cardinality(P) + 1
            BY <1>5, <1>6, <1>8, <3>1
        <3>3. Cardinality(P) \in Nat /\ Len(s) % 2 = 0
            BY <1>5, <1>6, <1>7, <2>2
        <3> QED
            BY <3>2, <3>3
    <2> QED
        BY <2>1, <2>2
<1> QED
    BY <1>3, <1>9 DEF WholeTurns, P

\* Messages whose turn is at a step, and the list the process uses.
OpenAt(at) == {Msg(t) : t \in {t \in Turns : At(t, at)}}
InUse == IF up THEN redis ELSE local

\* The table: the answer follows in the turn's next step.
RowsPaired ==
    /\ Paired(rows, torn, OpenAt("answer"), {})
    /\ ~enabled => rows = <<>>
    /\ \A t \in Turns : At(t, "answer") /\ enabled /\ Msg(t) \notin torn => LastIsQuestion(rows, Msg(t))

\* The two lists of the memory store, of which a full one may be cut.
FullSizes == {n \in Nat : n >= RingSize}
OpenInRedis == IF up THEN OpenAt("ring answer") ELSE {}
OpenInLocal == IF up THEN {} ELSE OpenAt("ring answer")
RingPaired ==
    /\ Paired(redis, torn, OpenInRedis, FullSizes)
    /\ Paired(local, torn, OpenInLocal, FullSizes)
    /\ Len(local) <= RingSize
    /\ \A t \in Turns : At(t, "ring answer") /\ Msg(t) \notin torn => LastIsQuestion(InUse, Msg(t))

\* A turn at a step stays there, or its message is torn; and none comes there untorn.
SameAt(at) ==
    \A t \in Turns :
        /\ turn[t].at = at => turn[t].msg \in torn' \/ (turn'[t].at = at /\ turn'[t].msg = turn[t].msg)
        /\ turn'[t].at = at => turn'[t].msg \in torn' \/ (turn[t].at = at /\ turn'[t].msg = turn[t].msg)

LEMMA OpenStays ==
    ASSUME NEW at, SameAt(at)
    PROVE  OpenAt(at) \ torn' \subseteq OpenAt(at)'
BY DEF SameAt, OpenAt, At, Msg

LEMMA RowsStay ==
    ASSUME RowsPaired, UNCHANGED <<rows, enabled>>, torn \subseteq torn', SameAt("answer")
    PROVE  RowsPaired'
<1>1. Paired(rows, torn', OpenAt("answer")', {})
    BY OpenStays, PairedWeaker DEF RowsPaired
<1>2. \A t \in Turns : turn'[t].at = "answer" /\ enabled /\ turn'[t].msg \notin torn'
                         => LastIsQuestion(rows, turn'[t].msg)
    <2> SUFFICES ASSUME NEW t \in Turns, turn'[t].at = "answer", enabled, turn'[t].msg \notin torn'
                 PROVE  LastIsQuestion(rows, turn'[t].msg)
        OBVIOUS
    <2>1. turn[t].at = "answer" /\ turn'[t].msg = turn[t].msg /\ turn[t].msg \notin torn
        BY DEF SameAt
    <2> QED
        BY <2>1 DEF RowsPaired, At, Msg
<1>3. ~enabled' => rows' = <<>>
    BY DEF RowsPaired
<1>4. Paired(rows, torn, OpenAt("answer"), {})'
    BY <1>1 DEF Paired, Entry
<1>5. \A t \in Turns : (At(t, "answer") /\ enabled /\ Msg(t) \notin torn => LastIsQuestion(rows, Msg(t)))'
    BY <1>2 DEF LastIsQuestion, At, Msg, Entry
<1> QED
    BY <1>3, <1>4, <1>5 DEF RowsPaired

LEMMA RingStays ==
    ASSUME RingPaired, up \in BOOLEAN, up' \in BOOLEAN, UNCHANGED <<redis, local>>,
           torn \subseteq torn', SameAt("ring answer"),
           up' = up \/ \A t \in Turns : /\ turn'[t].at = "ring answer" => turn'[t].msg \in torn'
                                        /\ turn[t].at = "ring answer" => turn[t].msg \in torn'
    PROVE  RingPaired'
<1>1. OpenAt("ring answer") \ torn' \subseteq OpenAt("ring answer")'
    BY OpenStays
<1>2. up' # up => OpenAt("ring answer") \subseteq torn'
    BY DEF OpenAt, At, Msg
<1>3. OpenInRedis \ torn' \subseteq OpenInRedis'
    BY <1>1, <1>2 DEF OpenInRedis
<1>4. OpenInLocal \ torn' \subseteq OpenInLocal'
    BY <1>1, <1>2 DEF OpenInLocal
<1>5. Paired(redis, torn', OpenInRedis', FullSizes)
    BY <1>3 DEF RingPaired, Paired
<1>6. Paired(local, torn', OpenInLocal', FullSizes)
    BY <1>4 DEF RingPaired, Paired
<1>7. ASSUME NEW t \in Turns, turn'[t].at = "ring answer", turn'[t].msg \notin torn'
      PROVE  LastIsQuestion(InUse', turn'[t].msg)
    <2>1. turn[t].at = "ring answer" /\ turn'[t].msg = turn[t].msg /\ turn[t].msg \notin torn
        BY <1>7 DEF SameAt
    <2>2. up' = up
        BY <1>7
    <2>3. InUse' = InUse
        BY <2>2 DEF InUse
    <2>4. LastIsQuestion(InUse, turn[t].msg)
        BY <2>1 DEF RingPaired, At, Msg
    <2> QED
        BY <2>1, <2>3, <2>4
<1>8. Paired(redis, torn, OpenInRedis, FullSizes)' /\ Paired(local, torn, OpenInLocal, FullSizes)'
    <2>1. Paired(redis', torn', OpenInRedis', FullSizes)
        BY <1>5
    <2>2. Paired(local', torn', OpenInLocal', FullSizes)
        BY <1>6
    <2>3. Paired(redis, torn, OpenInRedis, FullSizes)'
        BY <2>1 DEF Paired, FullSizes, Entry
    <2>4. Paired(local, torn, OpenInLocal, FullSizes)'
        BY <2>2 DEF Paired, FullSizes, Entry
    <2> QED
        BY <2>3, <2>4
<1>9. \A t \in Turns : (At(t, "ring answer") /\ Msg(t) \notin torn => LastIsQuestion(InUse, Msg(t)))'
    BY <1>7 DEF LastIsQuestion, At, Msg, Entry
<1> QED
    BY <1>8, <1>9 DEF RingPaired

\* A turn that goes on changes its own place only.
LEMMA Continued ==
    ASSUME TurnTypeOK, NEW t \in Turns, turn[t].at # "idle", NEW p, Continue(t, p)
    PROVE  /\ turn'[t].at = p /\ turn'[t].msg = turn[t].msg
           /\ \A s \in Turns \ {t} : turn'[s] = turn[s]
BY BusyTurn DEF Continue, TurnTypeOK, BusyTurns

\* A write tears what other turns are saving.
LEMMA TearsOthers ==
    ASSUME NEW t \in Turns, NEW broken, Tear(t, broken)
    PROVE  /\ torn \subseteq torn' /\ (broken => Msg(t) \in torn')
           /\ \A s \in Turns \ {t} : Saving(s) => Msg(s) \in torn'
BY DEF Tear, Mingled

LEMMA SaveUserPairs ==
    ASSUME TypeOK, RowsPaired, NEW t \in Turns, SaveUser(t)
    PROVE  RowsPaired'
<1> DEFINE m == Msg(t)
<1>0. /\ TurnTypeOK /\ turn[t].at = "user" /\ rows \in Seq(Entries) /\ enabled' = enabled
      /\ Tear(t, MessageExists(m))
    BY DEF TypeOK, TurnTypeOK, SaveUser, At
<1>m. m \in Messages
    BY <1>0, BusyTurn
<1>1. /\ turn'[t].at = "answer" /\ turn'[t].msg = m
      /\ \A s \in Turns \ {t} : turn'[s] = turn[s]
    BY <1>0, Continued DEF SaveUser, Msg
<1>2. /\ torn \subseteq torn' /\ (MessageExists(m) => m \in torn')
      /\ \A s \in Turns \ {t} : turn[s].at = "answer" => turn[s].msg \in torn'
    BY <1>0, TearsOthers DEF Saving, Msg
<1>3. CASE m \in torn'
    <2>1. \A s \in Turns : turn'[s].at = "answer" => turn'[s].msg \in torn'
        BY <1>1, <1>2, <1>3
    <2>2. \A n \in OpenAt("answer") : n \in torn'
        BY <1>0, <1>2 DEF OpenAt, At, Msg
    <2>3. rows' = rows \/ rows' = Append(rows, Entry("user", m))
        BY DEF SaveUser
    <2>4. Paired(Append(rows, Entry("user", m)), torn', OpenAt("answer")', {})
        BY <1>0, <1>m, <1>2, <1>3, <2>2, PairedAppend DEF RowsPaired
    <2>5. Paired(rows, torn', OpenAt("answer")', {})
        BY <1>2, <2>2, PairedWeaker DEF RowsPaired
    <2>6. Paired(rows', torn', OpenAt("answer")', {})
        BY <2>3, <2>4, <2>5
    <2>7. ~enabled' => rows' = <<>>
        BY <1>0 DEF SaveUser, RowsPaired
    <2> QED
        BY <2>1, <2>6, <2>7 DEF RowsPaired, At, Msg, Paired, Entry
<1>4. CASE m \notin torn'
    <2>1. CASE ~enabled
        <3>1. rows = <<>> /\ rows' = <<>>
            BY <2>1 DEF SaveUser, RowsPaired
        <3> QED
            BY <1>0, <2>1, <3>1 DEF RowsPaired, Paired
    <2>2. CASE enabled
        <3>1. rows' = Append(rows, Entry("user", m))
            BY <1>2, <1>4, <2>2 DEF SaveUser
        <3>2. m \in OpenAt("answer")'
            BY <1>1 DEF OpenAt, At, Msg
        <3>3. \A n \in OpenAt("answer") : n \in torn'
            BY <1>0, <1>2 DEF OpenAt, At, Msg
        <3>4. Paired(rows', torn', OpenAt("answer")', {})
            BY <1>0, <1>m, <1>2, <3>1, <3>2, <3>3, PairedAppend DEF RowsPaired
        <3>5. LastIsQuestion(rows', m)
            <4>1. Entry("user", m) \in Entries
                BY <1>m, EntryType
            <4> QED
                BY <1>0, <3>1, <4>1, AppendProperties DEF LastIsQuestion
        <3>6. \A s \in Turns : turn'[s].at = "answer" /\ turn'[s].msg \notin torn' => LastIsQuestion(rows', turn'[s].msg)
            BY <1>1, <1>2, <3>5
        <3> QED
            BY <1>0, <2>2, <3>4, <3>6 DEF RowsPaired, At, Msg, Paired, Entry, LastIsQuestion
    <2> QED
        BY <2>1, <2>2
<1> QED
    BY <1>3, <1>4

LEMMA SaveAnswerPairs ==
    ASSUME TypeOK, RowsPaired, NEW t \in Turns, SaveAnswer(t)
    PROVE  RowsPaired'
<1> DEFINE m == Msg(t)
<1>0. /\ TurnTypeOK /\ turn[t].at = "answer" /\ rows \in Seq(Entries) /\ enabled' = enabled
      /\ Tear(t, FALSE)
    BY DEF TypeOK, TurnTypeOK, SaveAnswer, At
<1>m. m \in Messages
    BY <1>0, BusyTurn
<1>1. /\ turn'[t].at = "ring user"
      /\ \A s \in Turns \ {t} : turn'[s] = turn[s]
    BY <1>0, Continued DEF SaveAnswer, Msg
<1>2. /\ torn \subseteq torn'
      /\ \A s \in Turns \ {t} : turn[s].at = "answer" => turn[s].msg \in torn'
    BY <1>0, TearsOthers DEF Saving, Msg
<1>3. \A s \in Turns : turn'[s].at = "answer" => turn'[s].msg \in torn'
    BY <1>1, <1>2
<1>4. CASE ~enabled
    <2>1. rows = <<>> /\ rows' = <<>>
        BY <1>4 DEF SaveAnswer, RowsPaired
    <2> QED
        BY <1>0, <1>4, <2>1 DEF RowsPaired, Paired
<1>5. CASE enabled
    <2>1. rows' = Append(rows, Entry("assistant", m))
        BY <1>5 DEF SaveAnswer
    <2>2. \A n \in OpenAt("answer") : n \in torn' \/ n = m
        BY <1>2 DEF OpenAt, At, Msg
    <2>3. m \notin torn' => LastIsQuestion(rows, m)
        BY <1>0, <1>2, <1>5 DEF RowsPaired, At
    <2>4. Paired(rows', torn', OpenAt("answer")', {})
        BY <1>0, <1>m, <1>2, <2>1, <2>2, <2>3, PairedAppend DEF RowsPaired
    <2> QED
        BY <1>0, <1>3, <1>5, <2>4 DEF RowsPaired, At, Msg, Paired, Entry
<1> QED
    BY <1>4, <1>5

LEMMA TrimmedSize ==
    ASSUME NEW s \in Seq(Entries), NEW role \in {"user", "assistant"}, NEW m \in Messages
    PROVE  Len(Trimmed(Append(s, Entry(role, m)))) <= RingSize
<1>1. RingSize \in Nat \ {0} /\ Append(s, Entry(role, m)) \in Seq(Entries)
    BY MemoryAssumption DEF Entries
<1>2. Len(Append(s, Entry(role, m))) \in Nat
    BY <1>1
<1>3. /\ Newest(Append(s, Entry(role, m)), RingSize) \in Seq(Entries)
      /\ Len(Newest(Append(s, Entry(role, m)), RingSize))
           = IF Len(Append(s, Entry(role, m))) <= RingSize THEN Len(Append(s, Entry(role, m))) ELSE RingSize
    BY <1>1, NewestProperties
<1> QED
    BY <1>1, <1>2, <1>3 DEF Trimmed

\* The list in use, when an entry is added and the list is trimmed or not.
LEMMA RingAppend ==
    ASSUME NEW s \in Seq(Entries), NEW T, NEW open, Paired(s, T, open, FullSizes),
           NEW role \in {"user", "assistant"}, NEW m \in Messages,
           NEW T2, NEW open2, T \subseteq T2,
           \A n \in open : n \in T2 \/ (role = "assistant" /\ n = m),
           m \notin T2 => \/ role = "user" /\ m \in open2
                          \/ role = "assistant" /\ LastIsQuestion(s, m)
    PROVE  /\ Paired(Append(s, Entry(role, m)), T2, open2, FullSizes)
           /\ Paired(Trimmed(Append(s, Entry(role, m))), T2, open2, FullSizes)
           /\ role = "user" => LastIsQuestion(Trimmed(Append(s, Entry(role, m))), m)
<1> DEFINE e == Entry(role, m)
           t == Append(s, e)
<1>0. RingSize \in Nat \ {0} /\ e \in Entries /\ Len(s) \in Nat
    BY MemoryAssumption DEF Entries
<1>1. t \in Seq(Entries) /\ Len(t) = Len(s) + 1 /\ t[Len(t)] = e
    BY <1>0, AppendProperties
<1>2. Len(s) \in FullSizes => Len(s) + 1 \in FullSizes
    BY <1>0 DEF FullSizes
<1>3. Paired(t, T2, open2, FullSizes)
    BY <1>2, PairedAppend
<1>4. RingSize \in FullSizes
    BY <1>0 DEF FullSizes
<1>5. Paired(Trimmed(t), T2, open2, FullSizes)
    BY <1>0, <1>1, <1>3, <1>4, PairedNewest DEF Trimmed
<1>6. /\ Trimmed(t) \in Seq(Entries) /\ Ends(Trimmed(t), t)
      /\ Len(Trimmed(t)) = IF Len(t) <= RingSize THEN Len(t) ELSE RingSize
    BY <1>0, <1>1, NewestProperties DEF Trimmed
<1>7. Len(Trimmed(t)) <= RingSize /\ Len(Trimmed(t)) \in Nat \ {0}
    BY <1>0, <1>1, <1>6
<1>8. Trimmed(t)[Len(Trimmed(t))] = e
    <2>1. Len(Trimmed(t)) \in 1..Len(Trimmed(t)) /\ Len(t) - Len(Trimmed(t)) + Len(Trimmed(t)) = Len(t)
        BY <1>0, <1>1, <1>7
    <2> QED
        BY <1>1, <1>6, <2>1 DEF Ends
<1>9. Trimmed(t) # <<>>
    BY <1>7
<1> QED
    BY <1>3, <1>5, <1>7, <1>8, <1>9 DEF LastIsQuestion

\* add_recent: the list it writes gets the question, or the answer to its last
\* question; a command that fails tears the message, and the process goes on with
\* the other list.
LEMMA AddPairs ==
    ASSUME TypeOK, RingPaired, NEW t \in Turns, NEW role \in {"user", "assistant"},
           NEW at, NEW next, AddRecent(t, at, role, next),
           role = "user" => at = "ring user" /\ next = "ring answer",
           role = "assistant" => at = "ring answer" /\ next = "stage"
    PROVE  RingPaired'
<1> DEFINE m == Msg(t)
           open == OpenAt("ring answer")
           added(s) == Append(s, Entry(role, m))
<1>0. /\ TurnTypeOK /\ redis \in Seq(Entries) /\ local \in Seq(Entries) /\ up \in BOOLEAN
      /\ turn[t].at = at /\ turn[t].at # "idle"
    BY DEF TypeOK, TurnTypeOK, MemoryTypeOK, AddRecent, At
<1>m. m \in Messages
    BY <1>0, BusyTurn
<1>1. /\ turn'[t].at = next /\ turn'[t].msg = m
      /\ \A s \in Turns \ {t} : turn'[s] = turn[s]
    BY <1>0, Continued DEF AddRecent, Msg
<1>2. \/ Add(Entry(role, m)) /\ Tear(t, FALSE)
      \/ AddFails(Entry(role, m)) /\ Tear(t, TRUE)
    BY DEF AddRecent
<1>3. /\ torn \subseteq torn' /\ (AddFails(Entry(role, m)) => m \in torn' \/ Add(Entry(role, m)))
      /\ \A s \in Turns \ {t} : turn[s].at = "ring answer" => turn[s].msg \in torn'
    BY <1>2, TearsOthers DEF Saving, Msg
<1>4. \A n \in open : n \in torn' \/ (role = "assistant" /\ n = m)
    BY <1>0, <1>3 DEF OpenAt, At, Msg
<1>5. \A s \in Turns : turn'[s].at = "ring answer" =>
        turn'[s].msg \in torn' \/ (role = "user" /\ turn'[s].msg = m)
    BY <1>1, <1>3
<1>6. role = "assistant" /\ m \notin torn' => LastIsQuestion(InUse, m)
    BY <1>0, <1>3 DEF RingPaired, At
<1>7. role = "user" => m \in OpenAt("ring answer")'
    BY <1>1 DEF OpenAt, At, Msg
<1>8. CASE Add(Entry(role, m)) /\ up
    <2>1. up' /\ local' = local /\ redis' = Trimmed(added(redis))
        BY <1>8 DEF Add
    <2>2. OpenInRedis = open /\ OpenInRedis' = OpenAt("ring answer")' /\ InUse = redis
        BY <1>8, <2>1 DEF OpenInRedis, InUse
    <2>3. m \notin torn' => (role = "user" /\ m \in OpenInRedis') \/ (role = "assistant" /\ LastIsQuestion(redis, m))
        BY <1>6, <1>7, <2>2
    <2>4. Paired(redis, torn, OpenInRedis, FullSizes)
        BY DEF RingPaired
    <2>5. Paired(redis', torn', OpenInRedis', FullSizes) /\ (role = "user" => LastIsQuestion(redis', m))
        <3>1. \A n \in OpenInRedis : n \in torn' \/ (role = "assistant" /\ n = m)
            BY <1>4, <2>2
        <3>0. redis \in Seq(Entries) /\ torn \subseteq torn'
            BY <1>0, <1>3
        <3>2. /\ Paired(Trimmed(added(redis)), torn', OpenInRedis', FullSizes)
              /\ role = "user" => LastIsQuestion(Trimmed(added(redis)), m)
            BY <1>m, <2>3, <2>4, <3>0, <3>1, RingAppend
        <3> QED
            BY <2>1, <3>2
    <2>6. Paired(local', torn', OpenInLocal', FullSizes) /\ Len(local') <= RingSize
        BY <1>3, <1>8, <2>1 DEF RingPaired, OpenInLocal, Paired
    <2>7. \A s \in Turns : turn'[s].at = "ring answer" /\ turn'[s].msg \notin torn'
                             => LastIsQuestion(redis', turn'[s].msg)
        BY <1>5, <2>5
    <2> QED
        BY <2>1, <2>5, <2>6, <2>7 DEF RingPaired, Paired, FullSizes, Entry, At, Msg, LastIsQuestion, InUse
<1>9. CASE Add(Entry(role, m)) /\ ~up
    <2>1. ~up' /\ redis' = redis /\ local' = Trimmed(added(local))
        BY <1>9 DEF Add
    <2>2. OpenInLocal = open /\ OpenInLocal' = OpenAt("ring answer")' /\ InUse = local
        BY <1>9, <2>1 DEF OpenInLocal, InUse
    <2>3. m \notin torn' => (role = "user" /\ m \in OpenInLocal') \/ (role = "assistant" /\ LastIsQuestion(local, m))
        BY <1>6, <1>7, <2>2
    <2>4. Paired(local, torn, OpenInLocal, FullSizes)
        BY DEF RingPaired
    <2>5. /\ Paired(local', torn', OpenInLocal', FullSizes) /\ Len(local') <= RingSize
          /\ role = "user" => LastIsQuestion(local', m)
        <3>1. \A n \in OpenInLocal : n \in torn' \/ (role = "assistant" /\ n = m)
            BY <1>4, <2>2
        <3>0. local \in Seq(Entries) /\ torn \subseteq torn'
            BY <1>0, <1>3
        <3>2. Paired(Trimmed(added(local)), torn', OpenInLocal', FullSizes)
            BY <1>m, <2>3, <2>4, <3>0, <3>1, RingAppend
        <3>3. Len(Trimmed(added(local))) <= RingSize
            BY <1>m, <3>0, TrimmedSize
        <3>4. role = "user" => LastIsQuestion(Trimmed(added(local)), m)
            BY <1>m, <2>3, <2>4, <3>0, <3>1, RingAppend
        <3> QED
            BY <2>1, <3>2, <3>3, <3>4
    <2>6. Paired(redis', torn', OpenInRedis', FullSizes)
        BY <1>3, <1>9, <2>1 DEF RingPaired, OpenInRedis, Paired
    <2>7. \A s \in Turns : turn'[s].at = "ring answer" /\ turn'[s].msg \notin torn'
                             => LastIsQuestion(local', turn'[s].msg)
        BY <1>5, <2>5
    <2> QED
        BY <2>1, <2>5, <2>6, <2>7 DEF RingPaired, Paired, FullSizes, Entry, At, Msg, LastIsQuestion, InUse
<1>10. CASE AddFails(Entry(role, m)) /\ Tear(t, TRUE)
    <2>1. /\ up /\ ~up' /\ local' = Trimmed(added(local))
          /\ redis' \in {redis, added(redis), Trimmed(added(redis))}
        BY <1>10 DEF AddFails, Disabled
    <2>2. m \in torn'
        BY <1>10, TearsOthers
    <2>3. (\A n \in OpenInRedis : n \in torn') /\ (\A n \in OpenInLocal : n \in torn')
        BY <1>4, <2>2 DEF OpenInRedis, OpenInLocal
    <2>4. Paired(redis, torn, OpenInRedis, FullSizes) /\ Paired(local, torn, OpenInLocal, FullSizes)
        BY DEF RingPaired
    <2>5. /\ Paired(added(redis), torn', OpenInRedis', FullSizes)
          /\ Paired(Trimmed(added(redis)), torn', OpenInRedis', FullSizes)
        BY <1>0, <1>m, <1>3, <2>2, <2>3, <2>4, RingAppend
    <2>6. Paired(redis, torn', OpenInRedis', FullSizes)
        BY <1>3, <2>3, <2>4, PairedWeaker
    <2>7. Paired(redis', torn', OpenInRedis', FullSizes)
        BY <2>1, <2>5, <2>6
    <2>8. Paired(local', torn', OpenInLocal', FullSizes) /\ Len(local') <= RingSize
        <3>1. Paired(Trimmed(added(local)), torn', OpenInLocal', FullSizes)
            BY <1>0, <1>m, <1>3, <2>2, <2>3, <2>4, RingAppend
        <3>2. Len(Trimmed(added(local))) <= RingSize
            BY <1>0, <1>m, TrimmedSize
        <3> QED
            BY <2>1, <3>1, <3>2
    <2>9. \A s \in Turns : turn'[s].at = "ring answer" => turn'[s].msg \in torn'
        BY <1>5, <2>2
    <2> QED
        BY <2>1, <2>7, <2>8, <2>9 DEF RingPaired, Paired, FullSizes, Entry, At, Msg
<1> QED
    BY <1>0, <1>2, <1>8, <1>9, <1>10

PairInv == RowsPaired /\ RingPaired

\* One turn that moves between other steps, or is torn, leaves a step as it was.
LEMMA MoveElsewhere ==
    ASSUME NEW t \in Turns, \A s \in Turns \ {t} : turn'[s] = turn[s], NEW at,
           turn[t].at # at \/ turn[t].msg \in torn', turn'[t].at # at
    PROVE  SameAt(at)
BY DEF SameAt

LEMMA AgentKeepsPairs ==
    ASSUME TypeOK, PairInv, NEW t \in Turns, AgentStep(t)
    PROVE  PairInv'
<1>0. TypeOK' /\ TurnTypeOK /\ RowsPaired /\ RingPaired /\ up \in BOOLEAN /\ up' \in BOOLEAN
    <2>1. TypeOK'
        BY StepTypes DEF Next
    <2> QED
        BY <2>1 DEF TypeOK, MemoryTypeOK, PairInv
<1>1. CASE Load(t)
    <2>1. turn[t].at = "load" /\ turn' = [turn EXCEPT ![t].at = "learn", ![t].known = profile]
        BY <1>1 DEF Load, At
    <2>2. turn'[t].at = "learn" /\ \A s \in Turns \ {t} : turn'[s] = turn[s]
        BY <1>0, <2>1, BusyTurn DEF TurnTypeOK, BusyTurns
    <2>3. torn \subseteq torn' /\ UNCHANGED <<rows, enabled>>
        BY <1>0, <1>1, GivenUp DEF Load
    <2>4. SameAt("answer") /\ SameAt("ring answer")
        BY <2>1, <2>2, MoveElsewhere
    <2>5. RowsPaired'
        BY <1>0, <2>3, <2>4, RowsStay
    <2>6. CASE UNCHANGED <<memoryVars, torn>>
        BY <1>0, <2>3, <2>4, <2>5, <2>6, RingStays DEF PairInv, memoryVars
    <2>7. CASE RedisGivenUp
        <3>1. UNCHANGED <<redis, local>> /\ \A s \in Turns : Saving(s) => turn[s].msg \in torn'
            BY <1>0, <2>7, GivenUp
        <3>2. \A s \in Turns : turn[s].at = "ring answer" => turn[s].msg \in torn'
            BY <3>1 DEF Saving
        <3>3. \A s \in Turns : turn'[s].at = "ring answer" => turn'[s].msg \in torn'
            BY <2>2, <3>2
        <3> QED
            BY <1>0, <2>3, <2>4, <2>5, <3>1, <3>2, <3>3, RingStays DEF PairInv
    <2> QED
        BY <1>1, <2>6, <2>7 DEF Load
<1>2. ASSUME NEW from \in {"learn", "stage"}, NEW to \in {"user", "send"},
             turn[t].at = from, Continue(t, to), UNCHANGED <<memoryVars, enabled, rows, torn>>
      PROVE  PairInv'
    <2>1. turn'[t].at = to /\ \A s \in Turns \ {t} : turn'[s] = turn[s]
        BY <1>0, <1>2, Continued
    <2>2. SameAt("answer") /\ SameAt("ring answer")
        BY <1>2, <2>1, MoveElsewhere
    <2> QED
        BY <1>0, <1>2, <2>2, RowsStay, RingStays DEF PairInv, memoryVars
<1>3. CASE SaveUser(t) \/ SaveAnswer(t)
    <2>1. PICK from \in {"user", "answer"}, to \in {"answer", "ring user"} :
            turn[t].at = from /\ Continue(t, to) /\ UNCHANGED memoryVars /\ torn \subseteq torn'
        BY <1>3, TearsOthers DEF SaveUser, SaveAnswer, At
    <2>2. turn'[t].at = to /\ \A s \in Turns \ {t} : turn'[s] = turn[s]
        BY <1>0, <2>1, Continued
    <2>3. SameAt("ring answer")
        BY <2>1, <2>2, MoveElsewhere
    <2>4. RingPaired'
        BY <1>0, <2>1, <2>3, RingStays DEF memoryVars
    <2> QED
        BY <1>0, <1>3, <2>4, SaveUserPairs, SaveAnswerPairs DEF PairInv
<1>4. CASE RingUser(t) \/ RingAnswer(t)
    <2>1. RingPaired'
        BY <1>0, <1>4, AddPairs DEF RingUser, RingAnswer
    <2>2. PICK from \in {"ring user", "ring answer"}, to \in {"ring answer", "stage"} :
            turn[t].at = from /\ Continue(t, to) /\ UNCHANGED <<rows, enabled>> /\ torn \subseteq torn'
        BY <1>4, TearsOthers DEF RingUser, RingAnswer, AddRecent, At
    <2>3. turn'[t].at = to /\ \A s \in Turns \ {t} : turn'[s] = turn[s]
        BY <1>0, <2>2, Continued
    <2>4. SameAt("answer")
        BY <2>2, <2>3, MoveElsewhere
    <2> QED
        BY <1>0, <2>1, <2>2, <2>4, RowsStay DEF PairInv
<1>5. CASE Learn(t)
    BY <1>2, <1>5 DEF Learn, At
<1>6. CASE SaveStage(t)
    BY <1>2, <1>6 DEF SaveStage, At
<1> QED
    BY <1>1, <1>3, <1>4, <1>5, <1>6 DEF AgentStep, TurnStep

\* Idle turns that begin, turns that end, and everything else that leaves the lists alone.
LEMMA QuietKeepsPairs ==
    ASSUME PairInv, up \in BOOLEAN, UNCHANGED <<memoryVars, enabled, rows>>, torn \subseteq torn',
           SameAt("answer"), SameAt("ring answer")
    PROVE  PairInv'
<1>1. up' \in BOOLEAN /\ up' = up /\ UNCHANGED <<redis, local>>
    BY DEF memoryVars
<1> QED
    BY <1>1, RowsStay, RingStays DEF PairInv

LEMMA CrashKeepsPairs ==
    ASSUME TypeOK, PairInv, Crash
    PROVE  PairInv'
<1>0. /\ local' = <<>> /\ redis' = redis /\ UNCHANGED <<enabled, rows>>
      /\ turn' = [t \in Turns |-> IdleTurn]
      /\ torn' = torn \cup {Msg(t) : t \in {t \in Turns : Saving(t)}}
    BY DEF Crash, Restart, NewStore
<1>1. \A t \in Turns : /\ turn'[t].at = "idle"
                       /\ Saving(t) => turn[t].msg \in torn'
    BY <1>0 DEF IdleTurn, Msg
<1>2. SameAt("answer") /\ SameAt("ring answer")
    BY <1>1 DEF SameAt, Saving
<1>3. RowsPaired'
    BY <1>0, <1>2, RowsStay DEF PairInv
<1>4. \A n \in OpenInRedis : n \in torn'
    BY <1>1 DEF OpenInRedis, OpenAt, At, Msg, Saving
<1>5. Paired(redis, torn', OpenInRedis', FullSizes)
    BY <1>0, <1>4 DEF PairInv, RingPaired, Paired
<1>6. Paired(redis', torn', OpenInRedis', FullSizes) /\ Paired(local', torn', OpenInLocal', FullSizes)
    BY <1>0, <1>5 DEF Paired
<1>7. Len(local') <= RingSize
    BY <1>0, MemoryAssumption
<1>8. \A t \in Turns : turn'[t].at # "ring answer"
    BY <1>1
<1>9. RingPaired'
    BY <1>6, <1>7, <1>8 DEF RingPaired, Paired, FullSizes, Entry, At
<1> QED
    BY <1>3, <1>9 DEF PairInv

LEMMA ExpireKeepsPairs ==
    ASSUME TypeOK, PairInv, ExpireMemory
    PROVE  PairInv'
<1>0. /\ redis' = <<>> /\ UNCHANGED <<local, up, enabled, rows, turn, torn>>
      /\ \A t \in Turns : turn[t].at # "ring answer"
    BY DEF ExpireMemory, Expire, Saving
<1>1. SameAt("answer")
    BY <1>0 DEF SameAt
<1>2. RowsPaired'
    BY <1>0, <1>1, RowsStay DEF PairInv
<1>3. OpenInLocal' = OpenInLocal
    BY <1>0 DEF OpenInLocal, OpenAt, At, Msg
<1>4. Paired(redis', torn', OpenInRedis', FullSizes) /\ Paired(local', torn', OpenInLocal', FullSizes)
    <2>1. Paired(local, torn, OpenInLocal, FullSizes)
        BY DEF PairInv, RingPaired
    <2>2. Paired(local', torn', OpenInLocal', FullSizes)
        BY <1>0, <1>3, <2>1, Zenon
    <2> QED
        BY <1>0, <2>2, PairedEmpty
<1>5. RingPaired'
    BY <1>0, <1>4 DEF PairInv, RingPaired, Paired, FullSizes, Entry, At
<1> QED
    BY <1>2, <1>5 DEF PairInv

\* Somebody else loses Redis between two writes of a turn, which is torn by it.
LEMMA LossKeepsPairs ==
    ASSUME TypeOK, PairInv, LoseRedis
    PROVE  PairInv'
<1>0. /\ TurnTypeOK /\ RowsPaired /\ RingPaired /\ RedisGivenUp /\ UNCHANGED <<turn, rows, enabled>>
      /\ up \in BOOLEAN /\ up' = FALSE
    BY DEF TypeOK, MemoryTypeOK, PairInv, LoseRedis, OthersGiveUp, RedisGivenUp, ReadFails
<1>1. torn \subseteq torn' /\ UNCHANGED <<redis, local>>
    BY <1>0, GivenUp
<1>2. \A s \in Turns : turn[s].at = "ring answer" => turn[s].msg \in torn' /\ turn'[s].msg \in torn'
    BY <1>0, GivenUp DEF Saving
<1>3. SameAt("answer") /\ SameAt("ring answer")
    BY <1>0 DEF SameAt
<1>4. RowsPaired'
    BY <1>0, <1>1, <1>3, RowsStay
<1>5. \A s \in Turns : /\ turn[s].at = "ring answer" => turn[s].msg \in torn'
                       /\ turn'[s].at = "ring answer" => turn'[s].msg \in torn'
    BY <1>0, <1>2
<1> QED
    BY <1>0, <1>1, <1>3, <1>4, <1>5, RingStays DEF PairInv

LEMMA PairStep == TypeOK /\ PairInv /\ [Next]_vars => PairInv'
<1> SUFFICES ASSUME TypeOK, PairInv, [Next]_vars PROVE PairInv'
    OBVIOUS
<1>0. TurnTypeOK /\ up \in BOOLEAN
    BY DEF TypeOK, MemoryTypeOK
<1>1. ASSUME NEW t \in Turns, AgentStep(t) PROVE PairInv'
    BY <1>1, AgentKeepsPairs
<1>2. ASSUME NEW t \in Turns, Send(t) \/ SendRaises(t) \/ Reply(t) \/ TurnFails(t) PROVE PairInv'
    <2>1. /\ turn' = [turn EXCEPT ![t] = IdleTurn]
          /\ UNCHANGED <<memoryVars, enabled, rows>> /\ torn \subseteq torn'
          /\ turn[t].at = "send" \/ (Saving(t) => turn[t].msg \in torn')
        BY <1>2 DEF Send, SendRaises, Reply, TurnFails, EndTurn, Abandon, At, Msg
    <2>2. turn'[t].at = "idle" /\ \A s \in Turns \ {t} : turn'[s] = turn[s]
        BY <1>0, <2>1 DEF TurnTypeOK, IdleTurn
    <2>3. SameAt("answer") /\ SameAt("ring answer")
        BY <2>1, <2>2, MoveElsewhere DEF Saving
    <2> QED
        BY <1>0, <2>1, <2>3, QuietKeepsPairs
<1>3. ASSUME NEW t \in Turns, NEW m \in Messages, Process(t, m) \/ Take(t, m) \/ Chat(t, m)
      PROVE  PairInv'
    <2>1. PICK via : Begin(t, m, via) /\ UNCHANGED <<memoryVars, enabled, rows, torn>>
        BY <1>3 DEF Process, Take, Chat
    <2>2. /\ turn[t].at = "idle" /\ turn'[t].at = "load"
          /\ \A s \in Turns \ {t} : turn'[s] = turn[s]
        BY <1>0, <2>1 DEF Begin, Busy, TurnTypeOK
    <2>3. SameAt("answer") /\ SameAt("ring answer")
        BY <2>2, MoveElsewhere
    <2> QED
        BY <1>0, <2>1, <2>3, QuietKeepsPairs
<1>4. ASSUME UNCHANGED turnVars PROVE PairInv'
    <2>1. UNCHANGED <<memoryVars, enabled, rows, torn, turn>>
        BY <1>4 DEF turnVars
    <2>2. SameAt("answer") /\ SameAt("ring answer")
        BY <2>1 DEF SameAt
    <2> QED
        BY <1>0, <2>1, <2>2, QuietKeepsPairs
<1>5. ASSUME NEW m \in Messages, Duplicate(m) PROVE PairInv'
    BY <1>4, <1>5 DEF Duplicate
<1>6. ASSUME NEW h \in Threads, EventStep(h) PROVE PairInv'
    BY <1>4, <1>6 DEF EventStep
<1>7. CASE LoseLock \/ ExpireLock \/ UNCHANGED vars
    BY <1>4, <1>7 DEF LoseLock, ExpireLock, vars
<1>8. CASE Crash \/ ExpireMemory \/ LoseRedis
    BY <1>8, CrashKeepsPairs, ExpireKeepsPairs, LossKeepsPairs
<1> QED
    BY <1>1, <1>2, <1>3, <1>5, <1>6, <1>7, <1>8 DEF Next

\* While nobody saves, an even limit cuts no turn.
LEMMA EvenWhole ==
    ASSUME TypeOK, PairInv, RecentRows % 2 = 0, RingSize % 2 = 0,
           \A t \in Turns : ~Saving(t), \A i \in DOMAIN LoadRecent : LoadRecent[i][2] \notin torn
    PROVE  WholeTurns(LoadRecent)
<1>0. /\ redis \in Seq(Entries) /\ local \in Seq(Entries) /\ rows \in Seq(Entries)
      /\ RingSize \in Nat \ {0} /\ RecentRows \in Nat \ {0}
    BY MemoryAssumption, TurnAssumption DEF TypeOK, MemoryTypeOK, TurnTypeOK
<1>1. OpenAt("answer") = {} /\ OpenInRedis = {} /\ OpenInLocal = {}
    BY DEF OpenAt, OpenInRedis, OpenInLocal, At, Saving
<1>2. /\ Paired(rows, torn, {}, {})
      /\ Paired(redis, torn, {}, FullSizes) /\ Paired(local, torn, {}, FullSizes)
      /\ Len(local) <= RingSize
    BY <1>1 DEF PairInv, RowsPaired, RingPaired
<1>3. CASE LoadRecent = Newest(rows, RecentRows)
    <2>1. Newest(rows, RecentRows) \in Seq(Entries) /\ Paired(Newest(rows, RecentRows), torn, {}, {RecentRows})
        <3>1. Paired(Newest(rows, RecentRows), torn, {}, {RecentRows})
            BY <1>0, <1>2, PairedNewest
        <3> QED
            BY <1>0, <3>1, NewestProperties
    <2> QED
        BY <1>3, <2>1, PairedWhole
<1>4. CASE LoadRecent = Newest(redis, RingSize)
    <2>1. Paired(Newest(redis, RingSize), torn, {}, {RingSize})
        <3>1. Len(redis) \in FullSizes /\ Len(redis) <= RingSize => Len(redis) \in {RingSize}
            BY <1>0 DEF FullSizes
        <3> QED
            BY <1>0, <1>2, <3>1, PairedNewest
    <2>2. Newest(redis, RingSize) \in Seq(Entries)
        BY <1>0, NewestProperties
    <2> QED
        BY <1>4, <2>1, <2>2, PairedWhole
<1>5. CASE LoadRecent = local
    <2>1. Len(local) \in FullSizes => Len(local) % 2 = 0
        BY <1>0, <1>2 DEF FullSizes
    <2> QED
        BY <1>0, <1>2, <1>5, <2>1, PairedWhole
<1> QED
    BY <1>3, <1>4, <1>5 DEF LoadRecent, Recent

\* What a turn reads of the conversation is whole turns (graph.py:628-683,
\* memory/store.py:28-56), whoever in the process loses Redis meanwhile, but for the
\* turns whose saving that or another turn cut in two; with even limits, as the
\* code's 8 rows and 12 entries are.
THEOREM RecentIsWhole ==
    ASSUME RecentRows % 2 = 0, RingSize % 2 = 0
    PROVE  Spec => []RecentAreTurns
<1>1. Init => PairInv
    <2> SUFFICES ASSUME Init PROVE PairInv
        OBVIOUS
    <2>1. redis = <<>> /\ local = <<>> /\ rows = <<>> /\ \A t \in Turns : turn[t].at = "idle"
        BY DEF Init, TurnInit, MemoryInit, IdleTurn
    <2>2. RowsPaired
        BY <2>1, PairedEmpty DEF RowsPaired, At
    <2>3. Len(local) <= RingSize
        BY <2>1, MemoryAssumption
    <2> QED
        BY <2>1, <2>2, <2>3, PairedEmpty DEF PairInv, RingPaired, At
<1>2. TypeOK /\ PairInv /\ [Next]_vars => PairInv'
    BY PairStep
<1>3. TypeOK /\ PairInv => RecentAreTurns
    BY EvenWhole DEF RecentAreTurns
<1> QED
    BY <1>1, <1>2, <1>3, TypesAreKept, PTL DEF Spec
=============================================================================
