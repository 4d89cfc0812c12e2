-------------------------- MODULE MetaConversions --------------------------
(***************************************************************************)
(* Conversion events of a lead (meta/conversions.py): every answer starts a   *)
(* thread that stores the click the lead came from, looks it up, and for each  *)
(* event the answer stands for creates a row, sends the event and marks the    *)
(* row.  Every repository call and every request is a step that may fail.       *)
(***************************************************************************)
EXTENDS Naturals, Sequences

CONSTANTS
    Threads,     \* response threads that live at the same time
    Clicks,      \* ctwa_clid of the referral of a message
    NoClick,
    EventOrder   \* EVENT_ORDER

ASSUME ConversionAssumption ==
    /\ NoClick \notin Clicks
    /\ EventOrder \in Seq(STRING) \ {<<>>}
    /\ \A i \in DOMAIN EventOrder : EventOrder[i] # "none"

VARIABLES
    configured,   \* settings.meta_capi_configured
    attribution,  \* meta_ctwa_clid of the lead
    storeFailed,  \* clicks whose store raised
    event,        \* status of each row, "none" before it is created
    payload,      \* the click in the row's payload
    sends,        \* how often Meta got the event
    thread        \* where each thread stands

conversionVars == <<configured, attribution, storeFailed, event, payload, sends, thread>>

EventNames == {EventOrder[i] : i \in DOMAIN EventOrder}

IdleThread == [at |-> "idle", latest |-> NoClick, clid |-> NoClick, todo |-> {}, now |-> "none"]

ConversionInit ==
    /\ configured \in BOOLEAN
    /\ attribution = NoClick
    /\ storeFailed = {}
    /\ event = [e \in EventNames |-> "none"]
    /\ payload = [e \in EventNames |-> NoClick]
    /\ sends = [e \in EventNames |-> 0]
    /\ thread = [h \in Threads |-> IdleThread]

Thread(h, at) == thread[h].at = at
Step(h, at) == thread' = [thread EXCEPT ![h].at = at]
End(h) == thread' = [thread EXCEPT ![h] = IdleThread]

\* Every answer stands for a submitted lead; whether it stands for a view, a
\* qualification or a checkout depends on its analysis and its plan.
Applicable == {names \in SUBSET EventNames : EventOrder[1] \in names}

Schedule(h, latest, names) ==
    /\ Thread(h, "idle")
    /\ thread' = [thread EXCEPT ![h] =
                    [at |-> "store", latest |-> latest, clid |-> NoClick, todo |-> names, now |-> "none"]]
    /\ UNCHANGED <<configured, attribution, storeFailed, event, payload, sends>>

AfterStore(h) == IF configured THEN Step(h, "lookup") ELSE End(h)

\* where meta_ctwa_clid is null
FirstTouchMutant(latest) == latest
FirstTouch(latest) == IF attribution = NoClick THEN latest ELSE attribution

Store(h) ==
    /\ Thread(h, "store")
    /\ attribution' = IF thread[h].latest = NoClick THEN attribution ELSE FirstTouch(thread[h].latest)
    /\ AfterStore(h)
    /\ UNCHANGED <<configured, storeFailed, event, payload, sends>>

\* A store that raises is logged, and the thread goes on.
StoreFails(h) ==
    /\ Thread(h, "store")
    /\ thread[h].latest # NoClick
    /\ storeFailed' = storeFailed \cup {thread[h].latest}
    /\ AfterStore(h)
    /\ UNCHANGED <<configured, attribution, event, payload, sends>>

Clid(h) == IF attribution # NoClick THEN attribution ELSE thread[h].latest

Lookup(h) ==
    /\ Thread(h, "lookup")
    /\ IF Clid(h) = NoClick THEN End(h)
       ELSE thread' = [thread EXCEPT ![h].at = "create", ![h].clid = Clid(h)]
    /\ UNCHANGED <<configured, attribution, storeFailed, event, payload, sends>>

LookupFails(h) ==
    /\ Thread(h, "lookup")
    /\ End(h)
    /\ UNCHANGED <<configured, attribution, storeFailed, event, payload, sends>>

\* The thread's next event, in EVENT_ORDER.
Upcoming(h, e) ==
    /\ Thread(h, "create")
    /\ e \in thread[h].todo
    /\ \E i \in DOMAIN EventOrder :
         EventOrder[i] = e /\ \A j \in 1..(i - 1) : EventOrder[j] \notin thread[h].todo

Current(h) == thread[h].now
NextEvent(h) == thread' = [thread EXCEPT ![h].at = "create", ![h].now = "none"]

\* on conflict (lead_id, event_name) do nothing: only its creator goes on.
Create(h, e) ==
    /\ Upcoming(h, e)
    /\ event[e] = "none"
    /\ event' = [event EXCEPT ![e] = "pending"]
    /\ payload' = [payload EXCEPT ![e] = thread[h].clid]
    /\ thread' = [thread EXCEPT ![h].at = "send", ![h].todo = @ \ {e}, ![h].now = e]
    /\ UNCHANGED <<configured, attribution, storeFailed, sends>>

\* The row exists, or the insert raised.
PassOver(h, e) ==
    /\ Upcoming(h, e)
    /\ thread' = [thread EXCEPT ![h].todo = @ \ {e}]
    /\ UNCHANGED <<configured, attribution, storeFailed, event, payload, sends>>

Finish(h) ==
    /\ Thread(h, "create")
    /\ thread[h].todo = {}
    /\ End(h)
    /\ UNCHANGED <<configured, attribution, storeFailed, event, payload, sends>>

\* Meta takes the event, and its answer arrives or is lost.
Post(h) ==
    /\ Thread(h, "send")
    /\ sends' = [sends EXCEPT ![Current(h)] = @ + 1]
    /\ Step(h, "mark") \/ Step(h, "fail")
    /\ UNCHANGED <<configured, attribution, storeFailed, event, payload>>

\* Meta refuses the event, or marking it as sent raises.
Raise(h) ==
    /\ thread[h].at \in {"send", "mark"}
    /\ Step(h, "fail")
    /\ UNCHANGED <<configured, attribution, storeFailed, event, payload, sends>>

Mark(h, at, status) ==
    /\ Thread(h, at)
    /\ event' = [event EXCEPT ![Current(h)] = status]
    /\ NextEvent(h)
    /\ UNCHANGED <<configured, attribution, storeFailed, payload, sends>>

MarkSent(h) == Mark(h, "mark", "sent")
MarkFailed(h) == Mark(h, "fail", "failed")

\* Marking it as failed raises: the row stays pending.
MarkingFails(h) == Mark(h, "fail", event[Current(h)])

ConversionStep(h) ==
    \/ Store(h) \/ StoreFails(h) \/ Lookup(h) \/ LookupFails(h)
    \/ \E e \in EventNames : Create(h, e) \/ PassOver(h, e)
    \/ Finish(h)
    \/ Post(h) \/ Raise(h) \/ MarkSent(h) \/ MarkFailed(h) \/ MarkingFails(h)

\* The daemon threads end with their process.
KillConversions ==
    /\ thread' = [h \in Threads |-> IdleThread]
    /\ UNCHANGED <<configured, attribution, storeFailed, event, payload, sends>>
=============================================================================
