------------------------------ MODULE FollowUp ------------------------------
(***************************************************************************)
(* The follow-up scheduler (followup/scheduler.py) and the rows of           *)
(* movia_followup_attempts it coordinates through (db/repository.py), for one *)
(* lead.  A scanner is the scan thread of a service process; several run when *)
(* processes overlap during a deployment.                                   *)
(*                                                                         *)
(* Every repository call is a transaction and a step of its own, and so is   *)
(* every HTTP request.  Of a turn of the agent, only what it saves at its end *)
(* (save_memory) is seen here.                                              *)
(*                                                                         *)
(* Time is abstracted to what may have passed: the delay after the last      *)
(* answer, the messaging window, the 20 minutes after which a claim is stale. *)
(* That no scanner spends 20 minutes on one claim is assumed: a claim grows  *)
(* stale only when its scanner has died or given it up, and the delay, which *)
(* is longer, never passes while a claim is worked on or a turn is saved.    *)
(*                                                                         *)
(* A definition named ...Mutant, ...Live or ...Never is a deliberate mistake *)
(* that PROJECT.json puts in the place of the definition after it.           *)
(***************************************************************************)
EXTENDS Naturals

CONSTANTS
    Scanners,       \* the scan threads
    MaxAttempts,    \* followup_max_attempts
    MaxMessages,    \* bound of the user's messages
    MaxFaults       \* bound of the crashes, database errors and lost answers

ASSUME FollowUpAssumption ==
    MaxAttempts \in Nat \ {0} /\ MaxMessages \in Nat /\ MaxFaults \in Nat

Triggers == 1..MaxMessages

VARIABLES
    lastUser,   \* the number of the last saved user message
    lastRole,   \* role of the last saved message
    turn,       \* what the running turn of the agent saves next
    ripe,       \* the last answer is older than followup_delay_hours
    open,       \* the last user message is inside the messaging window
    active,     \* current_stage is neither post_purchase nor handoff
    attempts,   \* movia_followup_attempts, by trigger message
    saved,      \* triggers whose follow-up is among the saved messages
    copies,     \* follow-ups the user got, by trigger message
    pc,         \* where each scanner is in _process_candidate
    trigger,    \* trigger message of each scanner's candidate
    faults      \* crashes, database errors and lost answers so far

chatVars == <<lastUser, turn, open, active>>
lastVars == <<lastRole, ripe>>
scanVars == <<pc, trigger>>
vars == <<chatVars, lastVars, attempts, saved, copies, scanVars, faults>>

NoAttempt == [status |-> "none", count |-> 0, stale |-> FALSE]

Init ==
    /\ lastUser = 0
    /\ lastRole = "none"
    /\ turn = "none"
    /\ ripe = FALSE
    /\ open = FALSE
    /\ active = TRUE
    /\ attempts = [t \in Triggers |-> NoAttempt]
    /\ saved = {}
    /\ copies = [t \in Triggers |-> 0]
    /\ pc = [s \in Scanners |-> "idle"]
    /\ trigger = [s \in Scanners |-> 0]
    /\ faults = 0

-----------------------------------------------------------------------------
(* The conversation. *)

\* save_memory saves the message of the turn,
SaveUser ==
    /\ turn = "none"
    /\ lastUser < MaxMessages
    /\ lastUser' = lastUser + 1
    /\ lastRole' = "user"
    /\ open' = TRUE
    /\ turn' = "answer"
    /\ UNCHANGED <<active, ripe, attempts, saved, copies, scanVars, faults>>

\* then the answer,
SaveAnswer ==
    /\ turn = "answer"
    /\ lastRole' = "assistant"
    /\ ripe' = FALSE
    /\ turn' = "stage"
    /\ UNCHANGED <<lastUser, open, active, attempts, saved, copies, scanVars, faults>>

\* then the stage, which the stage machine chooses.
SaveStage ==
    /\ turn = "stage"
    /\ active' \in BOOLEAN
    /\ turn' = "none"
    /\ UNCHANGED <<lastUser, open, lastVars, attempts, saved, copies, scanVars, faults>>

\* A scanner between its claim and the end of its attempt.
Holds(s, t) == trigger[s] = t /\ pc[s] \notin {"idle", "found"}

\* The delay passes.
Ripen ==
    /\ lastRole = "assistant"
    /\ ~ripe
    /\ turn = "none"
    /\ \A s \in Scanners, t \in Triggers : ~Holds(s, t)
    /\ ripe' = TRUE
    /\ UNCHANGED <<chatVars, lastRole, attempts, saved, copies, scanVars, faults>>

\* The window ends.
WindowEnds ==
    /\ open
    /\ open' = FALSE
    /\ UNCHANGED <<lastUser, turn, active, lastVars, attempts, saved, copies, scanVars, faults>>

-----------------------------------------------------------------------------
(* The scanners. *)

\* What find_followup_candidates and is_followup_still_valid ask of the lead.
Waiting == lastRole = "assistant" /\ ripe /\ open /\ active

HasTriesMutant(a) == a.count <= MaxAttempts
HasTries(a) == a.count < MaxAttempts

\* What find_followup_candidates and claim_followup_attempt ask of the row.
MayClaimLive(a) == a.status = "none" \/ (HasTries(a) /\ a.status \in {"failed", "claimed"})
MayClaimNever(a) == a.status = "none" \/ (HasTries(a) /\ a.status = "failed")
MayClaim(a) ==
    \/ a.status = "none"
    \/ /\ HasTries(a)
       /\ a.status = "failed" \/ (a.status = "claimed" /\ a.stale)

Goto(s, x) == pc' = [pc EXCEPT ![s] = x]
SetStatus(t, st) == attempts' = [attempts EXCEPT ![t].status = st]
End(t, st) == attempts' = [attempts EXCEPT ![t].status = st, ![t].count = @ + 1]
ClaimRow(t) == attempts' = [attempts EXCEPT ![t].status = "claimed", ![t].stale = FALSE]
Deliver(t) == copies' = [copies EXCEPT ![t] = @ + 1]
Fault == faults < MaxFaults /\ faults' = faults + 1

\* scan_once, when the platform allows follow-ups, finds the lead.
Find(s) ==
    /\ pc[s] = "idle"
    /\ lastUser \in Triggers
    /\ Waiting
    /\ MayClaim(attempts[lastUser])
    /\ trigger' = [trigger EXCEPT ![s] = lastUser]
    /\ Goto(s, "found")
    /\ UNCHANGED <<chatVars, lastVars, attempts, saved, copies, faults>>

\* claim_followup_attempt: INSERT ... ON CONFLICT DO UPDATE ... WHERE.
Claim(s) ==
    /\ pc[s] = "found"
    /\ MayClaim(attempts[trigger[s]])
    /\ ClaimRow(trigger[s])
    /\ Goto(s, "claimed")
    /\ UNCHANGED <<chatVars, lastVars, saved, copies, trigger, faults>>

ClaimFails(s) ==
    /\ pc[s] = "found"
    /\ ~MayClaim(attempts[trigger[s]])
    /\ Goto(s, "idle")
    /\ UNCHANGED <<chatVars, lastVars, attempts, saved, copies, trigger, faults>>

\* is_followup_still_valid
Check(s) ==
    /\ pc[s] = "claimed"
    /\ Goto(s, IF Waiting /\ lastUser = trigger[s] THEN "chatwoot" ELSE "skip")
    /\ UNCHANGED <<chatVars, lastVars, attempts, saved, copies, trigger, faults>>

\* mark_followup_skipped
MarkSkipped(s) ==
    /\ pc[s] = "skip"
    /\ SetStatus(trigger[s], "skipped")
    /\ Goto(s, "idle")
    /\ UNCHANGED <<chatVars, lastVars, saved, copies, trigger, faults>>

\* send_public_messages or send_text is answered.
SendSucceeds(s) ==
    /\ pc[s] \in {"chatwoot", "whatsapp"}
    /\ Deliver(trigger[s])
    /\ Goto(s, "save")
    /\ UNCHANGED <<chatVars, lastVars, attempts, saved, trigger, faults>>

\* What an exception leads to: from Chatwoot, which is also passed over when it
\* is not configured or knows no conversation, to WhatsApp.
AfterError(s) == Goto(s, IF pc[s] = "chatwoot" THEN "whatsapp" ELSE "fail")

\* The request is refused.
SendFails(s) ==
    /\ pc[s] \in {"chatwoot", "whatsapp"}
    /\ AfterError(s)
    /\ UNCHANGED <<chatVars, lastVars, attempts, saved, copies, trigger, faults>>

\* The follow-up is delivered, and the answer to the request is lost.
AnswerLost(s) ==
    /\ pc[s] \in {"chatwoot", "whatsapp"}
    /\ Fault
    /\ Deliver(trigger[s])
    /\ AfterError(s)
    /\ UNCHANGED <<chatVars, lastVars, attempts, saved, trigger>>

\* save_message: the id followup:<attempt> is inserted once, then ignored.
InsertMessage(t) ==
    /\ saved' = saved \cup {t}
    /\ IF t \in saved THEN UNCHANGED lastVars
                      ELSE lastRole' = "assistant" /\ ripe' = FALSE
SaveFollowUp(s) ==
    /\ pc[s] = "save"
    /\ InsertMessage(trigger[s])
    /\ Goto(s, "mark")
    /\ UNCHANGED <<chatVars, attempts, copies, trigger, faults>>

\* mark_followup_sent
MarkSentMutant(s) ==
    /\ pc[s] = "mark"
    /\ End(trigger[s], "failed")
    /\ Goto(s, "idle")
    /\ UNCHANGED <<chatVars, lastVars, saved, copies, trigger, faults>>
MarkSent(s) ==
    /\ pc[s] = "mark"
    /\ End(trigger[s], "sent")
    /\ Goto(s, "idle")
    /\ UNCHANGED <<chatVars, lastVars, saved, copies, trigger, faults>>

\* mark_followup_failed
MarkFailed(s) ==
    /\ pc[s] = "fail"
    /\ End(trigger[s], "failed")
    /\ Goto(s, "idle")
    /\ UNCHANGED <<chatVars, lastVars, saved, copies, trigger, faults>>

\* What an exception of the database leads to: in the try block the attempt is
\* marked failed, outside of it the scan ends.
AfterRaise(s) == Goto(s, IF pc[s] \in {"save", "mark"} THEN "fail" ELSE "idle")

\* A repository call raises without effect.
DatabaseFails(s) ==
    /\ pc[s] \in {"found", "claimed", "skip", "save", "mark", "fail"}
    /\ Fault
    /\ AfterRaise(s)
    /\ UNCHANGED <<chatVars, lastVars, attempts, saved, copies, trigger>>

\* A repository call is committed and raises, because the answer is lost.  After
\* mark_followup_sent the sent row is then marked failed, and counted again.
CommitUnanswered(s) ==
    /\ Fault
    /\ AfterRaise(s)
    /\ \/ pc[s] = "found" /\ MayClaim(attempts[trigger[s]]) /\ ClaimRow(trigger[s])
       \/ pc[s] = "skip" /\ SetStatus(trigger[s], "skipped")
       \/ pc[s] = "save" /\ UNCHANGED attempts
       \/ pc[s] = "mark" /\ End(trigger[s], "sent")
       \/ pc[s] = "fail" /\ End(trigger[s], "failed")
    /\ IF pc[s] = "save" THEN InsertMessage(trigger[s]) ELSE UNCHANGED <<saved, lastVars>>
    /\ UNCHANGED <<chatVars, copies, trigger>>

\* The process of a scanner dies, the turn it runs with it if it runs one.
Crash(s) ==
    /\ pc[s] # "idle" \/ turn # "none"
    /\ Fault
    /\ Goto(s, "idle")
    /\ turn' \in {turn, "none"}
    /\ UNCHANGED <<lastUser, open, active, lastVars, attempts, saved, copies, trigger>>

\* Twenty minutes pass after a claim nobody works on.
GrowStale(t) ==
    /\ attempts[t].status = "claimed"
    /\ ~attempts[t].stale
    /\ \A s \in Scanners : ~Holds(s, t)
    /\ attempts' = [attempts EXCEPT ![t].stale = TRUE]
    /\ UNCHANGED <<chatVars, lastVars, saved, copies, scanVars, faults>>

ScanStep(s) ==
    \/ Find(s)
    \/ Claim(s)
    \/ ClaimFails(s)
    \/ Check(s)
    \/ MarkSkipped(s)
    \/ SendSucceeds(s)
    \/ SendFails(s)
    \/ SaveFollowUp(s)
    \/ MarkSent(s)
    \/ MarkFailed(s)

Next ==
    \/ SaveUser
    \/ SaveAnswer
    \/ SaveStage
    \/ Ripen
    \/ WindowEnds
    \/ \E s \in Scanners : ScanStep(s) \/ AnswerLost(s) \/ DatabaseFails(s) \/ CommitUnanswered(s) \/ Crash(s)
    \/ \E t \in Triggers : GrowStale(t)

Spec == Init /\ [][Next]_vars

\* Scans are repeated and run to their end, and time passes.
Fairness ==
    /\ \A s \in Scanners : WF_vars(ScanStep(s))
    /\ \A t \in Triggers : WF_vars(GrowStale(t))
    /\ WF_vars(Ripen)

FairSpec == Spec /\ Fairness

-----------------------------------------------------------------------------
(* Properties. *)

TypeOK ==
    /\ lastUser \in 0..MaxMessages
    /\ lastRole \in {"none", "user", "assistant"}
    /\ turn \in {"none", "answer", "stage"}
    /\ ripe \in BOOLEAN /\ open \in BOOLEAN /\ active \in BOOLEAN
    /\ attempts \in [Triggers -> [status : {"none", "claimed", "sent", "failed", "skipped"},
                                  count : 0..MaxAttempts + 1, stale : BOOLEAN]]
    /\ saved \subseteq Triggers
    /\ copies \in [Triggers -> Nat]
    /\ pc \in [Scanners -> {"idle", "found", "claimed", "skip", "chatwoot", "whatsapp",
                            "save", "mark", "fail"}]
    /\ trigger \in [Scanners -> 0..MaxMessages]
    /\ \A s \in Scanners : pc[s] # "idle" => trigger[s] # 0
    /\ faults \in 0..MaxFaults

\* Two scanners never work on the same follow-up: the row is the lock, and the
\* lock is taken over only from the dead.
OneHolder ==
    \A r, s \in Scanners, t \in Triggers : Holds(r, t) /\ Holds(s, t) => r = s

\* A follow-up is sent once, and a second copy needs a crash, a database error
\* or a lost answer after the first one: retries of refused requests and scans
\* of overlapping processes never repeat it.
CopiesExplained == \A t \in Triggers : copies[t] <= 1 + faults

\* A follow-up that was sent or skipped stays so, although the updates of the
\* row do not look at its status.  The one way out is an answer of the database
\* that is lost after mark_followup_sent was committed: the scanner that sent it
\* takes it for failed, whoever else scans meanwhile.
SettledStays ==
    [][\A t \in Triggers :
          attempts[t].status \in {"sent", "skipped"} /\ attempts'[t] # attempts[t] =>
              /\ attempts[t].status = "sent" /\ attempts'[t].status = "failed"
              /\ faults > 0
              /\ \E s \in Scanners : Holds(s, t) /\ pc[s] = "fail"]_vars

\* followup_max_attempts is looked at before an attempt, which is counted after it
\* and can be counted twice, as sent and as failed.  Still it is exceeded by one at
\* most, takes a fault for it, and ends the follow-up as failed.
TriesBounded ==
    \A t \in Triggers : attempts[t].count > MaxAttempts =>
        attempts[t].count = MaxAttempts + 1 /\ attempts[t].status = "failed" /\ faults > 0

\* A lead that waits for a follow-up gets one, unless it writes again, its
\* window or its stage closes, or every attempt fails; a claim whose scanner
\* died holds it up only until it is stale.
Followed ==
    \A t \in Triggers :
        Waiting /\ lastUser = t /\ attempts[t].status = "none"
            ~> \/ copies[t] > 0
               \/ lastUser # t \/ ~open \/ ~active
               \/ (attempts[t].status = "failed" /\ attempts[t].count >= MaxAttempts)

\* test_scheduler_skips_claimed_candidate_if_user_replied_before_send: no
\* follow-up goes out once the user has written again.
NoneAfterReply ==
    [][\A t \in Triggers : copies'[t] # copies[t] => lastUser = t]_vars

=============================================================================
