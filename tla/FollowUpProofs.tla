--------------------------- MODULE FollowUpProofs ---------------------------
(***************************************************************************)
(* Proofs about FollowUp, for every number of scanners, messages, attempts   *)
(* and faults.                                                              *)
(*                                                                         *)
(* The argument: the row of a held follow-up is claimed and fresh, or it is  *)
(* sent and its holder was not told (RowHeld); so no other scanner can claim *)
(* it (OneHolder) and only its holder changes it (SettledStays).  An attempt *)
(* is counted while one is left, and once more only by a holder that was not *)
(* told (TryLeft).  A delivery is paid for by a row that is and stays sent,  *)
(* by its holder still being on the way to say so, or by a fault (Paid).     *)
(***************************************************************************)
EXTENDS FollowUp, TLAPS

Row == [status : {"none", "claimed", "sent", "failed", "skipped"},
        count : 0..MaxAttempts + 1, stale : BOOLEAN]

\* The row of a held follow-up is claimed, by a claim that is not stale; or it is
\* sent, and its holder, to whom the commit was not confirmed, will fail it.
RowHeld ==
    \A s \in Scanners, t \in Triggers :
        Holds(s, t) => \/ attempts[t].status = "claimed" /\ ~attempts[t].stale
                       \/ attempts[t].status = "sent" /\ pc[s] = "fail" /\ faults > 0

\* A claimed row has an attempt left, and so has a row that is not there yet; a
\* sent one has at most used them up.
TryLeft ==
    \A t \in Triggers :
        /\ attempts[t].status \in {"none", "claimed"} => attempts[t].count < MaxAttempts
        /\ attempts[t].status = "sent" => attempts[t].count <= MaxAttempts

Inv == TypeOK /\ RowHeld /\ OneHolder /\ TryLeft /\ TriesBounded

\* Each delivery but one is paid for by a fault; the one by its report, still to
\* be made by the holder, or made and not to be taken back.
Reporting(t) == \E s \in Scanners : trigger[s] = t /\ pc[s] \in {"save", "mark"}
Reported(t) ==
    attempts[t].status = "sent" /\ \A s \in Scanners : trigger[s] = t => pc[s] # "fail"
Paid ==
    \A t \in Triggers :
        copies[t] <= faults \/ (copies[t] <= 1 + faults /\ (Reported(t) \/ Reporting(t)))

USE FollowUpAssumption DEF FollowUpAssumption

-----------------------------------------------------------------------------
(* The rows and their holders. *)

LEMMA InvInit == Init => Inv
<1> SUFFICES ASSUME Init PROVE Inv
  OBVIOUS
<1>1. 0 \in 0..MaxAttempts + 1 /\ 0 < MaxAttempts
  OBVIOUS
<1>2. attempts \in [Triggers -> Row]
  BY <1>1 DEF Init, NoAttempt, Row
<1>3. TypeOK
  <2>1. lastUser \in 0..MaxMessages /\ faults \in 0..MaxFaults
    BY DEF Init
  <2>2. trigger \in [Scanners -> 0..MaxMessages] /\ copies \in [Triggers -> Nat]
    BY DEF Init
  <2> QED
    BY <1>2, <2>1, <2>2 DEF Init, TypeOK, Row
<1>4. RowHeld /\ OneHolder
  BY DEF Init, RowHeld, OneHolder, Holds
<1>5. TryLeft /\ TriesBounded
  BY <1>1 DEF Init, TryLeft, TriesBounded, NoAttempt
<1> QED
  BY <1>3, <1>4, <1>5 DEF Inv

\* A scanner that goes on with the attempt it holds, or leaves, keeps all of it.
LEMMA GoOn ==
    ASSUME Inv, TypeOK', NEW s \in Scanners, NEW x,
           pc' = [pc EXCEPT ![s] = x],
           x = "idle" \/ pc[s] \notin {"idle", "found", "fail"},
           UNCHANGED <<trigger, attempts>>, faults' \in {faults, faults + 1}
    PROVE  Inv'
<1>1. ASSUME NEW r \in Scanners, NEW t \in Triggers, Holds(r, t)'
      PROVE  Holds(r, t) /\ (pc[r] = "fail" => pc'[r] = "fail")
  BY <1>1 DEF Inv, TypeOK, Holds
<1>2. faults \in Nat /\ (faults > 0 => faults' > 0)
  BY DEF Inv, TypeOK
<1>3. RowHeld'
  BY <1>1, <1>2 DEF Inv, RowHeld
<1>4. OneHolder'
  BY <1>1 DEF Inv, OneHolder
<1>5. TryLeft' /\ TriesBounded'
  BY <1>2 DEF Inv, TryLeft, TriesBounded
<1> QED
  BY <1>3, <1>4, <1>5 DEF Inv

\* A holder that settles its row and leaves it: as sent or skipped while it is
\* claimed, as failed in either case.
LEMMA LetGo ==
    ASSUME Inv, NEW s \in Scanners, NEW t \in Triggers, Holds(s, t), NEW x, NEW st, NEW n,
           pc' = [pc EXCEPT ![s] = x],
           attempts' = [attempts EXCEPT ![t].status = st, ![t].count = n],
           \/ st = "failed" /\ pc[s] = "fail" /\ x = "idle" /\ n = attempts[t].count + 1
           \/ st = "sent" /\ pc[s] = "mark" /\ x = "idle" /\ n = attempts[t].count + 1
           \/ st = "sent" /\ pc[s] = "mark" /\ x = "fail" /\ n = attempts[t].count + 1 /\ faults' > 0
           \/ st = "skipped" /\ pc[s] = "skip" /\ x = "idle" /\ n = attempts[t].count,
           UNCHANGED <<trigger, lastUser, lastRole, turn, ripe, open, active, saved, copies>>,
           faults' \in 0..MaxFaults, faults' \in {faults, faults + 1}
    PROVE  Inv'
<1>1. attempts[t] \in Row /\ pc \in [Scanners -> {"idle", "found", "claimed", "skip", "chatwoot",
                                                  "whatsapp", "save", "mark", "fail"}]
  BY DEF Inv, TypeOK, Row
<1>2. \/ attempts[t].status = "claimed" /\ attempts[t].count < MaxAttempts
      \/ attempts[t].status = "sent" /\ attempts[t].count <= MaxAttempts /\ pc[s] = "fail" /\ faults > 0
  BY DEF Inv, RowHeld, TryLeft
<1>3. faults \in Nat /\ faults' \in Nat /\ attempts[t].count \in Nat /\ (faults > 0 => faults' > 0)
  BY <1>1 DEF Inv, TypeOK, Row
<1>4. n \in 0..MaxAttempts + 1 /\ (st # "failed" => n <= MaxAttempts)
      /\ (n > MaxAttempts => n = MaxAttempts + 1 /\ st = "failed" /\ faults' > 0)
  BY <1>2, <1>3
<1>5. attempts' = [attempts EXCEPT ![t] = [@ EXCEPT !.status = st, !.count = n]]
  BY <1>1 DEF Inv, TypeOK, Row
<1>6. /\ attempts'[t].status = st /\ attempts'[t].count = n
      /\ \A r \in Triggers : r # t => attempts'[r] = attempts[r]
      /\ attempts' \in [Triggers -> Row]
  BY <1>1, <1>4, <1>5 DEF Inv, TypeOK, Row
<1>7. TypeOK'
  BY <1>1, <1>6 DEF Inv, TypeOK, Row, Triggers
<1>8. ASSUME NEW r \in Scanners, NEW u \in Triggers, Holds(r, u)'
      PROVE  \/ r = s /\ u = t /\ x = "fail" /\ pc'[r] = "fail"
             \/ r # s /\ u # t /\ Holds(r, u) /\ pc'[r] = pc[r]
  BY <1>1, <1>8 DEF Inv, OneHolder, Holds
<1>9. RowHeld'
  BY <1>3, <1>6, <1>8 DEF Inv, RowHeld
<1>10. OneHolder'
  BY <1>8 DEF Inv, OneHolder
<1>11. TryLeft'
  BY <1>4, <1>6 DEF Inv, TryLeft
<1>12. TriesBounded'
  BY <1>3, <1>4, <1>6 DEF Inv, TriesBounded
<1> QED
  BY <1>7, <1>9, <1>10, <1>11, <1>12 DEF Inv

\* A scanner that takes a row nobody holds, to hold it or not to know of it.
LEMMA TakeRow ==
    ASSUME Inv, NEW s \in Scanners, NEW t \in Triggers, NEW x,
           trigger[s] = t, pc[s] = "found", MayClaim(attempts[t]), ClaimRow(t),
           pc' = [pc EXCEPT ![s] = x], x \in {"claimed", "idle"},
           UNCHANGED <<trigger, lastUser, lastRole, turn, ripe, open, active, saved, copies>>,
           faults' \in 0..MaxFaults, faults' \in {faults, faults + 1}
    PROVE  Inv'
<1>1. attempts[t] \in Row /\ pc \in [Scanners -> {"idle", "found", "claimed", "skip", "chatwoot",
                                                  "whatsapp", "save", "mark", "fail"}]
  BY DEF Inv, TypeOK, Row
<1>2. attempts[t].count < MaxAttempts /\ attempts[t].status # "sent"
      /\ (attempts[t].status = "claimed" => attempts[t].stale)
  BY <1>1 DEF MayClaim, HasTries, Inv, TryLeft, Row
<1>3. faults \in Nat /\ faults' \in Nat /\ attempts[t].count \in Nat /\ (faults > 0 => faults' > 0)
  BY <1>1 DEF Inv, TypeOK, Row
<1>4. attempts' = [attempts EXCEPT ![t] = [@ EXCEPT !.status = "claimed", !.stale = FALSE]]
  BY <1>1 DEF ClaimRow, Inv, TypeOK, Row
<1>5. /\ attempts'[t].status = "claimed" /\ ~attempts'[t].stale /\ attempts'[t].count = attempts[t].count
      /\ \A u \in Triggers : u # t => attempts'[u] = attempts[u]
      /\ attempts' \in [Triggers -> Row]
  BY <1>1, <1>4 DEF Inv, TypeOK, Row
<1>6. \A q \in Scanners : ~Holds(q, t)
  BY <1>2 DEF Inv, RowHeld
<1>7. TypeOK'
  BY <1>1, <1>5 DEF Inv, TypeOK, Row, Triggers
<1>8. ASSUME NEW q \in Scanners, NEW u \in Triggers, Holds(q, u)'
      PROVE  \/ q = s /\ u = t
             \/ q # s /\ u # t /\ Holds(q, u) /\ pc'[q] = pc[q]
  BY <1>1, <1>6, <1>8 DEF Holds
<1>9. RowHeld'
  BY <1>3, <1>5, <1>8 DEF Inv, RowHeld
<1>10. OneHolder'
  BY <1>8 DEF Inv, OneHolder
<1>11. TryLeft'
  BY <1>2, <1>5 DEF Inv, TryLeft
<1>12. TriesBounded'
  BY <1>2, <1>3, <1>5 DEF Inv, TriesBounded
<1> QED
  BY <1>7, <1>9, <1>10, <1>11, <1>12 DEF Inv

\* save_message keeps the types of what it changes.
LEMMA InsertTypes ==
    ASSUME TypeOK, NEW t \in Triggers, InsertMessage(t)
    PROVE  saved' \subseteq Triggers /\ lastRole' \in {"none", "user", "assistant"} /\ ripe' \in BOOLEAN
<1>1. CASE t \in saved
  BY <1>1 DEF InsertMessage, lastVars, TypeOK
<1>2. CASE t \notin saved
  BY <1>2 DEF InsertMessage, TypeOK
<1> QED
  BY <1>1, <1>2

LEMMA InvStep == Inv /\ [Next]_vars => Inv'
<1> SUFFICES ASSUME Inv, [Next]_vars PROVE Inv'
  OBVIOUS
<1> USE DEF Inv, TypeOK, RowHeld, OneHolder, TryLeft, TriesBounded, Holds, Triggers,
            chatVars, lastVars, scanVars, Goto, Fault
<1>1. CASE SaveUser
  BY <1>1 DEF SaveUser
<1>2. CASE SaveAnswer
  BY <1>2 DEF SaveAnswer
<1>3. CASE SaveStage
  BY <1>3 DEF SaveStage
<1>4. CASE Ripen
  BY <1>4 DEF Ripen
<1>5. CASE WindowEnds
  BY <1>5 DEF WindowEnds
<1>6. ASSUME NEW s \in Scanners PROVE Find(s) => Inv'
  BY DEF Find
<1>7. ASSUME NEW s \in Scanners, Claim(s) PROVE Inv'
  <2>1. /\ trigger[s] \in Triggers /\ pc[s] = "found" /\ MayClaim(attempts[trigger[s]])
        /\ ClaimRow(trigger[s]) /\ pc' = [pc EXCEPT ![s] = "claimed"]
        /\ UNCHANGED <<trigger, lastUser, lastRole, turn, ripe, open, active, saved, copies>>
        /\ faults' = faults /\ faults' \in 0..MaxFaults
    BY <1>7 DEF Claim
  <2> QED
    BY <2>1, TakeRow
<1>8. ASSUME NEW s \in Scanners, ClaimFails(s) PROVE Inv'
  <2>1. TypeOK'
    BY <1>8 DEF ClaimFails
  <2> QED
    BY <1>8, <2>1, GoOn DEF ClaimFails
<1>9. ASSUME NEW s \in Scanners, Check(s) PROVE Inv'
  <2>1. TypeOK'
    BY <1>9 DEF Check
  <2> QED
    BY <1>9, <2>1, GoOn DEF Check
<1>10. ASSUME NEW s \in Scanners, MarkSkipped(s) PROVE Inv'
  <2>1. trigger[s] \in Triggers /\ Holds(s, trigger[s]) /\ faults' = faults
    BY <1>10 DEF MarkSkipped
  <2>2. attempts' = [attempts EXCEPT ![trigger[s]].status = "skipped",
                                     ![trigger[s]].count = attempts[trigger[s]].count]
    BY <1>10, <2>1 DEF MarkSkipped, SetStatus
  <2>3. /\ pc[s] = "skip" /\ pc' = [pc EXCEPT ![s] = "idle"] /\ faults' \in 0..MaxFaults
        /\ UNCHANGED <<trigger, lastUser, lastRole, turn, ripe, open, active, saved, copies>>
    BY <1>10 DEF MarkSkipped
  <2>4. Inv
    OBVIOUS
  <2> HIDE DEF Inv, TypeOK, RowHeld, OneHolder, TryLeft, TriesBounded, Holds
  <2> QED
    BY <2>1, <2>2, <2>3, <2>4, LetGo
<1>11. ASSUME NEW s \in Scanners, SendSucceeds(s) PROVE Inv'
  <2>1. TypeOK'
    BY <1>11 DEF SendSucceeds, Deliver
  <2> QED
    BY <1>11, <2>1, GoOn DEF SendSucceeds, Deliver
<1>12. ASSUME NEW s \in Scanners, SendFails(s) PROVE Inv'
  <2>1. TypeOK'
    BY <1>12 DEF SendFails, AfterError
  <2> QED
    BY <1>12, <2>1, GoOn DEF SendFails, AfterError
<1>13. ASSUME NEW s \in Scanners, AnswerLost(s) PROVE Inv'
  <2>1. TypeOK'
    BY <1>13 DEF AnswerLost, Deliver, AfterError
  <2> QED
    BY <1>13, <2>1, GoOn DEF AnswerLost, Deliver, AfterError
<1>14. ASSUME NEW s \in Scanners, SaveFollowUp(s) PROVE Inv'
  <2>1. saved' \subseteq Triggers /\ lastRole' \in {"none", "user", "assistant"} /\ ripe' \in BOOLEAN
    <3>1. TypeOK /\ trigger[s] \in Triggers /\ InsertMessage(trigger[s])
      BY <1>14 DEF SaveFollowUp
    <3> HIDE DEF Inv, TypeOK, RowHeld, OneHolder, TryLeft, TriesBounded
    <3> QED
      BY <3>1, InsertTypes
  <2>2. TypeOK'
    BY <1>14, <2>1 DEF SaveFollowUp
  <2> QED
    BY <1>14, <2>2, GoOn DEF SaveFollowUp
<1>15. ASSUME NEW s \in Scanners, MarkSent(s) PROVE Inv'
  <2>1. trigger[s] \in Triggers /\ Holds(s, trigger[s]) /\ faults' = faults
    BY <1>15 DEF MarkSent
  <2>2. attempts' = [attempts EXCEPT ![trigger[s]].status = "sent",
                                     ![trigger[s]].count = attempts[trigger[s]].count + 1]
    BY <1>15, <2>1 DEF MarkSent, End
  <2>3. /\ pc[s] = "mark" /\ pc' = [pc EXCEPT ![s] = "idle"] /\ faults' \in 0..MaxFaults
        /\ UNCHANGED <<trigger, lastUser, lastRole, turn, ripe, open, active, saved, copies>>
    BY <1>15 DEF MarkSent
  <2>4. Inv
    OBVIOUS
  <2> HIDE DEF Inv, TypeOK, RowHeld, OneHolder, TryLeft, TriesBounded, Holds
  <2> QED
    BY <2>1, <2>2, <2>3, <2>4, LetGo
<1>16. ASSUME NEW s \in Scanners, MarkFailed(s) PROVE Inv'
  <2>1. trigger[s] \in Triggers /\ Holds(s, trigger[s]) /\ faults' = faults
    BY <1>16 DEF MarkFailed
  <2>2. attempts' = [attempts EXCEPT ![trigger[s]].status = "failed",
                                     ![trigger[s]].count = attempts[trigger[s]].count + 1]
    BY <1>16, <2>1 DEF MarkFailed, End
  <2>3. /\ pc[s] = "fail" /\ pc' = [pc EXCEPT ![s] = "idle"] /\ faults' \in 0..MaxFaults
        /\ UNCHANGED <<trigger, lastUser, lastRole, turn, ripe, open, active, saved, copies>>
    BY <1>16 DEF MarkFailed
  <2>4. Inv
    OBVIOUS
  <2> HIDE DEF Inv, TypeOK, RowHeld, OneHolder, TryLeft, TriesBounded, Holds
  <2> QED
    BY <2>1, <2>2, <2>3, <2>4, LetGo
<1>17. ASSUME NEW s \in Scanners, DatabaseFails(s) PROVE Inv'
  <2>1. TypeOK'
    BY <1>17 DEF DatabaseFails, AfterRaise
  <2> QED
    BY <1>17, <2>1, GoOn DEF DatabaseFails, AfterRaise
<1>21. ASSUME NEW s \in Scanners, CommitUnanswered(s) PROVE Inv'
  <2> DEFINE t == trigger[s]
  <2>1. /\ t \in Triggers
        /\ faults' = faults + 1 /\ faults' \in 0..MaxFaults /\ faults' > 0
        /\ UNCHANGED <<lastUser, turn, open, active, copies, trigger>>
    BY <1>21 DEF CommitUnanswered
  <2>2. CASE pc[s] = "found" /\ MayClaim(attempts[t]) /\ ClaimRow(t)
    <3>1. UNCHANGED <<saved, lastRole, ripe>> /\ pc' = [pc EXCEPT ![s] = "idle"]
      BY <1>21, <2>2 DEF CommitUnanswered, AfterRaise
    <3> QED
      BY <2>1, <2>2, <3>1, TakeRow
  <2>3. CASE pc[s] = "skip" /\ SetStatus(t, "skipped")
    <3>1. UNCHANGED <<saved, lastRole, ripe>> /\ pc' = [pc EXCEPT ![s] = "idle"] /\ Holds(s, t)
      BY <1>21, <2>1, <2>3 DEF CommitUnanswered, AfterRaise
    <3>2. attempts' = [attempts EXCEPT ![t].status = "skipped", ![t].count = attempts[t].count]
      BY <2>1, <2>3 DEF SetStatus
    <3> QED
      BY <2>1, <2>3, <3>1, <3>2, LetGo
  <2>4. CASE pc[s] = "save" /\ UNCHANGED attempts
    <3>1. InsertMessage(t) /\ pc' = [pc EXCEPT ![s] = "fail"]
      BY <1>21, <2>4 DEF CommitUnanswered, AfterRaise
    <3>2. saved' \subseteq Triggers /\ lastRole' \in {"none", "user", "assistant"} /\ ripe' \in BOOLEAN
      BY <2>1, <3>1, InsertTypes
    <3>3. TypeOK'
      BY <2>1, <2>4, <3>1, <3>2
    <3> QED
      BY <2>1, <2>4, <3>1, <3>3, GoOn
  <2>5. CASE pc[s] = "mark" /\ End(t, "sent")
    <3>1. UNCHANGED <<saved, lastRole, ripe>> /\ pc' = [pc EXCEPT ![s] = "fail"] /\ Holds(s, t)
      BY <1>21, <2>1, <2>5 DEF CommitUnanswered, AfterRaise
    <3>2. attempts' = [attempts EXCEPT ![t].status = "sent", ![t].count = attempts[t].count + 1]
      BY <2>1, <2>5 DEF End
    <3> QED
      BY <2>1, <2>5, <3>1, <3>2, LetGo
  <2>6. CASE pc[s] = "fail" /\ End(t, "failed")
    <3>1. UNCHANGED <<saved, lastRole, ripe>> /\ pc' = [pc EXCEPT ![s] = "idle"] /\ Holds(s, t)
      BY <1>21, <2>1, <2>6 DEF CommitUnanswered, AfterRaise
    <3>2. attempts' = [attempts EXCEPT ![t].status = "failed", ![t].count = attempts[t].count + 1]
      BY <2>1, <2>6 DEF End
    <3> QED
      BY <2>1, <2>6, <3>1, <3>2, LetGo
  <2> QED
    BY <1>21, <2>2, <2>3, <2>4, <2>5, <2>6 DEF CommitUnanswered
<1>18. ASSUME NEW s \in Scanners, Crash(s) PROVE Inv'
  <2>1. TypeOK'
    BY <1>18 DEF Crash
  <2> QED
    BY <1>18, <2>1, GoOn DEF Crash
<1>19. ASSUME NEW t \in Triggers, GrowStale(t) PROVE Inv'
  <2>1. attempts[t] \in Row
    BY DEF Row
  <2>2. attempts' = [attempts EXCEPT ![t] = [@ EXCEPT !.stale = TRUE]]
    BY <1>19, <2>1 DEF GrowStale, Row
  <2>3. [attempts[t] EXCEPT !.stale = TRUE] \in Row
    BY <2>1 DEF Row
  <2>4. attempts' \in [Triggers -> Row]
    BY <2>2, <2>3 DEF Row
  <2>5. TypeOK'
    BY <1>19, <2>4 DEF GrowStale, Row
  <2>6. \A r \in Triggers : attempts'[r].status = attempts[r].status
                          /\ attempts'[r].count = attempts[r].count
    BY <2>1, <2>2 DEF Row
  <2>7. /\ \A r \in Triggers : r # t => attempts'[r] = attempts[r]
        /\ \A r \in Scanners : ~Holds(r, t)
        /\ UNCHANGED <<pc, trigger, faults>>
    BY <1>19, <2>1, <2>2 DEF GrowStale, Row
  <2>8. /\ RowHeld /\ OneHolder
        /\ \A r \in Scanners, u \in Triggers : (Holds(r, u)' <=> Holds(r, u)) /\ (Holds(r, u) => u # t)
    BY <2>7
  <2>9. RowHeld' /\ OneHolder'
    <3> HIDE DEF Inv, TypeOK, TryLeft, TriesBounded, Holds
    <3>1. RowHeld'
      BY <2>7, <2>8
    <3>2. OneHolder'
      BY <2>8
    <3> QED
      BY <3>1, <3>2
  <2>10. TryLeft' /\ TriesBounded'
    BY <2>6, <2>7
  <2> QED
    BY <2>5, <2>9, <2>10
<1>20. CASE UNCHANGED vars
  BY <1>20 DEF vars
<1> QED
  BY <1>1, <1>2, <1>3, <1>4, <1>5, <1>6, <1>7, <1>8, <1>9, <1>10, <1>11, <1>12, <1>13,
     <1>14, <1>15, <1>16, <1>17, <1>18, <1>19, <1>20, <1>21 DEF Next, ScanStep

LEMMA Invariance == Spec => []Inv
  BY InvInit, InvStep, PTL DEF Spec

\* The rows, the scanners and the conversation keep their types.
THEOREM TypeCorrect == Spec => []TypeOK
<1>1. Inv => TypeOK
  BY DEF Inv
<1> QED
  BY Invariance, <1>1, PTL

\* followup_max_attempts is exceeded by one at most, by an attempt that was sent,
\* was counted, and is counted again as failed since the answer to the first
\* count was lost: the guards of find_followup_candidates and
\* claim_followup_attempt bound what the unconditional updates add.
THEOREM TriesAreBounded == Spec => []TriesBounded
<1>1. Inv => TriesBounded
  BY DEF Inv
<1> QED
  BY Invariance, <1>1, PTL

\* Two scanners never hold the same follow-up: the upsert is a lock.
THEOREM ClaimsExclude == Spec => []OneHolder
<1>1. Inv => OneHolder
  BY DEF Inv
<1> QED
  BY Invariance, <1>1, PTL

\* The updates of mark_followup_... look at no status.  They touch a settled row
\* only where mark_followup_sent was committed and its answer lost: then its own
\* scanner, and no other, turns the sent row into a failed one.
THEOREM SettledRowsStay == Spec => SettledStays
<1> DEFINE Stays == \A t \in Triggers :
       attempts[t].status \in {"sent", "skipped"} /\ attempts'[t] # attempts[t] =>
           /\ attempts[t].status = "sent" /\ attempts'[t].status = "failed"
           /\ faults > 0
           /\ \E s \in Scanners : Holds(s, t) /\ pc[s] = "fail"
<1>1. Inv /\ [Next]_vars => Stays
  <2> SUFFICES ASSUME Inv, [Next]_vars PROVE Stays
    OBVIOUS
  <2> USE DEF Inv, TypeOK, RowHeld, Holds, Triggers
  <2>1. ASSUME NEW s \in Scanners, Claim(s) PROVE Stays
    BY <2>1 DEF Claim, MayClaim, ClaimRow
  <2>2. ASSUME NEW s \in Scanners, MarkSkipped(s) PROVE Stays
    BY <2>2 DEF MarkSkipped, SetStatus
  <2>3. ASSUME NEW s \in Scanners, MarkSent(s) PROVE Stays
    BY <2>3 DEF MarkSent, End
  <2>4. ASSUME NEW s \in Scanners, pc[s] = "fail", End(trigger[s], "failed") PROVE Stays
    <3>1. trigger[s] \in Triggers /\ Holds(s, trigger[s])
      BY <2>4
    <3>2. attempts[trigger[s]].status = "claimed" \/ (attempts[trigger[s]].status = "sent" /\ faults > 0)
      BY <2>4, <3>1
    <3>3. /\ attempts'[trigger[s]].status = "failed"
          /\ \A t \in Triggers : t # trigger[s] => attempts'[t] = attempts[t]
      BY <2>4, <3>1 DEF End
    <3> QED
      BY <2>4, <3>1, <3>2, <3>3
  <2>5. ASSUME NEW t \in Triggers, GrowStale(t) PROVE Stays
    BY <2>5 DEF GrowStale
  <2>6. CASE UNCHANGED attempts
    BY <2>6
  <2>7. ASSUME NEW s \in Scanners, CommitUnanswered(s) PROVE Stays
    <3>1. CASE pc[s] = "found" /\ MayClaim(attempts[trigger[s]]) /\ ClaimRow(trigger[s])
      BY <3>1 DEF MayClaim, ClaimRow
    <3>2. CASE pc[s] = "skip" /\ SetStatus(trigger[s], "skipped")
      BY <3>2 DEF SetStatus
    <3>3. CASE pc[s] = "mark" /\ End(trigger[s], "sent")
      BY <3>3 DEF End
    <3> QED
      BY <2>4, <2>6, <2>7, <3>1, <3>2, <3>3 DEF CommitUnanswered
  <2>8. ASSUME NEW s \in Scanners, MarkFailed(s) PROVE Stays
    BY <2>4, <2>8 DEF MarkFailed
  <2> QED
    BY <2>1, <2>2, <2>3, <2>5, <2>6, <2>7, <2>8
       DEF Next, ScanStep, SaveUser, SaveAnswer, SaveStage, Ripen, WindowEnds, Find, ClaimFails,
           Check, SendSucceeds, SendFails, AnswerLost, SaveFollowUp, DatabaseFails, Crash, vars
<1> QED
  BY Invariance, <1>1, PTL DEF Spec, SettledStays

-----------------------------------------------------------------------------
(* The copies. *)

LEMMA PaidInit == Init => Paid
  BY DEF Init, Paid, Reporting, Reported

\* A scanner about to send has nothing to report, nor has any other.
LEMMA SenderIsFirst ==
    ASSUME Inv, NEW s \in Scanners, pc[s] \in {"chatwoot", "whatsapp"}
    PROVE  /\ trigger[s] \in Triggers
           /\ attempts[trigger[s]].status = "claimed"
           /\ ~Reporting(trigger[s])
<1>1. trigger[s] \in Triggers
  BY DEF Inv, TypeOK, Triggers
<1>2. Holds(s, trigger[s])
  BY DEF Holds
<1>3. attempts[trigger[s]].status = "claimed"
  BY <1>1, <1>2 DEF Inv, RowHeld
<1>4. ~Reporting(trigger[s])
  BY <1>1, <1>2 DEF Inv, OneHolder, Holds, Reporting
<1> QED
  BY <1>1, <1>3, <1>4

LEMMA PaidStep == Inv /\ Paid /\ [Next]_vars => Paid'
<1> SUFFICES ASSUME Inv, Paid, [Next]_vars PROVE Paid'
  OBVIOUS
<1>1. faults \in Nat /\ copies \in [Triggers -> Nat]
  BY DEF Inv, TypeOK
<1> USE <1>1 DEF Paid, Reporting, Reported, Goto
<1>2. CASE UNCHANGED <<attempts, copies, scanVars, faults>>
  BY <1>2 DEF scanVars
<1>3. ASSUME NEW s \in Scanners, Find(s) PROVE Paid'
  BY <1>3 DEF Find, Inv, TypeOK
<1>4. ASSUME NEW s \in Scanners, Claim(s) PROVE Paid'
  BY <1>4 DEF Claim, MayClaim, ClaimRow, Inv, TypeOK
<1>5. ASSUME NEW s \in Scanners, ClaimFails(s) \/ Check(s) PROVE Paid'
  BY <1>5 DEF ClaimFails, Check, Inv, TypeOK
<1>15. ASSUME NEW s \in Scanners, SendFails(s) PROVE Paid'
  <2>1. /\ trigger[s] \in Triggers /\ attempts[trigger[s]].status = "claimed"
        /\ ~Reporting(trigger[s])
    BY <1>15, SenderIsFirst DEF SendFails
  <2>2. \A t \in Triggers : t # trigger[s] => (Reporting(t) => Reporting(t)') /\ (Reported(t) => Reported(t)')
    BY <1>15 DEF SendFails, AfterError, Inv, TypeOK
  <2> QED
    BY <1>15, <2>1, <2>2 DEF SendFails
<1>6. ASSUME NEW s \in Scanners, MarkSkipped(s) PROVE Paid'
  <2>1. trigger[s] \in Triggers /\ attempts[trigger[s]].status = "claimed"
    BY <1>6 DEF MarkSkipped, Inv, TypeOK, RowHeld, Holds, Triggers
  <2>2. \A t \in Triggers : t # trigger[s] => attempts'[t] = attempts[t]
    BY <1>6 DEF MarkSkipped, SetStatus, Inv, TypeOK
  <2>3. \A t \in Triggers : Reporting(t)' <=> Reporting(t)
    BY <1>6 DEF MarkSkipped, Inv, TypeOK
  <2> QED
    BY <1>6, <2>1, <2>2, <2>3 DEF MarkSkipped
<1>7. ASSUME NEW s \in Scanners, SendSucceeds(s) PROVE Paid'
  <2>1. copies[trigger[s]] <= faults
    BY <1>7, SenderIsFirst DEF SendSucceeds
  <2> QED
    BY <1>7, <2>1, SenderIsFirst DEF SendSucceeds, Deliver, Inv, TypeOK
<1>8. ASSUME NEW s \in Scanners, AnswerLost(s) PROVE Paid'
  <2>1. copies[trigger[s]] <= faults
    BY <1>8, SenderIsFirst DEF AnswerLost
  <2> QED
    BY <1>8, <2>1, SenderIsFirst DEF AnswerLost, AfterError, Fault, Deliver, Inv, TypeOK
<1>9. ASSUME NEW s \in Scanners, SaveFollowUp(s) PROVE Paid'
  BY <1>9 DEF SaveFollowUp, Inv, TypeOK
<1>10. ASSUME NEW s \in Scanners, MarkSent(s) PROVE Paid'
  <2>1. trigger[s] \in Triggers /\ Holds(s, trigger[s]) /\ copies' = copies /\ faults' = faults
    BY <1>10 DEF MarkSent, Inv, TypeOK, Holds, Triggers
  <2>2. attempts'[trigger[s]].status = "sent" /\ \A t \in Triggers : t # trigger[s] => attempts'[t] = attempts[t]
    BY <1>10, <2>1 DEF MarkSent, End, Inv, TypeOK
  <2>3. \A r \in Scanners : trigger'[r] = trigger[s] => pc'[r] # "fail"
    BY <1>10, <2>1 DEF MarkSent, Inv, TypeOK, OneHolder, Holds
  <2>4. \A t \in Triggers : t # trigger[s] => (Reporting(t) => Reporting(t)') /\ (Reported(t) => Reported(t)')
    BY <1>10, <2>2 DEF MarkSent, Inv, TypeOK
  <2> QED
    BY <2>1, <2>2, <2>3, <2>4
<1>11. ASSUME NEW s \in Scanners, MarkFailed(s) PROVE Paid'
  <2>1. trigger[s] \in Triggers /\ Holds(s, trigger[s]) /\ copies' = copies /\ faults' = faults
    BY <1>11 DEF MarkFailed, Inv, TypeOK, Holds, Triggers
  <2>2. ~Reported(trigger[s]) /\ ~Reporting(trigger[s])
    BY <1>11, <2>1 DEF MarkFailed, Inv, OneHolder, Holds
  <2>3. \A t \in Triggers : t # trigger[s] => attempts'[t] = attempts[t]
    BY <1>11 DEF MarkFailed, End, Inv, TypeOK
  <2>4. \A t \in Triggers : t # trigger[s] => (Reporting(t) => Reporting(t)') /\ (Reported(t) => Reported(t)')
    BY <1>11, <2>3 DEF MarkFailed, Inv, TypeOK
  <2> QED
    BY <2>1, <2>2, <2>3, <2>4
<1>12. ASSUME NEW s \in Scanners, DatabaseFails(s) \/ CommitUnanswered(s) \/ Crash(s) PROVE Paid'
  <2>1. faults' = faults + 1 /\ copies' = copies
    BY <1>12 DEF DatabaseFails, CommitUnanswered, Crash, Fault
  <2> QED
    BY <2>1
<1>13. ASSUME NEW t \in Triggers, GrowStale(t) PROVE Paid'
  BY <1>13 DEF GrowStale, scanVars, Inv, TypeOK
<1>14. CASE SaveUser \/ SaveAnswer \/ SaveStage \/ Ripen \/ WindowEnds \/ UNCHANGED vars
  BY <1>2, <1>14 DEF SaveUser, SaveAnswer, SaveStage, Ripen, WindowEnds, vars
<1> QED
  BY <1>3, <1>4, <1>5, <1>6, <1>7, <1>8, <1>9, <1>10, <1>11, <1>12, <1>13, <1>14, <1>15
     DEF Next, ScanStep

\* A second copy of a follow-up needs a crash, a database error or a lost
\* answer: neither retries nor overlapping scans repeat one.
THEOREM NoCopyWithoutFault == Spec => []CopiesExplained
<1>1. Inv /\ Paid => CopiesExplained
  BY DEF Inv, TypeOK, Paid, CopiesExplained
<1> QED
  BY Invariance, PaidInit, PaidStep, <1>1, PTL DEF Spec

=============================================================================
