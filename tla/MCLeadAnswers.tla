--------------------------- MODULE MCLeadAnswers ---------------------------
(***************************************************************************)
(* A small instance of LeadAnswers.  Packets change nothing but whether there  *)
(* is another one: a lead that has had the last is followed only as far as it  *)
(* has no requirements.                                                       *)
(***************************************************************************)
EXTENDS LeadAnswers

MCNext == AnswersNext /\ (packets' > 0 => requirements'.active = {} /\ requirements'.count = NoCount)

MCSpec == AnswersInit /\ [][MCNext]_answerVars
=============================================================================
