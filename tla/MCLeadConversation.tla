------------------------- MODULE MCLeadConversation -------------------------
(***************************************************************************)
(* A small instance of LeadConversation: the product that is not sold stays    *)
(* active only in conversations without a declared number.                    *)
(***************************************************************************)
EXTENDS LeadConversation

MCNext == Next /\ (active' = "ventas" => requirements'.count = NoCount)

MCSpec == Init /\ [][MCNext]_vars
=============================================================================
