---------------------------- MODULE MCRedisQueue ----------------------------
(* A small instance of RedisQueue: every message is of one lead, since leads *)
(* share nothing but the stream. Nothing tells messages apart: m1 comes first. *)
EXTENDS RedisQueue

CONSTANTS m1, m2, l1

MCMessages == {m1, m2}
MCLeadOf == [m \in Messages |-> l1]

MCNext == Next /\ (m2 \in dedupe' => m1 \in dedupe')

MCSpec == Init /\ [][MCNext]_vars /\ Fairness
=============================================================================
