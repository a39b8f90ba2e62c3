-------------------------- MODULE MC_ConfluxClient --------------------------
(* A three-hop leg whose last hop is the join point, one forged nonce, a   *)
(* wallclock with three readings (so it can go backwards) and SWITCH      *)
(* deltas 0..2 (0 is the rejected one).                                    *)
EXTENDS ConfluxClient

MCHops == 0..2
MCJoinPoint == 2
MCTimes == 0..2
====
