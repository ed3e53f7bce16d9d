----------------------------- MODULE MCFailover -----------------------------
(***************************************************************************)
(* Failover for TLC: two callers; a primary and two standbys of the same   *)
(* priority, the last of them without a health check.                      *)
(***************************************************************************)
EXTENDS Failover, TLC

CONSTANTS c1, c2

MCPriority == <<2, 1, 1>>
MCDistance == c1 :> <<0, 1, 2>> @@ c2 :> <<1, 2, 0>>

(* weighted may choose what random may, and round_robin is what priority   *)
(* does among the standbys.                                                *)
MCStrategies == {"random", "priority", "least_connections", "consistent_hash"}

=============================================================================
