--------------------------- MODULE MCSyncScheduler ---------------------------
(***************************************************************************)
(* SyncScheduler for TLC.  Workers and API keys are interchangeable, and   *)
(* no operator chooses among them; jobs are not, because Fresh does.       *)
(***************************************************************************)
EXTENDS SyncScheduler, TLC

Symmetry == Permutations(Workers) \cup Permutations(Keys)

=============================================================================
