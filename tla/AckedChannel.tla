---------------------------- MODULE AckedChannel ----------------------------
(***************************************************************************)
(* What a queue of acknowledged messages promises the code that submits    *)
(* them: a message is reported delivered only after the other side         *)
(* received it, it is given up only after MaxAttempts attempts, and a      *)
(* report is final.  A message that was given up may have been received.   *)
(***************************************************************************)
EXTENDS Naturals

CONSTANTS Msgs, MaxAttempts

VARIABLES
  fate,      \* "new", "pending", "delivered" or "failed"
  attempts,  \* failed attempts
  received   \* messages the other side has received

vars == <<fate, attempts, received>>

Init ==
  /\ fate = [m \in Msgs |-> "new"]
  /\ attempts = [m \in Msgs |-> 0]
  /\ received = {}

(* A message is submitted.                                                 *)
Submit(m) ==
  /\ fate[m] = "new"
  /\ fate' = [fate EXCEPT ![m] = "pending"]
  /\ UNCHANGED <<attempts, received>>

(* A message arrives, maybe long after its attempt was given up.           *)
Receive(m) ==
  /\ fate[m] # "new"
  /\ received' = received \cup {m}
  /\ UNCHANGED <<fate, attempts>>

(* Of the pending messages, those of done are reported delivered, and an   *)
(* attempt of each of missed has failed.                                   *)
Report(done, missed) ==
  /\ \A m \in done \cup missed : fate[m] = "pending"
  /\ done \subseteq received
  /\ done \cap missed = {}
  /\ attempts' = [m \in Msgs |-> IF m \in missed THEN attempts[m] + 1 ELSE attempts[m]]
  /\ fate' = [m \in Msgs |-> CASE m \in done -> "delivered"
                               [] m \in missed /\ attempts[m] + 1 >= MaxAttempts -> "failed"
                               [] OTHER -> fate[m]]
  /\ UNCHANGED received

Next ==
  \/ \E m \in Msgs : Submit(m) \/ Receive(m)
  \/ \E done, missed \in SUBSET Msgs : Report(done, missed)

Spec == Init /\ [][Next]_vars

-----------------------------------------------------------------------------
(* What the submitter may rely on.                                         *)

(* A message reported delivered was received.                              *)
ReportsAreTrue == \A m \in Msgs : fate[m] = "delivered" => m \in received

(* A message is reported failed after MaxAttempts failed attempts, and     *)
(* not before.                                                             *)
NothingGivenUpEarly ==
  \A m \in Msgs : fate[m] = "failed" <=> attempts[m] = MaxAttempts

(* A report is never taken back, nor followed by another attempt.          *)
ReportsAreFinal ==
  [][\A m \in Msgs : fate[m] \in {"delivered", "failed"}
       => fate'[m] = fate[m] /\ attempts'[m] = attempts[m]]_vars

=============================================================================
