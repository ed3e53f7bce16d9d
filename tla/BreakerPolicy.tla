---------------------------- MODULE BreakerPolicy ----------------------------
(***************************************************************************)
(* What a circuit breaker promises its callers: an open circuit lets       *)
(* nobody through until its cooling period is over, it closes again only   *)
(* by way of a trial period or by a manual reset, and an ended cooling     *)
(* period does not start again while the circuit is open.                  *)
(***************************************************************************)
CONSTANT Callers

VARIABLES
  mode,     \* "closed", "open" or "trial"
  cooling,  \* the circuit is open and its cooling period is not over
  through   \* the callers whose call is under way

vars == <<mode, cooling, through>>

Init == mode = "closed" /\ cooling = FALSE /\ through = {}

(* The circuit opens, on failures or because a trial took too long.  The   *)
(* call whose failure opened it is over.                                   *)
Trip ==
  /\ mode # "open"
  /\ mode' = "open"
  /\ cooling' = TRUE
  /\ \/ UNCHANGED through
     \/ \E c \in through : through' = through \ {c}

Cool == cooling /\ cooling' = FALSE /\ UNCHANGED <<mode, through>>

(* A trial begins, with the call of the caller that began it.              *)
StartTrial ==
  /\ mode = "open"
  /\ ~cooling
  /\ mode' = "trial"
  /\ UNCHANGED cooling
  /\ \/ UNCHANGED through
     \/ \E c \in Callers \ through : through' = through \cup {c}

(* The trial succeeded with the call that ended.                           *)
Pass ==
  /\ mode = "trial"
  /\ mode' = "closed"
  /\ UNCHANGED cooling
  /\ \E c \in through : through' = through \ {c}

Enter ==
  /\ mode # "open"
  /\ \E c \in Callers \ through : through' = through \cup {c}
  /\ UNCHANGED <<mode, cooling>>

Leave ==
  /\ \E c \in through : through' = through \ {c}
  /\ UNCHANGED <<mode, cooling>>

Reset == mode' = "closed" /\ cooling' = FALSE /\ UNCHANGED through

Next == Trip \/ Cool \/ StartTrial \/ Pass \/ Enter \/ Leave \/ Reset

Spec == Init /\ [][Next]_vars

=============================================================================
