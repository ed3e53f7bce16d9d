------------------------- MODULE AckedChannelProofs -------------------------
(***************************************************************************)
(* What AckedChannel gives the code that submits messages, for any set of  *)
(* messages and any number of attempts.                                    *)
(***************************************************************************)
EXTENDS AckedChannel, TLAPS

Fates == {"new", "pending", "delivered", "failed"}

TypeOK ==
  /\ fate \in [Msgs -> Fates]
  /\ attempts \in [Msgs -> 0..MaxAttempts]
  /\ received \subseteq Msgs

(* NothingGivenUpEarly bounds the attempts of a message that is pending,   *)
(* so the count cannot pass MaxAttempts.                                   *)
IInv == TypeOK /\ ReportsAreTrue /\ NothingGivenUpEarly

LEMMA ReportInv ==
  ASSUME MaxAttempts \in Nat \ {0}, IInv, NEW done \in SUBSET Msgs, NEW missed \in SUBSET Msgs, Report(done, missed)
  PROVE  IInv'
<1> USE DEF IInv, TypeOK, Fates
<1>1. /\ \A m \in done \cup missed : fate[m] = "pending"
      /\ done \subseteq received /\ done \cap missed = {} /\ received' = received
  BY DEF Report
<1>2. ASSUME NEW m \in Msgs
      PROVE  /\ attempts'[m] \in 0..MaxAttempts
             /\ fate'[m] \in Fates
             /\ fate'[m] = "delivered" => m \in received
             /\ fate'[m] = "failed" <=> attempts'[m] = MaxAttempts
  <2>1. /\ attempts'[m] = IF m \in missed THEN attempts[m] + 1 ELSE attempts[m]
        /\ fate'[m] = CASE m \in done -> "delivered"
                        [] m \in missed /\ attempts[m] + 1 >= MaxAttempts -> "failed"
                        [] OTHER -> fate[m]
    BY DEF Report
  <2>2. CASE m \in done
    BY <1>1, <2>1, <2>2 DEF NothingGivenUpEarly
  <2>3. CASE m \in missed
    BY <1>1, <2>1, <2>3 DEF NothingGivenUpEarly
  <2>4. CASE m \notin done \cup missed
    BY <2>1, <2>4 DEF NothingGivenUpEarly, ReportsAreTrue
  <2> QED
    BY <2>2, <2>3, <2>4
<1>3. /\ fate' = [m \in Msgs |-> fate'[m]]
      /\ attempts' = [m \in Msgs |-> attempts'[m]]
  BY DEF Report
<1>4. TypeOK'
  BY <1>1, <1>2, <1>3
<1> QED
  BY <1>1, <1>2, <1>4 DEF ReportsAreTrue, NothingGivenUpEarly

LEMMA StepInv ==
  ASSUME MaxAttempts \in Nat \ {0}, IInv, [Next]_vars
  PROVE  IInv'
<1>1. ASSUME NEW m \in Msgs, Submit(m)
      PROVE  IInv'
  BY <1>1 DEF Submit, IInv, TypeOK, Fates, ReportsAreTrue, NothingGivenUpEarly
<1>2. ASSUME NEW m \in Msgs, Receive(m)
      PROVE  IInv'
  BY <1>2 DEF Receive, IInv, TypeOK, ReportsAreTrue, NothingGivenUpEarly
<1>3. CASE UNCHANGED vars
  BY <1>3 DEF vars, IInv, TypeOK, ReportsAreTrue, NothingGivenUpEarly
<1> QED
  BY <1>1, <1>2, <1>3, ReportInv DEF Next

LEMMA Invariance ==
  ASSUME MaxAttempts \in Nat \ {0}
  PROVE  Spec => []IInv
<1>1. Init => IInv
  BY DEF Init, IInv, TypeOK, Fates, ReportsAreTrue, NothingGivenUpEarly
<1>2. IInv /\ [Next]_vars => IInv'
  BY StepInv
<1> QED
  BY <1>1, <1>2, PTL DEF Spec

-----------------------------------------------------------------------------
(* Nothing is reported delivered that the other side has not received, and *)
(* nothing is given up while an attempt is left.                           *)
THEOREM ChannelIsHonest ==
  ASSUME MaxAttempts \in Nat \ {0}
  PROVE  Spec => [](ReportsAreTrue /\ NothingGivenUpEarly)
<1>1. IInv => ReportsAreTrue /\ NothingGivenUpEarly
  BY DEF IInv
<1> QED
  BY <1>1, Invariance, PTL

(* The first report of a message is the last that is heard of it.          *)
THEOREM ChannelIsFinal ==
  ASSUME MaxAttempts \in Nat \ {0}
  PROVE  Spec => ReportsAreFinal
<1> DEFINE Final == \A m \in Msgs : fate[m] \in {"delivered", "failed"}
                      => fate'[m] = fate[m] /\ attempts'[m] = attempts[m]
<1>1. IInv /\ [Next]_vars => [Final]_vars
  <2> SUFFICES ASSUME IInv, Next, NEW m \in Msgs, fate[m] \in {"delivered", "failed"}
               PROVE  fate'[m] = fate[m] /\ attempts'[m] = attempts[m]
    BY DEF Final
  <2>1. ASSUME NEW n \in Msgs, Submit(n) \/ Receive(n)
        PROVE  fate'[m] = fate[m] /\ attempts'[m] = attempts[m]
    BY <2>1 DEF Submit, Receive, IInv, TypeOK
  <2>2. ASSUME NEW done \in SUBSET Msgs, NEW missed \in SUBSET Msgs, Report(done, missed)
        PROVE  fate'[m] = fate[m] /\ attempts'[m] = attempts[m]
    <3>1. m \notin done /\ m \notin missed
      BY <2>2 DEF Report
    <3> QED
      BY <2>2, <3>1 DEF Report
  <2> QED
    BY <2>1, <2>2 DEF Next
<1> QED
  BY <1>1, Invariance, PTL DEF Spec, ReportsAreFinal

=============================================================================
