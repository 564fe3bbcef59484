------------------------------- MODULE Deals --------------------------------
(***************************************************************************)
(* What ordering promises, whatever the service does in between: a deal is *)
(* opened, and ends either dropped and never billed, or done and billed    *)
(* once, in the step that ends it.  A sale over the counter is done at     *)
(* once.  Several deals may be dropped together.                           *)
(***************************************************************************)

CONSTANT Deal

VARIABLES phase,   \* phase[d]: "none", "open", "done" or "dropped"
          bills    \* the bills written so far, each with the order it is for

dealVars == <<phase, bills>>

BillsOf(d) == {b \in bills : b.order = d}

Init ==
  /\ phase = [d \in Deal |-> "none"]
  /\ bills = {}

Open(d) ==
  /\ phase[d] = "none"
  /\ phase' = [phase EXCEPT ![d] = "open"]
  /\ UNCHANGED bills

Close(d) ==
  /\ phase[d] \in {"none", "open"}
  /\ phase' = [phase EXCEPT ![d] = "done"]
  /\ \E b \in bills' : b.order = d /\ bills' = bills \union {b} /\ b \notin bills

Drop(S) ==
  /\ \A d \in S : phase[d] = "open"
  /\ phase' = [d \in Deal |-> IF d \in S THEN "dropped" ELSE phase[d]]
  /\ UNCHANGED bills

Next ==
  \/ \E d \in Deal : Open(d) \/ Close(d)
  \/ \E S \in SUBSET Deal : Drop(S)

Spec == Init /\ [][Next]_dealVars

-----------------------------------------------------------------------------
\* A deal that is done has one bill, any other has none.
BilledOnce ==
  \A d \in Deal :
    /\ phase[d] = "done" => \E b : BillsOf(d) = {b}
    /\ phase[d] # "done" => BillsOf(d) = {}

\* Types of the two variables, with what the steps rely on.
DealTypeOK == phase \in [Deal -> {"none", "open", "done", "dropped"}]
=============================================================================
