------------------------- MODULE RecoveryLifecycle -------------------------
(***************************************************************************)
(* What the recovery pipeline promises for each case, with no sessions,    *)
(* versions, ledger or messages: the committed status, the money credited  *)
(* to it, and what its customer has been offered.  RecoveryRefinement      *)
(* shows that RecoveryPipeline implements it.                              *)
(*                                                                         *)
(* The promise is in the guards.  A case is decided on, started or failed  *)
(* only while nothing is on offer; money is credited only for an offer     *)
(* that was paid in full; a paid offer is never followed by another.       *)
(***************************************************************************)
EXTENDS CaseStateMachine

CONSTANTS
  Cases,
  Due      \* what the customer of each case owes

ASSUME LifecycleAssumption == Due \in [Cases -> Nat]

VARIABLES
  stage,     \* the committed status
  credited,  \* recovered_amount
  offer      \* "none", "open" (a link can be or become payable) or "paid"

lifecycleVars == <<stage, credited, offer>>

Init ==
  /\ stage = [c \in Cases |-> "DISCOVERED"]
  /\ credited = [c \in Cases |-> 0]
  /\ offer = [c \in Cases |-> "none"]

Enter(c, st) == stage' = [stage EXCEPT ![c] = st]

(* One diagnosis: eligibility, recommendation and policy.                  *)
Decide(c) ==
  /\ offer[c] = "none"
  /\ \/ stage[c] = "DISCOVERED" /\ Enter(c, "INELIGIBLE")
     \/ /\ stage[c] \in {"DISCOVERED", "FAILED"}
        /\ \E outcome \in {"APPROVED", "STOPPED", "ESCALATED"} : Enter(c, outcome)
  /\ UNCHANGED <<credited, offer>>

(* An execution starts, or its policy re-check withdraws the approval.     *)
Start(c) ==
  /\ stage[c] = "APPROVED"
  /\ offer[c] = "none"
  /\ \E outcome \in {"EXECUTING", "ESCALATED"} : Enter(c, outcome)
  /\ UNCHANGED <<credited, offer>>

Offer(c) ==
  /\ stage[c] = "EXECUTING"
  /\ offer[c] = "none"
  /\ offer' = [offer EXCEPT ![c] = "open"]
  /\ UNCHANGED <<stage, credited>>

Settle(c) ==
  /\ offer[c] = "open"
  /\ \E outcome \in {"paid", "none"} : offer' = [offer EXCEPT ![c] = outcome]
  /\ UNCHANGED <<stage, credited>>

(* A paid link's event.                                                    *)
Credit(c) ==
  /\ stage[c] = "EXECUTING"
  /\ offer[c] = "paid"
  /\ Enter(c, "RECOVERED")
  /\ credited' = [credited EXCEPT ![c] = @ + Due[c]]
  /\ UNCHANGED offer

(* Any other end of the link.                                              *)
Fail(c) ==
  /\ stage[c] = "EXECUTING"
  /\ offer[c] = "none"
  /\ Enter(c, "FAILED")
  /\ UNCHANGED <<credited, offer>>

HandOver(c) ==
  /\ stage[c] = "EXECUTING"
  /\ Enter(c, "ESCALATED")
  /\ UNCHANGED <<credited, offer>>

Next == \E c \in Cases :
  \/ Decide(c) \/ Start(c) \/ Offer(c) \/ Settle(c)
  \/ Credit(c) \/ Fail(c) \/ HandOver(c)

Spec == Init /\ [][Next]_lifecycleVars
----------------------------------------------------------------------------
(* A case is only ever seen in a status that some transaction committed:   *)
(* ELIGIBLE, DIAGNOSING, RECOMMENDED and POLICY_REVIEW are passed through. *)
LifecycleTypeOK ==
  /\ stage \in [Cases -> CommittedStatuses]
  /\ credited \in [Cases -> Nat]
  /\ offer \in [Cases -> {"none", "open", "paid"}]

(* Between two rounds, and before the first, nothing is payable and        *)
(* nothing was paid: a new link is never offered next to an old one.       *)
NothingOnOfferBetweenRounds ==
  \A c \in Cases :
     stage[c] \notin {"EXECUTING", "RECOVERED", "ESCALATED"} => offer[c] = "none"

(* The books balance: a case is credited what is due exactly when it is    *)
(* RECOVERED, and then its customer has paid.                              *)
CreditedIsPaid ==
  \A c \in Cases :
     IF stage[c] = "RECOVERED"
     THEN offer[c] = "paid" /\ credited[c] = Due[c]
     ELSE credited[c] = 0
============================================================================
