---------------------------- MODULE PolicyReview ----------------------------
(***************************************************************************)
(* The facts evaluate_policy is given about one case, and how they change  *)
(* between two evaluations of it: days pass, an executed link raises the   *)
(* attempt number, a new diagnosis proposes another action.  The run       *)
(* enumerates the inputs of the policy engine; the properties say what its *)
(* verdicts have to do with one another.                                   *)
(***************************************************************************)
EXTENDS Policy

CONSTANTS
  MaxAttempts,   \* bound on the attempt number
  MaxDays,       \* bound on the days since discovery
  Contacts,      \* contact counts a case may carry
  Confidences,   \* confidences the AI may report
  Amounts        \* amounts a payment may have

ASSUME ReviewAssumption ==
  /\ MaxAttempts \in Nat /\ MaxDays \in Nat
  /\ Contacts \subseteq Nat /\ Confidences \subseteq 0..100
  /\ Amounts \subseteq Int

VARIABLE input

Init ==
  input \in [status : Statuses, action : Actions, attempt : {0}, days : {0},
             contacts : Contacts, confidence : Confidences, amount : Amounts]

(* (now - created_at).days                                                 *)
DayPasses ==
  /\ input.days < MaxDays
  /\ input' = [input EXCEPT !.days = @ + 1]

(* current_attempt_number += 1                                             *)
AttemptRecorded ==
  /\ input.attempt < MaxAttempts
  /\ input' = [input EXCEPT !.attempt = @ + 1]

(* The recommendation of another diagnosis.                                *)
Propose ==
  \E action \in Actions, confidence \in Confidences :
     input' = [input EXCEPT !.action = action, !.confidence = confidence]

Next == DayPasses \/ AttemptRecorded \/ Propose

Spec == Init /\ [][Next]_input
-----------------------------------------------------------------------------
(* The facts policy_service builds PolicyInput from are of their types.    *)
ReviewTypeOK == input \in PolicyInputs

(* A block is final for its proposal: as days pass and attempts are made,  *)
(* no reason against the same proposal ever goes away.                     *)
BlockedStaysBlocked ==
  [][ input'.action = input.action /\ input'.confidence = input.confidence
      => EvaluatePolicy(input) \subseteq EvaluatePolicy(input') ]_input

(* Whatever the verdict, the diagnosis can act on it: the status it        *)
(* resolves to is a legal move out of POLICY_REVIEW, and APPROVED only for *)
(* an allowed action that has an executor.                                 *)
VerdictIsLegal ==
  input.status = "POLICY_REVIEW" =>
    LET next == ResolveNextStatus(input.action, EvaluatePolicy(input)) IN
      /\ CanTransition("POLICY_REVIEW", next)
      /\ next = "APPROVED" <=> Allowed(input) /\ input.action \in ExecutableActions

(* The executor re-checks at APPROVED what was reviewed at POLICY_REVIEW:  *)
(* on the same facts it finds the same violations.                         *)
RecheckAgrees ==
  input.status = "POLICY_REVIEW" /\ input.action \in ActiveRecoveryActions =>
    EvaluatePolicy([input EXCEPT !.status = "APPROVED"]) = EvaluatePolicy(input)

(* Stop and escalate stay reachable: under review they are never blocked   *)
(* by age, attempts, contacts or confidence, only by an amount that is out *)
(* of bounds; and a blocked proposal still ends the case.                  *)
WayOutRemains ==
  input.status = "POLICY_REVIEW" /\ input.action \in {"STOP", "ESCALATE"} =>
    /\ EvaluatePolicy(input) \subseteq {"AMOUNT_OUT_OF_BOUNDS"}
    /\ ResolveNextStatus(input.action, EvaluatePolicy(input)) \in TerminalStatuses

(* docs/ai-safety.md: the fallback's ESCALATE is always allowed.           *)
EscalateAlwaysAllowed ==
  input.status = "POLICY_REVIEW" /\ input.action = "ESCALATE" => Allowed(input)
=============================================================================
