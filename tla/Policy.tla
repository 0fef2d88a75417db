------------------------------- MODULE Policy -------------------------------
(***************************************************************************)
(* The deterministic policy engine (app/domain/policy.py) and what the     *)
(* diagnosis does with its verdict (diagnosis_service._resolve_next_status)*)
(* as pure operators.  Confidence is a whole number of percent; amounts    *)
(* are integers in the smallest currency unit, as in the code.             *)
(***************************************************************************)
EXTENDS CaseStateMachine, Integers

CONSTANTS
  MaxRetryCount,        \* policy_max_retry_count
  MaxWindowDays,        \* policy_max_recovery_window_days
  MaxContacts,          \* policy_max_customer_contacts
  MinConfidence,        \* policy_min_confidence_threshold
  HighValueAmount,      \* policy_high_value_amount_threshold
  HighValueConfidence,  \* policy_high_value_min_confidence_threshold
  MaxAmount             \* policy_max_recovery_amount

(* The ranges the settings model accepts; nothing relates the fields.      *)
ASSUME PolicyAssumption ==
  /\ MaxRetryCount \in Nat
  /\ MaxWindowDays \in Nat \ {0}
  /\ MaxContacts \in Nat
  /\ MinConfidence \in 0..100
  /\ HighValueAmount \in Nat \ {0}
  /\ HighValueConfidence \in 0..100
  /\ MaxAmount \in Nat \ {0}

Actions == {"RETRY_PAYMENT", "SEND_PAYMENT_LINK", "SEND_REMINDER",
            "ESCALATE", "STOP"}

ContactActions == {"SEND_PAYMENT_LINK", "SEND_REMINDER"}
ActiveRecoveryActions == {"RETRY_PAYMENT", "SEND_PAYMENT_LINK", "SEND_REMINDER"}
ExecutableActions == {"SEND_PAYMENT_LINK"}

(* Mutant: the executor's status is forgotten.                             *)
ReviewOnlyEligibleStatuses(action) ==
  CASE action \in ActiveRecoveryActions -> {"RECOMMENDED", "POLICY_REVIEW"}
    [] action = "ESCALATE" ->
         {"DIAGNOSING", "RECOMMENDED", "POLICY_REVIEW", "EXECUTING", "FAILED"}
    [] OTHER ->
         {"ELIGIBLE", "RECOMMENDED", "POLICY_REVIEW", "FAILED"}

EligibleStatuses(action) ==
  CASE action \in ActiveRecoveryActions ->
         {"RECOMMENDED", "POLICY_REVIEW", "APPROVED"}
    [] action = "ESCALATE" ->
         {"DIAGNOSING", "RECOMMENDED", "POLICY_REVIEW", "EXECUTING", "FAILED"}
    [] OTHER ->
         {"ELIGIBLE", "RECOMMENDED", "POLICY_REVIEW", "FAILED"}

PolicyInputs ==
  [status : Statuses, action : Actions, attempt : Nat, days : Nat,
   contacts : Nat, confidence : 0..100, amount : Int]

ConfidenceThreshold(amount) ==
  IF amount >= HighValueAmount THEN HighValueConfidence ELSE MinConfidence

(* Mutant: only the exact limit blocks.                                    *)
ExactRetriesExhausted(in) ==
  in.action = "RETRY_PAYMENT" /\ in.attempt = MaxRetryCount

RetriesExhausted(in) ==
  in.action = "RETRY_PAYMENT" /\ in.attempt >= MaxRetryCount

(* Mutant: the window also gates STOP and ESCALATE.                        *)
UngatedWindowExpired(in) == in.days > MaxWindowDays

WindowExpired(in) ==
  in.action \in ActiveRecoveryActions /\ in.days > MaxWindowDays

(* The rules, each with the condition under which it blocks.               *)
Violates(code, in) ==
  CASE code = "TERMINAL_STATE_PROTECTED" ->
         in.status \in TerminalStatuses
    [] code = "ACTION_NOT_ELIGIBLE_FOR_STATUS" ->
         in.status \notin EligibleStatuses(in.action)
    [] code = "MAX_RETRIES_REACHED" ->
         RetriesExhausted(in)
    [] code = "RECOVERY_WINDOW_EXPIRED" ->
         WindowExpired(in)
    [] code = "MAX_CONTACTS_REACHED" ->
         in.action \in ContactActions /\ in.contacts >= MaxContacts
    [] code = "AMOUNT_OUT_OF_BOUNDS" ->
         in.amount <= 0 \/ in.amount > MaxAmount
    [] OTHER ->  \* CONFIDENCE_BELOW_THRESHOLD
         /\ in.action \in ActiveRecoveryActions
         /\ in.confidence < ConfidenceThreshold(in.amount)

ReasonCodes ==
  {"TERMINAL_STATE_PROTECTED", "ACTION_NOT_ELIGIBLE_FOR_STATUS",
   "MAX_RETRIES_REACHED", "RECOVERY_WINDOW_EXPIRED", "MAX_CONTACTS_REACHED",
   "AMOUNT_OUT_OF_BOUNDS", "CONFIDENCE_BELOW_THRESHOLD"}

(* evaluate_policy collects every violated rule and allows iff none is.    *)
EvaluatePolicy(in) == {code \in ReasonCodes : Violates(code, in)}
Allowed(in) == EvaluatePolicy(in) = {}

(* The block reasons that mean "this will never work".                     *)
HardStopReasonCodes ==
  {"MAX_RETRIES_REACHED", "RECOVERY_WINDOW_EXPIRED", "MAX_CONTACTS_REACHED",
   "AMOUNT_OUT_OF_BOUNDS", "TERMINAL_STATE_PROTECTED"}

(* Mutant: an allowed action is approved whether or not it has an executor.*)
HopefulResolveNextStatus(action, codes) ==
  IF codes = {}
  THEN CASE action = "STOP"     -> "STOPPED"
         [] action = "ESCALATE" -> "ESCALATED"
         [] OTHER               -> "APPROVED"
  ELSE IF codes \cap HardStopReasonCodes # {} THEN "STOPPED" ELSE "ESCALATED"

ResolveNextStatus(action, codes) ==
  IF codes = {}
  THEN CASE action = "STOP"                 -> "STOPPED"
         [] action = "ESCALATE"             -> "ESCALATED"
         [] action \notin ExecutableActions -> "ESCALATED"
         [] OTHER                           -> "APPROVED"
  ELSE IF codes \cap HardStopReasonCodes # {} THEN "STOPPED" ELSE "ESCALATED"
=============================================================================
