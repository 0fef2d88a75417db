----------------------------- MODULE CaseCalls -----------------------------
(***************************************************************************)
(* The two conversations one case has with the outside: its diagnosis asks *)
(* the model (Recommendation), and if that ends in APPROVED its execution, *)
(* which may come days later, checks the policy again and asks Razorpay    *)
(* for a payment link (PaymentLinkCall).                                   *)
(***************************************************************************)
EXTENDS Recommendation, PaymentLinkCall

VARIABLE gate   \* "closed" until the execution has passed its re-check

caseVars == <<recommendationVars, callVars, gate>>

CaseInit ==
  /\ RecommendationInit
  /\ CallInit
  /\ gate = "closed"

Diagnosis == RecommendationNext /\ UNCHANGED <<callVars, gate>>

Approved == phase = "decided" /\ verdict = "APPROVED"

(* An approved case waits for an operator, or for the budget of a cycle.   *)
WindowPasses ==
  /\ Approved /\ gate = "closed"
  /\ facts.days <= MaxWindowDays
  /\ facts' = [facts EXCEPT !.days = MaxWindowDays + 1]
  /\ UNCHANGED <<phase, replies, advice, source, verdict, callVars, gate>>

(* Mutant: the approval is taken as it stands.                             *)
TrustingExecute ==
  /\ Approved /\ gate = "closed"
  /\ gate' = "open"
  /\ UNCHANGED <<facts, phase, replies, advice, source, verdict, callVars>>

(* _execute_recovery_case: the policy on the facts of the day, and no      *)
(* action without an executor.                                             *)
Execute ==
  /\ Approved /\ gate = "closed"
  /\ LET codes == EvaluatePolicy(
           [status |-> "APPROVED", action |-> advice.action,
            confidence |-> advice.confidence, attempt |-> facts.attempt,
            days |-> facts.days, contacts |-> facts.contacts, amount |-> facts.amount])
     IN IF codes = {} /\ advice.action \in ExecutableActions
        THEN gate' = "open" /\ UNCHANGED verdict
        ELSE verdict' = "ESCALATED" /\ UNCHANGED gate
  /\ UNCHANGED <<facts, phase, replies, advice, source, callVars>>

Execution == gate = "open" /\ CallNext /\ UNCHANGED <<recommendationVars, gate>>

CaseNext == Diagnosis \/ WindowPasses \/ Execute \/ Execution

CaseSpec == CaseInit /\ [][CaseNext]_caseVars

(* ai_request_timeout_seconds and razorpay_request_timeout_seconds end     *)
(* every wait, and an approved case is executed by somebody.               *)
FairCaseSpec ==
  /\ CaseSpec
  /\ WF_caseVars(Diagnosis)
  /\ WF_caseVars(Execute)
  /\ WF_caseVars(gate = "open" /\ ClientStep /\ UNCHANGED <<recommendationVars, gate>>)
----------------------------------------------------------------------------
(* A payment link is asked for only on a valid answer of the model that    *)
(* clears every threshold when the request is sent, however long ago the   *)
(* case was approved, and never on the fallback (_fallback_recommendation, *)
(* _resolve_next_status, _recheck_policy).                                 *)
LinkRestsOnAnAnswer ==
  made + sent > 0 =>
    /\ source = "ai" /\ LastReply = "valid"
    /\ facts.amount > 0 /\ facts.amount <= MaxAmount
    /\ advice.action \in ExecutableActions
    /\ advice.confidence >= ConfidenceThreshold(facts.amount)
    /\ facts.days <= MaxWindowDays /\ facts.contacts < MaxContacts

(* Whatever the two providers do, the case is decided, and an approved one *)
(* gets its outcome ("Never raises. Always returns a usable AIOutcome";    *)
(* create_payment_link and its one reconciliation).                        *)
CaseConcludes ==
  <>(phase = "decided" /\ (verdict = "APPROVED" => client = "done"))
=============================================================================
