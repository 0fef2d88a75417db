--------------------------- MODULE Recommendation ---------------------------
(***************************************************************************)
(* Asking the AI for a recommendation (ai/service.py, ai/providers): the   *)
(* provider is asked, its failures are classified and some of them asked   *)
(* again, and whatever is left is turned into a safe ESCALATE.  The        *)
(* outcome then goes through the policy engine, as in                      *)
(* diagnosis_service._diagnose_recovery_case.                              *)
(***************************************************************************)
EXTENDS Policy

CONSTANTS
  MaxRetries,        \* ai_max_retries
  Confidences,       \* confidences the model may report
  Amounts, Attempts  \* facts of the case the policy looks at

ASSUME RecommendationAssumption ==
  /\ MaxRetries \in Nat
  /\ Confidences \subseteq 0..100 /\ Amounts \subseteq Int /\ Attempts \subseteq Nat

(* How one chat completion can end: the SDK's exceptions, a completion     *)
(* that is empty or fails the schema, or a valid one.                      *)
Completions == {"timeout", "authentication", "permission", "rate_limit",
            "connection", "server_error", "bad_request", "unrecognized",
            "empty", "malformed", "valid"}

Errors == {"AIProviderTimeoutError", "AIProviderAuthError", "AIProviderRateLimitError",
           "AIProviderUnavailableError", "AIProviderInvalidResponseError"}

(* Mutant: rate limiting is taken for a refused key.                       *)
HarshClassifyCompletion(reply) ==
  CASE reply = "timeout" -> "AIProviderTimeoutError"
    [] reply \in {"authentication", "permission", "rate_limit"} -> "AIProviderAuthError"
    [] reply \in {"empty", "malformed"} -> "AIProviderInvalidResponseError"
    [] OTHER -> "AIProviderUnavailableError"

(* GroqProvider.diagnose_payment and _classify.                            *)
ClassifyCompletion(reply) ==
  CASE reply = "timeout" -> "AIProviderTimeoutError"
    [] reply \in {"authentication", "permission"} -> "AIProviderAuthError"
    [] reply = "rate_limit" -> "AIProviderRateLimitError"
    [] reply \in {"empty", "malformed"} -> "AIProviderInvalidResponseError"
    [] OTHER -> "AIProviderUnavailableError"

Retryable == {"AIProviderTimeoutError", "AIProviderRateLimitError",
              "AIProviderUnavailableError"}

(* RecoveryRecommendation, without its words.                              *)
Recommendations == [action : Actions, confidence : Confidences]

Fallback == [action |-> "ESCALATE", confidence |-> 0]

Undecided == "undecided"

VARIABLES
  facts,     \* what the policy looks at besides the recommendation; and
             \* whether GROQ_API_KEY is set
  phase,     \* "ask", "wait", "failed", "answered" or "decided"
  replies,   \* what the provider answered so far
  advice,    \* the recommendation of the AIOutcome, or Fallback
  source,    \* its decision_source
  verdict    \* the status the diagnosis resolves to

recommendationVars == <<facts, phase, replies, advice, source, verdict>>

RecommendationInit ==
  /\ facts \in [attempt : Attempts, amount : Amounts, days : {0, MaxWindowDays + 1},
                contacts : {0, MaxContacts}, key : BOOLEAN]
  /\ phase = "ask"
  /\ replies = <<>>
  /\ advice = Fallback
  /\ source = Undecided
  /\ verdict = Undecided

Attempted == Len(replies)
LastReply == replies[Len(replies)]

Ask ==
  /\ phase = "ask"
  /\ phase' = "wait"
  /\ UNCHANGED <<facts, replies, advice, source, verdict>>

(* Without a key _UnconfiguredProvider answers every call the same way.    *)
ProviderFails ==
  /\ phase = "wait"
  /\ \E reply \in (IF facts.key THEN Completions \ {"valid"} ELSE {"authentication"}) :
       replies' = Append(replies, reply)
  /\ phase' = "failed"
  /\ UNCHANGED <<facts, advice, source, verdict>>

ProviderAnswers ==
  /\ phase = "wait"
  /\ facts.key
  /\ replies' = Append(replies, "valid")
  /\ advice' \in Recommendations
  /\ source' = "ai"
  /\ phase' = "answered"
  /\ UNCHANGED <<facts, verdict>>

Retry ==
  /\ phase = "failed"
  /\ ClassifyCompletion(LastReply) \in Retryable
  /\ Attempted <= MaxRetries
  /\ phase' = "ask"
  /\ UNCHANGED <<facts, replies, advice, source, verdict>>

GiveUp ==
  /\ phase = "failed"
  /\ ClassifyCompletion(LastReply) \notin Retryable \/ Attempted > MaxRetries
  /\ advice' = Fallback
  /\ source' = "fallback"
  /\ phase' = "answered"
  /\ UNCHANGED <<facts, replies, verdict>>

(* The policy and the resolution, whatever the source.                     *)
ConcludeDiagnosis ==
  /\ phase = "answered"
  /\ LET codes == EvaluatePolicy(
           [status |-> "POLICY_REVIEW", action |-> advice.action,
            confidence |-> advice.confidence, attempt |-> facts.attempt,
            days |-> facts.days, contacts |-> facts.contacts, amount |-> facts.amount])
     IN verdict' = ResolveNextStatus(advice.action, codes)
  /\ phase' = "decided"
  /\ UNCHANGED <<facts, replies, advice, source>>

RecommendationNext == Ask \/ ProviderFails \/ ProviderAnswers \/ Retry \/ GiveUp \/ ConcludeDiagnosis

RecommendationSpec == RecommendationInit /\ [][RecommendationNext]_recommendationVars

-----------------------------------------------------------------------------
(* A diagnosis falls back only when asking again was pointless: what it    *)
(* gave up on was an error that repeating does not mend, or the last one   *)
(* the budget allowed; and no answer was thrown away.                      *)
FallbackIsLastResort ==
  source = "fallback" =>
    /\ \A i \in 1..Attempted : replies[i] # "valid"
    /\ Attempted = MaxRetries + 1
       \/ LastReply \in {"authentication", "permission", "empty", "malformed"}

(* ai/service.py: "Only retry failure modes that are plausibly transient." *)
RetryOnlyTransient ==
  \A i \in 1..(Attempted - 1) :
    replies[i] \in {"timeout", "rate_limit", "connection", "server_error"}
=============================================================================
