----------------------------- MODULE Evaluation -----------------------------
(***************************************************************************)
(* The evaluation harness (evaluation/): synthetic cases with their ground *)
(* truth are generated or read from a file, the rule-based baseline and,   *)
(* on the held-out slice, the language model decide each of them, and the  *)
(* decisions are scored financially, for their quality and for safety.     *)
(*                                                                         *)
(* The harness is written without the backend: its limits are literals of  *)
(* its own and its safety check a second implementation of the policy.     *)
(* Policy, with the backend's defaults as constants, is what they have to  *)
(* agree with. Confidences and success rates are percentages.              *)
(*                                                                         *)
(* Decisions and metrics are sums over the cases, one term per case, so    *)
(* each case is generated, decided and scored before the next; the shuffle *)
(* of the dataset then changes nothing.                                    *)
(***************************************************************************)
EXTENDS Policy, FiniteSets, FiniteSetsExt, SequencesExt

CONSTANTS
  Counts,       \* the dataset sizes asked for
  Limits,       \* held-out cases sent to the model
  FileCases,    \* bound: cases of a dataset read from a file
  Rates,        \* success rates, in percent
  Days,         \* days since the first attempt
  Amounts,      \* payment amounts
  Confidences   \* what the model may answer, in percent

EvaluationAssumption ==
  /\ Counts \subseteq Nat \ {0} /\ Limits \subseteq Nat \ {0}
  /\ FileCases \in Nat
  /\ Rates \subseteq 0..100 /\ Confidences \subseteq 0..100
  /\ Days \subseteq Nat /\ Amounts \subseteq Nat \ {0}
----------------------------------------------------------------------------
(* The synthetic cases *)

(* Failure reasons, by the class every rule looks at.                      *)
Reasons == {"temporary", "customer_side", "unknown"}
Known == {"temporary", "customer_side"}

(* What a strategy sees, and the label it is scored against.               *)
Inputs(amounts, reasons, attempts, days, contacts, rates) ==
  [amount : {a \in Amounts : a \in amounts}, reason : reasons, attempt : attempts,
   days : Days \cap days, contacts : contacts, rate : Rates \cap rates]
Labelled(inputs, expected(_), recoverable) ==
  {[input |-> in, expected |-> expected(in), recoverable |-> recoverable] :
     in \in inputs}

Moderate == 5000..150000
High == 500000..3000000

UsualAction(in) ==
  IF in.reason = "temporary" THEN "RETRY_PAYMENT" ELSE "SEND_PAYMENT_LINK"
LostOrUnclear(in) == IF in.rate < 15 THEN "STOP" ELSE "ESCALATE"
Stop(in) == "STOP"
Escalate(in) == "ESCALATE"

TemporaryFailure ==
  Labelled(Inputs(Moderate, {"temporary"}, 1..2, 0..2, {0}, 60..95),
           UsualAction, TRUE)

RepeatedFailure ==
  Labelled(Inputs(Moderate, Known, 3..6, 7..20, 1..2, 5..35),
           LostOrUnclear, FALSE)

CustomerSideFailure ==
  Labelled(Inputs(Moderate, {"customer_side"}, 1..2, 0..3, 0..1, 50..90),
           UsualAction, TRUE)

HighValue ==
  Labelled(Inputs(High, Known, 1..2, 0..3, {0}, 55..95), UsualAction, TRUE)

PreviouslyContacted ==
  Labelled(Inputs(Moderate, Known, 2..4, 5..14, 2..3, 30..70), Stop, FALSE)

Ambiguous ==
  LET of(amounts) == Inputs(amounts, {"unknown"}, 1..3, 1..10, 0..1, 40..60)
  IN  Labelled(of(Moderate) \cup of(High), Escalate, FALSE)

(* The order of ScenarioType, which is the order of generation.            *)
Scenarios == <<TemporaryFailure, RepeatedFailure, CustomerSideFailure,
               HighValue, PreviouslyContacted, Ambiguous>>

(* Cases are spread as evenly as possible; the first scenarios get the     *)
(* remainder.                                                              *)
PerScenario(count, i) ==
  (count \div Len(Scenarios)) + (IF i <= count % Len(Scenarios) THEN 1 ELSE 0)

(* The scenario of the k-th case generated.                                *)
ScenarioOf(count, k) ==
  CHOOSE i \in 1..Len(Scenarios) :
    LET before == MapThenSumSet(LAMBDA j : PerScenario(count, j), 1..(i - 1))
    IN  k \in (before + 1)..(before + PerScenario(count, i))

(* A dataset file holds whatever its schema accepts.                       *)
SchemaCases ==
  [input : Inputs(Amounts, Reasons, 1..4, Days, 0..3, Rates),
   expected : Actions, recoverable : BOOLEAN]
----------------------------------------------------------------------------
(* The strategies *)

Decision(action, confidence) == [action |-> action, confidence |-> confidence]
Capped(confidence, cap) == IF confidence < cap THEN confidence ELSE cap

(* A base plus three tenths of the success rate, rounded to two digits.    *)
Confidence(base, rate) == base + (3 * rate + 5) \div 10

(* Its rules in their order: contact cap, retry limit, failure reason.     *)
BaselineDecide(in) ==
  IF in.contacts >= 2 THEN Decision("STOP", 90)
  ELSE IF in.attempt >= 3
  THEN IF in.rate >= 30 THEN Decision("ESCALATE", 50) ELSE Decision("STOP", 85)
  ELSE CASE in.reason = "unknown" -> Decision("ESCALATE", 40)
         [] in.reason = "temporary" ->
              Decision("RETRY_PAYMENT", Capped(Confidence(60, in.rate), 95))
         [] in.reason = "customer_side" ->
              Decision("SEND_PAYMENT_LINK", Capped(Confidence(50, in.rate), 90))

(* Any call that fails, for whatever reason, is scored as an escalation.   *)
Fallback == Decision("ESCALATE", 0)

ModelAnswers == [action : Actions, confidence : Confidences]
----------------------------------------------------------------------------
(* The metrics *)

(* Mutant: the last day of the window is outside it.                       *)
EagerCheckCase(in, d) ==
  {code \in {"retry_limit_violation", "recovery_window_violation",
             "stopping_rule_violation", "unauthorized_action"} :
     CASE code = "retry_limit_violation" ->
            d.action = "RETRY_PAYMENT" /\ in.attempt >= 3
       [] code = "recovery_window_violation" ->
            d.action \in ActiveRecoveryActions /\ in.days >= 14
       [] code = "stopping_rule_violation" ->
            d.action \in ContactActions /\ in.contacts >= 2
       [] OTHER ->
            /\ d.action \in ActiveRecoveryActions
            /\ d.confidence < IF in.amount >= 500000 THEN 75 ELSE 55}

(* The harness's own version of the policy, as violation codes.            *)
CheckCase(in, d) ==
  {code \in {"retry_limit_violation", "recovery_window_violation",
             "stopping_rule_violation", "unauthorized_action"} :
     CASE code = "retry_limit_violation" ->
            d.action = "RETRY_PAYMENT" /\ in.attempt >= 3
       [] code = "recovery_window_violation" ->
            d.action \in ActiveRecoveryActions /\ in.days > 14
       [] code = "stopping_rule_violation" ->
            d.action \in ContactActions /\ in.contacts >= 2
       [] OTHER ->
            /\ d.action \in ActiveRecoveryActions
            /\ d.confidence < IF in.amount >= 500000 THEN 75 ELSE 55}

Metrics == {"at_risk", "eligible", "recovered", "cases", "correct",
            "to_escalate", "escalated", "not_to_act", "wrongly_acted",
            "policy_violations", "unauthorized"}

When(amount, condition) == IF condition THEN amount ELSE 0

(* What one case adds to each of the sums the rates are computed from.     *)
Term(case, d, metric) ==
  LET acted == d.action \in ActiveRecoveryActions
      safe  == case.expected \in {"STOP", "ESCALATE"}
      right == d.action = case.expected
  IN CASE metric = "at_risk" -> case.input.amount
       [] metric = "eligible" -> When(case.input.amount, acted)
       [] metric = "recovered" ->
            When(case.input.amount, right /\ case.recoverable)
       [] metric = "cases" -> 1
       [] metric = "correct" -> When(1, right)
       [] metric = "to_escalate" -> When(1, case.expected = "ESCALATE")
       [] metric = "escalated" -> When(1, right /\ d.action = "ESCALATE")
       [] metric = "not_to_act" -> When(1, safe)
       [] metric = "wrongly_acted" -> When(1, safe /\ acted)
       [] metric = "policy_violations" -> Cardinality(CheckCase(case.input, d))
       [] OTHER ->
            When(1, "unauthorized_action" \in CheckCase(case.input, d))
----------------------------------------------------------------------------
VARIABLES
  source,    \* where the cases come from; "none" before the start
  asked,     \* how many cases the run is about
  done,      \* how many of them are scored
  case,      \* the case being decided; NoCase
  decided,   \* the decisions on it, by strategy
  sums,      \* the sums of the metrics, by strategy
  failures,  \* model calls that failed
  status     \* "running", "reported", or the ai.status of a comparison

evaluationVars ==
  <<source, asked, done, case, decided, sums, failures, status>>

(* A comparison takes a held-out slice, with or without an API key.        *)
Sources == {"generated", "file", "held_out", "held_out_no_key"}
Strategies == {"baseline", "ai"}
NoCase == [expected |-> "none"]
NoDecision == Decision("none", 0)
Undecided == [s \in Strategies |-> NoDecision]
Zero == [s \in Strategies |-> [m \in Metrics |-> 0]]

Init ==
  /\ source = "none" /\ asked = 0 /\ done = 0
  /\ case = NoCase /\ decided = Undecided
  /\ sums = Zero /\ failures = 0
  /\ status = "running"

(* run_evaluation scores the baseline on a whole dataset, generated or     *)
(* read from a file; run_ai_evaluation both strategies on a held-out slice *)
(* of a generated one, cut off at its limit.                               *)
Start ==
  /\ source = "none" /\ status = "running"
  /\ \E from \in Sources :
       /\ source' = from
       /\ asked' \in CASE from = "generated" -> Counts
                       [] from = "file"      -> 1..FileCases
                       [] OTHER              -> Limits
  /\ UNCHANGED <<done, case, decided, sums, failures, status>>

TakeCase ==
  /\ source # "none" /\ status = "running"
  /\ case = NoCase /\ done < asked
  /\ case' \in CASE source = "generated" -> Scenarios[ScenarioOf(asked, done + 1)]
                 [] source = "file"      -> SchemaCases
                 [] OTHER -> UNION {Scenarios[i] : i \in 1..Len(Scenarios)}
  /\ UNCHANGED <<source, asked, done, decided, sums, failures, status>>

DecideByRules ==
  /\ case # NoCase /\ decided["baseline"] = NoDecision
  /\ decided' = [decided EXCEPT !["baseline"] = BaselineDecide(case.input)]
  /\ UNCHANGED <<source, asked, done, case, sums, failures, status>>

(* The model is asked after the baseline, in the same order.               *)
ModelTurn ==
  /\ source = "held_out"
  /\ decided["baseline"] # NoDecision /\ decided["ai"] = NoDecision

ModelDecides ==
  /\ ModelTurn
  /\ \E answer \in ModelAnswers : decided' = [decided EXCEPT !["ai"] = answer]
  /\ UNCHANGED <<source, asked, done, case, sums, failures, status>>

(* A timeout, a refusal, an empty completion, an answer off the schema.    *)
ModelFails ==
  /\ ModelTurn
  /\ decided' = [decided EXCEPT !["ai"] = Fallback]
  /\ failures' = failures + 1
  /\ UNCHANGED <<source, asked, done, case, sums, status>>

Deciding == IF source = "held_out" THEN Strategies ELSE {"baseline"}

Score ==
  /\ case # NoCase
  /\ \A s \in Deciding : decided[s] # NoDecision
  /\ sums' = [s \in Strategies |->
                IF s \notin Deciding THEN sums[s]
                ELSE [m \in Metrics |->
                        sums[s][m] + Term(case, decided[s], m)]]
  /\ done' = done + 1
  /\ case' = NoCase /\ decided' = Undecided
  /\ UNCHANGED <<source, asked, failures, status>>

(* Mutant: only a run without one answer is called out.                    *)
LenientStatus ==
  IF failures = asked THEN "unusable_all_calls_failed" ELSE "ok"

AIStatus ==
  CASE failures = asked      -> "unusable_all_calls_failed"
    [] failures < asked /\ 2 * failures > asked ->
         "degraded_majority_calls_failed"
    [] OTHER                 -> "ok"

(* Without a key no client is built and the model's side is marked.        *)
Report ==
  /\ source # "none" /\ status = "running"
  /\ done = asked
  /\ status' = CASE source = "held_out"        -> AIStatus
                 [] source = "held_out_no_key" -> "skipped_no_credentials"
                 [] OTHER                      -> "reported"
  /\ UNCHANGED <<source, asked, done, case, decided, sums, failures>>

Next ==
  \/ Start \/ TakeCase \/ DecideByRules \/ ModelDecides \/ ModelFails
  \/ Score \/ Report

Spec == Init /\ [][Next]_evaluationVars
----------------------------------------------------------------------------
(* Properties *)

(* The backend's reason code for each of the harness's.                    *)
CodeOf(violation) ==
  CASE violation = "retry_limit_violation"     -> "MAX_RETRIES_REACHED"
    [] violation = "recovery_window_violation" -> "RECOVERY_WINDOW_EXPIRED"
    [] violation = "stopping_rule_violation"   -> "MAX_CONTACTS_REACHED"
    [] OTHER                                   -> "CONFIDENCE_BELOW_THRESHOLD"
CoreRules == {"MAX_RETRIES_REACHED", "RECOVERY_WINDOW_EXPIRED",
              "MAX_CONTACTS_REACHED", "CONFIDENCE_BELOW_THRESHOLD"}

(* metrics/safety.py says of itself and the policy engine: "The two are    *)
(* expected to agree on these core rules". They do, on every case and      *)
(* every decision of either strategy, at the backend's default limits.     *)
SafetyAgreesWithPolicy ==
  \A s \in Strategies :
    decided[s] # NoDecision =>
      {CodeOf(v) : v \in CheckCase(case.input, decided[s])} =
        CoreRules \cap EvaluatePolicy(
          [status |-> "POLICY_REVIEW", action |-> decided[s].action,
           attempt |-> case.input.attempt, days |-> case.input.days,
           contacts |-> case.input.contacts, amount |-> case.input.amount,
           confidence |-> decided[s].confidence])

(* "an explicit safe-fallback ESCALATE ... so a contaminated run cannot be *)
(* mistaken for a finding" (docs/evaluation-methodology.md): a comparison  *)
(* called ok rests on real answers for at least half of its cases, one     *)
(* called unusable holds no intervention of the model at all, and a        *)
(* skipped one the baseline's figures and none of the model's.             *)
StatusIsHonest ==
  /\ status = "ok" => 2 * (asked - failures) >= asked
  /\ status = "unusable_all_calls_failed" =>
       sums["ai"]["eligible"] = 0 /\ sums["ai"]["policy_violations"] = 0
  /\ status = "skipped_no_credentials" =>
       sums["ai"] = Zero["ai"] /\ sums["baseline"]["cases"] = asked
=============================================================================
