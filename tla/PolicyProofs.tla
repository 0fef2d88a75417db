---------------------------- MODULE PolicyProofs ----------------------------
(***************************************************************************)
(* The policy engine under any configuration its settings accept, and for  *)
(* any facts about a case; and the two programs with limits of their own,  *)
(* the evaluation harness and the demonstration batch, held against it.    *)
(***************************************************************************)
EXTENDS PolicyUsers, FiniteSetTheorems, TLAPS

(* The facts stay facts of their types.                                    *)
LEMMA ReviewTypes == Spec => []ReviewTypeOK
<1> USE DEF ReviewTypeOK, PolicyInputs
<1>1. Init => ReviewTypeOK
  <2> SUFFICES ASSUME Init  PROVE ReviewTypeOK
    OBVIOUS
  <2>1. PICK st \in Statuses, a \in Actions, n \in Contacts, f \in Confidences,
             x \in Amounts :
          input = [status |-> st, action |-> a, attempt |-> 0, days |-> 0,
                   contacts |-> n, confidence |-> f, amount |-> x]
    BY DEF Init
  <2>2. n \in Nat /\ f \in 0..100 /\ x \in Int
    BY ReviewAssumption
  <2> QED BY <2>1, <2>2
<1>2. ReviewTypeOK /\ [Next]_input => ReviewTypeOK'
  <2> SUFFICES ASSUME ReviewTypeOK, [Next]_input  PROVE ReviewTypeOK'
    OBVIOUS
  <2>1. CASE DayPasses
    <3>1. PICK d \in Nat : input' = [input EXCEPT !.days = d]
      BY <2>1 DEF DayPasses
    <3> QED BY <3>1
  <2>2. CASE AttemptRecorded
    <3>1. PICK n \in Nat : input' = [input EXCEPT !.attempt = n]
      BY <2>2 DEF AttemptRecorded
    <3> QED BY <3>1
  <2>3. CASE Propose
    <3>1. PICK a \in Actions, f \in 0..100 :
            input' = [input EXCEPT !.action = a, !.confidence = f]
      BY <2>3, ReviewAssumption DEF Propose
    <3> QED BY <3>1
  <2>4. CASE UNCHANGED input
    BY <2>4
  <2> QED BY <2>1, <2>2, <2>3, <2>4 DEF Next
<1> QED BY <1>1, <1>2, PTL DEF Spec
-----------------------------------------------------------------------------
(* What the re-check at APPROVED sees of what was reviewed at              *)
(* POLICY_REVIEW.                                                          *)
LEMMA RecheckSame ==
  ASSUME NEW in \in PolicyInputs, in.status = "POLICY_REVIEW",
         in.action \in ActiveRecoveryActions
  PROVE  EvaluatePolicy([in EXCEPT !.status = "APPROVED"]) = EvaluatePolicy(in)
<1> DEFINE re == [in EXCEPT !.status = "APPROVED"]
<1>1. /\ re.status = "APPROVED" /\ re.action = in.action /\ re.attempt = in.attempt
      /\ re.days = in.days /\ re.contacts = in.contacts
      /\ re.confidence = in.confidence /\ re.amount = in.amount
  BY DEF PolicyInputs
<1> HIDE DEF re
<1>2. ASSUME NEW code \in ReasonCodes  PROVE Violates(code, re) <=> Violates(code, in)
  <2>0. CASE code = "TERMINAL_STATE_PROTECTED"
    BY <1>1, <2>0 DEF Violates, TerminalStatuses
  <2>1. CASE code = "ACTION_NOT_ELIGIBLE_FOR_STATUS"
    <3>1. EligibleStatuses(in.action) = {"RECOMMENDED", "POLICY_REVIEW", "APPROVED"}
      BY DEF EligibleStatuses, ActiveRecoveryActions
    <3> QED BY <1>1, <2>1, <3>1 DEF Violates
  <2>2. CASE code = "MAX_RETRIES_REACHED"
    BY <1>1, <2>2 DEF Violates, RetriesExhausted
  <2>3. CASE code = "RECOVERY_WINDOW_EXPIRED"
    BY <1>1, <2>3 DEF Violates, WindowExpired
  <2>4. CASE code = "MAX_CONTACTS_REACHED"
    BY <1>1, <2>4 DEF Violates
  <2>5. CASE code = "AMOUNT_OUT_OF_BOUNDS"
    BY <1>1, <2>5 DEF Violates
  <2>6. CASE code = "CONFIDENCE_BELOW_THRESHOLD"
    BY <1>1, <2>6 DEF Violates
  <2> QED BY <2>0, <2>1, <2>2, <2>3, <2>4, <2>5, <2>6 DEF ReasonCodes
<1>3. EvaluatePolicy(re) = EvaluatePolicy(in)
  BY <1>2 DEF EvaluatePolicy
<1> QED BY <1>3 DEF re

(* The executor's re-check of an APPROVED case finds the violations the    *)
(* diagnosis found when it reviewed the same facts.                        *)
THEOREM RecheckCorrect == Spec => []RecheckAgrees
<1>1. ReviewTypeOK => RecheckAgrees
  BY RecheckSame DEF ReviewTypeOK, RecheckAgrees
<1> QED BY <1>1, ReviewTypes, PTL

(* Every verdict of the review resolves to a legal move out of             *)
(* POLICY_REVIEW, and to APPROVED only for an allowed, executable action.  *)
THEOREM VerdictCorrect == Spec => []VerdictIsLegal
<1>1. ReviewTypeOK => VerdictIsLegal
  <2> SUFFICES ASSUME ReviewTypeOK, input.status = "POLICY_REVIEW"
               PROVE  LET next == ResolveNextStatus(input.action, EvaluatePolicy(input)) IN
                        /\ CanTransition("POLICY_REVIEW", next)
                        /\ next = "APPROVED" <=>
                             Allowed(input) /\ input.action \in ExecutableActions
    BY DEF VerdictIsLegal
  <2> DEFINE next == ResolveNextStatus(input.action, EvaluatePolicy(input))
  <2>1. next \in {"APPROVED", "STOPPED", "ESCALATED"}
    BY DEF ResolveNextStatus
  <2>2. CanTransition("POLICY_REVIEW", next)
    <3> HIDE DEF next
    <3> QED BY <2>1 DEF CanTransition, AllowedTransitions, Statuses
  <2>3. next = "APPROVED" <=> Allowed(input) /\ input.action \in ExecutableActions
    BY DEF ResolveNextStatus, Allowed, ExecutableActions
  <2> QED BY <2>2, <2>3
<1> QED BY <1>1, ReviewTypes, PTL

(* Under review, STOP and ESCALATE are blocked by the amount at most, and  *)
(* end the case either way.                                                *)
THEOREM WayOutCorrect == Spec => []WayOutRemains
<1>1. ReviewTypeOK => WayOutRemains
  <2> SUFFICES ASSUME ReviewTypeOK, input.status = "POLICY_REVIEW",
                      input.action \in {"STOP", "ESCALATE"}
               PROVE  /\ EvaluatePolicy(input) \subseteq {"AMOUNT_OUT_OF_BOUNDS"}
                      /\ ResolveNextStatus(input.action, EvaluatePolicy(input))
                           \in TerminalStatuses
    BY DEF WayOutRemains
  <2>1. ASSUME NEW code \in ReasonCodes, Violates(code, input)
        PROVE  code = "AMOUNT_OUT_OF_BOUNDS"
    BY <2>1 DEF ReasonCodes, Violates, RetriesExhausted, WindowExpired, TerminalStatuses,
                EligibleStatuses, ContactActions, ActiveRecoveryActions
  <2>2. EvaluatePolicy(input) \subseteq {"AMOUNT_OUT_OF_BOUNDS"}
    BY <2>1 DEF EvaluatePolicy
  <2>3. ResolveNextStatus(input.action, EvaluatePolicy(input)) \in TerminalStatuses
    BY DEF ResolveNextStatus, TerminalStatuses, ExecutableActions
  <2> QED BY <2>2, <2>3
<1> QED BY <1>1, ReviewTypes, PTL

(* No reason against a proposal goes away as days pass and attempts are    *)
(* made.                                                                   *)
THEOREM BlockStays == Spec => BlockedStaysBlocked
<1> DEFINE Stays == input'.action = input.action /\ input'.confidence = input.confidence
                      => EvaluatePolicy(input) \subseteq EvaluatePolicy(input')
<1>1. ReviewTypeOK /\ ReviewTypeOK' /\ [Next]_input => [Stays]_input
  <2> SUFFICES ASSUME ReviewTypeOK, ReviewTypeOK', Next,
                      input'.action = input.action,
                      input'.confidence = input.confidence
               PROVE  EvaluatePolicy(input) \subseteq EvaluatePolicy(input')
    OBVIOUS
  <2>1. /\ input'.status = input.status /\ input'.contacts = input.contacts
        /\ input'.amount = input.amount
        /\ input'.attempt >= input.attempt /\ input'.days >= input.days
    <3>1. CASE DayPasses
      <4>1. PICK d \in Nat : d = input.days + 1 /\ input' = [input EXCEPT !.days = d]
        BY <3>1 DEF DayPasses, ReviewTypeOK, PolicyInputs
      <4> QED BY <4>1 DEF ReviewTypeOK, PolicyInputs
    <3>2. CASE AttemptRecorded
      <4>1. PICK n \in Nat :
              n = input.attempt + 1 /\ input' = [input EXCEPT !.attempt = n]
        BY <3>2 DEF AttemptRecorded, ReviewTypeOK, PolicyInputs
      <4> QED BY <4>1 DEF ReviewTypeOK, PolicyInputs
    <3>3. CASE Propose
      <4>1. PICK a, f : input' = [input EXCEPT !.action = a, !.confidence = f]
        BY <3>3 DEF Propose
      <4> QED BY <4>1 DEF ReviewTypeOK, PolicyInputs
    <3> QED BY <3>1, <3>2, <3>3 DEF Next
  <2>2. /\ input.attempt \in Nat /\ input'.attempt \in Nat
        /\ input.days \in Nat /\ input'.days \in Nat
    BY DEF ReviewTypeOK, PolicyInputs
  <2>3. RetriesExhausted(input) => RetriesExhausted(input')
    BY <2>1, <2>2, PolicyAssumption DEF RetriesExhausted
  <2>4. WindowExpired(input) => WindowExpired(input')
    BY <2>1, <2>2, PolicyAssumption DEF WindowExpired
  <2>5. ASSUME NEW code \in ReasonCodes, Violates(code, input)
        PROVE  Violates(code, input')
    BY <2>1, <2>3, <2>4, <2>5 DEF Violates
  <2> QED BY <2>5 DEF EvaluatePolicy
<1> QED BY <1>1, ReviewTypes, PTL DEF Spec, BlockedStaysBlocked
-----------------------------------------------------------------------------
(***************************************************************************)
(* The evaluation harness, and the demonstration batch next to the         *)
(* orchestrator, whose limits are literals of their own: what holds of     *)
(* them for every dataset, every slice, every answer of the model and      *)
(* every number of demonstration cases.                                    *)
(***************************************************************************)

(* One case, one decision: the two safety checks side by side.             *)
LEMMA SameRules ==
  ASSUME NEW in, NEW d
  PROVE  {Harness!CodeOf(v) : v \in Harness!CheckCase(in, d)} =
           Harness!CoreRules \cap Harness!EvaluatePolicy(
             [status |-> "POLICY_REVIEW", action |-> d.action,
              attempt |-> in.attempt, days |-> in.days,
              contacts |-> in.contacts, amount |-> in.amount,
              confidence |-> d.confidence])
<1> DEFINE facts == [status |-> "POLICY_REVIEW", action |-> d.action,
                     attempt |-> in.attempt, days |-> in.days,
                     contacts |-> in.contacts, amount |-> in.amount,
                     confidence |-> d.confidence]
           check == Harness!CheckCase(in, d)
           policy == Harness!EvaluatePolicy(facts)
<1>1. /\ facts.action = d.action /\ facts.attempt = in.attempt
      /\ facts.days = in.days /\ facts.contacts = in.contacts
      /\ facts.amount = in.amount /\ facts.confidence = d.confidence
  OBVIOUS
<1> HIDE DEF facts
<1>2. /\ "retry_limit_violation" \in check <=> "MAX_RETRIES_REACHED" \in policy
      /\ "recovery_window_violation" \in check <=> "RECOVERY_WINDOW_EXPIRED" \in policy
      /\ "stopping_rule_violation" \in check <=> "MAX_CONTACTS_REACHED" \in policy
      /\ "unauthorized_action" \in check <=> "CONFIDENCE_BELOW_THRESHOLD" \in policy
  <2>1. "retry_limit_violation" \in check <=> "MAX_RETRIES_REACHED" \in policy
    BY <1>1 DEF Harness!CheckCase, Harness!EvaluatePolicy,
                Harness!ReasonCodes,
                Harness!Violates, Harness!RetriesExhausted
  <2>2. "recovery_window_violation" \in check <=> "RECOVERY_WINDOW_EXPIRED" \in policy
    BY <1>1 DEF Harness!CheckCase, Harness!EvaluatePolicy,
                Harness!ReasonCodes,
                Harness!Violates, Harness!WindowExpired,
                Harness!ActiveRecoveryActions
  <2>3. "stopping_rule_violation" \in check <=> "MAX_CONTACTS_REACHED" \in policy
    BY <1>1 DEF Harness!CheckCase, Harness!EvaluatePolicy,
                Harness!ReasonCodes,
                Harness!Violates, Harness!ContactActions
  <2>4. "unauthorized_action" \in check <=> "CONFIDENCE_BELOW_THRESHOLD" \in policy
    BY <1>1 DEF Harness!CheckCase, Harness!EvaluatePolicy,
                Harness!ReasonCodes,
                Harness!Violates, Harness!ConfidenceThreshold,
                Harness!ActiveRecoveryActions
  <2> QED BY <2>1, <2>2, <2>3, <2>4
<1>3. check \subseteq {"retry_limit_violation", "recovery_window_violation",
                       "stopping_rule_violation", "unauthorized_action"}
  BY DEF Harness!CheckCase
<1> HIDE DEF check, policy
<1>4. /\ Harness!CodeOf("retry_limit_violation") = "MAX_RETRIES_REACHED"
      /\ Harness!CodeOf("recovery_window_violation") = "RECOVERY_WINDOW_EXPIRED"
      /\ Harness!CodeOf("stopping_rule_violation") = "MAX_CONTACTS_REACHED"
      /\ Harness!CodeOf("unauthorized_action") = "CONFIDENCE_BELOW_THRESHOLD"
  BY DEF Harness!CodeOf
<1>5. {Harness!CodeOf(v) : v \in check} = Harness!CoreRules \cap policy
  <2>1. ASSUME NEW v \in check  PROVE Harness!CodeOf(v) \in Harness!CoreRules \cap policy
    BY <1>2, <1>3, <1>4 DEF Harness!CoreRules
  <2>2. ASSUME NEW c \in Harness!CoreRules \cap policy
        PROVE  \E v \in check : c = Harness!CodeOf(v)
    BY <1>2, <1>4 DEF Harness!CoreRules
  <2> QED BY <2>1, <2>2
<1> QED BY <1>5 DEF facts, check, policy

(* At the backend's defaults the harness's safety check finds exactly the  *)
(* violations of the rules it shares with the policy engine, on every case *)
(* of every dataset and every decision of either strategy.                 *)
THEOREM SafetyChecksAgree ==
  Harness!Spec => []SafetyAgreesWithPolicy
<1>1. SafetyAgreesWithPolicy
  <2> SUFFICES ASSUME NEW s \in Harness!Strategies, decided[s] # Harness!NoDecision
               PROVE  {Harness!CodeOf(v) :
                         v \in Harness!CheckCase(case.input, decided[s])} =
                        Harness!CoreRules \cap Harness!EvaluatePolicy(
                          [status |-> "POLICY_REVIEW", action |-> decided[s].action,
                           attempt |-> case.input.attempt, days |-> case.input.days,
                           contacts |-> case.input.contacts,
                           amount |-> case.input.amount,
                           confidence |-> decided[s].confidence])
    BY DEF SafetyAgreesWithPolicy, Harness!SafetyAgreesWithPolicy
  <2> QED BY SameRules, Zenon
<1> QED BY <1>1, PTL
-----------------------------------------------------------------------------
(* Model answers taken so far: one per scored case, and the one at hand.   *)
Tried == done + (IF decided["ai"] # Harness!NoDecision THEN 1 ELSE 0)

(* What the loop over the cases keeps: a case is at hand only while the    *)
(* run goes on, decisions belong to the case at hand, and the model is     *)
(* asked only in a comparison that has a client.                           *)
LoopOK ==
  /\ source \in Harness!Sources \cup {"none"}
  /\ asked \in Nat /\ done \in Nat /\ done <= asked
  /\ source = "none" => done = 0 /\ case = Harness!NoCase
  /\ case # Harness!NoCase => done < asked /\ status = "running"
  /\ \A s \in Harness!Strategies :
       decided[s] # Harness!NoDecision => case # Harness!NoCase
  /\ decided["ai"] # Harness!NoDecision => source = "held_out"
  /\ decided = [s \in Harness!Strategies |-> decided[s]]
  /\ status # "running" => source # "none" /\ done = asked

(* How the failed calls show in the model's sums: as long as every call    *)
(* failed, nothing the model decided has intervened or broken a rule.      *)
SumsOK ==
  /\ failures \in Nat /\ failures <= Tried
  /\ failures = Tried =>
       /\ sums["ai"]["eligible"] = 0 /\ sums["ai"]["policy_violations"] = 0
       /\ decided["ai"] \in {Harness!NoDecision, Harness!Fallback}
  /\ sums["baseline"]["cases"] = done
  /\ source # "held_out" =>
       sums["ai"] = Harness!Zero["ai"] /\ failures = 0

(* What each status was given on.                                          *)
StatusOK ==
  /\ status = "ok" => 2 * failures <= asked
  /\ status = "unusable_all_calls_failed" => failures = asked
  /\ status = "skipped_no_credentials" => source = "held_out_no_key"

HonestInv == LoopOK /\ SumsOK /\ StatusOK

(* An escalation adds no revenue to intervene on, and breaks no rule.      *)
LEMMA FallbackIsNeutral ==
  ASSUME NEW c
  PROVE  /\ Harness!Term(c, Harness!Fallback, "eligible") = 0
         /\ Harness!Term(c, Harness!Fallback, "policy_violations") = 0
<1>1. Harness!Fallback.action = "ESCALATE"
  BY DEF Harness!Fallback, Harness!Decision
<1>2. Harness!CheckCase(c.input, Harness!Fallback) = {}
  BY <1>1 DEF Harness!CheckCase, Harness!ActiveRecoveryActions,
              Harness!ContactActions
<1>3. Harness!Cardinality({}) = 0
  <2>1. Harness!Cardinality({}) = Cardinality({})
    BY DEF Harness!Cardinality, Cardinality
  <2> QED BY <2>1, FS_EmptySet
<1> QED BY <1>1, <1>2, <1>3
        DEF Harness!Term, Harness!When, Harness!ActiveRecoveryActions

LEMMA HonestInit == Harness!Init => HonestInv
<1> SUFFICES ASSUME Harness!Init  PROVE HonestInv
  OBVIOUS
<1>1. decided["ai"] = Harness!NoDecision /\ decided["baseline"] = Harness!NoDecision
  BY DEF Harness!Init, Harness!Undecided, Harness!Strategies
<1>2. LoopOK
  BY <1>1 DEF Harness!Init, LoopOK, Harness!Strategies, Harness!Undecided
<1>3. /\ sums["ai"]["eligible"] = 0 /\ sums["ai"]["policy_violations"] = 0
      /\ sums["baseline"]["cases"] = 0
  BY DEF Harness!Init, Harness!Zero, Harness!Strategies, Harness!Metrics
<1>4. SumsOK
  BY <1>1, <1>3 DEF Harness!Init, SumsOK, Tried
<1>5. StatusOK
  BY DEF Harness!Init, StatusOK
<1> QED BY <1>2, <1>4, <1>5 DEF HonestInv

LEMMA HonestStep ==
  ASSUME Harness!EvaluationAssumption, HonestInv,
         [Harness!Next]_(Harness!evaluationVars)
  PROVE  HonestInv'
<1> USE DEF HonestInv
<1> DEFINE No == Harness!NoDecision
<1>0. Harness!Strategies = {"baseline", "ai"}
  BY DEF Harness!Strategies
<1>1. CASE Harness!Start
  <2>1. PICK from \in Harness!Sources :
          /\ source' = from
          /\ asked' \in CASE from = "generated" -> Counts
                          [] from = "file"      -> 1..FileCases
                          [] OTHER              -> Limits
    BY <1>1 DEF Harness!Start
  <2>2. asked' \in Nat
    BY <2>1 DEF Harness!EvaluationAssumption
  <2>3. /\ source = "none" /\ status = "running" /\ done = 0
        /\ UNCHANGED <<done, case, decided, sums, failures, status>>
    BY <1>1 DEF Harness!Start, LoopOK
  <2>4. \A s \in Harness!Strategies : decided[s] = No
    BY <2>3 DEF LoopOK
  <2>5. LoopOK'
    BY <2>1, <2>2, <2>3, <2>4, <1>0 DEF LoopOK, Harness!Sources
  <2>6. SumsOK'
    BY <2>3, <2>4, <1>0 DEF SumsOK, Tried
  <2>7. StatusOK'
    BY <2>3 DEF StatusOK
  <2> QED BY <2>5, <2>6, <2>7
<1>2. CASE Harness!TakeCase
  <2>1. /\ source # "none" /\ status = "running" /\ done < asked
        /\ UNCHANGED <<source, asked, done, decided, sums, failures, status>>
    BY <1>2 DEF Harness!TakeCase
  <2>2. \A s \in Harness!Strategies : decided[s] = No
    BY <1>2 DEF LoopOK, Harness!TakeCase
  <2>3. LoopOK'
    BY <2>1, <2>2, <1>0 DEF LoopOK
  <2>4. SumsOK'
    BY <2>1 DEF SumsOK, Tried
  <2>5. StatusOK'
    BY <2>1 DEF StatusOK
  <2> QED BY <2>3, <2>4, <2>5
<1>3. CASE Harness!DecideByRules
  <2>1. PICK d : /\ decided' = [decided EXCEPT !["baseline"] = d]
                 /\ case # Harness!NoCase
                 /\ UNCHANGED <<source, asked, done, case, sums, failures, status>>
    BY <1>3 DEF Harness!DecideByRules
  <2>2. decided'["ai"] = decided["ai"]
    BY <2>1, <1>0 DEF LoopOK
  <2>3. decided' = [s \in Harness!Strategies |-> decided'[s]]
    BY <2>1 DEF LoopOK
  <2>4. LoopOK'
    BY <2>1, <2>2, <2>3 DEF LoopOK
  <2>5. SumsOK'
    BY <2>1, <2>2 DEF SumsOK, Tried
  <2>6. StatusOK'
    BY <2>1 DEF StatusOK
  <2> QED BY <2>4, <2>5, <2>6
<1>4. CASE Harness!ModelDecides
  <2>1. PICK d \in Harness!ModelAnswers :
          decided' = [decided EXCEPT !["ai"] = d]
    BY <1>4 DEF Harness!ModelDecides
  <2>2. /\ source = "held_out" /\ decided["baseline"] # No /\ decided["ai"] = No
        /\ UNCHANGED <<source, asked, done, case, sums, failures, status>>
    BY <1>4 DEF Harness!ModelDecides, Harness!ModelTurn
  <2>3. d # No
    BY DEF Harness!ModelAnswers, Harness!Actions, Harness!NoDecision,
           Harness!Decision
  <2>4. decided'["ai"] = d /\ decided' = [s \in Harness!Strategies |-> decided'[s]]
    BY <2>1, <1>0 DEF LoopOK
  <2>5. case # Harness!NoCase
    BY <2>2, <1>0 DEF LoopOK
  <2>6. LoopOK'
    BY <2>2, <2>4, <2>5 DEF LoopOK
  <2>7. SumsOK'
    BY <2>2, <2>3, <2>4 DEF SumsOK, Tried, LoopOK
  <2>8. StatusOK'
    BY <2>2 DEF StatusOK
  <2> QED BY <2>6, <2>7, <2>8
<1>5. CASE Harness!ModelFails
  <2>1. /\ source = "held_out" /\ decided["baseline"] # No /\ decided["ai"] = No
        /\ decided' = [decided EXCEPT !["ai"] = Harness!Fallback]
        /\ failures' = failures + 1
        /\ UNCHANGED <<source, asked, done, case, sums, status>>
    BY <1>5 DEF Harness!ModelFails, Harness!ModelTurn
  <2>2. Harness!Fallback # No
    BY DEF Harness!Fallback, Harness!NoDecision, Harness!Decision
  <2>3. /\ decided'["ai"] = Harness!Fallback
        /\ decided' = [s \in Harness!Strategies |-> decided'[s]]
    BY <2>1, <1>0 DEF LoopOK
  <2>4. case # Harness!NoCase
    BY <2>1, <1>0 DEF LoopOK
  <2>5. LoopOK'
    BY <2>1, <2>3, <2>4 DEF LoopOK
  <2>6. SumsOK'
    BY <2>1, <2>2, <2>3 DEF SumsOK, Tried, LoopOK
  <2>7. StatusOK'
    BY <2>1, <2>4 DEF StatusOK, LoopOK
  <2> QED BY <2>5, <2>6, <2>7
<1>6. CASE Harness!Score
  <2> DEFINE new(s) == [m \in Harness!Metrics |->
                          sums[s][m] + Harness!Term(case, decided[s], m)]
  <2>1. /\ case # Harness!NoCase
        /\ sums' = [s \in Harness!Strategies |->
                      IF s \notin Harness!Deciding THEN sums[s] ELSE new(s)]
        /\ done' = done + 1
        /\ case' = Harness!NoCase /\ decided' = Harness!Undecided
        /\ UNCHANGED <<source, asked, failures, status>>
    BY <1>6 DEF Harness!Score
  <2>2. \A s \in Harness!Strategies : decided'[s] = No
    BY <2>1 DEF Harness!Undecided
  <2>3. /\ done < asked /\ status = "running" /\ source # "none"
        /\ done' \in Nat /\ done' <= asked
    BY <2>1 DEF LoopOK
  <2>4. LoopOK'
    <3>1. decided' = [s \in Harness!Strategies |-> decided'[s]]
      BY <2>1 DEF Harness!Undecided
    <3>2. decided'["ai"] = No
      BY <2>2, <1>0
    <3> QED BY <2>1, <2>2, <2>3, <3>1, <3>2 DEF LoopOK
  <2>5. sums'["baseline"]["cases"] = done'
    <3>1. sums'["baseline"] = new("baseline")
      BY <2>1 DEF Harness!Deciding, Harness!Strategies
    <3>2. Harness!Term(case, decided["baseline"], "cases") = 1
      BY DEF Harness!Term
    <3>3. sums'["baseline"]["cases"] = sums["baseline"]["cases"] + 1
      BY <3>1, <3>2 DEF Harness!Metrics
    <3> QED BY <3>3, <2>1 DEF SumsOK
  <2>6. Tried' = done + 1
    BY <2>1, <2>2, <1>0 DEF Tried
  <2>7. CASE source = "held_out"
    <3>1. decided["ai"] # No
      BY <1>6, <2>7, <1>0 DEF Harness!Score, Harness!Deciding
    <3>2. Tried = done + 1
      BY <3>1 DEF Tried
    <3>3. ASSUME failures = Tried
          PROVE  sums'["ai"]["eligible"] = 0 /\ sums'["ai"]["policy_violations"] = 0
      <4>1. /\ sums["ai"]["eligible"] = 0 /\ sums["ai"]["policy_violations"] = 0
            /\ decided["ai"] = Harness!Fallback
        BY <3>1, <3>3 DEF SumsOK
      <4>2. sums'["ai"] = new("ai")
        BY <2>1, <2>7, <1>0 DEF Harness!Deciding
      <4>3. /\ sums'["ai"]["eligible"] =
                 0 + Harness!Term(case, Harness!Fallback, "eligible")
            /\ sums'["ai"]["policy_violations"] =
                 0 + Harness!Term(case, Harness!Fallback, "policy_violations")
        BY <4>1, <4>2 DEF Harness!Metrics
      <4> QED BY <4>3, FallbackIsNeutral
    <3>4. SumsOK'
      BY <2>1, <2>2, <2>5, <2>6, <2>7, <3>2, <3>3, <1>0 DEF SumsOK
    <3> QED BY <2>1, <2>3, <2>4, <3>4 DEF StatusOK
  <2>8. CASE source # "held_out"
    <3>1. sums'["ai"] = sums["ai"]
      BY <2>1, <2>8, <1>0 DEF Harness!Deciding
    <3>2. failures = 0 /\ done \in Nat
      BY <2>8 DEF SumsOK, LoopOK
    <3>3. SumsOK'
      BY <2>1, <2>5, <2>6, <2>8, <3>1, <3>2 DEF SumsOK
    <3> QED BY <2>1, <2>3, <2>4, <3>3 DEF StatusOK
  <2> QED BY <2>7, <2>8
<1>7. CASE Harness!Report
  <2>1. /\ source # "none" /\ status = "running" /\ done = asked
        /\ UNCHANGED <<source, asked, done, case, decided, sums, failures>>
        /\ status' = CASE source = "held_out"        -> Harness!AIStatus
                       [] source = "held_out_no_key" -> "skipped_no_credentials"
                       [] OTHER                      -> "reported"
    BY <1>7 DEF Harness!Report
  <2>2. case = Harness!NoCase
    BY <2>1 DEF LoopOK
  <2>3. decided["ai"] = No
    BY <2>2, <1>0 DEF LoopOK
  <2>4. LoopOK'
    BY <2>1, <2>2 DEF LoopOK
  <2>5. SumsOK'
    BY <2>1 DEF SumsOK, Tried
  <2>6. failures \in Nat /\ failures <= asked /\ asked \in Nat
    BY <2>1, <2>3 DEF SumsOK, Tried, LoopOK
  <2>7. StatusOK'
    BY <2>1, <2>6 DEF StatusOK, Harness!AIStatus
  <2> QED BY <2>4, <2>5, <2>7
<1>8. CASE UNCHANGED Harness!evaluationVars
  BY <1>8 DEF Harness!evaluationVars, LoopOK, SumsOK, StatusOK, Tried
<1> QED BY <1>1, <1>2, <1>3, <1>4, <1>5, <1>6, <1>7, <1>8 DEF Harness!Next

LEMMA HonestAlways ==
  ASSUME Harness!EvaluationAssumption
  PROVE  Harness!Spec => []HonestInv
<1>1. HonestInv /\ [Harness!Next]_(Harness!evaluationVars) => HonestInv'
  BY HonestStep
<1> QED BY <1>1, HonestInit, PTL DEF Harness!Spec

(* On every slice, whatever the model answers: a comparison called ok had  *)
(* at least half its calls answered, one called unusable holds no          *)
(* intervention of the model, and a skipped one none of its figures        *)
(* (run_ai_evaluation.py).                                                 *)
THEOREM ComparisonsAreHonest ==
  ASSUME Harness!EvaluationAssumption
  PROVE  Harness!Spec => []StatusIsHonest
<1>1. ASSUME HonestInv  PROVE StatusIsHonest
  <2>1. status = "ok" => 2 * (asked - failures) >= asked
    BY <1>1 DEF HonestInv, LoopOK, SumsOK, StatusOK
  <2>2. ASSUME status = "unusable_all_calls_failed"
        PROVE  sums["ai"]["eligible"] = 0 /\ sums["ai"]["policy_violations"] = 0
    <3>1. decided["ai"] = Harness!NoDecision /\ done = asked /\ failures = asked
      BY <1>1, <2>2 DEF HonestInv, LoopOK, StatusOK, Harness!Strategies
    <3>2. failures = Tried
      BY <1>1, <3>1 DEF Tried, HonestInv, LoopOK
    <3> QED BY <1>1, <3>2 DEF HonestInv, SumsOK
  <2>3. status = "skipped_no_credentials" =>
          sums["ai"] = Harness!Zero["ai"] /\ sums["baseline"]["cases"] = asked
    BY <1>1 DEF HonestInv, LoopOK, SumsOK, StatusOK
  <2> QED BY <2>1, <2>2, <2>3 DEF StatusIsHonest, Harness!StatusIsHonest
<1> QED BY <1>1, HonestAlways, PTL
-----------------------------------------------------------------------------
Halted == {"DISCOVERED", "STOPPED", "ESCALATED"}

(* A case of the two scenarios the limits are about is at most diagnosed,  *)
(* and each ends where a verdict against it leaves it.                     *)
BatchInv ==
  /\ scenario \in Nat \ {0} /\ links \in Nat
  /\ step \in {"seed", "diagnose", "execute", "webhook", "done", "aborted"}
  /\ step \in {"diagnose", "execute", "webhook"} => scenario \in 1..7
  /\ scenario \in {3, 7} /\ step # "seed" => row \in Halted /\ links = 0
  /\ final = [i \in 1..7 |-> [st \in Batch!Statuses |-> final[i][st]]]
  /\ \A i \in {3, 7} : \A st \in Batch!Statuses \ {"STOPPED", "ESCALATED"} :
       final[i][st] = 0

LEMMA BatchScenarios ==
  /\ Len(Batch!Scenarios) = 7
  /\ Batch!Scenarios[3].contacts = 2
  /\ Batch!Scenarios[7].days = 20
  BY DEF Batch!Scenarios, Batch!Scenario

(* No recommendation for such a case is approved: it has no contact left,  *)
(* or its window has closed.                                               *)
LEMMA NeverApproved ==
  ASSUME scenario \in {3, 7}, NEW r
  PROVE  Batch!Verdict(r) \in {"STOPPED", "ESCALATED"}
<1> DEFINE codes == Batch!Codes(r, "POLICY_REVIEW")
           facts == [status |-> "POLICY_REVIEW", action |-> r.action,
                     attempt |-> links, days |-> Batch!S.days,
                     contacts |-> Batch!S.contacts,
                     confidence |-> r.confidence, amount |-> Batch!S.amount]
<1>1. codes = Batch!EvaluatePolicy(facts)
  BY DEF Batch!Codes
<1>2. /\ facts.action = r.action /\ facts.contacts = Batch!S.contacts
      /\ facts.days = Batch!S.days
  OBVIOUS
<1> HIDE DEF facts
<1>3. r.action = "SEND_PAYMENT_LINK" => codes # {}
  <2> SUFFICES ASSUME r.action = "SEND_PAYMENT_LINK"  PROVE codes # {}
    OBVIOUS
  <2>1. CASE scenario = 3
    <3>1. facts.contacts = 2
      BY <2>1, <1>2, BatchScenarios DEF Batch!S
    <3>2. facts.contacts >= 2
      BY <3>1
    <3>3. Batch!Violates("MAX_CONTACTS_REACHED", facts)
      BY <1>2, <3>2 DEF Batch!Violates, Batch!ContactActions
    <3> QED BY <1>1, <3>3 DEF Batch!EvaluatePolicy, Batch!ReasonCodes
  <2>2. CASE scenario = 7
    <3>1. facts.days = 20
      BY <2>2, <1>2, BatchScenarios DEF Batch!S
    <3>2. facts.days > 14
      BY <3>1
    <3>3. Batch!Violates("RECOVERY_WINDOW_EXPIRED", facts)
      BY <1>2, <3>2 DEF Batch!Violates, Batch!WindowExpired,
                        Batch!ActiveRecoveryActions
    <3> QED BY <1>1, <3>3 DEF Batch!EvaluatePolicy, Batch!ReasonCodes
  <2> QED BY <2>1, <2>2
<1> HIDE DEF codes
<1>4. Batch!ResolveNextStatus(r.action, codes) \in {"STOPPED", "ESCALATED"}
  BY <1>3 DEF Batch!ResolveNextStatus, Batch!ExecutableActions
<1> QED BY <1>4 DEF Batch!Verdict, codes

(* What a case reported with a status leaves of the counts.                *)
LEMMA ConcludeCounts ==
  ASSUME BatchInv, NEW st, Batch!Conclude(st),
         scenario \in {3, 7} => st \in {"STOPPED", "ESCALATED"}
  PROVE  /\ final' = [i \in 1..7 |-> [x \in Batch!Statuses |-> final'[i][x]]]
         /\ \A i \in {3, 7} : \A x \in Batch!Statuses \ {"STOPPED", "ESCALATED"} :
              final'[i][x] = 0
         /\ scenario' = scenario /\ step' = "seed"
<1>1. PICK n : final' = [final EXCEPT ![scenario][st] = n]
  BY DEF Batch!Conclude
<1>2. \A i \in 1..7 : final'[i] =
        IF i = scenario THEN [final[i] EXCEPT ![st] = n] ELSE final[i]
  BY <1>1 DEF BatchInv
<1>3. \A i \in 1..7, x \in Batch!Statuses : final'[i][x] =
        IF i = scenario /\ x = st THEN n ELSE final[i][x]
  BY <1>2 DEF BatchInv
<1>4. \A i \in 1..7 : final'[i] = [x \in Batch!Statuses |-> final'[i][x]]
  <2> SUFFICES ASSUME NEW i \in 1..7
               PROVE  final'[i] = [x \in Batch!Statuses |-> final'[i][x]]
    OBVIOUS
  <2>1. final[i] = [x \in Batch!Statuses |-> final[i][x]]
    BY DEF BatchInv
  <2> QED BY <1>2, <2>1
<1>5. final' = [i \in 1..7 |-> final'[i]]
  BY <1>1 DEF BatchInv
<1>6. final' = [i \in 1..7 |-> [x \in Batch!Statuses |-> final'[i][x]]]
  BY <1>4, <1>5
<1>7. \A i \in {3, 7} : \A x \in Batch!Statuses \ {"STOPPED", "ESCALATED"} :
        final'[i][x] = 0
  BY <1>3 DEF BatchInv
<1> QED BY <1>6, <1>7 DEF Batch!Conclude

LEMMA BatchStep ==
  ASSUME BatchInv, [Batch!Next]_(Batch!demoVars)
  PROVE  BatchInv'
<1>1. CASE Batch!SkipScenario
  <2>1. /\ scenario' = scenario + 1 /\ step = "seed"
        /\ UNCHANGED <<step, row, links, final>>
    BY <1>1 DEF Batch!SkipScenario
  <2> QED BY <2>1 DEF BatchInv
<1>2. CASE Batch!Finish
  <2>1. scenario > 7 /\ step' = "done" /\ UNCHANGED <<scenario, row, links, final>>
    BY <1>2, BatchScenarios DEF Batch!Finish, Batch!AtEnd
  <2> QED BY <2>1 DEF BatchInv
<1>3. CASE Batch!Seed
  <2>1. /\ ~(scenario > 7) /\ row' = "DISCOVERED" /\ links' = 0
        /\ step' = "diagnose" /\ UNCHANGED <<scenario, final>>
    BY <1>3, BatchScenarios DEF Batch!Seed, Batch!AtEnd
  <2> QED BY <2>1 DEF BatchInv, Halted
<1>4. CASE Batch!Diagnose
  <2>1. PICK r : /\ row' = Batch!Verdict(r)
                 /\ IF Batch!Verdict(r) = "APPROVED"
                    THEN step' = "execute" /\ UNCHANGED <<scenario, nth, final>>
                    ELSE Batch!Conclude(Batch!Verdict(r))
    BY <1>4 DEF Batch!Diagnose
  <2>2. step = "diagnose" /\ links' = links
    BY <1>4 DEF Batch!Diagnose
  <2>3. scenario \in {3, 7} => Batch!Verdict(r) \in {"STOPPED", "ESCALATED"}
    BY NeverApproved
  <2>4. CASE Batch!Verdict(r) = "APPROVED"
    BY <2>1, <2>2, <2>3, <2>4 DEF BatchInv
  <2>5. CASE Batch!Verdict(r) # "APPROVED"
    <3>1. Batch!Conclude(Batch!Verdict(r))
      BY <2>1, <2>5
    <3>2. PICK st : st = Batch!Verdict(r)
      OBVIOUS
    <3>3. /\ final' = [i \in 1..7 |-> [x \in Batch!Statuses |-> final'[i][x]]]
          /\ \A i \in {3, 7} : \A x \in Batch!Statuses \ {"STOPPED", "ESCALATED"} :
               final'[i][x] = 0
          /\ scenario' = scenario /\ step' = "seed"
      BY <2>3, <3>1, <3>2, ConcludeCounts
    <3> QED BY <2>2, <3>3 DEF BatchInv
  <2> QED BY <2>4, <2>5
<1>5. CASE Batch!Execute
  <2>1. /\ step = "execute" /\ row = "APPROVED" /\ links' = links + 1
        /\ IF Batch!S.webhook = "none"
           THEN Batch!Conclude("EXECUTING")
           ELSE step' = "webhook" /\ UNCHANGED <<scenario, nth, final>>
    BY <1>5 DEF Batch!Execute
  <2>2. scenario \notin {3, 7}
    BY <2>1 DEF BatchInv, Halted
  <2>3. CASE Batch!S.webhook = "none"
    <3>1. Batch!Conclude("EXECUTING")
      BY <2>1, <2>3
    <3>2. /\ final' = [i \in 1..7 |-> [x \in Batch!Statuses |-> final'[i][x]]]
          /\ \A i \in {3, 7} : \A x \in Batch!Statuses \ {"STOPPED", "ESCALATED"} :
               final'[i][x] = 0
          /\ scenario' = scenario /\ step' = "seed"
      BY <2>2, <3>1, ConcludeCounts
    <3> QED BY <2>1, <2>2, <3>2 DEF BatchInv
  <2>4. CASE Batch!S.webhook # "none"
    BY <2>1, <2>2, <2>4 DEF BatchInv
  <2> QED BY <2>3, <2>4
<1>6. CASE Batch!Webhook
  <2>1. PICK st : Batch!Conclude(st)
    BY <1>6 DEF Batch!Webhook
  <2>2. step = "webhook" /\ row = "EXECUTING" /\ links' = links
    BY <1>6 DEF Batch!Webhook
  <2>3. scenario \notin {3, 7}
    BY <2>2 DEF BatchInv, Halted
  <2>4. /\ final' = [i \in 1..7 |-> [x \in Batch!Statuses |-> final'[i][x]]]
        /\ \A i \in {3, 7} : \A x \in Batch!Statuses \ {"STOPPED", "ESCALATED"} :
             final'[i][x] = 0
        /\ scenario' = scenario /\ step' = "seed"
    BY <2>1, <2>3, ConcludeCounts
  <2> QED BY <2>2, <2>3, <2>4 DEF BatchInv
<1>7. CASE Batch!Abort
  <2>1. /\ step \in {"diagnose", "execute"} /\ step' = "aborted"
        /\ UNCHANGED <<scenario, row, links, final>>
    BY <1>7 DEF Batch!Abort
  <2> QED BY <2>1 DEF BatchInv
<1>8. CASE Batch!CycleDiagnoses
  <2>1. PICK r : row' = Batch!Verdict(r)
    BY <1>8 DEF Batch!CycleDiagnoses
  <2>2. UNCHANGED <<scenario, step, links, final>>
    BY <1>8 DEF Batch!CycleDiagnoses
  <2>3. scenario \in {3, 7} => row' \in Halted
    BY <2>1, NeverApproved DEF Halted
  <2> QED BY <2>2, <2>3 DEF BatchInv
<1>9. CASE Batch!CycleExecutes
  <2>1. /\ step \in {"diagnose", "execute"} /\ row = "APPROVED"
        /\ links' = links + 1 /\ UNCHANGED <<scenario, step, final>>
    BY <1>9 DEF Batch!CycleExecutes
  <2>2. scenario \notin {3, 7}
    BY <2>1 DEF BatchInv, Halted
  <2> QED BY <2>1, <2>2 DEF BatchInv
<1>10. CASE UNCHANGED Batch!demoVars
  BY <1>10 DEF Batch!demoVars, BatchInv
<1> QED BY <1>1, <1>2, <1>3, <1>4, <1>5, <1>6, <1>7, <1>8, <1>9, <1>10
        DEF Batch!Next

(* Whatever is recommended, by the script, by the live model in the batch  *)
(* or by the orchestrator beside it, and however many cases are seeded: a  *)
(* case at the contact cap or past the window never reaches the provider.  *)
THEOREM LimitsHold == Batch!Spec => []LimitsHoldForAnyModel
<1>1. Batch!Init => BatchInv
  <2> SUFFICES ASSUME Batch!Init  PROVE BatchInv
    OBVIOUS
  <2>1. final = [i \in 1..7 |-> [st \in Batch!Statuses |-> 0]]
    BY BatchScenarios DEF Batch!Init
  <2>2. \A i \in 1..7 : final[i] = [st \in Batch!Statuses |-> 0]
    BY <2>1
  <2>3. \A i \in 1..7, st \in Batch!Statuses : final[i][st] = 0
    BY <2>2
  <2>4. \A i \in 1..7 : final[i] = [st \in Batch!Statuses |-> final[i][st]]
    BY <2>2
  <2>5. final = [i \in 1..7 |-> final[i]]
    BY <2>1
  <2>6. final = [i \in 1..7 |-> [st \in Batch!Statuses |-> final[i][st]]]
    BY <2>4, <2>5
  <2>7. \A i \in {3, 7} : \A st \in Batch!Statuses \ {"STOPPED", "ESCALATED"} :
          final[i][st] = 0
    BY <2>3
  <2>8. scenario = 1 /\ step = "seed" /\ links = 0
    BY DEF Batch!Init
  <2> QED BY <2>6, <2>7, <2>8 DEF BatchInv
<1>2. BatchInv /\ [Batch!Next]_(Batch!demoVars) => BatchInv'
  BY BatchStep
<1>3. BatchInv => LimitsHoldForAnyModel
  BY DEF BatchInv, LimitsHoldForAnyModel, Batch!LimitsHoldForAnyModel
<1> QED BY <1>1, <1>2, <1>3, PTL DEF Batch!Spec
=============================================================================
