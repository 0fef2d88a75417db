----------------------------- MODULE PolicyUsers -----------------------------
(***************************************************************************)
(* The policy engine under any settings, and beside it the two programs    *)
(* that repeat its limits as literals or are written for the backend's     *)
(* defaults (core/config.py): the evaluation harness and the demonstration *)
(* batch.                                                                  *)
(***************************************************************************)
EXTENDS PolicyReview

CONSTANTS
  Counts, Limits, FileCases, Rates, Days, Owed, Answers,   \* the harness
  Count, Scripted, RunnerIsOn, Recommended                 \* the batch

VARIABLES
  source, asked, done, case, decided, sums, failures, status,
  scenario, nth, step, row, rec, links, final, recovered

Harness == INSTANCE Evaluation WITH
  MaxRetryCount <- 3, MaxWindowDays <- 14, MaxContacts <- 2, MinConfidence <- 55,
  HighValueAmount <- 500000, HighValueConfidence <- 75, MaxAmount <- 10000000,
  Amounts <- Owed, Confidences <- Answers

Batch == INSTANCE DemoBatch WITH
  MaxRetryCount <- 3, MaxWindowDays <- 14, MaxContacts <- 2, MinConfidence <- 55,
  HighValueAmount <- 500000, HighValueConfidence <- 75, MaxAmount <- 10000000,
  Confidences <- Recommended

harness == <<source, asked, done, case, decided, sums, failures, status>>
batch == <<scenario, nth, step, row, rec, links, final, recovered>>
-----------------------------------------------------------------------------
(* Properties *)

(* The harness's safety check and the policy engine find the same          *)
(* violations of the rules they share (metrics/safety.py).                 *)
SafetyAgreesWithPolicy == Harness!SafetyAgreesWithPolicy

(* A comparison says honestly how much of it rests on the model            *)
(* (run_ai_evaluation.py).                                                 *)
StatusIsHonest == Harness!StatusIsHonest

(* No recommendation gets a case past the limits of the policy, in the     *)
(* batch or beside it (seed_demo_batch.py).                                *)
LimitsHoldForAnyModel == Batch!LimitsHoldForAnyModel

(* Whatever the model recommends, a policy_blocks case is not executed     *)
(* (seed_demo_batch.py:94-96).                                             *)
InputsDriveThePolicy == Batch!InputsDriveThePolicy
=============================================================================
