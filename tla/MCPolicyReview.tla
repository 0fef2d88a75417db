--------------------------- MODULE MCPolicyReview ---------------------------
(* The policy engine and the two other places that rely on it or repeat    *)
(* it, in parts of one run.  "review": every boundary of a small           *)
(* configuration from both sides.  "baseline", "comparison": the harness,  *)
(* whose limits are literals, against the backend's defaults.  "batch":    *)
(* the demonstration batch next to the orchestrator, at those defaults.    *)
EXTENDS PolicyUsers

MCAmounts == {-1, 0, 1, 4, 5, 7, 8}
MCCount == <<2, 1, 1, 1, 0, 0, 1>>

(* The values of either half of the harness.                               *)
ScoredRates == {5, 14, 15, 29, 30, 50, 60, 81, 82, 90}
ScoredDays == {0, 7, 14, 15}
ComparedRates == {14, 60}
ComparedDays == {2, 14, 15}

VARIABLE part

ASSUME PartsAssumption == Harness!EvaluationAssumption /\ Batch!DemoAssumption

partVars == <<input, harness, batch, part>>

NoInput == [status |-> "DISCOVERED", action |-> "STOP", attempt |-> 0, days |-> 0,
            contacts |-> 0, confidence |-> 0, amount |-> 1]

PartInit ==
  /\ part \in {"review", "baseline", "comparison", "batch"}
  /\ IF part = "review" THEN Init ELSE input = NoInput
  /\ Harness!Init
  /\ Batch!Init

InPart(name) == part = name /\ UNCHANGED part

(* The harness on datasets of one source, with values of one half.         *)
Evaluated(sources, rates, days) ==
  /\ Harness!Next
  /\ source' \in sources
  /\ case' # Harness!NoCase => case'.input.rate \in rates /\ case'.input.days \in days
  /\ UNCHANGED <<input, batch>>

Review == InPart("review") /\ Next /\ UNCHANGED <<harness, batch>>
Score ==
  InPart("baseline") /\ Evaluated({"generated", "file"}, ScoredRates, ScoredDays)
Compare ==
  /\ InPart("comparison")
  /\ Evaluated({"held_out", "held_out_no_key"}, ComparedRates, ComparedDays)
Demonstrate == InPart("batch") /\ Batch!Next /\ UNCHANGED <<input, harness>>

PartSpec == PartInit /\ [][Review \/ Score \/ Compare \/ Demonstrate]_partVars
=============================================================================
