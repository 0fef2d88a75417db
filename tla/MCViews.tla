------------------------------ MODULE MCViews -------------------------------
(* What the read-only endpoints show while others write, in parts of one   *)
(* run.  "trail": the handlers of one case write its audit trail.          *)
(* "timeline": the same, fewer of them, while the timeline is read.        *)
(* "summary": the figures of two cases that owe different sums are read.   *)
(* "reports": the newest evaluation report is looked for.                  *)
EXTENDS Views

MCRisk == "small" :> 1 @@ "large" :> 2

VARIABLE part

ASSUME PartsAssumption ==
  AuditAssumption /\ Summary!SummaryAssumption /\ Reports!ReportsAssumption

partVars == <<auditVars, summary, reports, part>>

PartInit ==
  /\ part \in {"trail", "timeline", "summary", "reports"}
  /\ Init /\ Summary!Init /\ Reports!Init

InPart(name) == part = name /\ UNCHANGED part

Recorded ==
  InPart("trail") /\ Next /\ reader' = reader /\ UNCHANGED <<summary, reports>>
Shown ==
  /\ InPart("timeline")
  /\ Next /\ begins' <= 2 /\ deaths' = 0
  /\ UNCHANGED <<summary, reports>>
Summed == InPart("summary") /\ Summary!Next /\ UNCHANGED <<auditVars, reports>>
Served == InPart("reports") /\ Reports!Next /\ UNCHANGED <<auditVars, summary>>

PartSpec == PartInit /\ [][Recorded \/ Shown \/ Summed \/ Served]_partVars

Alike == Permutations(Handlers) \cup Permutations(Runs)
=============================================================================
