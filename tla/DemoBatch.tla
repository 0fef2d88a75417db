----------------------------- MODULE DemoBatch -----------------------------
(***************************************************************************)
(* The recovery batch (scripts/seed_demo_batch.py, api/v1/demo.py): seven  *)
(* shapes of failed payments are seeded and run, one case after the other, *)
(* through diagnosis, execution against the fake provider and a hand-built *)
(* webhook, with the scripted stand-in or the live model for the           *)
(* recommendation, and possibly with the orchestrator working on the same  *)
(* table. Diagnosis and execution are taken apart in RecoveryPipeline; each*)
(* is one step here, guarded by the status it finds.                       *)
(***************************************************************************)
EXTENDS Policy, Sequences, FiniteSets, FiniteSetsExt

CONSTANTS
  Count,         \* how many cases of each scenario
  Scripted,      \* whether the scripted stand-in recommends
  RunnerIsOn,    \* whether the orchestrator runs meanwhile
  Confidences    \* what the live model may answer, in percent

DemoAssumption ==
  /\ Count \in [1..7 -> Nat]
  /\ Scripted \in BOOLEAN /\ RunnerIsOn \in BOOLEAN
  /\ Confidences \subseteq 0..100

(* The fields of a scenario that anything depends on; the recommendation   *)
(* is the scripted one.                                                    *)
Scenario(label, amount, contacts, days, action, confidence, webhook) ==
  [label |-> label, amount |-> amount, contacts |-> contacts, days |-> days,
   scripted |-> [action |-> action, confidence |-> confidence],
   webhook |-> webhook]

Scenarios ==
  << Scenario("confirmed_paid",    15000, 0,  1, "SEND_PAYMENT_LINK", 85, "paid"),
     Scenario("expires_unpaid",     8000, 0,  2, "SEND_PAYMENT_LINK", 80, "expired"),
     Scenario("contact_cap",       12000, 2,  3, "SEND_PAYMENT_LINK", 85, "none"),
     Scenario("low_confidence",    20000, 0,  2, "SEND_PAYMENT_LINK", 30, "none"),
     Scenario("recommends_stop",    6000, 1, 10, "STOP",              10, "none"),
     Scenario("recommends_escalate", 45000, 0, 1, "ESCALATE",          0, "none"),
     Scenario("window_expired",    10000, 0, 20, "SEND_PAYMENT_LINK", 85, "none") >>

VARIABLES
  scenario,   \* the scenario at work, by its number; 0 before the first
  nth,        \* which of its cases
  step,       \* "seed", "diagnose", "execute", "webhook", "done", "aborted"
  row,        \* the committed status of the case at work
  rec,        \* its recommendation
  links,      \* links created for it
  final,      \* the cases reported so far, by scenario and status
  recovered   \* revenue on the rows of the batch

demoVars == <<scenario, nth, step, row, rec, links, final, recovered>>

NoRec == [action |-> "none", confidence |-> 0]
S == Scenarios[scenario]
Fallback == [action |-> "ESCALATE", confidence |-> 0]

(* The live model, or its fallback when no answer is usable.               *)
Recommendations ==
  IF Scripted THEN {S.scripted}
  ELSE {Fallback} \cup [action : Actions, confidence : Confidences]

Init ==
  /\ scenario = 1 /\ nth = 1 /\ step = "seed"
  /\ row = "NONE" /\ rec = NoRec /\ links = 0
  /\ final = [i \in 1..Len(Scenarios) |-> [st \in Statuses |-> 0]]
  /\ recovered = 0
----------------------------------------------------------------------------
(* The loop over scenarios and counts ends when no case is left.           *)
AtEnd == scenario > Len(Scenarios)

SkipScenario ==
  /\ step = "seed" /\ ~AtEnd /\ nth > Count[scenario]
  /\ scenario' = scenario + 1 /\ nth' = 1
  /\ UNCHANGED <<step, row, rec, links, final, recovered>>

Finish ==
  /\ step = "seed" /\ AtEnd
  /\ step' = "done"
  /\ UNCHANGED <<scenario, nth, row, rec, links, final, recovered>>

(* _seed_case commits the case, as old as the scenario says and never      *)
(* attempted, before anything is done with it.                             *)
Seed ==
  /\ step = "seed" /\ ~AtEnd /\ nth <= Count[scenario]
  /\ row' = "DISCOVERED" /\ rec' = NoRec /\ links' = 0
  /\ step' = "diagnose"
  /\ UNCHANGED <<scenario, nth, final, recovered>>

(* The case is reported with a status and the next one begins.             *)
Conclude(status) ==
  /\ final' = [final EXCEPT ![scenario][status] = @ + 1]
  /\ nth' = nth + 1 /\ step' = "seed"
  /\ UNCHANGED scenario

(* Mutant: the seeded case does not know of earlier contacts.              *)
UncontactedCodes(r, status) ==
  EvaluatePolicy([status |-> status, action |-> r.action, attempt |-> links,
                  days |-> S.days, contacts |-> 0,
                  confidence |-> r.confidence, amount |-> S.amount])

(* What the policy objects to; a link created counts as an attempt.        *)
Codes(r, status) ==
  EvaluatePolicy([status |-> status, action |-> r.action, attempt |-> links,
                  days |-> S.days, contacts |-> S.contacts,
                  confidence |-> r.confidence, amount |-> S.amount])

Verdict(r) == ResolveNextStatus(r.action, Codes(r, "POLICY_REVIEW"))

(* diagnose_recovery_case; only an approved case goes on.                  *)
Diagnose ==
  /\ step = "diagnose" /\ row = "DISCOVERED"
  /\ \E r \in Recommendations :
       /\ rec' = r /\ row' = Verdict(r)
       /\ IF Verdict(r) = "APPROVED"
          THEN step' = "execute" /\ UNCHANGED <<scenario, nth, final>>
          ELSE Conclude(Verdict(r))
  /\ UNCHANGED <<links, recovered>>

(* execute_recovery_case: the policy is checked again, on the facts the    *)
(* diagnosis saw, the fake provider makes the link, and without a webhook  *)
(* to simulate the case is reported as it stands.                          *)
Execute ==
  /\ step = "execute" /\ row = "APPROVED"
  /\ Codes(rec, "APPROVED") = {}
  /\ row' = "EXECUTING" /\ links' = links + 1
  /\ IF S.webhook = "none"
     THEN Conclude("EXECUTING")
     ELSE step' = "webhook" /\ UNCHANGED <<scenario, nth, final>>
  /\ UNCHANGED <<rec, recovered>>

(* The hand-built event goes through parse_event and the webhook service.  *)
Webhook ==
  /\ step = "webhook" /\ row = "EXECUTING"
  /\ LET outcome == IF S.webhook = "paid" THEN "RECOVERED" ELSE "FAILED"
     IN  /\ row' = outcome
         /\ recovered' = IF outcome = "RECOVERED"
                         THEN recovered + S.amount ELSE recovered
         /\ Conclude(outcome)
  /\ UNCHANGED <<rec, links>>

(* A service refuses a case that is no longer where the batch left it, and *)
(* nothing in the batch catches that: it ends, its rows stay.              *)
Abort ==
  /\ \/ step = "diagnose" /\ row # "DISCOVERED"
     \/ step = "execute" /\ row # "APPROVED"
  /\ step' = "aborted"
  /\ UNCHANGED <<scenario, nth, row, rec, links, final, recovered>>
----------------------------------------------------------------------------
(* The orchestrator finds the case in the same table, with the live model. *)
(* What it does with the cases the batch has already reported is left out. *)

CycleDiagnoses ==
  /\ RunnerIsOn /\ step = "diagnose" /\ row = "DISCOVERED"
  /\ \E r \in {Fallback} \cup [action : Actions, confidence : Confidences] :
       rec' = r /\ row' = Verdict(r)
  /\ UNCHANGED <<scenario, nth, step, links, final, recovered>>

CycleExecutes ==
  /\ RunnerIsOn /\ step \in {"diagnose", "execute"} /\ row = "APPROVED"
  /\ row' = "EXECUTING" /\ links' = links + 1
  /\ UNCHANGED <<scenario, nth, step, rec, final, recovered>>

Next ==
  \/ SkipScenario \/ Finish \/ Seed \/ Diagnose \/ Execute \/ Webhook \/ Abort
  \/ CycleDiagnoses \/ CycleExecutes

Spec == Init /\ [][Next]_demoVars
----------------------------------------------------------------------------
(* Properties *)

(* Whatever the model recommends, a case at the contact cap or past the    *)
(* window never reaches the provider, in the batch or beside it.           *)
LimitsHoldForAnyModel ==
  \A i \in {3, 7} :
    /\ scenario = i => links = 0 \/ step = "seed"
    /\ \A st \in Statuses \ {"STOPPED", "ESCALATED"} : final[i][st] = 0

(* "The scenario INPUTS drive the deterministic policy demonstrations      *)
(* regardless of what the model recommends" (seed_demo_batch.py:94-96): a  *)
(* policy_blocks case is never executed.                                   *)
InputsDriveThePolicy ==
  \A i \in {3, 4, 7} : final[i]["EXECUTING"] = 0
============================================================================
