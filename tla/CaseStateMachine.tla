------------------------- MODULE CaseStateMachine -------------------------
(***************************************************************************)
(* The recovery-case state machine: the statuses of a case, the terminal   *)
(* ones, and the table of legal moves every service consults before it     *)
(* writes a status (app/domain/enums.py, app/domain/state_machine.py).     *)
(***************************************************************************)
EXTENDS Sequences, Naturals

Statuses == {"DISCOVERED", "ELIGIBLE", "INELIGIBLE", "DIAGNOSING",
             "RECOMMENDED", "POLICY_REVIEW", "APPROVED", "EXECUTING",
             "RECOVERED", "STOPPED", "ESCALATED", "FAILED"}

TerminalStatuses == {"INELIGIBLE", "RECOVERED", "STOPPED", "ESCALATED"}

AllowedTransitions ==
  [st \in Statuses |->
     CASE st = "DISCOVERED"    -> {"ELIGIBLE", "INELIGIBLE"}
       [] st = "ELIGIBLE"      -> {"DIAGNOSING", "STOPPED"}
       [] st = "DIAGNOSING"    -> {"RECOMMENDED", "ESCALATED"}
       [] st = "RECOMMENDED"   -> {"POLICY_REVIEW"}
       [] st = "POLICY_REVIEW" -> {"APPROVED", "STOPPED", "ESCALATED"}
       [] st = "APPROVED"      -> {"EXECUTING"}
       [] st = "EXECUTING"     -> {"RECOVERED", "FAILED", "ESCALATED"}
       [] st = "FAILED"        -> {"DIAGNOSING", "STOPPED", "ESCALATED"}
       [] OTHER                -> {}]

(* Mutant: an execution may be resumed by executing again.                 *)
ResumableCanTransition(current, target) ==
  \/ target \in AllowedTransitions[current]
  \/ current = "EXECUTING" /\ target = "EXECUTING"

CanTransition(current, target) == target \in AllowedTransitions[current]

(* A chain of _transition() calls inside one transaction raises on its     *)
(* first illegal move; LegalWalk says that no call of the chain raises.    *)
LegalWalk(from, path) ==
  \A i \in 1..Len(path) :
     CanTransition(IF i = 1 THEN from ELSE path[i - 1], path[i])

(* The statuses a transaction may pass through but never leaves committed: *)
(* diagnose_recovery_case walks over them between its read and its commit. *)
TransientStatuses == {"ELIGIBLE", "DIAGNOSING", "RECOMMENDED", "POLICY_REVIEW"}
CommittedStatuses == Statuses \ TransientStatuses

===========================================================================
