-------------------------- MODULE MCRecoveryCycle --------------------------
(* Every customer owes the same, and one thing goes wrong: a cycle dies, a *)
(* diagnosis is lost to somebody else's commit, or a link ends unpaid.     *)
EXTENDS RecoveryCycle

MCDue == [c \in Cases |-> 1]

OneTrouble == aborts' + errors' + fails' + served' <= 1

TroubledSpec == CycleInit /\ [][CycleNext /\ OneTrouble]_allVars

FairTroubledSpec ==
  /\ TroubledSpec
  /\ WF_allVars(StartRunner)
  /\ WF_allVars(Begin(Runner))
  /\ \A k \in Cycles : WF_allVars(CycleStep(k) /\ OneTrouble)
============================================================================
