--------------------------- MODULE RecoveryCycle ---------------------------
(***************************************************************************)
(* The autonomous recovery loop: cycles that discover, diagnose and, when  *)
(* allowed, execute (services/orchestrator_service.py), run by the         *)
(* background task (services/orchestrator_runner.py) or by an operator     *)
(* (POST /orchestrator/cycle).  Between any two statements customers,      *)
(* webhooks, operators and other cycles act.                               *)
(*                                                                         *)
(* The state of the cases is that of RecoveryLifecycle, but a service call *)
(* is guarded by its own look at the status only, and whoever asks for a   *)
(* link gets one: that nobody leaves the lifecycle is a property.  A link  *)
(* has one event, about the round it was made for (one dedup key per event,*)
(* as in RoundProofs).                                                     *)
(*                                                                         *)
(* Case n is the n-th by created_at; cases 1..opened have been opened.     *)
(***************************************************************************)
EXTENDS RecoveryLifecycle, Integers, SequencesExt

CONSTANTS
  NCases,       \* cases there can ever be
  Cycles,       \* cycles that may run at the same time
  Runner,       \* the one of the background task
  MaxDiscover, MaxDiagnose,  \* orchestrator_max_*
  ExecuteLimits,  \* what orchestrator_max_execute may be; 0: also without auto_execute
  MaxAborts,    \* bound on cycles that die half-way, restarts included
  MaxErrors,    \* bound on diagnoses lost to a concurrent modification
  MaxFails,     \* bound on links that end unpaid
  MaxServed     \* bound on executions by operators

ASSUME CycleAssumption ==
  /\ NCases \in Nat /\ Cases = 1..NCases
  /\ Runner \in Cycles
  /\ MaxDiscover \in Nat \ {0} /\ MaxDiagnose \in Nat \ {0} /\ ExecuteLimits \subseteq Nat
  /\ MaxAborts \in Nat /\ MaxErrors \in Nat /\ MaxFails \in Nat /\ MaxServed \in Nat

VARIABLES
  opened,  \* cases opened so far
  cycle,   \* the locals of each cycle's run_recovery_cycle
  runner,  \* the background task, and the limit it was started with
  serving, \* where an operator's execution of each case is
  tracked, \* cases whose payment request is on record and not resolved
  aborts, errors, fails, served

bounds == <<aborts, errors, fails, served>>
allVars == <<lifecycleVars, opened, cycle, runner, serving, tracked, bounds>>

(* _READY_FOR_DIAGNOSIS, in the order the cycle lists them.                *)
ReadyForDiagnosis == <<"DISCOVERED", "ELIGIBLE", "FAILED">>
Listing == <<"list_discovered", "list_eligible", "list_failed">>
Phases == {"idle", "discover", "diagnose", "drain", "execute", "call", "record"}
          \cup {Listing[i] : i \in 1..3}

(* No cycle is running.  loop: the loop it is in; todo: what is left of    *)
(* its list; handled: the cases that have an outcome; limit, budget: its   *)
(* execute_budget at first and now; called: the cases it asked the         *)
(* provider to create a link for, in order; executed: outcomes with        *)
(* executed=True.                                                          *)
NoCycle == [phase |-> "idle", loop |-> "diagnose", todo |-> <<>>, handled |-> {},
            limit |-> 0, budget |-> 0, called |-> <<>>, executed |-> 0]

Off == [on |-> FALSE, limit |-> 0]

CycleInit ==
  /\ Init
  /\ opened = 0
  /\ cycle = [k \in Cycles |-> NoCycle]
  /\ runner = Off
  /\ serving = [c \in Cases |-> "nobody"]
  /\ tracked = {}
  /\ aborts = 0 /\ errors = 0 /\ fails = 0 /\ served = 0

Phase(k) == cycle[k].phase
Current(k) == Head(cycle[k].todo)
Goto(k, p) == cycle' = [cycle EXCEPT ![k].phase = p]
ElsewhereUnchanged == UNCHANGED <<opened, runner, serving, tracked, bounds>>
----------------------------------------------------------------------------
(* What the services do to a case *)

(* diagnose_recovery_case looks at the status, _DIAGNOSABLE_STATUSES.      *)
Diagnosed(c) ==
  /\ \/ stage[c] = "DISCOVERED" /\ Enter(c, "INELIGIBLE")
     \/ /\ stage[c] \in {"DISCOVERED", "FAILED"}
        /\ \E outcome \in {"APPROVED", "STOPPED", "ESCALATED"} : Enter(c, outcome)
  /\ UNCHANGED <<credited, offer>>

(* So does execute_recovery_case; its policy re-check may withdraw the     *)
(* approval.                                                               *)
Started(c, outcome) ==
  /\ stage[c] = "APPROVED"
  /\ outcome \in {"EXECUTING", "ESCALATED"}
  /\ Enter(c, outcome)
  /\ UNCHANGED <<credited, offer>>

(* The provider makes a link for any reference it has not seen.            *)
LinkMade(c) ==
  /\ offer' = [offer EXCEPT ![c] = "open"]
  /\ UNCHANGED <<stage, credited>>
----------------------------------------------------------------------------
(* One cycle *)

(* run_cycle takes auto_execute as a parameter, _run_forever the setting.  *)
Begin(k) ==
  /\ Phase(k) = "idle"
  /\ \E n \in ExecuteLimits :
       /\ k = Runner => runner = [on |-> TRUE, limit |-> n]
       /\ cycle' = [cycle EXCEPT ![k] =
                      [NoCycle EXCEPT !.phase = "discover", !.limit = n, !.budget = n]]
  /\ UNCHANGED lifecycleVars
  /\ ElsewhereUnchanged

(* discover_failed_payments: as many as there are, and max_discover allows.*)
Discover(k) ==
  /\ Phase(k) = "discover"
  /\ \E n \in 0..MaxDiscover : opened + n <= NCases /\ opened' = opened + n
  /\ Goto(k, Listing[1])
  /\ UNCHANGED <<lifecycleVars, runner, serving, tracked, bounds>>

(* RecoveryCaseRepository.list_paginated: the first limit rows, the newest *)
(* first; before row i there are i - 1, the newer ones.                    *)
Newest(set, limit) ==
  LET Newer(c) == {d \in set : d > c}
      rows == Cardinality(set)
  IN [i \in 1..(IF rows < limit THEN rows ELSE limit) |->
        CHOOSE c \in set : Cardinality(Newer(c)) = i - 1]

InStatus(st) == {c \in 1..opened : stage[c] = st}

(* _cases_ready_for_diagnosis: one statement per status, with what is left *)
(* of the limit.                                                           *)
List(k, i) ==
  /\ Phase(k) = Listing[i]
  /\ cycle' = [cycle EXCEPT
       ![k].todo = @ \o Newest(InStatus(ReadyForDiagnosis[i]), MaxDiagnose - Len(@)),
       ![k].phase = IF i < 3 THEN Listing[i + 1] ELSE "diagnose"]
  /\ UNCHANGED lifecycleVars
  /\ ElsewhereUnchanged

(* The outcome of one case is appended and the loop it is in goes on.      *)
NextCase(k, local) ==
  [local EXCEPT !.todo = Tail(@), !.handled = @ \cup {Current(k)}, !.phase = local.loop]

(* Mutant: the case is tried again at once.                                *)
RetryingCaseError(k) ==
  /\ \/ Phase(k) = "diagnose" /\ cycle[k].todo # <<>>
     \/ Phase(k) = "execute"
  /\ \/ stage[Current(k)] \notin
          (IF Phase(k) = "execute" THEN {"APPROVED"} ELSE ToSet(ReadyForDiagnosis))
        /\ UNCHANGED errors
     \/ errors < MaxErrors /\ errors' = errors + 1
  /\ UNCHANGED cycle
  /\ UNCHANGED <<lifecycleVars, opened, runner, serving, tracked, aborts, fails, served>>

(* An outcome that changes nothing: RecoverAIError was raised and caught   *)
(* (the case has moved on, or a concurrent modification was rolled back).  *)
CaseError(k) ==
  /\ \/ Phase(k) = "diagnose" /\ cycle[k].todo # <<>>
     \/ Phase(k) = "execute"
  /\ \/ stage[Current(k)] \notin
          (IF Phase(k) = "execute" THEN {"APPROVED"} ELSE ToSet(ReadyForDiagnosis))
        /\ UNCHANGED errors
     \/ errors < MaxErrors /\ errors' = errors + 1
  /\ cycle' = [cycle EXCEPT ![k] = NextCase(k, @)]
  /\ UNCHANGED <<lifecycleVars, opened, runner, serving, tracked, aborts, fails, served>>

(* _process_case: the diagnosis, and what is done about an approval.       *)
DiagnoseCase(k) ==
  /\ Phase(k) = "diagnose"
  /\ cycle[k].todo # <<>>
  /\ Diagnosed(Current(k))
  /\ cycle' = [cycle EXCEPT ![k] =
       IF stage'[Current(k)] # "APPROVED" \/ @.budget <= 0 THEN NextCase(k, @)
       ELSE [@ EXCEPT !.phase = "execute"]]
  /\ ElsewhereUnchanged

(* execute_recovery_case: the policy re-check blocks, and nothing was      *)
(* asked of the provider.                                                  *)
ExecuteWithdrawn(k) ==
  /\ Phase(k) = "execute"
  /\ Started(Current(k), "ESCALATED")
  /\ cycle' = [cycle EXCEPT ![k] = NextCase(k, @)]
  /\ ElsewhereUnchanged

(* Mutant: the list is taken at its word, the case not looked at again.    *)
TrustingExecuteStart(k) ==
  /\ Phase(k) = "execute"
  /\ Enter(Current(k), "EXECUTING")
  /\ UNCHANGED <<credited, offer>>
  /\ Goto(k, "call")
  /\ ElsewhereUnchanged

ExecuteStart(k) ==
  /\ Phase(k) = "execute"
  /\ Started(Current(k), "EXECUTING")
  /\ Goto(k, "call")
  /\ ElsewhereUnchanged

(* The provider made the link, whether or not it could say so.             *)
CallCreates(k) ==
  /\ Phase(k) = "call"
  /\ LinkMade(Current(k))
  /\ cycle' = [cycle EXCEPT ![k].phase = "record", ![k].called = Append(@, Current(k))]
  /\ ElsewhereUnchanged

(* It refused, or nothing was found when an ambiguous answer was followed  *)
(* up: escalated, and not executed.                                        *)
CallFails(k) ==
  /\ Phase(k) = "call"
  /\ HandOver(Current(k))
  /\ cycle' = [cycle EXCEPT ![k] = [NextCase(k, cycle[k]) EXCEPT !.called = Append(@, Current(k))]]
  /\ ElsewhereUnchanged

(* Mutant: an execution is not charged to the budget.                      *)
UnchargedRecorded(k) ==
  /\ Phase(k) = "record"
  /\ cycle' = [cycle EXCEPT ![k] = [NextCase(k, cycle[k]) EXCEPT !.executed = @ + 1]]
  /\ tracked' = tracked \cup {Current(k)}
  /\ UNCHANGED <<lifecycleVars, opened, runner, serving, bounds>>

(* The payment request is recorded: executed=True, charged to the budget.  *)
Recorded(k) ==
  /\ Phase(k) = "record"
  /\ cycle' = [cycle EXCEPT ![k] =
       [NextCase(k, cycle[k]) EXCEPT !.executed = @ + 1, !.budget = @ - 1]]
  /\ tracked' = tracked \cup {Current(k)}
  /\ UNCHANGED <<lifecycleVars, opened, runner, serving, bounds>>

(* The link exists, but neither the answer nor the reconciliation said so. *)
Unresolved(k) ==
  /\ Phase(k) = "record"
  /\ HandOver(Current(k))
  /\ cycle' = [cycle EXCEPT ![k] = NextCase(k, @)]
  /\ ElsewhereUnchanged

(* Mutant: what this cycle has handled is drained again.                   *)
RepeatingDrain(k) ==
  /\ Phase(k) = "diagnose" /\ cycle[k].todo = <<>>
  /\ cycle[k].budget > 0
  /\ cycle' = [cycle EXCEPT ![k].loop = "drain", ![k].phase = "drain",
       ![k].todo = Newest(InStatus("APPROVED"), cycle[k].budget)]
  /\ UNCHANGED lifecycleVars
  /\ ElsewhereUnchanged

(* Mutant: only what this cycle approved itself is drained.                *)
OwnDrain(k) ==
  LET c == cycle[k]
      rows == Newest(InStatus("APPROVED"), c.budget + Cardinality(c.handled))
  IN
  /\ c.phase = "diagnose" /\ c.todo = <<>>
  /\ c.budget > 0
  /\ cycle' = [cycle EXCEPT ![k].loop = "drain", ![k].phase = "drain",
       ![k].todo = Newest(ToSet(rows) \cap c.handled, c.budget)]
  /\ UNCHANGED lifecycleVars
  /\ ElsewhereUnchanged

(* _approved_backlog: budget + |handled| rows are read, the handled ones   *)
(* dropped, and the first budget of the others kept.                       *)
DrainBacklog(k) ==
  LET c == cycle[k]
      rows == Newest(InStatus("APPROVED"), c.budget + Cardinality(c.handled))
  IN
  /\ c.phase = "diagnose" /\ c.todo = <<>>
  /\ c.budget > 0
  /\ cycle' = [cycle EXCEPT ![k].loop = "drain", ![k].phase = "drain",
       ![k].todo = Newest(ToSet(rows) \ c.handled, c.budget)]
  /\ UNCHANGED lifecycleVars
  /\ ElsewhereUnchanged

DrainCase(k) ==
  /\ Phase(k) = "drain" /\ cycle[k].todo # <<>> /\ cycle[k].budget > 0
  /\ Goto(k, "execute")
  /\ UNCHANGED lifecycleVars
  /\ ElsewhereUnchanged

(* The report, its audit event and the last commit.                        *)
Report(k) ==
  /\ \/ Phase(k) = "diagnose" /\ cycle[k].todo = <<>>
        /\ cycle[k].budget <= 0
     \/ Phase(k) = "drain" /\ (cycle[k].todo = <<>> \/ cycle[k].budget <= 0)
  /\ cycle' = [cycle EXCEPT ![k] = NoCycle]
  /\ UNCHANGED lifecycleVars
  /\ ElsewhereUnchanged

(* The worker dies, the database is lost, the sweep meets a payment        *)
(* another session is opening, or the provider's 2xx lacks a field, which  *)
(* raises a KeyError no loop here catches: what was committed stays.       *)
Abort(k) ==
  /\ Phase(k) # "idle"
  /\ aborts < MaxAborts
  /\ cycle' = [cycle EXCEPT ![k] = NoCycle]
  /\ aborts' = aborts + 1
  /\ UNCHANGED <<lifecycleVars, opened, runner, serving, tracked, errors, fails, served>>
----------------------------------------------------------------------------
(* The background task and the world *)

(* lifespan: start() at startup, with the settings of the day ... *)
StartRunner ==
  /\ ~runner.on
  /\ \E n \in ExecuteLimits : runner' = [on |-> TRUE, limit |-> n]
  /\ UNCHANGED <<lifecycleVars, opened, cycle, serving, tracked, bounds>>

(* ... stop() at shutdown: the cycle is cancelled at whatever await it is  *)
(* in, and waited for.                                                     *)
StopRunner ==
  /\ runner.on
  /\ aborts < MaxAborts
  /\ runner' = Off
  /\ cycle' = [cycle EXCEPT ![Runner] = NoCycle]
  /\ aborts' = aborts + 1
  /\ UNCHANGED <<lifecycleVars, opened, serving, tracked, errors, fails, served>>

(* A report of a failed payment opens its case: POST /payments.            *)
CaseArrives ==
  /\ opened < NCases
  /\ opened' = opened + 1
  /\ UNCHANGED <<lifecycleVars, cycle, runner, serving, tracked, bounds>>

(* POST /recovery-cases/{id}/diagnose.                                     *)
OperatorDiagnoses(c) ==
  /\ c <= opened
  /\ Diagnosed(c)
  /\ UNCHANGED cycle
  /\ ElsewhereUnchanged

(* POST /recovery-cases/{id}/execute, up to the commit of EXECUTING ...    *)
OperatorExecutes(c) ==
  /\ served < MaxServed /\ served' = served + 1
  /\ \/ Started(c, "EXECUTING") /\ serving' = [serving EXCEPT ![c] = "call"]
     \/ Started(c, "ESCALATED") /\ UNCHANGED serving
  /\ UNCHANGED <<opened, cycle, runner, tracked, aborts, errors, fails>>

(* ... the call ...                                                        *)
OperatorCalls(c) ==
  /\ serving[c] = "call"
  /\ \/ LinkMade(c) /\ serving' = [serving EXCEPT ![c] = "record"]
     \/ HandOver(c) /\ serving' = [serving EXCEPT ![c] = "nobody"]
  /\ UNCHANGED <<opened, cycle, runner, tracked, bounds>>

(* ... and what it recorded.  One that dies takes no further step.         *)
OperatorRecords(c) ==
  /\ serving[c] = "record"
  /\ \/ tracked' = tracked \cup {c} /\ UNCHANGED lifecycleVars
     \/ HandOver(c) /\ UNCHANGED tracked
  /\ serving' = [serving EXCEPT ![c] = "nobody"]
  /\ UNCHANGED <<opened, cycle, runner, bounds>>

(* The link is paid, and its event credits the case (183-188) ...          *)
CustomerPays(c) ==
  /\ Settle(c) /\ offer'[c] = "paid"
  /\ UNCHANGED cycle
  /\ ElsewhereUnchanged

PaymentArrives(c) ==
  /\ c \in tracked /\ offer[c] = "paid"
  /\ stage[c] = "EXECUTING"
  /\ Enter(c, "RECOVERED")
  /\ credited' = [credited EXCEPT ![c] = @ + Due[c]]
  /\ tracked' = tracked \ {c}
  /\ UNCHANGED <<offer, opened, cycle, runner, serving, bounds>>

(* ... or it ends unpaid, and its event fails the case.                    *)
LinkEnds(c) ==
  /\ fails < MaxFails
  /\ Settle(c) /\ offer'[c] = "none"
  /\ fails' = fails + 1
  /\ UNCHANGED <<opened, cycle, runner, serving, tracked, aborts, errors, served>>

FailureArrives(c) ==
  /\ c \in tracked /\ offer[c] = "none"
  /\ stage[c] = "EXECUTING"
  /\ Enter(c, "FAILED")
  /\ tracked' = tracked \ {c}
  /\ UNCHANGED <<credited, offer, opened, cycle, runner, serving, bounds>>

CycleStep(k) ==
  \/ Discover(k) \/ (\E i \in 1..3 : List(k, i))
  \/ CaseError(k) \/ DiagnoseCase(k)
  \/ ExecuteWithdrawn(k) \/ ExecuteStart(k)
  \/ CallCreates(k) \/ CallFails(k) \/ Recorded(k) \/ Unresolved(k)
  \/ DrainBacklog(k) \/ DrainCase(k) \/ Report(k)

World ==
  \/ StartRunner \/ StopRunner \/ CaseArrives
  \/ \E c \in Cases :
       \/ OperatorDiagnoses(c) \/ OperatorExecutes(c) \/ OperatorCalls(c) \/ OperatorRecords(c)
       \/ CustomerPays(c) \/ PaymentArrives(c) \/ LinkEnds(c) \/ FailureArrives(c)

CycleNext ==
  \/ \E k \in Cycles : Begin(k) \/ CycleStep(k) \/ Abort(k)
  \/ World

CycleSpec == CycleInit /\ [][CycleNext]_allVars

(* lifespan starts the task, its loop goes round, and the event loop       *)
(* resumes a coroutine whose call returned.                                *)
FairCycleSpec ==
  /\ CycleSpec
  /\ WF_allVars(StartRunner)
  /\ WF_allVars(Begin(Runner))
  /\ \A k \in Cycles : WF_allVars(CycleStep(k))
----------------------------------------------------------------------------
(* No cycle executes more cases than orchestrator_max_execute, in          *)
(* whichever of its two loops and however often a case is on its list, and *)
(* without auto_execute it asks the provider for nothing (execute_budget). *)
BudgetKept ==
  \A k \in Cycles :
    /\ cycle[k].executed <= cycle[k].limit
    /\ cycle[k].limit = 0 => cycle[k].called = <<>>

(* Cycles work through lists that age while operators, customers and other *)
(* cycles act, and a case may be on one twice (_cases_ready_for_diagnosis):*)
(* still nothing happens to a case that the lifecycle does not allow, and  *)
(* the provider is asked only for a case in execution whose customer has   *)
(* nothing to pay and has paid nothing.                                    *)
CyclesFollowLifecycle ==
  [][ /\ [Next]_lifecycleVars
      /\ \A k \in Cycles :
           Len(cycle'[k].called) > Len(cycle[k].called) =>
             LET c == Last(cycle'[k].called) IN stage[c] = "EXECUTING" /\ offer[c] = "none"
    ]_allVars

(* While it drains the backlog a cycle never asks the provider for a case  *)
(* it has asked for before, although customers and operators may bring     *)
(* what it has handled back among the approved cases (already_handled).    *)
DrainAsksOnce ==
  [][\A k \in Cycles :
       cycle[k].loop = "drain" /\ Len(cycle'[k].called) > Len(cycle[k].called)
       => Last(cycle'[k].called) \notin ToSet(cycle[k].called)]_allVars

(* A discovered case is diagnosed in the end, once no new ones arrive:     *)
(* although a cycle takes fewer than there are and the newest first, the   *)
(* loop is stopped and restarted, and other cases fail and come back       *)
(* (_cases_ready_for_diagnosis).                                           *)
DiscoveredIsDecided ==
  \A c \in Cases : (c <= opened /\ stage[c] = "DISCOVERED") ~> (stage[c] # "DISCOVERED")

(* An approved case is acted on in the end, also one an earlier cycle      *)
(* withheld, or an operator approved, or that was there before             *)
(* auto_execute was turned on (the drain of run_recovery_cycle).           *)
ApprovedIsExecuted ==
  \A c \in Cases :
    (stage[c] = "APPROVED" /\ runner.limit > 0) ~> (stage[c] # "APPROVED" \/ runner.limit = 0)

(* _cases_ready_for_diagnosis: "oldest first - the longest-leaking revenue *)
(* is picked up before newer failures".                                    *)
OldestFirst ==
  \A k \in Cycles, c, d \in Cases :
    /\ Phase(k) = "diagnose"
    /\ c \in ToSet(cycle[k].todo) /\ stage[c] = "DISCOVERED"
    /\ d < c /\ stage[d] = "DISCOVERED"
    => d \in ToSet(cycle[k].todo) \cup cycle[k].handled

(* The module's docstring: per-cycle budgets "cap how many cases a single  *)
(* pass may diagnose or execute [...] instead of firing hundreds of        *)
(* provider calls at once".                                                *)
CallsWithinBudget == \A k \in Cycles : Len(cycle[k].called) <= cycle[k].limit

============================================================================
