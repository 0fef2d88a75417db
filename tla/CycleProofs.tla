----------------------------- MODULE CycleProofs -----------------------------
(***************************************************************************)
(* The promise of the lifecycle, for any set of cases and amounts; and     *)
(* that the cycles of the orchestrator, any number at a time and among any *)
(* number of operators and customers, stay within the budget of            *)
(* executions, drain the backlog of approved cases without asking for one  *)
(* of them twice, and leave the lifecycle nowhere.                         *)
(***************************************************************************)
EXTENDS RecoveryCycle, FiniteSetTheorems, TLAPS

LifecycleInv ==
  LifecycleTypeOK /\ NothingOnOfferBetweenRounds /\ CreditedIsPaid

(* One action on one case keeps the three parts together.                  *)
LEMMA LifecycleStep ==
  ASSUME LifecycleInv, [Next]_lifecycleVars
  PROVE  LifecycleInv'
<1> USE LifecycleAssumption
    DEF LifecycleInv, LifecycleTypeOK, NothingOnOfferBetweenRounds, CreditedIsPaid
<1>1. ASSUME NEW c \in Cases, Decide(c)  PROVE LifecycleInv'
  BY <1>1 DEF Decide, Enter, CommittedStatuses, TransientStatuses, Statuses
<1>2. ASSUME NEW c \in Cases, Start(c)  PROVE LifecycleInv'
  BY <1>2 DEF Start, Enter, CommittedStatuses, TransientStatuses, Statuses
<1>3. ASSUME NEW c \in Cases, Offer(c) \/ Settle(c)  PROVE LifecycleInv'
  <2>1. CASE Offer(c)
    BY <2>1 DEF Offer
  <2>2. CASE Settle(c)
    <3>1. stage[c] # "RECOVERED"
      BY <2>2 DEF Settle
    <3> QED BY <2>2, <3>1 DEF Settle
  <2> QED BY <1>3, <2>1, <2>2
<1>4. ASSUME NEW c \in Cases, Credit(c)  PROVE LifecycleInv'
  <2>1. credited[c] = 0 /\ Due[c] \in Nat
    BY <1>4 DEF Credit
  <2> QED
    BY <1>4, <2>1 DEF Credit, Enter, CommittedStatuses, TransientStatuses, Statuses
<1>5. ASSUME NEW c \in Cases, Fail(c) \/ HandOver(c)  PROVE LifecycleInv'
  BY <1>5 DEF Fail, HandOver, Enter, CommittedStatuses, TransientStatuses, Statuses
<1>6. ASSUME UNCHANGED lifecycleVars  PROVE LifecycleInv'
  BY <1>6 DEF lifecycleVars
<1> QED BY <1>1, <1>2, <1>3, <1>4, <1>5, <1>6 DEF Next

(* The promise holds in every behaviour: types, offers and money together. *)
THEOREM LifecycleInvariance == Spec => []LifecycleInv
<1>1. Init => LifecycleInv
  BY LifecycleAssumption
  DEF Init, LifecycleInv, LifecycleTypeOK, NothingOnOfferBetweenRounds, CreditedIsPaid,
      CommittedStatuses, TransientStatuses, Statuses
<1>2. LifecycleInv /\ [Next]_lifecycleVars => LifecycleInv'
  BY LifecycleStep
<1> QED BY <1>1, <1>2, PTL DEF Spec

(* Between two rounds, as the executor finds a FAILED or APPROVED case,    *)
(* nothing is payable and nothing was paid.                                *)
THEOREM OfferCorrect == Spec => []NothingOnOfferBetweenRounds
<1>1. LifecycleInv => NothingOnOfferBetweenRounds
  BY DEF LifecycleInv
<1> QED BY <1>1, LifecycleInvariance, PTL

(* recovered_amount is what is due exactly when the case is RECOVERED, and *)
(* then the customer has paid.                                             *)
THEOREM BooksBalance == Spec => []CreditedIsPaid
<1>1. LifecycleInv => CreditedIsPaid
  BY DEF LifecycleInv
<1> QED BY <1>1, LifecycleInvariance, PTL
----------------------------------------------------------------------------
(* The budget of executions *)

(* A cycle that works on a case has it at the head of its list.            *)
WorkPhases == {"execute", "call", "record"}

(* The locals of a cycle within its budget: what it executed and what it   *)
(* may still execute are within the limit, it works on no case with the    *)
(* budget used up, and it has asked for nothing under a limit of none.     *)
WithinBudget(r) ==
  /\ {"phase", "loop", "limit", "budget", "called", "executed"} \subseteq DOMAIN r
  /\ r.limit \in Nat /\ r.budget \in Nat /\ r.executed \in Nat
  /\ r.loop \in {"diagnose", "drain"}
  /\ r.executed + r.budget <= r.limit
  /\ r.phase \in WorkPhases => r.budget > 0
  /\ r.limit = 0 => r.called = <<>>

BudgetInv ==
  /\ DOMAIN cycle = Cycles
  /\ \A k \in Cycles : WithinBudget(cycle[k])

(* Only the cycle that takes a step changes its locals.                    *)
LEMMA OneCycleMoves ==
  ASSUME BudgetInv, NEW k \in Cycles, NEW r, WithinBudget(r),
         cycle' = [cycle EXCEPT ![k] = r]
  PROVE  BudgetInv'
BY DEF BudgetInv, WithinBudget

(* No cycle, and a cycle that begins, have executed nothing.               *)
LEMMA FreshBudget ==
  /\ WithinBudget(NoCycle)
  /\ \A n \in Nat :
       WithinBudget([NoCycle EXCEPT !.phase = "discover", !.limit = n, !.budget = n])
BY DEF WithinBudget, NoCycle, WorkPhases

(* The outcome of one case changes neither what was executed nor what may  *)
(* be (NextCase).                                                          *)
LEMMA OutcomeWithinBudget ==
  ASSUME NEW k \in Cycles, NEW r, WithinBudget(r)
  PROVE  /\ WithinBudget(NextCase(k, r))
         /\ NextCase(k, r).executed = r.executed
         /\ NextCase(k, r).budget = r.budget
         /\ NextCase(k, r).limit = r.limit
         /\ NextCase(k, r).called = r.called
         /\ NextCase(k, r).phase \notin WorkPhases
BY DEF WithinBudget, NextCase, WorkPhases

(* The three statements that list cases come after one another, and none   *)
(* is about a case (_cases_ready_for_diagnosis).                           *)
LEMMA ListingOrder ==
  ASSUME NEW i \in 1..3
  PROVE  /\ Listing[i] \notin WorkPhases \cup {"drain"}
         /\ (IF i < 3 THEN Listing[i + 1] ELSE "diagnose") \notin WorkPhases
<1>1. i = 1 \/ i = 2 \/ i = 3
  OBVIOUS
<1>2. /\ Listing[1] = "list_discovered" /\ Listing[2] = "list_eligible"
      /\ Listing[3] = "list_failed"
  BY DEF Listing
<1>3. i = 1 => i + 1 = 2 /\ i < 3
  OBVIOUS
<1>4. i = 2 => i + 1 = 3 /\ i < 3
  OBVIOUS
<1>5. i = 3 => ~(i < 3)
  OBVIOUS
<1>. QED BY <1>1, <1>2, <1>3, <1>4, <1>5 DEF WorkPhases

(* Statements that go on without executing anything.                       *)
LEMMA BudgetKeptByStatements ==
  ASSUME BudgetInv, NEW k \in Cycles,
         \/ Discover(k) \/ (\E i \in 1..3 : List(k, i))
         \/ ExecuteStart(k) \/ CallCreates(k) \/ DrainBacklog(k) \/ DrainCase(k)
  PROVE  BudgetInv'
<1>1. WithinBudget(cycle[k]) /\ DOMAIN cycle = Cycles
  BY DEF BudgetInv
<1>2. CASE Discover(k)
  <2>1. cycle' = [cycle EXCEPT ![k] = [cycle[k] EXCEPT !.phase = "list_discovered"]]
    BY <1>2 DEF Discover, Goto, Listing
  <2>2. WithinBudget([cycle[k] EXCEPT !.phase = "list_discovered"])
    BY <1>1 DEF WithinBudget, WorkPhases
  <2>. QED BY <2>1, <2>2, OneCycleMoves
<1>3. ASSUME NEW i \in 1..3, List(k, i)  PROVE BudgetInv'
  <2>. DEFINE p == IF i < 3 THEN Listing[i + 1] ELSE "diagnose"
  <2>1. PICK rows : cycle' = [cycle EXCEPT ![k] =
                                [cycle[k] EXCEPT !.todo = rows, !.phase = p]]
    BY <1>3 DEF List
  <2>2. p \notin WorkPhases
    BY ListingOrder
  <2>. HIDE DEF p
  <2>3. WithinBudget([cycle[k] EXCEPT !.todo = rows, !.phase = p])
    BY <1>1, <2>2 DEF WithinBudget
  <2>. QED BY <2>1, <2>3, OneCycleMoves
<1>4. CASE ExecuteStart(k) \/ DrainCase(k)
  <2>1. PICK p \in WorkPhases : cycle' = [cycle EXCEPT ![k] = [cycle[k] EXCEPT !.phase = p]]
    BY <1>4 DEF ExecuteStart, DrainCase, Goto, WorkPhases
  <2>2. cycle[k].budget > 0
    BY <1>1, <1>4 DEF ExecuteStart, DrainCase, WithinBudget, WorkPhases, Phase
  <2>3. WithinBudget([cycle[k] EXCEPT !.phase = p])
    BY <1>1, <2>2 DEF WithinBudget
  <2>. QED BY <2>1, <2>3, OneCycleMoves
<1>5. CASE CallCreates(k)
  <2>1. PICK asked : cycle' = [cycle EXCEPT ![k] =
                                 [cycle[k] EXCEPT !.phase = "record", !.called = asked]]
    BY <1>5 DEF CallCreates
  <2>2. cycle[k].budget > 0
    BY <1>1, <1>5 DEF CallCreates, WithinBudget, WorkPhases, Phase
  <2>3. WithinBudget([cycle[k] EXCEPT !.phase = "record", !.called = asked])
    BY <1>1, <2>2 DEF WithinBudget
  <2>. QED BY <2>1, <2>3, OneCycleMoves
<1>6. CASE DrainBacklog(k)
  <2>1. PICK rows : cycle' = [cycle EXCEPT ![k] =
                      [cycle[k] EXCEPT !.loop = "drain", !.phase = "drain", !.todo = rows]]
    BY <1>6 DEF DrainBacklog
  <2>2. WithinBudget([cycle[k] EXCEPT !.loop = "drain", !.phase = "drain", !.todo = rows])
    BY <1>1 DEF WithinBudget, WorkPhases
  <2>. QED BY <2>1, <2>2, OneCycleMoves
<1>. QED BY <1>2, <1>3, <1>4, <1>5, <1>6

(* Statements that end with the outcome of a case that was not executed.   *)
LEMMA BudgetKeptByOutcomes ==
  ASSUME BudgetInv, NEW k \in Cycles,
         \/ CaseError(k) \/ DiagnoseCase(k) \/ ExecuteWithdrawn(k)
         \/ CallFails(k) \/ Unresolved(k)
  PROVE  BudgetInv'
<1>. DEFINE next == NextCase(k, cycle[k])
<1>1. WithinBudget(cycle[k])
  BY DEF BudgetInv
<1>2. /\ WithinBudget(next) /\ next.budget = cycle[k].budget
      /\ next.phase \notin WorkPhases /\ next.limit = cycle[k].limit
  BY <1>1, OutcomeWithinBudget
<1>. HIDE DEF next
<1>3. CASE CaseError(k) \/ ExecuteWithdrawn(k) \/ Unresolved(k)
  <2>1. cycle' = [cycle EXCEPT ![k] = next]
    BY <1>3 DEF CaseError, ExecuteWithdrawn, Unresolved, next
  <2>. QED BY <1>2, <2>1, OneCycleMoves
<1>4. CASE DiagnoseCase(k)
  <2>1. CASE cycle[k].budget <= 0
    <3>1. cycle' = [cycle EXCEPT ![k] = next]
      BY <1>4, <2>1 DEF DiagnoseCase, next
    <3>. QED BY <1>2, <3>1, OneCycleMoves
  <2>2. CASE cycle[k].budget > 0
    <3>1. \/ cycle' = [cycle EXCEPT ![k] = next]
          \/ cycle' = [cycle EXCEPT ![k] = [cycle[k] EXCEPT !.phase = "execute"]]
      BY <1>4 DEF DiagnoseCase, next
    <3>2. WithinBudget([cycle[k] EXCEPT !.phase = "execute"])
      BY <1>1, <2>2 DEF WithinBudget
    <3>. QED BY <1>2, <3>1, <3>2, OneCycleMoves
  <2>. QED BY <1>1, <2>1, <2>2 DEF WithinBudget
<1>5. CASE CallFails(k)
  <2>1. PICK asked : cycle' = [cycle EXCEPT ![k] = [next EXCEPT !.called = asked]]
    BY <1>5 DEF CallFails, next
  <2>2. cycle[k].budget > 0
    BY <1>1, <1>5 DEF CallFails, WithinBudget, WorkPhases, Phase
  <2>3. WithinBudget([next EXCEPT !.called = asked])
    BY <1>2, <2>2 DEF WithinBudget
  <2>. QED BY <2>1, <2>3, OneCycleMoves
<1>. QED BY <1>3, <1>4, <1>5

(* A recorded execution is charged as it is counted, and there was a       *)
(* budget to charge it to.                                                 *)
LEMMA BudgetCharged ==
  ASSUME BudgetInv, NEW k \in Cycles, Recorded(k)
  PROVE  BudgetInv'
<1>. DEFINE next == NextCase(k, cycle[k])
<1>1. WithinBudget(cycle[k]) /\ cycle[k].budget > 0
  BY DEF BudgetInv, Recorded, WithinBudget, WorkPhases, Phase
<1>2. /\ WithinBudget(next) /\ next.budget = cycle[k].budget
      /\ next.phase \notin WorkPhases
  BY <1>1, OutcomeWithinBudget
<1>3. cycle' = [cycle EXCEPT ![k] = [next EXCEPT !.executed = @ + 1, !.budget = @ - 1]]
  BY DEF Recorded
<1>. HIDE DEF next
<1>4. WithinBudget([next EXCEPT !.executed = @ + 1, !.budget = @ - 1])
  BY <1>1, <1>2 DEF WithinBudget
<1>. QED BY <1>3, <1>4, OneCycleMoves

(* A cycle that begins, reports, dies or is cancelled.                     *)
LEMMA BudgetReset ==
  ASSUME BudgetInv,
         StopRunner \/ \E k \in Cycles : Begin(k) \/ Report(k) \/ Abort(k)
  PROVE  BudgetInv'
<1>1. ASSUME NEW k \in Cycles, Begin(k)  PROVE BudgetInv'
  <2>1. PICK n \in Nat :
          cycle' = [cycle EXCEPT ![k] =
                      [NoCycle EXCEPT !.phase = "discover", !.limit = n, !.budget = n]]
    BY <1>1, CycleAssumption DEF Begin
  <2>. QED BY <2>1, FreshBudget, OneCycleMoves
<1>2. ASSUME NEW k \in Cycles, Report(k) \/ Abort(k)  PROVE BudgetInv'
  BY <1>2, FreshBudget, OneCycleMoves DEF Report, Abort
<1>3. CASE StopRunner
  BY <1>3, FreshBudget, CycleAssumption, OneCycleMoves DEF StopRunner
<1>. QED BY <1>1, <1>2, <1>3

(* Of what goes on around the cycles only the end of the background task   *)
(* touches the locals of one.                                              *)
LEMMA WorldLeavesCycles ==
  ASSUME World
  PROVE  StopRunner \/ UNCHANGED cycle
BY DEF World, StartRunner, CaseArrives, OperatorDiagnoses, OperatorExecutes, OperatorCalls,
       OperatorRecords, CustomerPays, PaymentArrives, LinkEnds, FailureArrives

(* Every step keeps to the budgets.                                        *)
LEMMA BudgetStep ==
  ASSUME BudgetInv, [CycleNext]_allVars
  PROVE  BudgetInv'
<1>1. CASE UNCHANGED cycle
  BY <1>1 DEF BudgetInv
<1>2. CASE World
  BY <1>1, <1>2, WorldLeavesCycles, BudgetReset
<1>3. ASSUME NEW k \in Cycles, Begin(k) \/ CycleStep(k) \/ Abort(k)  PROVE BudgetInv'
  BY <1>3, BudgetKeptByStatements, BudgetKeptByOutcomes, BudgetCharged, BudgetReset
  DEF CycleStep
<1>4. CASE UNCHANGED allVars
  BY <1>1, <1>4 DEF allVars
<1>. QED BY <1>2, <1>3, <1>4 DEF CycleNext

(* Whatever cycles run, and however often they are stopped and restarted,  *)
(* none executes more cases than its orchestrator_max_execute, and without *)
(* auto_execute it asks the provider for nothing (execute_budget).         *)
THEOREM BudgetCorrect == CycleSpec => []BudgetKept
<1>1. CycleInit => BudgetInv
  BY FreshBudget DEF CycleInit, BudgetInv
<1>2. BudgetInv /\ [CycleNext]_allVars => BudgetInv'
  BY BudgetStep
<1>3. BudgetInv => BudgetKept
  BY DEF BudgetInv, WithinBudget, BudgetKept
<1>. QED BY <1>1, <1>2, <1>3, PTL DEF CycleSpec
----------------------------------------------------------------------------
(* The backlog *)

(* A list of rows is as long as it says and names each row once: exactly   *)
(* one row has i newer ones, for each i below their number                 *)
(* (RecoveryCaseRepository.list_paginated, ordered by created_at).         *)
LEMMA NewestAreDistinct ==
  ASSUME NEW set \in SUBSET Int, IsFiniteSet(set), NEW limit \in Int
  PROVE  /\ Newest(set, limit) \in Seq(set)
         /\ \A i \in 1..Len(Newest(set, limit)) : Newest(set, limit)[i] \in set
         /\ \A i, j \in 1..Len(Newest(set, limit)) :
              Newest(set, limit)[i] = Newest(set, limit)[j] => i = j
<1>. DEFINE Newer(c) == {d \in set : d > c}
            rows == Cardinality(set)
            rank == [c \in set |-> Cardinality(Newer(c))]
            n == IF rows < limit THEN rows ELSE limit
            Row(i) == CHOOSE c \in set : Cardinality(Newer(c)) = i - 1
<1>1. rows \in Nat
  BY FS_CardinalityType
<1>2. ASSUME NEW c \in set
      PROVE  IsFiniteSet(Newer(c)) /\ Cardinality(Newer(c)) \in 0..(rows - 1)
  <2>1. Newer(c) \in SUBSET set /\ Newer(c) # set
    OBVIOUS
  <2>2. IsFiniteSet(Newer(c)) /\ Cardinality(Newer(c)) <= rows /\ rows # Cardinality(Newer(c))
    BY <2>1, FS_Subset
  <2>3. Cardinality(Newer(c)) \in Nat
    BY <2>2, FS_CardinalityType
  <2>. HIDE DEF Newer, rows
  <2>. QED BY <1>1, <2>2, <2>3
<1>3. ASSUME NEW c \in set, NEW d \in set, c < d
      PROVE  Cardinality(Newer(c)) # Cardinality(Newer(d))
  <2>1. Newer(d) \in SUBSET Newer(c)
    <3>1. \A e \in set : e > d => e > c
      BY <1>3
    <3>. QED BY <3>1
  <2>2. d \in Newer(c) /\ d \notin Newer(d)
    BY <1>3
  <2>. HIDE DEF Newer
  <2>. QED BY <1>2, <2>1, <2>2, FS_Subset
<1>4. rank \in Injection(set, 0..(rows - 1))
  <2>1. ASSUME NEW c \in set, NEW d \in set, rank[c] = rank[d]  PROVE c = d
    <3>1. c \in Int /\ d \in Int
      OBVIOUS
    <3>2. ~(c < d) /\ ~(d < c)
      BY <1>3, <2>1
    <3>. QED BY <3>1, <3>2
  <2>2. rank \in [set -> 0..(rows - 1)]
    BY <1>2
  <2>. QED BY <2>1, <2>2 DEF Injection, IsInjective
<1>5. IsFiniteSet(0..(rows - 1)) /\ Cardinality(0..(rows - 1)) = rows
  BY <1>1, FS_Interval
<1>6. rank \in Surjection(set, 0..(rows - 1))
  BY <1>4, <1>5, FS_Injection
<1>7. ASSUME NEW i \in 1..rows
      PROVE  Row(i) \in set /\ Cardinality(Newer(Row(i))) = i - 1
  <2>1. i - 1 \in 0..(rows - 1)
    BY <1>1
  <2>2. \E c \in set : Cardinality(Newer(c)) = i - 1
    BY <1>6, <2>1 DEF Surjection
  <2>. HIDE DEF Newer
  <2>. QED BY <2>2
<1>8. n \in Int /\ n <= rows
  BY <1>1
<1>9. Newest(set, limit) = [i \in 1..n |-> Row(i)]
  BY DEF Newest
<1>10. PICK m \in Nat : 1..n = 1..m
  <2>1. CASE n \in Nat
    BY <2>1
  <2>2. CASE n \notin Nat
    <3>1. 1..n = {} /\ 1..0 = {}
      BY <1>8, <2>2
    <3>. QED BY <3>1
  <2>. QED BY <2>1, <2>2
<1>11. ASSUME NEW i \in 1..m
       PROVE  Row(i) \in set /\ Cardinality(Newer(Row(i))) = i - 1
  <2>1. i \in 1..rows
    <3>1. i \in 1..n
      BY <1>10
    <3>. HIDE DEF n
    <3>. QED BY <1>1, <1>8, <3>1
  <2>. QED BY <1>7, <2>1
<1>12. Newest(set, limit) = [i \in 1..m |-> Row(i)]
  BY <1>9, <1>10
<1>. HIDE DEF Newer, Row
<1>13. \A i \in 1..m : Row(i) \in set
  BY <1>11
<1>14. Newest(set, limit) \in [1..m -> set]
  BY <1>12, <1>13
<1>15. Newest(set, limit) \in Seq(set) /\ Len(Newest(set, limit)) = m
  BY <1>14
<1>16. ASSUME NEW i \in 1..m, NEW j \in 1..m,
              Newest(set, limit)[i] = Newest(set, limit)[j]
       PROVE  i = j
  <2>1. Row(i) = Row(j)
    BY <1>12, <1>16
  <2>2. i - 1 = j - 1
    BY <1>11, <2>1
  <2>. QED BY <2>2
<1>. QED BY <1>11, <1>12, <1>15, <1>16

(* What a cycle has asked the provider for is handled, but for the case    *)
(* whose link it is about to record; and what is left of the backlog is    *)
(* neither handled nor listed twice.                                       *)
Asked(r) ==
  /\ {"phase", "loop", "todo", "handled", "called"} \subseteq DOMAIN r
  /\ r.todo \in Seq(Cases) /\ r.called \in Seq(Cases) /\ IsFiniteSet(r.handled)
  /\ r.loop \in {"diagnose", "drain"}
  /\ r.phase \in WorkPhases => r.todo # <<>>
  /\ ToSet(r.called) \subseteq
       r.handled \cup (IF r.phase = "record" THEN {Head(r.todo)} ELSE {})
  /\ r.loop = "drain" =>
       /\ r.phase \in WorkPhases \cup {"drain"}
       /\ \A i \in 1..Len(r.todo) : r.todo[i] \notin r.handled
       /\ \A i, j \in 1..Len(r.todo) : r.todo[i] = r.todo[j] => i = j

CycleInv ==
  /\ BudgetInv
  /\ opened \in 0..NCases
  /\ \A k \in Cycles : Asked(cycle[k])

(* No cycle has asked for anything.                                        *)
LEMMA FreshAsked ==
  ASSUME NEW r, r.todo = <<>>, r.called = <<>>, r.handled = {}, r.loop = "diagnose",
         r.phase \in {"idle", "discover"},
         {"phase", "loop", "todo", "handled", "called"} \subseteq DOMAIN r
  PROVE  Asked(r)
BY FS_EmptySet DEF Asked, ToSet, WorkPhases

(* The case at the head of the list gets its outcome: it is handled, and   *)
(* the rest of the list is as it was (NextCase).                           *)
LEMMA OutcomeAsked ==
  ASSUME CycleInv, NEW k \in Cycles, cycle[k].todo # <<>>,
         Phase(k) \in WorkPhases \cup {"diagnose"}
  PROVE  Asked(NextCase(k, cycle[k]))
<1>. DEFINE r == cycle[k]
            next == NextCase(k, r)
<1>1. Asked(r)
  BY DEF CycleInv
<1>2. /\ next.todo = Tail(r.todo) /\ next.handled = r.handled \cup {Head(r.todo)}
      /\ next.phase = r.loop /\ next.loop = r.loop /\ next.called = r.called
      /\ {"phase", "loop", "todo", "handled", "called"} \subseteq DOMAIN next
  BY <1>1 DEF Asked, NextCase, Current
<1>3. next.phase \notin WorkPhases
  BY <1>1, <1>2 DEF Asked, WorkPhases
<1>4. IsFiniteSet(next.handled)
  <2>1. IsFiniteSet(r.handled)
    BY <1>1 DEF Asked
  <2>2. IsFiniteSet(r.handled \cup {Head(r.todo)})
    BY <2>1, FS_AddElement
  <2>. QED BY <1>2, <2>2
<1>5. next.todo \in Seq(Cases)
  BY <1>1, <1>2 DEF Asked
<1>6. ToSet(next.called) \subseteq next.handled
  BY <1>1, <1>2 DEF Asked
<1>7. CASE r.loop = "drain"
  <2>1. /\ Len(next.todo) = Len(r.todo) - 1
        /\ \A i \in 1..Len(next.todo) : next.todo[i] = r.todo[i + 1]
        /\ Head(r.todo) = r.todo[1] /\ Len(r.todo) \in Nat /\ Len(r.todo) # 0
    BY <1>1, <1>2 DEF Asked
  <2>2. ASSUME NEW i \in 1..Len(next.todo)
        PROVE  next.todo[i] \notin next.handled
    <3>1. i + 1 \in 1..Len(r.todo) /\ 1 \in 1..Len(r.todo) /\ i + 1 # 1
      BY <2>1
    <3>2. r.todo[i + 1] # r.todo[1] /\ r.todo[i + 1] \notin r.handled
      BY <1>1, <1>7, <3>1 DEF Asked
    <3>. QED BY <1>2, <2>1, <3>2
  <2>3. ASSUME NEW i \in 1..Len(next.todo), NEW j \in 1..Len(next.todo),
               next.todo[i] = next.todo[j]
        PROVE  i = j
    <3>1. i + 1 \in 1..Len(r.todo) /\ j + 1 \in 1..Len(r.todo)
      BY <2>1
    <3>2. i + 1 = j + 1
      BY <1>1, <1>7, <2>1, <2>3, <3>1 DEF Asked
    <3>. QED BY <3>2
  <2>. QED
    BY <1>1, <1>2, <1>3, <1>4, <1>5, <1>6, <1>7, <2>2, <2>3 DEF Asked
<1>8. CASE r.loop # "drain"
  BY <1>1, <1>2, <1>3, <1>4, <1>5, <1>6, <1>8 DEF Asked
<1>. QED BY <1>7, <1>8

(* Only the cycle that takes a step changes its locals.                    *)
LEMMA OneCycleAsks ==
  ASSUME CycleInv, NEW k \in Cycles, Asked(cycle'[k]),
         \A m \in Cycles \ {k} : cycle'[m] = cycle[m]
  PROVE  (\A m \in Cycles : Asked(cycle[m]))'
BY DEF CycleInv

(* The cases a status lists are rows, finitely many (list_paginated).      *)
LEMMA StatusLists ==
  ASSUME CycleInv, NEW st
  PROVE  /\ InStatus(st) \in SUBSET Cases /\ IsFiniteSet(InStatus(st))
         /\ Cases \in SUBSET Int
<1>1. /\ opened \in Int /\ opened <= NCases /\ NCases \in Nat /\ Cases = 1..NCases
  BY CycleAssumption DEF CycleInv
<1>2. IsFiniteSet(1..opened)
  BY <1>1, FS_Interval
<1>3. InStatus(st) \in SUBSET (1..opened) /\ (1..opened) \in SUBSET Cases
  BY <1>1 DEF InStatus
<1>4. Cases \in SUBSET Int
  BY <1>1
<1>. QED BY <1>2, <1>3, <1>4, FS_Subset

(* Statements before and between two cases.                                *)
LEMMA AskedByStatements ==
  ASSUME CycleInv, NEW k \in Cycles,
         Discover(k) \/ (\E i \in 1..3 : List(k, i)) \/ ExecuteStart(k) \/ DrainCase(k)
  PROVE  (\A m \in Cycles : Asked(cycle[m]))' /\ cycle'[k].called = cycle[k].called
<1>1. /\ Asked(cycle[k]) /\ DOMAIN cycle = Cycles /\ WithinBudget(cycle[k])
  BY DEF CycleInv, BudgetInv
<1>2. CASE Discover(k) \/ ExecuteStart(k) \/ DrainCase(k)
  <2>1. PICK p : /\ cycle' = [cycle EXCEPT ![k].phase = p]
                 /\ p \in {"list_discovered", "call", "execute"}
                 /\ p = "list_discovered" => Phase(k) = "discover"
                 /\ p # "list_discovered" => cycle[k].todo # <<>>
                 /\ Phase(k) # "record"
    BY <1>1, <1>2 DEF Discover, ExecuteStart, DrainCase, Goto, Listing, Phase, Asked, WorkPhases
  <2>2. Asked(cycle'[k]) /\ cycle'[k].called = cycle[k].called
    BY <1>1, <2>1 DEF Asked, WorkPhases, Phase
  <2>. QED BY <1>1, <2>1, <2>2, OneCycleAsks
<1>3. ASSUME NEW i \in 1..3, List(k, i)
      PROVE  (\A m \in Cycles : Asked(cycle[m]))' /\ cycle'[k].called = cycle[k].called
  <2>. DEFINE limit == MaxDiagnose - Len(cycle[k].todo)
              rows == Newest(InStatus(ReadyForDiagnosis[i]), limit)
              p == IF i < 3 THEN Listing[i + 1] ELSE "diagnose"
  <2>1. rows \in Seq(Cases)
    <3>1. limit \in Int
      BY <1>1, CycleAssumption DEF Asked
    <3>2. /\ InStatus(ReadyForDiagnosis[i]) \in SUBSET Int
          /\ InStatus(ReadyForDiagnosis[i]) \in SUBSET Cases
          /\ IsFiniteSet(InStatus(ReadyForDiagnosis[i]))
      BY StatusLists
    <3>3. rows \in Seq(InStatus(ReadyForDiagnosis[i]))
      BY <3>1, <3>2, NewestAreDistinct
    <3>. QED BY <3>2, <3>3
  <2>2. p \notin WorkPhases /\ Phase(k) \notin WorkPhases \cup {"drain"}
    BY <1>3, ListingOrder DEF List
  <2>3. /\ cycle'[k].todo = cycle[k].todo \o rows /\ cycle'[k].phase = p
        /\ cycle'[k].loop = cycle[k].loop /\ cycle'[k].called = cycle[k].called
        /\ cycle'[k].handled = cycle[k].handled
        /\ DOMAIN cycle'[k] = DOMAIN cycle[k]
        /\ \A m \in Cycles \ {k} : cycle'[m] = cycle[m]
    BY <1>1, <1>3 DEF List, Asked
  <2>. HIDE DEF rows, p
  <2>4. cycle'[k].todo \in Seq(Cases)
    BY <1>1, <2>1, <2>3 DEF Asked
  <2>5. Asked(cycle'[k])
    BY <1>1, <2>2, <2>3, <2>4 DEF Asked, Phase, WorkPhases
  <2>. QED BY <2>3, <2>5, OneCycleAsks
<1>. QED BY <1>2, <1>3

(* The backlog: what the cycle has not handled, each case once.            *)
LEMMA AskedByDrain ==
  ASSUME CycleInv, NEW k \in Cycles, DrainBacklog(k)
  PROVE  (\A m \in Cycles : Asked(cycle[m]))' /\ cycle'[k].called = cycle[k].called
<1>. DEFINE c == cycle[k]
            rows == Newest(InStatus("APPROVED"), c.budget + Cardinality(c.handled))
            left == ToSet(rows) \ c.handled
<1>1. Asked(c) /\ WithinBudget(c) /\ DOMAIN cycle = Cycles
  BY DEF CycleInv, BudgetInv
<1>2. /\ left \in SUBSET Cases /\ left \in SUBSET Int /\ IsFiniteSet(left)
      /\ c.budget \in Int
  <2>1. c.budget + Cardinality(c.handled) \in Int
    BY <1>1, FS_CardinalityType DEF Asked, WithinBudget
  <2>2. /\ InStatus("APPROVED") \in SUBSET Cases /\ InStatus("APPROVED") \in SUBSET Int
        /\ IsFiniteSet(InStatus("APPROVED"))
    BY StatusLists
  <2>3. /\ rows \in Seq(InStatus("APPROVED"))
        /\ \A i \in 1..Len(rows) : rows[i] \in InStatus("APPROVED")
    BY <2>1, <2>2, NewestAreDistinct
  <2>4. ToSet(rows) \in SUBSET InStatus("APPROVED")
    BY <2>3 DEF ToSet
  <2>. QED BY <1>1, <2>2, <2>4, FS_Subset DEF WithinBudget
<1>3. /\ cycle'[k].todo = Newest(left, c.budget)
      /\ cycle'[k].phase = "drain" /\ cycle'[k].loop = "drain"
      /\ cycle'[k].called = c.called /\ cycle'[k].handled = c.handled
      /\ DOMAIN cycle'[k] = DOMAIN c /\ c.phase = "diagnose"
      /\ \A m \in Cycles \ {k} : cycle'[m] = cycle[m]
  BY <1>1 DEF DrainBacklog, Asked
<1>. HIDE DEF left
<1>4. /\ cycle'[k].todo \in Seq(Cases)
      /\ \A i \in 1..Len(cycle'[k].todo) : cycle'[k].todo[i] \in left
      /\ \A i, j \in 1..Len(cycle'[k].todo) :
           cycle'[k].todo[i] = cycle'[k].todo[j] => i = j
  <2>1. /\ Newest(left, c.budget) \in Seq(left)
        /\ \A i \in 1..Len(Newest(left, c.budget)) : Newest(left, c.budget)[i] \in left
        /\ \A i, j \in 1..Len(Newest(left, c.budget)) :
             Newest(left, c.budget)[i] = Newest(left, c.budget)[j] => i = j
    BY <1>2, NewestAreDistinct
  <2>2. Newest(left, c.budget) \in Seq(Cases)
    BY <1>2, <2>1
  <2>. QED BY <1>3, <2>1, <2>2
<1>5. \A i \in left : i \notin c.handled
  BY DEF left
<1>6. Asked(cycle'[k])
  BY <1>1, <1>3, <1>4, <1>5 DEF Asked, WorkPhases
<1>. QED BY <1>3, <1>6, OneCycleAsks

(* A case gets its outcome, and nothing was asked of the provider for it   *)
(* in this step; or it was approved and is now executed.                   *)
LEMMA AskedByOutcomes ==
  ASSUME CycleInv, NEW k \in Cycles,
         \/ CaseError(k) \/ DiagnoseCase(k) \/ ExecuteWithdrawn(k)
         \/ Recorded(k) \/ Unresolved(k)
  PROVE  (\A m \in Cycles : Asked(cycle[m]))' /\ cycle'[k].called = cycle[k].called
<1>. DEFINE next == NextCase(k, cycle[k])
<1>1. /\ Asked(cycle[k]) /\ WithinBudget(cycle[k]) /\ DOMAIN cycle = Cycles
  BY DEF CycleInv, BudgetInv
<1>2. cycle[k].todo # <<>> /\ Phase(k) \in WorkPhases \cup {"diagnose"}
  BY <1>1 DEF CaseError, DiagnoseCase, ExecuteWithdrawn, Recorded, Unresolved, Asked,
              WorkPhases, Phase
<1>3. /\ Asked(next) /\ next.called = cycle[k].called /\ WithinBudget(next)
      /\ {"phase", "loop", "todo", "handled", "called"} \subseteq DOMAIN next
  <2>1. Asked(next)
    BY <1>2, OutcomeAsked
  <2>. QED BY <1>1, <2>1, OutcomeWithinBudget DEF NextCase, Asked
<1>. HIDE DEF next
<1>4. CASE CaseError(k) \/ ExecuteWithdrawn(k) \/ Unresolved(k)
  <2>1. cycle' = [cycle EXCEPT ![k] = next]
    BY <1>4 DEF CaseError, ExecuteWithdrawn, Unresolved, next
  <2>. QED BY <1>1, <1>3, <2>1, OneCycleAsks
<1>5. CASE DiagnoseCase(k)
  <2>1. \/ cycle' = [cycle EXCEPT ![k] = next]
        \/ cycle' = [cycle EXCEPT ![k] = [cycle[k] EXCEPT !.phase = "execute"]]
    BY <1>5 DEF DiagnoseCase, next
  <2>2. cycle[k].phase = "diagnose"
    BY <1>5 DEF DiagnoseCase, Phase
  <2>3. /\ Asked([cycle[k] EXCEPT !.phase = "execute"])
        /\ [cycle[k] EXCEPT !.phase = "execute"].called = cycle[k].called
    BY <1>1, <1>2, <2>2 DEF Asked, WorkPhases
  <2>. QED BY <1>1, <1>3, <2>1, <2>3, OneCycleAsks
<1>6. CASE Recorded(k)
  <2>1. cycle' = [cycle EXCEPT ![k] = [next EXCEPT !.executed = @ + 1, !.budget = @ - 1]]
    BY <1>6 DEF Recorded, next
  <2>2. Asked([next EXCEPT !.executed = @ + 1, !.budget = @ - 1])
    BY <1>3 DEF Asked
  <2>. QED BY <1>1, <1>3, <2>1, <2>2, OneCycleAsks
<1>. QED BY <1>4, <1>5, <1>6

(* The two statements that ask the provider: the case asked for is not one *)
(* of those asked for before when the backlog is drained.                  *)
LEMMA AskedByCalls ==
  ASSUME CycleInv, NEW k \in Cycles, CallCreates(k) \/ CallFails(k)
  PROVE  /\ (\A m \in Cycles : Asked(cycle[m]))'
         /\ cycle'[k].called = Append(cycle[k].called, Current(k))
         /\ cycle[k].loop = "drain" => Current(k) \notin ToSet(cycle[k].called)
<1>. DEFINE c == cycle[k]
            next == NextCase(k, c)
<1>1. /\ Asked(c) /\ DOMAIN cycle = Cycles /\ c.phase = "call" /\ c.todo # <<>>
  BY DEF CycleInv, BudgetInv, CallCreates, CallFails, Phase, Asked, WorkPhases
<1>2. /\ ToSet(c.called) \subseteq c.handled
      /\ Current(k) \in Cases /\ Current(k) = c.todo[1] /\ 1 \in 1..Len(c.todo)
  BY <1>1 DEF Asked, Current
<1>3. c.loop = "drain" => Current(k) \notin ToSet(c.called)
  BY <1>1, <1>2 DEF Asked
<1>4. /\ Append(c.called, Current(k)) \in Seq(Cases)
      /\ ToSet(Append(c.called, Current(k))) \subseteq c.handled \cup {Current(k)}
  BY <1>1, <1>2 DEF Asked, ToSet
<1>5. CASE CallCreates(k)
  <2>1. /\ cycle'[k].phase = "record" /\ cycle'[k].called = Append(c.called, Current(k))
        /\ cycle'[k].todo = c.todo /\ cycle'[k].handled = c.handled
        /\ cycle'[k].loop = c.loop /\ DOMAIN cycle'[k] = DOMAIN c
        /\ \A m \in Cycles \ {k} : cycle'[m] = cycle[m]
    BY <1>1, <1>5 DEF CallCreates, Asked
  <2>2. Asked(cycle'[k])
    BY <1>1, <1>4, <2>1 DEF Asked, WorkPhases, Current
  <2>. QED BY <1>3, <2>1, <2>2, OneCycleAsks
<1>6. CASE CallFails(k)
  <2>1. cycle' = [cycle EXCEPT ![k] = [next EXCEPT !.called = Append(@, Current(k))]]
    BY <1>6 DEF CallFails
  <2>2. Asked(next)
    BY <1>1, OutcomeAsked DEF WorkPhases, Phase
  <2>3. /\ next.called = c.called /\ next.handled = c.handled \cup {Current(k)}
        /\ next.phase = c.loop /\ "called" \in DOMAIN next
    BY <1>1 DEF NextCase, Asked
  <2>. HIDE DEF next
  <2>4. /\ Asked([next EXCEPT !.called = Append(@, Current(k))])
        /\ [next EXCEPT !.called = Append(@, Current(k))].called
              = Append(c.called, Current(k))
    BY <1>1, <1>4, <2>2, <2>3 DEF Asked
  <2>. QED BY <1>1, <1>3, <2>1, <2>4, OneCycleAsks
<1>. QED BY <1>5, <1>6

(* A cycle that begins or ends has asked for nothing.                      *)
LEMMA AskedByResets ==
  ASSUME CycleInv, NEW k \in Cycles,
         Begin(k) \/ Report(k) \/ Abort(k) \/ (StopRunner /\ k = Runner)
  PROVE  (\A m \in Cycles : Asked(cycle[m]))' /\ cycle'[k].called = <<>>
<1>1. PICK r : /\ cycle' = [cycle EXCEPT ![k] = r]
               /\ Asked(r) /\ r.called = <<>>
  <2>1. Asked(NoCycle) /\ NoCycle.called = <<>>
    BY FreshAsked DEF NoCycle
  <2>2. CASE Begin(k)
    <3>1. PICK n : cycle' = [cycle EXCEPT ![k] = [NoCycle EXCEPT !.phase = "discover",
                                                    !.limit = n, !.budget = n]]
      BY <2>2 DEF Begin
    <3>2. PICK r : r = [NoCycle EXCEPT !.phase = "discover", !.limit = n, !.budget = n]
      OBVIOUS
    <3>3. /\ r.todo = <<>> /\ r.called = <<>> /\ r.handled = {} /\ r.loop = "diagnose"
          /\ r.phase = "discover"
          /\ {"phase", "loop", "todo", "handled", "called"} \subseteq DOMAIN r
      BY <3>2 DEF NoCycle
    <3>. QED BY <3>1, <3>2, <3>3, FreshAsked
  <2>. QED BY <2>1, <2>2 DEF Report, Abort, StopRunner
<1>2. DOMAIN cycle = Cycles
  BY DEF CycleInv, BudgetInv
<1>. QED BY <1>1, <1>2, OneCycleAsks

(* Every step keeps the invariant of the cycles.                           *)
LEMMA CycleInvStep ==
  ASSUME CycleInv, [CycleNext]_allVars
  PROVE  CycleInv'
<1>1. BudgetInv'
  <2>1. BudgetInv
    BY DEF CycleInv
  <2>. QED BY <2>1, BudgetStep
<1>2. opened' \in 0..NCases
  <2>1. opened \in 0..NCases /\ NCases \in Nat
    BY CycleAssumption DEF CycleInv
  <2>2. CASE UNCHANGED opened
    BY <2>1, <2>2
  <2>3. ASSUME NEW k \in Cycles, Discover(k)  PROVE opened' \in 0..NCases
    BY <2>1, <2>3, CycleAssumption DEF Discover
  <2>4. CASE CaseArrives
    BY <2>1, <2>4 DEF CaseArrives
  <2>5. \/ UNCHANGED opened \/ CaseArrives \/ \E k \in Cycles : Discover(k)
    <3>1. CASE World
      BY <3>1 DEF World, StartRunner, StopRunner, OperatorDiagnoses, OperatorExecutes,
                  OperatorCalls, OperatorRecords, CustomerPays, PaymentArrives, LinkEnds,
                  FailureArrives, ElsewhereUnchanged
    <3>2. ASSUME NEW k \in Cycles, Begin(k) \/ CycleStep(k) \/ Abort(k)
          PROVE  UNCHANGED opened \/ Discover(k)
      BY <3>2 DEF CycleStep, Begin, List, CaseError, DiagnoseCase, ExecuteWithdrawn,
                  ExecuteStart, CallCreates, CallFails, Recorded, Unresolved, DrainBacklog,
                  DrainCase, Report, Abort, ElsewhereUnchanged
    <3>. QED BY <3>1, <3>2 DEF CycleNext, allVars
  <2>. QED BY <2>2, <2>3, <2>4, <2>5
<1>3. (\A k \in Cycles : Asked(cycle[k]))'
  <2>1. CASE UNCHANGED cycle
    BY <2>1 DEF CycleInv
  <2>2. CASE World
    BY <2>1, <2>2, WorldLeavesCycles, AskedByResets, CycleAssumption
  <2>3. ASSUME NEW k \in Cycles, Begin(k) \/ CycleStep(k) \/ Abort(k)
        PROVE  (\A m \in Cycles : Asked(cycle[m]))'
    BY <2>3, AskedByStatements, AskedByDrain, AskedByOutcomes, AskedByCalls, AskedByResets
    DEF CycleStep
  <2>. QED BY <2>1, <2>2, <2>3 DEF CycleNext, allVars
<1>. QED BY <1>1, <1>2, <1>3 DEF CycleInv

(* Cycles start with nothing asked and no case opened.                     *)
LEMMA CycleInvInit == CycleInit => CycleInv
<1>1. Asked(NoCycle)
  BY FreshAsked DEF NoCycle
<1>2. WithinBudget(NoCycle)
  BY FreshBudget
<1>3. CycleInit => opened \in 0..NCases
  BY CycleAssumption DEF CycleInit
<1>4. CycleInit => DOMAIN cycle = Cycles /\ \A k \in Cycles : cycle[k] = NoCycle
  BY DEF CycleInit
<1>. QED BY <1>1, <1>2, <1>3, <1>4 DEF CycleInv, BudgetInv

(* A step in which a cycle asks the provider is that cycle's call, for the *)
(* case at the head of its list.                                           *)
LEMMA OnlyCallsAsk ==
  ASSUME CycleInv, CycleNext, NEW k \in Cycles,
         Len(cycle'[k].called) > Len(cycle[k].called)
  PROVE  /\ CallCreates(k) \/ CallFails(k)
         /\ Last(cycle'[k].called) = Current(k)
         /\ cycle[k].loop = "drain" => Current(k) \notin ToSet(cycle[k].called)
<1>1. cycle[k].called \in Seq(Cases) /\ DOMAIN cycle = Cycles
  BY DEF CycleInv, Asked, BudgetInv
<1>2. cycle'[k].called # <<>> /\ cycle'[k].called # cycle[k].called
  BY <1>1
<1>3. CallCreates(k) \/ CallFails(k)
  <2>1. CASE World
    <3>1. cycle' # cycle
      BY <1>2
    <3>2. StopRunner /\ k = Runner
      BY <2>1, <1>1, <1>2, <3>1, WorldLeavesCycles DEF StopRunner
    <3>. QED BY <1>2, <3>2, AskedByResets
  <2>2. ASSUME NEW m \in Cycles, m # k, Begin(m) \/ CycleStep(m) \/ Abort(m)
        PROVE  FALSE
    <3>1. cycle'[k] = cycle[k]
      BY <2>2, <1>1
      DEF CycleStep, Begin, Discover, List, CaseError, DiagnoseCase, ExecuteWithdrawn,
          ExecuteStart, CallCreates, CallFails, Recorded, Unresolved, DrainBacklog,
          DrainCase, Report, Abort, Goto
    <3>. QED BY <1>2, <3>1
  <2>3. CASE Begin(k) \/ CycleStep(k) \/ Abort(k)
    BY <2>3, <1>2, AskedByStatements, AskedByDrain, AskedByOutcomes, AskedByResets
    DEF CycleStep
  <2>. QED BY <2>1, <2>2, <2>3 DEF CycleNext
<1>4. /\ cycle'[k].called = Append(cycle[k].called, Current(k))
      /\ cycle[k].loop = "drain" => Current(k) \notin ToSet(cycle[k].called)
  BY <1>3, AskedByCalls
<1>5. Last(cycle'[k].called) = Current(k)
  BY <1>1, <1>4 DEF Last
<1>. QED BY <1>3, <1>4, <1>5

(* While it drains the backlog, whatever operators and customers bring     *)
(* back among the approved cases meanwhile, a cycle never asks the         *)
(* provider again for a case it has asked for (already_handled).           *)
THEOREM BacklogAskedOnce == CycleSpec => DrainAsksOnce
<1>. DEFINE Once ==
       \A k \in Cycles :
         cycle[k].loop = "drain" /\ Len(cycle'[k].called) > Len(cycle[k].called)
         => Last(cycle'[k].called) \notin ToSet(cycle[k].called)
<1>1. CycleInit => CycleInv
  BY CycleInvInit
<1>2. CycleInv /\ [CycleNext]_allVars => CycleInv'
  BY CycleInvStep
<1>3. CycleInv /\ [CycleNext]_allVars => [Once]_allVars
  BY OnlyCallsAsk
<1>4. CycleSpec => [][Once]_allVars
  BY <1>1, <1>2, <1>3, PTL DEF CycleSpec
<1>. QED BY <1>4 DEF DrainAsksOnce
----------------------------------------------------------------------------
(* The lifecycle, among cycles, operators and customers *)

(* The cycle is between the commit of EXECUTING and that of the outcome.   *)
Holds(k, c) ==
  cycle[k].phase \in {"call", "record"} /\ Head(cycle[k].todo) = c

(* A case in execution is in one pair of hands: a cycle's, an operator's,  *)
(* or those of the webhook of its recorded link; and who is about to call  *)
(* the provider finds nothing on offer.                                    *)
HandsInv ==
  /\ LifecycleInv
  /\ serving \in [Cases -> {"nobody", "call", "record"}]
  /\ \A c \in Cases :
       /\ c \in tracked => stage[c] = "EXECUTING" /\ serving[c] = "nobody"
       /\ serving[c] # "nobody" => stage[c] = "EXECUTING"
       /\ serving[c] = "call" => offer[c] = "none"
  /\ \A k \in Cycles, c \in Cases :
       Holds(k, c) =>
         /\ stage[c] = "EXECUTING" /\ c \notin tracked /\ serving[c] = "nobody"
         /\ cycle[k].phase = "call" => offer[c] = "none"
         /\ \A m \in Cycles : Holds(m, c) => m = k

(* Who works on a case works on one there is.                              *)
LEMMA WorksOnACase ==
  ASSUME CycleInv, NEW k \in Cycles,
         \/ Phase(k) \in WorkPhases
         \/ Phase(k) = "diagnose" /\ cycle[k].todo # <<>>
  PROVE  Current(k) \in Cases /\ Current(k) = Head(cycle[k].todo)
BY DEF CycleInv, Asked, WorkPhases, Phase, Current

(* Every statement but these two leaves its cycle without a case in hand.  *)
LEMMA HandsFreed ==
  ASSUME CycleInv, NEW k \in Cycles,
         \/ Begin(k) \/ Discover(k) \/ (\E i \in 1..3 : List(k, i))
         \/ CaseError(k) \/ DiagnoseCase(k) \/ ExecuteWithdrawn(k)
         \/ CallFails(k) \/ Recorded(k) \/ Unresolved(k)
         \/ DrainBacklog(k) \/ DrainCase(k) \/ Report(k) \/ Abort(k)
         \/ (StopRunner /\ k = Runner)
  PROVE  \A m \in Cycles, c \in Cases :
           Holds(m, c)' => m # k /\ Holds(m, c) /\ cycle'[m] = cycle[m]
<1>. DEFINE next == NextCase(k, cycle[k])
<1>1. DOMAIN cycle = Cycles /\ WithinBudget(cycle[k]) /\ Asked(cycle[k])
  BY DEF CycleInv, BudgetInv
<1>2. next.phase \notin WorkPhases /\ {"phase", "called", "executed", "budget"} \subseteq DOMAIN next
  BY <1>1, OutcomeWithinBudget DEF WithinBudget
<1>. HIDE DEF next
<1>3. SUFFICES /\ cycle'[k].phase \notin {"call", "record"}
               /\ \A m \in Cycles \ {k} : cycle'[m] = cycle[m]
  BY DEF Holds
<1>4. CASE Begin(k) \/ Report(k) \/ Abort(k) \/ (StopRunner /\ k = Runner)
  <2>1. CASE Begin(k)
    <3>1. PICK n : cycle' = [cycle EXCEPT ![k] = [NoCycle EXCEPT !.phase = "discover",
                                                    !.limit = n, !.budget = n]]
      BY <2>1 DEF Begin
    <3>2. [NoCycle EXCEPT !.phase = "discover", !.limit = n, !.budget = n].phase = "discover"
      BY DEF NoCycle
    <3>. QED BY <1>1, <3>1, <3>2
  <2>2. CASE Report(k) \/ Abort(k) \/ (StopRunner /\ k = Runner)
    BY <1>1, <2>2 DEF Report, Abort, StopRunner, NoCycle
  <2>. QED BY <1>4, <2>1, <2>2
<1>5. CASE Discover(k) \/ DrainBacklog(k) \/ DrainCase(k)
  BY <1>1, <1>5 DEF Discover, DrainBacklog, DrainCase, Goto, Listing, Asked
<1>6. ASSUME NEW i \in 1..3, List(k, i)
      PROVE  /\ cycle'[k].phase \notin {"call", "record"}
             /\ \A m \in Cycles \ {k} : cycle'[m] = cycle[m]
  <2>. DEFINE p == IF i < 3 THEN Listing[i + 1] ELSE "diagnose"
  <2>1. p \notin WorkPhases
    BY ListingOrder
  <2>2. cycle'[k].phase = p /\ \A m \in Cycles \ {k} : cycle'[m] = cycle[m]
    BY <1>1, <1>6 DEF List, Asked
  <2>. HIDE DEF p
  <2>. QED BY <2>1, <2>2 DEF WorkPhases
<1>7. CASE CaseError(k) \/ ExecuteWithdrawn(k) \/ Unresolved(k)
  <2>1. cycle' = [cycle EXCEPT ![k] = next]
    BY <1>7 DEF CaseError, ExecuteWithdrawn, Unresolved, next
  <2>. QED BY <1>1, <1>2, <2>1 DEF WorkPhases
<1>8. CASE DiagnoseCase(k)
  <2>1. \/ cycle' = [cycle EXCEPT ![k] = next]
        \/ cycle' = [cycle EXCEPT ![k] = [cycle[k] EXCEPT !.phase = "execute"]]
    BY <1>8 DEF DiagnoseCase, next
  <2>. QED BY <1>1, <1>2, <2>1 DEF WorkPhases, Asked
<1>9. CASE CallFails(k)
  <2>1. PICK asked : cycle' = [cycle EXCEPT ![k] = [next EXCEPT !.called = asked]]
    BY <1>9 DEF CallFails, next
  <2>2. [next EXCEPT !.called = asked].phase = next.phase
    BY <1>2
  <2>. QED BY <1>1, <1>2, <2>1, <2>2 DEF WorkPhases
<1>10. CASE Recorded(k)
  <2>1. cycle' = [cycle EXCEPT ![k] = [next EXCEPT !.executed = @ + 1, !.budget = @ - 1]]
    BY <1>10 DEF Recorded, next
  <2>2. [next EXCEPT !.executed = @ + 1, !.budget = @ - 1].phase = next.phase
    BY <1>2
  <2>. QED BY <1>1, <1>2, <2>1, <2>2 DEF WorkPhases
<1>. QED BY <1>4, <1>5, <1>6, <1>7, <1>8, <1>9, <1>10

(* What a cycle does with a case is a step of the lifecycle.               *)
LEMMA CycleFollows ==
  ASSUME HandsInv, CycleInv, NEW k \in Cycles, Begin(k) \/ CycleStep(k) \/ Abort(k)
  PROVE  [Next]_lifecycleVars
<1>. DEFINE c == Current(k)
<1>1. \A d \in Cases : stage[d] \in {"DISCOVERED", "FAILED", "APPROVED"} => offer[d] = "none"
  BY DEF HandsInv, LifecycleInv, NothingOnOfferBetweenRounds
<1>2. CASE DiagnoseCase(k)
  <2>1. c \in Cases
    BY <1>2, WorksOnACase DEF DiagnoseCase
  <2>2. Diagnosed(c)
    BY <1>2 DEF DiagnoseCase
  <2>. HIDE DEF c
  <2>3. Decide(c)
    BY <1>1, <2>1, <2>2 DEF Diagnosed, Decide
  <2>. QED BY <2>1, <2>3 DEF Next
<1>3. CASE ExecuteWithdrawn(k) \/ ExecuteStart(k)
  <2>1. c \in Cases
    BY <1>3, WorksOnACase DEF ExecuteWithdrawn, ExecuteStart, WorkPhases
  <2>2. \E outcome \in {"EXECUTING", "ESCALATED"} : Started(c, outcome)
    BY <1>3 DEF ExecuteWithdrawn, ExecuteStart
  <2>. HIDE DEF c
  <2>3. Start(c)
    BY <1>1, <2>1, <2>2 DEF Started, Start
  <2>. QED BY <2>1, <2>3 DEF Next
<1>4. CASE CallCreates(k)
  <2>1. c \in Cases /\ Holds(k, c) /\ cycle[k].phase = "call"
    BY <1>4, WorksOnACase DEF CallCreates, WorkPhases, Phase, Holds
  <2>2. LinkMade(c)
    BY <1>4 DEF CallCreates
  <2>. HIDE DEF c
  <2>3. stage[c] = "EXECUTING" /\ offer[c] = "none"
    BY <2>1 DEF HandsInv
  <2>4. Offer(c)
    BY <2>2, <2>3 DEF LinkMade, Offer
  <2>. QED BY <2>1, <2>4 DEF Next
<1>5. CASE CallFails(k) \/ Unresolved(k)
  <2>1. c \in Cases
    BY <1>5, WorksOnACase DEF CallFails, Unresolved, WorkPhases
  <2>2. HandOver(c)
    BY <1>5 DEF CallFails, Unresolved
  <2>. QED BY <2>1, <2>2 DEF Next
<1>6. CASE \/ Begin(k) \/ Discover(k) \/ (\E i \in 1..3 : List(k, i)) \/ CaseError(k)
           \/ Recorded(k) \/ DrainBacklog(k) \/ DrainCase(k) \/ Report(k) \/ Abort(k)
  BY <1>6
  DEF Begin, Discover, List, CaseError, Recorded, DrainBacklog, DrainCase, Report, Abort
<1>. QED BY <1>2, <1>3, <1>4, <1>5, <1>6 DEF CycleStep

(* Likewise what goes on around the cycles.                                *)
LEMMA WorldFollows ==
  ASSUME HandsInv, World
  PROVE  [Next]_lifecycleVars
<1>1. CASE StartRunner \/ StopRunner \/ CaseArrives
  BY <1>1 DEF StartRunner, StopRunner, CaseArrives
<1>2. ASSUME NEW c \in Cases, OperatorDiagnoses(c) \/ OperatorExecutes(c)
      PROVE  [Next]_lifecycleVars
  <2>1. stage[c] \in {"DISCOVERED", "FAILED", "APPROVED"} => offer[c] = "none"
    BY DEF HandsInv, LifecycleInv, NothingOnOfferBetweenRounds
  <2>2. Decide(c) \/ Start(c)
    BY <1>2, <2>1
    DEF OperatorDiagnoses, OperatorExecutes, Diagnosed, Started, Decide, Start
  <2>. QED BY <2>2 DEF Next
<1>3. ASSUME NEW c \in Cases, OperatorCalls(c) \/ OperatorRecords(c)
      PROVE  [Next]_lifecycleVars
  <2>1. serving[c] = "call" => stage[c] = "EXECUTING" /\ offer[c] = "none"
    BY DEF HandsInv
  <2>2. Offer(c) \/ HandOver(c) \/ UNCHANGED lifecycleVars
    BY <1>3, <2>1 DEF OperatorCalls, OperatorRecords, LinkMade, Offer
  <2>. QED BY <2>2 DEF Next
<1>4. ASSUME NEW c \in Cases,
             CustomerPays(c) \/ PaymentArrives(c) \/ LinkEnds(c) \/ FailureArrives(c)
      PROVE  [Next]_lifecycleVars
  <2>1. Settle(c) \/ Credit(c) \/ Fail(c)
    BY <1>4 DEF CustomerPays, PaymentArrives, LinkEnds, FailureArrives, Credit, Fail
  <2>. QED BY <2>1 DEF Next
<1>. QED BY <1>1, <1>2, <1>3, <1>4 DEF World

(* A step on one case, after which at most one cycle has it in hand, and   *)
(* as it should.                                                           *)
LEMMA OneCaseMoves ==
  ASSUME HandsInv, [Next]_lifecycleVars, NEW c \in Cases, NEW k \in Cycles,
         serving' \in [Cases -> {"nobody", "call", "record"}],
         \A d \in Cases \ {c} :
           /\ stage'[d] = stage[d] /\ offer'[d] = offer[d] /\ serving'[d] = serving[d]
           /\ d \in tracked' => d \in tracked,
         c \in tracked' => stage'[c] = "EXECUTING" /\ serving'[c] = "nobody",
         serving'[c] # "nobody" => stage'[c] = "EXECUTING",
         serving'[c] = "call" => offer'[c] = "none",
         \A m \in Cycles, d \in Cases :
           Holds(m, d)' =>
             \/ d # c /\ Holds(m, d) /\ cycle'[m] = cycle[m]
             \/ /\ d = c /\ m = k
                /\ stage'[c] = "EXECUTING" /\ c \notin tracked' /\ serving'[c] = "nobody"
                /\ cycle'[k].phase = "call" => offer'[c] = "none"
  PROVE  HandsInv'
<1>1. LifecycleInv'
  BY LifecycleStep DEF HandsInv
<1>2. \A d \in Cases :
        /\ d \in tracked' => stage'[d] = "EXECUTING" /\ serving'[d] = "nobody"
        /\ serving'[d] # "nobody" => stage'[d] = "EXECUTING"
        /\ serving'[d] = "call" => offer'[d] = "none"
  BY DEF HandsInv
<1>3. ASSUME NEW m \in Cycles, NEW d \in Cases, Holds(m, d)'
      PROVE  /\ stage'[d] = "EXECUTING" /\ d \notin tracked' /\ serving'[d] = "nobody"
             /\ cycle'[m].phase = "call" => offer'[d] = "none"
             /\ \A n \in Cycles : Holds(n, d)' => n = m
  BY <1>3 DEF HandsInv
<1>. QED BY <1>1, <1>2, <1>3 DEF HandsInv

(* A step on no case, after which no cycle has one in hand it had not.     *)
LEMMA NoCaseMoves ==
  ASSUME HandsInv, UNCHANGED <<lifecycleVars, serving, tracked>>,
         \A m \in Cycles, d \in Cases :
           Holds(m, d)' => Holds(m, d) /\ cycle'[m] = cycle[m]
  PROVE  HandsInv'
<1>1. LifecycleInv'
  BY LifecycleStep DEF HandsInv
<1>2. stage' = stage /\ offer' = offer /\ serving' = serving /\ tracked' = tracked
  BY DEF lifecycleVars
<1>. QED BY <1>1, <1>2 DEF HandsInv

(* The cases are in the hands they should be in when a cycle has taken a   *)
(* step.                                                                   *)
LEMMA HandsOfCycles ==
  ASSUME HandsInv, CycleInv, NEW k \in Cycles, Begin(k) \/ CycleStep(k) \/ Abort(k)
  PROVE  HandsInv'
<1>. DEFINE c == Current(k)
<1>1. [Next]_lifecycleVars
  BY CycleFollows
<1>2. DOMAIN cycle = Cycles /\ {"phase", "todo", "called"} \subseteq DOMAIN cycle[k]
  BY DEF CycleInv, BudgetInv, Asked
<1>3. DOMAIN stage = Cases /\ DOMAIN offer = Cases
  BY DEF HandsInv, LifecycleInv, LifecycleTypeOK
<1>4. CASE \/ Begin(k) \/ Discover(k) \/ (\E i \in 1..3 : List(k, i)) \/ CaseError(k)
           \/ DrainBacklog(k) \/ DrainCase(k) \/ Report(k) \/ Abort(k)
  <2>1. \A m \in Cycles, d \in Cases : Holds(m, d)' => Holds(m, d) /\ cycle'[m] = cycle[m]
    BY <1>4, HandsFreed
  <2>2. UNCHANGED <<lifecycleVars, serving, tracked>>
    BY <1>4 DEF Begin, Discover, List, CaseError, DrainBacklog, DrainCase, Report, Abort,
                ElsewhereUnchanged
  <2>. QED BY <2>1, <2>2, NoCaseMoves
<1>5. CASE DiagnoseCase(k) \/ ExecuteWithdrawn(k)
  <2>1. c \in Cases
    BY <1>5, WorksOnACase DEF DiagnoseCase, ExecuteWithdrawn, WorkPhases
  <2>2. Diagnosed(c) \/ Started(c, "ESCALATED")
    BY <1>5 DEF DiagnoseCase, ExecuteWithdrawn
  <2>3. \A m \in Cycles, d \in Cases : Holds(m, d)' => Holds(m, d) /\ cycle'[m] = cycle[m]
    BY <1>5, HandsFreed
  <2>4. UNCHANGED <<serving, tracked>>
    BY <1>5 DEF DiagnoseCase, ExecuteWithdrawn, ElsewhereUnchanged
  <2>. HIDE DEF c
  <2>5. /\ stage[c] # "EXECUTING" /\ UNCHANGED offer
        /\ \A d \in Cases \ {c} : stage'[d] = stage[d]
    BY <1>3, <2>1, <2>2 DEF Diagnosed, Started, Enter
  <2>6. /\ c \notin tracked /\ serving[c] = "nobody"
        /\ \A m \in Cycles : ~Holds(m, c)
    BY <2>1, <2>5 DEF HandsInv
  <2>7. serving' \in [Cases -> {"nobody", "call", "record"}]
    BY <2>4 DEF HandsInv
  <2>. QED BY <1>1, <2>1, <2>3, <2>4, <2>5, <2>6, <2>7, OneCaseMoves
<1>6. CASE ExecuteStart(k)
  <2>1. c \in Cases /\ c = Head(cycle[k].todo)
    BY <1>6, WorksOnACase DEF ExecuteStart, WorkPhases
  <2>2. /\ Started(c, "EXECUTING") /\ UNCHANGED <<serving, tracked>>
        /\ cycle' = [cycle EXCEPT ![k].phase = "call"] /\ cycle[k].phase = "execute"
    BY <1>6 DEF ExecuteStart, ElsewhereUnchanged, Goto, Phase
  <2>. HIDE DEF c
  <2>3. /\ stage[c] = "APPROVED" /\ stage'[c] = "EXECUTING" /\ UNCHANGED offer
        /\ \A d \in Cases \ {c} : stage'[d] = stage[d]
    BY <1>3, <2>1, <2>2 DEF Started, Enter
  <2>4. /\ c \notin tracked /\ serving[c] = "nobody" /\ offer[c] = "none"
        /\ \A m \in Cycles : ~Holds(m, c)
    BY <2>1, <2>3 DEF HandsInv, LifecycleInv, NothingOnOfferBetweenRounds
  <2>5. ASSUME NEW m \in Cycles, NEW d \in Cases, Holds(m, d)'
        PROVE  \/ d # c /\ Holds(m, d) /\ cycle'[m] = cycle[m]
               \/ d = c /\ m = k
    BY <1>2, <2>1, <2>2, <2>4, <2>5 DEF Holds
  <2>6. serving' \in [Cases -> {"nobody", "call", "record"}]
    BY <2>2 DEF HandsInv
  <2>. QED BY <1>1, <2>1, <2>2, <2>3, <2>4, <2>5, <2>6, OneCaseMoves
<1>7. CASE CallCreates(k)
  <2>1. c \in Cases /\ c = Head(cycle[k].todo) /\ Holds(k, c)
    BY <1>7, WorksOnACase DEF CallCreates, WorkPhases, Phase, Holds
  <2>2. /\ LinkMade(c) /\ UNCHANGED <<serving, tracked>>
        /\ cycle'[k].phase = "record" /\ cycle'[k].todo = cycle[k].todo
        /\ \A m \in Cycles \ {k} : cycle'[m] = cycle[m]
    BY <1>2, <1>7 DEF CallCreates, ElsewhereUnchanged
  <2>. HIDE DEF c
  <2>3. /\ UNCHANGED stage /\ \A d \in Cases \ {c} : offer'[d] = offer[d]
    BY <1>3, <2>1, <2>2 DEF LinkMade
  <2>4. /\ stage[c] = "EXECUTING" /\ c \notin tracked /\ serving[c] = "nobody"
        /\ \A m \in Cycles : Holds(m, c) => m = k
    BY <2>1 DEF HandsInv
  <2>5. ASSUME NEW m \in Cycles, NEW d \in Cases, Holds(m, d)'
        PROVE  \/ d # c /\ Holds(m, d) /\ cycle'[m] = cycle[m]
               \/ d = c /\ m = k
    BY <2>1, <2>2, <2>4, <2>5 DEF Holds
  <2>6. serving' \in [Cases -> {"nobody", "call", "record"}]
    BY <2>2 DEF HandsInv
  <2>. QED BY <1>1, <2>1, <2>2, <2>3, <2>4, <2>5, <2>6, OneCaseMoves
<1>8. CASE CallFails(k) \/ Recorded(k) \/ Unresolved(k)
  <2>1. c \in Cases /\ Holds(k, c)
    BY <1>8, WorksOnACase DEF CallFails, Recorded, Unresolved, WorkPhases, Phase, Holds
  <2>2. /\ UNCHANGED serving
        /\ \/ HandOver(c) /\ UNCHANGED tracked
           \/ UNCHANGED lifecycleVars /\ tracked' = tracked \cup {c}
    BY <1>8 DEF CallFails, Recorded, Unresolved, ElsewhereUnchanged
  <2>3. \A m \in Cycles, d \in Cases :
          Holds(m, d)' => m # k /\ Holds(m, d) /\ cycle'[m] = cycle[m]
    BY <1>8, HandsFreed
  <2>. HIDE DEF c
  <2>4. /\ stage[c] = "EXECUTING" /\ c \notin tracked /\ serving[c] = "nobody"
        /\ \A m \in Cycles : Holds(m, c) => m = k
    BY <2>1 DEF HandsInv
  <2>5. /\ UNCHANGED offer /\ \A d \in Cases \ {c} : stage'[d] = stage[d]
        /\ c \in tracked' => stage'[c] = "EXECUTING"
    BY <1>3, <2>1, <2>2, <2>4 DEF HandOver, Enter, lifecycleVars
  <2>6. serving' \in [Cases -> {"nobody", "call", "record"}]
    BY <2>2 DEF HandsInv
  <2>. QED BY <1>1, <2>1, <2>2, <2>3, <2>4, <2>5, <2>6, OneCaseMoves
<1>. QED BY <1>4, <1>5, <1>6, <1>7, <1>8 DEF CycleStep

(* ... when the background task, an operator, a customer or a webhook has. *)
LEMMA HandsOfTheWorld ==
  ASSUME HandsInv, CycleInv, World
  PROVE  HandsInv'
<1>1. [Next]_lifecycleVars
  BY WorldFollows
<1>2. /\ DOMAIN stage = Cases /\ DOMAIN offer = Cases
      /\ serving \in [Cases -> {"nobody", "call", "record"}]
  BY DEF HandsInv, LifecycleInv, LifecycleTypeOK
<1>3. CASE StartRunner \/ StopRunner \/ CaseArrives
  <2>1. \A m \in Cycles, d \in Cases : Holds(m, d)' => Holds(m, d) /\ cycle'[m] = cycle[m]
    <3>1. CASE StopRunner
      BY <3>1, HandsFreed, CycleAssumption
    <3>2. CASE UNCHANGED cycle
      BY <3>2 DEF Holds
    <3>. QED BY <1>3, <3>1, <3>2 DEF StartRunner, CaseArrives
  <2>2. UNCHANGED <<lifecycleVars, serving, tracked>>
    BY <1>3 DEF StartRunner, StopRunner, CaseArrives
  <2>. QED BY <2>1, <2>2, NoCaseMoves
<1>4. ASSUME NEW c \in Cases, CustomerPays(c) \/ LinkEnds(c)
      PROVE  HandsInv'
  <2>1. /\ Settle(c) /\ UNCHANGED <<cycle, serving, tracked>>
    BY <1>4 DEF CustomerPays, LinkEnds, ElsewhereUnchanged
  <2>2. /\ UNCHANGED stage /\ offer[c] = "open"
        /\ \A d \in Cases \ {c} : offer'[d] = offer[d]
    BY <1>2, <2>1 DEF Settle
  <2>3. LifecycleInv'
    BY <1>1, LifecycleStep DEF HandsInv
  <2>4. \A m \in Cycles, d \in Cases : Holds(m, d)' <=> Holds(m, d)
    BY <2>1 DEF Holds
  <2>. QED BY <1>2, <2>1, <2>2, <2>3, <2>4 DEF HandsInv
<1>5. ASSUME NEW c \in Cases,
             \/ OperatorDiagnoses(c) \/ OperatorExecutes(c) \/ OperatorCalls(c)
             \/ OperatorRecords(c) \/ PaymentArrives(c) \/ FailureArrives(c)
      PROVE  HandsInv'
  <2>1. UNCHANGED cycle
    BY <1>5 DEF OperatorDiagnoses, OperatorExecutes, OperatorCalls, OperatorRecords,
                PaymentArrives, FailureArrives
  <2>2. \A d \in Cases \ {c} :
          /\ stage'[d] = stage[d] /\ offer'[d] = offer[d] /\ serving'[d] = serving[d]
          /\ d \in tracked' => d \in tracked
    BY <1>2, <1>5
    DEF OperatorDiagnoses, OperatorExecutes, OperatorCalls, OperatorRecords, PaymentArrives,
        FailureArrives, Diagnosed, Started, LinkMade, HandOver, Enter, ElsewhereUnchanged,
        lifecycleVars
  <2>3. serving' \in [Cases -> {"nobody", "call", "record"}]
    BY <1>2, <1>5
    DEF OperatorDiagnoses, OperatorExecutes, OperatorCalls, OperatorRecords, PaymentArrives,
        FailureArrives, ElsewhereUnchanged
  <2>4. /\ c \in tracked => stage[c] = "EXECUTING" /\ serving[c] = "nobody"
        /\ serving[c] # "nobody" => stage[c] = "EXECUTING"
        /\ stage[c] = "APPROVED" => offer[c] = "none"
    BY DEF HandsInv, LifecycleInv, NothingOnOfferBetweenRounds
  <2>5. \A m \in Cycles : ~Holds(m, c)
    <3>1. \/ stage[c] # "EXECUTING" \/ serving[c] # "nobody" \/ c \in tracked
      BY <1>5 DEF OperatorDiagnoses, OperatorExecutes, OperatorCalls, OperatorRecords,
                  PaymentArrives, FailureArrives, Diagnosed, Started
    <3>. QED BY <3>1 DEF HandsInv
  <2>6. /\ c \in tracked' => stage'[c] = "EXECUTING" /\ serving'[c] = "nobody"
        /\ serving'[c] # "nobody" => stage'[c] = "EXECUTING"
        /\ serving'[c] = "call" => offer'[c] = "none"
    <3>1. CASE OperatorDiagnoses(c)
      BY <1>2, <2>4, <3>1 DEF OperatorDiagnoses, Diagnosed, ElsewhereUnchanged
    <3>2. CASE OperatorExecutes(c)
      BY <1>2, <2>4, <3>2 DEF OperatorExecutes, Started, Enter
    <3>3. CASE OperatorCalls(c)
      BY <1>2, <2>4, <3>3 DEF OperatorCalls, LinkMade, HandOver
    <3>4. CASE OperatorRecords(c)
      BY <1>2, <2>4, <3>4 DEF OperatorRecords, HandOver, lifecycleVars
    <3>5. CASE PaymentArrives(c) \/ FailureArrives(c)
      BY <1>2, <2>4, <3>5 DEF PaymentArrives, FailureArrives
    <3>. QED BY <1>5, <3>1, <3>2, <3>3, <3>4, <3>5
  <2>7. \A m \in Cycles, d \in Cases :
          Holds(m, d)' => d # c /\ Holds(m, d) /\ cycle'[m] = cycle[m]
    BY <2>1, <2>5 DEF Holds
  <2>8. Runner \in Cycles
    BY CycleAssumption
  <2>. QED BY <1>1, <2>2, <2>3, <2>6, <2>7, <2>8, OneCaseMoves
<1>. QED BY <1>3, <1>4, <1>5 DEF World

(* Any number of cycles work through lists that age, among any number of   *)
(* operators, customers and webhooks: all they ever do to a case is what   *)
(* the lifecycle allows, although no service looks at more than a status,  *)
(* and a cycle asks the provider only for a case in execution with nothing *)
(* on offer.                                                               *)
THEOREM LifecycleFollowed == CycleSpec => CyclesFollowLifecycle
<1>. DEFINE Followed ==
       /\ [Next]_lifecycleVars
       /\ \A k \in Cycles :
            Len(cycle'[k].called) > Len(cycle[k].called) =>
              LET c == Last(cycle'[k].called) IN stage[c] = "EXECUTING" /\ offer[c] = "none"
            Inv == HandsInv /\ CycleInv
<1>1. CycleInit => Inv
  <2>1. CycleInit => LifecycleInv
    BY LifecycleAssumption
    DEF CycleInit, Init, LifecycleInv, LifecycleTypeOK, NothingOnOfferBetweenRounds,
        CreditedIsPaid, CommittedStatuses, TransientStatuses, Statuses
  <2>2. CycleInit => \A k \in Cycles, c \in Cases : ~Holds(k, c)
    BY DEF CycleInit, NoCycle, Holds
  <2>3. CycleInit => /\ serving = [c \in Cases |-> "nobody"] /\ tracked = {}
    BY DEF CycleInit
  <2>. QED BY <2>1, <2>2, <2>3, CycleInvInit DEF HandsInv
<1>2. Inv /\ [CycleNext]_allVars => Inv'
  <2>. SUFFICES ASSUME Inv, [CycleNext]_allVars PROVE Inv'
    OBVIOUS
  <2>1. CycleInv'
    BY CycleInvStep
  <2>2. CASE UNCHANGED allVars
    <3>1. UNCHANGED <<lifecycleVars, serving, tracked>> /\ UNCHANGED cycle
      BY <2>2 DEF allVars
    <3>2. \A m \in Cycles, d \in Cases : Holds(m, d)' => Holds(m, d) /\ cycle'[m] = cycle[m]
      BY <3>1 DEF Holds
    <3>. QED BY <2>1, <3>1, <3>2, NoCaseMoves
  <2>3. CASE CycleNext
    BY <2>1, <2>3, HandsOfCycles, HandsOfTheWorld DEF CycleNext
  <2>. QED BY <2>2, <2>3
<1>3. Inv /\ [CycleNext]_allVars => [Followed]_allVars
  <2>. SUFFICES ASSUME Inv, CycleNext PROVE Followed
    OBVIOUS
  <2>1. [Next]_lifecycleVars
    BY CycleFollows, WorldFollows DEF CycleNext
  <2>2. ASSUME NEW k \in Cycles, Len(cycle'[k].called) > Len(cycle[k].called)
        PROVE  LET c == Last(cycle'[k].called) IN stage[c] = "EXECUTING" /\ offer[c] = "none"
    <3>1. /\ CallCreates(k) \/ CallFails(k)
          /\ Last(cycle'[k].called) = Current(k)
      BY <2>2, OnlyCallsAsk
    <3>2. Phase(k) = "call"
      BY <3>1 DEF CallCreates, CallFails
    <3>3. Current(k) \in Cases /\ Holds(k, Current(k))
      BY <3>2, WorksOnACase DEF WorkPhases, Phase, Holds
    <3>. QED BY <3>1, <3>2, <3>3 DEF HandsInv, Phase
  <2>. QED BY <2>1, <2>2
<1>4. CycleSpec => [][Followed]_allVars
  BY <1>1, <1>2, <1>3, PTL DEF CycleSpec
<1>. QED BY <1>4 DEF CyclesFollowLifecycle
============================================================================
