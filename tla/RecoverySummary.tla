-------------------------- MODULE RecoverySummary --------------------------
(***************************************************************************)
(* The measured-recovery summary (services/recovery_summary_service.py):   *)
(* one request reads its figures in ten statements while other requests    *)
(* commit between them, because a READ COMMITTED session sees, in each     *)
(* statement, what was committed when that statement began.                *)
(*                                                                         *)
(* A case is reduced to the columns the statements aggregate. Its other    *)
(* transactions, taken apart in RecoveryPipeline, are single commits here. *)
(***************************************************************************)
EXTENDS Naturals, FiniteSets, FiniteSetsExt, Sequences

CONSTANTS
  Cases,       \* recovery cases that may come to exist
  Risk,        \* the revenue each puts at risk
  MaxAttempts, \* bound: attempts per case
  MaxRequests  \* bound: summaries requested

SummaryAssumption ==
  /\ IsFiniteSet(Cases)
  /\ Risk \in [Cases -> Nat \ {0}]
  /\ MaxAttempts \in Nat
  /\ MaxRequests \in Nat

VARIABLES
  row,       \* the committed row of each case
  figures,   \* what the open request has read so far
  next,      \* the statement it executes next; 0 when no request is open
  requests   \* summaries requested

summaryVars == <<row, figures, next, requests>>

Absent == [status |-> "NONE", eligible |-> FALSE, recovered |-> 0,
           open |-> 0, links |-> 0, failures |-> 0]

(* A case counts when its row is there.                                    *)
Rows == {c \in Cases : row[c].status # "NONE"}
InStatus(st) == Cardinality({c \in Rows : row[c].status = st})
Eligible == {c \in Rows : row[c].eligible}
Attempts(c) == row[c].open + row[c].links + row[c].failures

SumOf(f(_), S) == MapThenSumSet(f, S)
Owed(c) == Risk[c]
Recovered(c) == row[c].recovered
Links(c) == row[c].links
Failures(c) == row[c].failures

(* Mutant: the recovered cases are counted before their sum is taken.      *)
CountBeforeSum ==
  <<"cases", "by_status", "eligible", "at_risk", "eligible_revenue",
    "recovered_cases", "recovered", "attempts", "links", "failed">>

(* The statements in the order of the source.                              *)
Statements ==
  <<"cases", "by_status", "eligible", "at_risk", "eligible_revenue",
    "recovered", "recovered_cases", "attempts", "links", "failed">>

(* What one statement returns. by_status is reduced to the two statuses    *)
(* the rates use and the rest.                                             *)
Value(figure) ==
  CASE figure = "cases"            -> Cardinality(Rows)
    [] figure = "by_status"        ->
         [ESCALATED |-> InStatus("ESCALATED"), STOPPED |-> InStatus("STOPPED"),
          all |-> Cardinality(Rows)]
    [] figure = "eligible"         -> Cardinality(Eligible)
    [] figure = "at_risk"          -> SumOf(Owed, Rows)
    [] figure = "eligible_revenue" -> SumOf(Owed, Eligible)
    [] figure = "recovered"        -> SumOf(Recovered, Rows)
    [] figure = "recovered_cases"  ->
         Cardinality({c \in Rows : row[c].recovered > 0})
    [] figure = "attempts"         -> SumOf(Attempts, Rows)
    [] figure = "links"            -> SumOf(Links, Rows)
    [] figure = "failed"           -> SumOf(Failures, Rows)

Nothing == [f \in {} |-> 0]

Init ==
  /\ row = [c \in Cases |-> Absent]
  /\ figures = Nothing /\ next = 0
  /\ requests = 0
----------------------------------------------------------------------------
(* The commits of the other requests *)

Write(c, new) ==
  /\ row' = [row EXCEPT ![c] = new]
  /\ UNCHANGED <<figures, next, requests>>

Discovered(c) ==
  /\ c \notin Rows
  /\ Write(c, [Absent EXCEPT !.status = "DISCOVERED"])

(* A diagnosis of a new case finds out whether it is eligible at all; one  *)
(* of an eligible case decides where it goes.                              *)
Diagnosed(c) ==
  \/ /\ row[c].status = "DISCOVERED"
     /\ Write(c, [row[c] EXCEPT !.status = "INELIGIBLE"])
  \/ /\ row[c].status \in {"DISCOVERED", "FAILED"}
     /\ \E st \in {"APPROVED", "ESCALATED", "STOPPED"} :
          Write(c, [row[c] EXCEPT !.status = st, !.eligible = TRUE])

(* An execution commits its attempt before it calls the provider, and then *)
(* records the link it created or the failure it escalates.                *)
Started(c) ==
  /\ row[c].status = "APPROVED" /\ Attempts(c) < MaxAttempts
  /\ Write(c, [row[c] EXCEPT !.status = "EXECUTING", !.open = 1])

LinkCreated(c) ==
  /\ row[c].open = 1
  /\ Write(c, [row[c] EXCEPT !.open = 0, !.links = @ + 1])

LinkRefused(c) ==
  /\ row[c].open = 1
  /\ Write(c, [row[c] EXCEPT !.status = "ESCALATED", !.open = 0,
                             !.failures = @ + 1])

(* A webhook confirms the payment, or reports that the link ended unpaid.  *)
Paid(c) ==
  /\ row[c].status = "EXECUTING" /\ row[c].open = 0
  /\ Write(c, [row[c] EXCEPT !.status = "RECOVERED",
                             !.recovered = Risk[c]])

Unpaid(c) ==
  /\ row[c].status = "EXECUTING" /\ row[c].open = 0
  /\ Write(c, [row[c] EXCEPT !.status = "FAILED"])
----------------------------------------------------------------------------
(* The request *)

Request ==
  /\ next = 0 /\ requests < MaxRequests
  /\ next' = 1 /\ figures' = Nothing
  /\ requests' = requests + 1
  /\ UNCHANGED row

(* compute_recovery_summary executes its statements one after the other.   *)
Execute ==
  /\ next \in 1..Len(Statements)
  /\ figures' = [f \in DOMAIN figures \cup {Statements[next]} |->
                   IF f = Statements[next] THEN Value(f) ELSE figures[f]]
  /\ next' = next + 1
  /\ UNCHANGED <<row, requests>>

(* The answer leaves; nothing of it stays in the service.                  *)
Answer ==
  /\ next = Len(Statements) + 1
  /\ next' = 0 /\ figures' = Nothing
  /\ UNCHANGED <<row, requests>>

Commit(c) ==
  \/ Discovered(c) \/ Diagnosed(c)
  \/ Started(c) \/ LinkCreated(c) \/ LinkRefused(c)
  \/ Paid(c) \/ Unpaid(c)

Next == Request \/ Execute \/ Answer \/ \E c \in Cases : Commit(c)

Spec == Init /\ [][Next]_summaryVars
----------------------------------------------------------------------------
(* The derived figures, as numerators over denominators. *)

Complete == next = Len(Statements) + 1

(* A rate that is not above one.                                           *)
IsRate(part, whole) == whole # 0 => part <= whole
----------------------------------------------------------------------------
(* Properties *)

(* The average recovery amount is never above what a single case owed:     *)
(* payments confirmed while the figures are being read can only lower it   *)
(* (lines 52-60 take the sum before the count).                            *)
AverageIsOfRealPayments ==
  Complete => figures["recovered"] <=
                figures["recovered_cases"] * Max({Risk[c] : c \in Cases})

(* recovery_rate "is confirmed-recovered / eligible"                       *)
(* (schemas/evaluation.py:62): a share, so never above one.                *)
RecoveryRateIsARate ==
  Complete => IsRate(figures["recovered"], figures["eligible_revenue"])
============================================================================
