-------------------------- MODULE RecoveryPipeline --------------------------
(***************************************************************************)
(* Diagnosis, execution and webhook processing of recovery cases, run by   *)
(* concurrent database sessions against one Postgres and one payment       *)
(* provider (services/diagnosis_service.py, execution_service.py,          *)
(* webhook_service.py, concurrency.py).                                    *)
(*                                                                         *)
(* Every handler is split at the awaits where other sessions can be seen   *)
(* or can interfere: the read of the case, the first flush (which takes    *)
(* the row lock and compares the version), the AI call, the provider call  *)
(* and each commit.  A flush directly followed by its commit is one        *)
(* action: what it wrote is visible to nobody in between.                  *)
(*                                                                         *)
(* Left out: the audit rows (they commit with the change they describe),   *)
(* free text and failure codes, and amounts other than "in full".          *)
(***************************************************************************)
EXTENDS Policy, FiniteSets

CONSTANTS
  Cases,            \* recovery cases, discovered on day 0
  Sessions,         \* database sessions, one per request or cycle in progress
  Links,            \* execution references: attempt, payment request and link
  NoiseEvents,      \* webhook events that carry no paid/expired/cancelled link
  KeySources,       \* the dedup keys deliveries of one event may arrive with:
                    \* the event id header, or the key built from the payload
  None,
  Amount,           \* payment.amount of each case
  FailedPayments,   \* the cases whose payment has status FAILED
  Recommendations,  \* what the AI, or its fallback, may answer
  LinkOutcomes,     \* how the provider may close a link
  LastDay,          \* bound: the clock stops here
  MaxCrashes        \* bound: sessions lost half-way

OpenOrClosed == {"created", "paid", "underpaid", "expired", "cancelled"}
ClosedStatuses == OpenOrClosed \ {"created"}

ASSUME PipelineAssumption ==
  /\ None \notin Cases \cup Sessions \cup Links \cup NoiseEvents \cup KeySources
  /\ Links \cap NoiseEvents = {}
  /\ Amount \in [Cases -> Nat]
  /\ FailedPayments \subseteq Cases
  /\ Recommendations \subseteq [action : Actions, confidence : 0..100]
  /\ LinkOutcomes \subseteq ClosedStatuses
  /\ LastDay \in Nat
  /\ MaxCrashes \in Nat

VARIABLES
  case,      \* committed RecoveryCase rows
  attempt,   \* committed RecoveryAttempt rows, by reference
  request,   \* committed RecoveryPaymentRequest rows, by reference
  owner,     \* the case a reference was drawn for
  claimed,   \* committed ProcessedWebhookEvent rows
  day,       \* days since discovery
  link,      \* the provider's links
  wire,      \* creation requests sent and not yet handled by the provider
  acked,     \* events answered with a 2xx
  pc,        \* where each session is
  target,    \* the case a session works on
  copy,      \* the session's ORM copy of that row, as read or as flushed
  ref,       \* the reference, or the event's subject, a session works on
  key,       \* where the dedup key of the session's delivery came from
  snap,      \* the link status the provider reported to the session
  crashes

dbVars       == <<case, attempt, request, owner, claimed>>
providerVars == <<link, wire, acked>>
sessionVars  == <<pc, target, copy, ref, key, snap>>
vars == <<dbVars, providerVars, sessionVars, day, crashes>>

Subjects == Links \cup NoiseEvents
Events == Subjects \X KeySources   \* dedup keys

Rows == [status : Statuses, version : Nat, attempts : Nat, recovered : Nat,
         action : Actions \cup {None}, confidence : 0..100]

NewRow == [status |-> "DISCOVERED", version |-> 1, attempts |-> 0,
           recovered |-> 0, action |-> None, confidence |-> 0]

PCs == {"idle",
        "diag_read", "diag_ai",
        "exec_allowed", "exec_blocked", "exec_claimed", "exec_wait",
        "exec_unsure", "exec_record", "exec_failed",
        "hook_start", "hook_claimed", "hook_unmatched", "hook_read"}
-----------------------------------------------------------------------------
Init ==
  /\ case = [c \in Cases |-> NewRow]
  /\ attempt = [l \in Links |-> "none"]
  /\ request = [l \in Links |-> "none"]
  /\ owner = [l \in Links |-> None]
  /\ claimed = {}
  /\ day = 0
  /\ link = [l \in Links |-> "none"]
  /\ wire = {}
  /\ acked = {}
  /\ pc = [s \in Sessions |-> "idle"]
  /\ target = [s \in Sessions |-> None]
  /\ copy = [s \in Sessions |-> NewRow]
  /\ ref = [s \in Sessions |-> None]
  /\ key = [s \in Sessions |-> None]
  /\ snap = [s \in Sessions |-> "none"]
  /\ crashes = 0

(* The session ends: whatever it had not committed is gone.                *)
Leave(s) ==
  /\ pc' = [pc EXCEPT ![s] = "idle"]
  /\ target' = [target EXCEPT ![s] = None]
  /\ copy' = [copy EXCEPT ![s] = NewRow]
  /\ ref' = [ref EXCEPT ![s] = None]
  /\ key' = [key EXCEPT ![s] = None]
  /\ snap' = [snap EXCEPT ![s] = "none"]

GoTo(s, label) == pc' = [pc EXCEPT ![s] = label]

(* Only a diagnosis keeps a case row locked across an await: it has        *)
(* flushed DIAGNOSING and calls the AI before it commits.                  *)
Locked(c) == \E s \in Sessions : pc[s] = "diag_ai" /\ target[s] = c

(* UPDATE ... WHERE version = <the version read>: waits for the row lock,  *)
(* then matches the row (Fresh) or matches nothing (StaleDataError).       *)
(* Mutant: an UPDATE without the version.                                  *)
UnversionedFresh(s) == ~Locked(target[s])

Fresh(s) == ~Locked(target[s]) /\ case[target[s]].version = copy[s].version

(* One _transition() per element of the path, each flush bumping version.  *)
Moved(row, path) ==
  [row EXCEPT !.status = path[Len(path)], !.version = @ + Len(path)]

Save(s, row) == case' = [case EXCEPT ![target[s]] = row]
-----------------------------------------------------------------------------
(* diagnose_recovery_case *)

Diagnosable == {"DISCOVERED", "ELIGIBLE", "FAILED"}

DiagnoseRead(s, c) ==
  /\ pc[s] = "idle"
  /\ \/ case[c].status \in Diagnosable
     \/ CanTransition(case[c].status, "DIAGNOSING")
  /\ GoTo(s, "diag_read")
  /\ target' = [target EXCEPT ![s] = c]
  /\ copy' = [copy EXCEPT ![s] = case[c]]
  /\ UNCHANGED <<dbVars, providerVars, ref, key, snap, day, crashes>>

Eligible(c) == c \in FailedPayments /\ Amount[c] > 0

(* A new case that is not eligible is closed at once.                      *)
DiagnoseIneligible(s) ==
  /\ pc[s] = "diag_read"
  /\ Fresh(s)
  /\ copy[s].status = "DISCOVERED"
  /\ ~Eligible(target[s])
  /\ Save(s, Moved(copy[s], <<"INELIGIBLE">>))
  /\ Leave(s)
  /\ UNCHANGED <<attempt, request, owner, claimed, providerVars, day, crashes>>

(* Mutant: the diagnosis commits before it calls the AI.                   *)
CommittedDiagnoseBegin(s) ==
  /\ pc[s] = "diag_read"
  /\ Fresh(s)
  /\ copy' = [copy EXCEPT ![s] = Moved(copy[s], <<"DIAGNOSING">>)]
  /\ Save(s, Moved(copy[s], <<"DIAGNOSING">>))
  /\ GoTo(s, "diag_ai")
  /\ UNCHANGED <<attempt, request, owner, claimed, providerVars, target, ref,
                 key, snap, day, crashes>>

(* The flush of DIAGNOSING, and of ELIGIBLE before it for a new case: the  *)
(* row is now locked, the committed row unchanged.                         *)
DiagnoseBegin(s) ==
  /\ pc[s] = "diag_read"
  /\ Fresh(s)
  /\ copy[s].status = "DISCOVERED" => Eligible(target[s])
  /\ LET path == IF copy[s].status = "DISCOVERED"
                 THEN <<"ELIGIBLE", "DIAGNOSING">> ELSE <<"DIAGNOSING">>
     IN  /\ LegalWalk(copy[s].status, path)
         /\ copy' = [copy EXCEPT ![s] = Moved(copy[s], path)]
  /\ GoTo(s, "diag_ai")
  /\ UNCHANGED <<dbVars, providerVars, target, ref, key, snap, day, crashes>>

PolicyInput(c, row, status, action, confidence) ==
  [status |-> status, action |-> action, attempt |-> row.attempts,
   days |-> day, contacts |-> 0,  \* nothing increments customer_contact_count
   confidence |-> confidence, amount |-> Amount[c]]

(* The AI answered (or its fallback did): recommend, review, resolve and   *)
(* commit.                                                                 *)
DiagnoseFinish(s) ==
  /\ pc[s] = "diag_ai"
  /\ \E rec \in Recommendations :
       LET codes == EvaluatePolicy(PolicyInput(target[s], copy[s],
                       "POLICY_REVIEW", rec.action, rec.confidence))
           path == <<"RECOMMENDED", "POLICY_REVIEW",
                     ResolveNextStatus(rec.action, codes)>>
       IN  /\ LegalWalk(copy[s].status, path)
           /\ Save(s, [Moved(copy[s], path) EXCEPT
                         !.action = rec.action, !.confidence = rec.confidence])
  /\ Leave(s)
  /\ UNCHANGED <<attempt, request, owner, claimed, providerVars, day, crashes>>
-----------------------------------------------------------------------------
(* execute_recovery_case *)

UnusedLinks == {l \in Links : attempt[l] = "none"}

(* Links is the bound on executions: one starts only while a reference is  *)
(* left for it.                                                            *)
LinkLeft ==
  Cardinality({t \in Sessions : pc[t] \in {"exec_allowed", "exec_claimed"}})
    < Cardinality(UnusedLinks)

(* The read, the APPROVED -> EXECUTING gate and the policy re-check.       *)
ExecuteRead(s, c) ==
  /\ pc[s] = "idle"
  /\ LinkLeft
  /\ CanTransition(case[c].status, "EXECUTING")
  /\ LET row == case[c]
         ok  == /\ Allowed(PolicyInput(c, row, row.status, row.action, row.confidence))
                /\ row.action \in ExecutableActions
     IN  GoTo(s, IF ok THEN "exec_allowed" ELSE "exec_blocked")
  /\ target' = [target EXCEPT ![s] = c]
  /\ copy' = [copy EXCEPT ![s] = case[c]]
  /\ UNCHANGED <<dbVars, providerVars, ref, key, snap, day, crashes>>

(* Re-check failed: EXECUTING and ESCALATED are flushed and committed.     *)
ExecuteBlocked(s) ==
  /\ pc[s] = "exec_blocked"
  /\ Fresh(s)
  /\ LegalWalk(copy[s].status, <<"EXECUTING", "ESCALATED">>)
  /\ Save(s, Moved(copy[s], <<"EXECUTING", "ESCALATED">>))
  /\ Leave(s)
  /\ UNCHANGED <<attempt, request, owner, claimed, providerVars, day, crashes>>

(* EXECUTING is committed before the provider is called.                   *)
ExecuteClaim(s) ==
  /\ pc[s] = "exec_allowed"
  /\ Fresh(s)
  /\ LegalWalk(copy[s].status, <<"EXECUTING">>)
  /\ Save(s, Moved(copy[s], <<"EXECUTING">>))
  /\ copy' = [copy EXCEPT ![s] = Moved(copy[s], <<"EXECUTING">>)]
  /\ GoTo(s, "exec_claimed")
  /\ UNCHANGED <<attempt, request, owner, claimed, providerVars, target, ref,
                 key, snap, day, crashes>>

(* A fresh reference, its attempt committed, and the request sent.         *)
ExecuteCall(s, l) ==
  /\ pc[s] = "exec_claimed"
  /\ l \in UnusedLinks
  /\ attempt' = [attempt EXCEPT ![l] = "in_progress"]
  /\ owner' = [owner EXCEPT ![l] = target[s]]
  /\ wire' = wire \cup {l}
  /\ ref' = [ref EXCEPT ![s] = l]
  /\ GoTo(s, "exec_wait")
  /\ UNCHANGED <<case, request, claimed, link, acked, target, copy, key, snap,
                 day, crashes>>

(* The provider answered 2xx with the new link.                            *)
ExecuteAccepted(s) ==
  /\ pc[s] = "exec_wait"
  /\ link[ref[s]] # "none"
  /\ snap' = [snap EXCEPT ![s] = "created"]
  /\ GoTo(s, "exec_record")
  /\ UNCHANGED <<dbVars, providerVars, target, copy, ref, key, day, crashes>>

(* A definite refusal: auth, rate limit or validation error.               *)
ExecuteRefused(s) ==
  /\ pc[s] = "exec_wait"
  /\ ref[s] \in wire
  /\ wire' = wire \ {ref[s]}
  /\ GoTo(s, "exec_failed")
  /\ UNCHANGED <<dbVars, link, acked, target, copy, ref, key, snap, day, crashes>>

(* Timeout, lost response or 5xx: the link may or may not exist, and the   *)
(* request may still be on its way.                                        *)
ExecuteAmbiguous(s) ==
  /\ pc[s] = "exec_wait"
  /\ GoTo(s, "exec_unsure")
  /\ UNCHANGED <<dbVars, providerVars, target, copy, ref, key, snap, day, crashes>>

(* find_payment_link_by_reference finds the link: adopt it as it is now.   *)
ReconcileFound(s) ==
  /\ pc[s] = "exec_unsure"
  /\ link[ref[s]] # "none"
  /\ snap' = [snap EXCEPT ![s] = link[ref[s]]]
  /\ GoTo(s, "exec_record")
  /\ UNCHANGED <<dbVars, providerVars, target, copy, ref, key, day, crashes>>

(* Mutant: an unresolved creation is retried with a new reference.         *)
RetriedReconcileUnresolved(s) ==
  /\ pc[s] = "exec_unsure"
  /\ GoTo(s, "exec_claimed")
  /\ ref' = [ref EXCEPT ![s] = None]
  /\ UNCHANGED <<dbVars, providerVars, target, copy, key, snap, day, crashes>>

(* It finds nothing, or fails itself.                                      *)
ReconcileUnresolved(s) ==
  /\ pc[s] = "exec_unsure"
  /\ GoTo(s, "exec_failed")
  /\ UNCHANGED <<dbVars, providerVars, target, copy, ref, key, snap, day, crashes>>

(* Mutant: the recorded link is not counted as an attempt.                 *)
UncountedExecuteRecord(s) ==
  /\ pc[s] = "exec_record"
  /\ Fresh(s)
  /\ request' = [request EXCEPT ![ref[s]] = snap[s]]
  /\ attempt' = [attempt EXCEPT ![ref[s]] = "succeeded"]
  /\ Leave(s)
  /\ UNCHANGED <<case, owner, claimed, providerVars, day, crashes>>

(* _record_payment_link_created: payment request, attempt and the case's   *)
(* attempt number in one commit.                                           *)
ExecuteRecord(s) ==
  /\ pc[s] = "exec_record"
  /\ Fresh(s)
  /\ request' = [request EXCEPT ![ref[s]] = snap[s]]
  /\ attempt' = [attempt EXCEPT ![ref[s]] = "succeeded"]
  /\ Save(s, [copy[s] EXCEPT !.attempts = @ + 1, !.version = @ + 1])
  /\ Leave(s)
  /\ UNCHANGED <<owner, claimed, providerVars, day, crashes>>

(* _handle_definite_failure and _escalate in one commit.                   *)
ExecuteEscalate(s) ==
  /\ pc[s] = "exec_failed"
  /\ Fresh(s)
  /\ LegalWalk(copy[s].status, <<"ESCALATED">>)
  /\ attempt' = [attempt EXCEPT ![ref[s]] = "failed"]
  /\ Save(s, Moved(copy[s], <<"ESCALATED">>))
  /\ Leave(s)
  /\ UNCHANGED <<request, owner, claimed, providerVars, day, crashes>>
-----------------------------------------------------------------------------
(* process_webhook_event *)

(* Mutant: the handler acts on any status of the link.                     *)
AnyStatusDeliverable(e) ==
  e[1] \in NoiseEvents \/ (e[1] \in Links /\ link[e[1]] # "none")

(* A closed link has one event; the provider may deliver it any number of  *)
(* times, in any order, before or after it was acknowledged.  Deliveries   *)
(* that come with the same kind of key come with the same key.             *)
Deliverable(e) ==
  e[1] \in NoiseEvents \/ (e[1] \in Links /\ link[e[1]] \in ClosedStatuses)

Event(s) == <<ref[s], key[s]>>

Acknowledge(e) == acked' = acked \cup {e}

(* The ledger already has the delivery's key.                              *)
WebhookDuplicate(s, e) ==
  /\ pc[s] = "idle"
  /\ Deliverable(e)
  /\ e \in claimed
  /\ Acknowledge(e)
  /\ UNCHANGED <<dbVars, link, wire, sessionVars, day, crashes>>

WebhookArrive(s, e) ==
  /\ pc[s] = "idle"
  /\ Deliverable(e)
  /\ e \notin claimed
  /\ ref' = [ref EXCEPT ![s] = e[1]]
  /\ key' = [key EXCEPT ![s] = e[2]]
  /\ GoTo(s, "hook_start")
  /\ UNCHANGED <<dbVars, providerVars, target, copy, snap, day, crashes>>

HoldsClaim == {"hook_claimed", "hook_unmatched", "hook_read"}

(* Mutant: handlers of one event wait for each other before the insert.    *)
MutualClaimSettled(s) ==
  ~\E t \in Sessions \ {s} :
     pc[t] \in HoldsClaim \cup {"hook_start"} /\ Event(t) = Event(s)

(* INSERT of the dedup row: waits for an uncommitted insert of the same    *)
(* key, then inserts, or fails on the unique constraint and rolls back.    *)
ClaimSettled(s) ==
  ~\E t \in Sessions : pc[t] \in HoldsClaim /\ Event(t) = Event(s)

(* Mutant: the dedup key has no unique constraint.                         *)
UnconstrainedWebhookClaim(s) ==
  /\ pc[s] = "hook_start"
  /\ GoTo(s, "hook_claimed")
  /\ UNCHANGED <<dbVars, providerVars, target, copy, ref, key, snap, day, crashes>>

(* The dedup row is inserted, not yet committed.                           *)
WebhookClaim(s) ==
  /\ pc[s] = "hook_start"
  /\ ClaimSettled(s)
  /\ Event(s) \notin claimed
  /\ GoTo(s, "hook_claimed")
  /\ UNCHANGED <<dbVars, providerVars, target, copy, ref, key, snap, day, crashes>>

WebhookLostRace(s) ==
  /\ pc[s] = "hook_start"
  /\ ClaimSettled(s)
  /\ Event(s) \in claimed
  /\ Acknowledge(Event(s))
  /\ Leave(s)
  /\ UNCHANGED <<dbVars, link, wire, day, crashes>>

(* The claim commits with whatever the event changed, and a 2xx is sent.   *)
CommitClaim(s) ==
  /\ claimed' = claimed \cup {Event(s)}
  /\ Acknowledge(Event(s))
  /\ Leave(s)

(* No payment link, or not a status the handler acts on.                   *)
WebhookIgnore(s) ==
  /\ pc[s] = "hook_claimed"
  /\ ref[s] \in NoiseEvents
  /\ CommitClaim(s)
  /\ UNCHANGED <<case, attempt, request, owner, link, wire, day, crashes>>

(* Look the payment request up, and the case behind it.                    *)
WebhookLookup(s) ==
  /\ pc[s] = "hook_claimed"
  /\ ref[s] \in Links
  /\ IF request[ref[s]] = "none"
     THEN GoTo(s, "hook_unmatched") /\ UNCHANGED <<target, copy>>
     ELSE /\ GoTo(s, "hook_read")
          /\ target' = [target EXCEPT ![s] = owner[ref[s]]]
          /\ copy' = [copy EXCEPT ![s] = case[owner[ref[s]]]]
  /\ UNCHANGED <<dbVars, providerVars, ref, key, snap, day, crashes>>

(* A link nobody recorded: audited, claimed, ignored.                      *)
WebhookUnmatched(s) ==
  /\ pc[s] = "hook_unmatched"
  /\ CommitClaim(s)
  /\ UNCHANGED <<case, attempt, request, owner, link, wire, day, crashes>>

(* The case has moved on: the payment request is updated, the case is not. *)
WebhookMovedOn(s) ==
  /\ pc[s] = "hook_read"
  /\ copy[s].status # "EXECUTING"
  /\ request' = [request EXCEPT ![ref[s]] = link[ref[s]]]
  /\ CommitClaim(s)
  /\ UNCHANGED <<case, attempt, owner, link, wire, day, crashes>>

(* Mutant: the amount paid is not compared with the amount due.            *)
StatusOnlyFullyPaid(l) == link[l] \in {"paid", "underpaid"}

FullyPaid(l) == link[l] = "paid"

(* Mutant: a partial payment leaves the round open.                        *)
LenientResolved(row, l) ==
  CASE FullyPaid(l) ->
         [Moved(row, <<"RECOVERED">>) EXCEPT !.recovered = @ + Amount[owner[l]]]
    [] link[l] = "underpaid" -> row
    [] OTHER -> Moved(row, <<"FAILED">>)

(* Paid in full recovers the case and credits the amount; every other end  *)
(* of the link fails the round.                                            *)
Resolved(row, l) ==
  IF FullyPaid(l)
  THEN [Moved(row, <<"RECOVERED">>) EXCEPT !.recovered = @ + Amount[owner[l]]]
  ELSE Moved(row, <<"FAILED">>)

WebhookApply(s) ==
  /\ pc[s] = "hook_read"
  /\ copy[s].status = "EXECUTING"
  /\ Fresh(s)
  /\ request' = [request EXCEPT ![ref[s]] = link[ref[s]]]
  /\ Save(s, Resolved(copy[s], ref[s]))
  /\ CommitClaim(s)
  /\ UNCHANGED <<attempt, owner, link, wire, day, crashes>>
-----------------------------------------------------------------------------
(* guard_against_concurrent_modification: a flush that matched no row      *)
(* rolls the session back, the webhook's claim included, and answers 409.  *)
WritesCase(s) ==
  \/ pc[s] \in {"diag_read", "exec_allowed", "exec_blocked", "exec_record",
                "exec_failed"}
  \/ pc[s] = "hook_read" /\ copy[s].status = "EXECUTING"

StaleRollback(s) ==
  /\ WritesCase(s)
  /\ ~Locked(target[s])
  /\ case[target[s]].version # copy[s].version
  /\ Leave(s)
  /\ UNCHANGED <<dbVars, providerVars, day, crashes>>

(* The process dies, or the request is cancelled or fails, between two     *)
(* steps.                                                                  *)
Crash(s) ==
  /\ crashes < MaxCrashes
  /\ pc[s] # "idle"
  /\ crashes' = crashes + 1
  /\ Leave(s)
  /\ UNCHANGED <<dbVars, providerVars, day>>
-----------------------------------------------------------------------------
(* The provider and the clock *)

ProviderCreates(l) ==
  /\ l \in wire
  /\ wire' = wire \ {l}
  /\ link' = [link EXCEPT ![l] = "created"]
  /\ UNCHANGED <<dbVars, acked, sessionVars, day, crashes>>

(* The customer pays, the link expires, or it is cancelled: once.          *)
ProviderCloses(l) ==
  /\ link[l] = "created"
  /\ \E outcome \in LinkOutcomes : link' = [link EXCEPT ![l] = outcome]
  /\ UNCHANGED <<dbVars, wire, acked, sessionVars, day, crashes>>

Tick ==
  /\ day < LastDay
  /\ day' = day + 1
  /\ UNCHANGED <<dbVars, providerVars, sessionVars, crashes>>
-----------------------------------------------------------------------------
Diagnose(s) ==
  \/ \E c \in Cases : DiagnoseRead(s, c)
  \/ DiagnoseIneligible(s) \/ DiagnoseBegin(s) \/ DiagnoseFinish(s)

Execute(s) ==
  \/ \E c \in Cases : ExecuteRead(s, c)
  \/ ExecuteBlocked(s) \/ ExecuteClaim(s)
  \/ \E l \in Links : ExecuteCall(s, l)
  \/ ExecuteAccepted(s) \/ ExecuteRefused(s) \/ ExecuteAmbiguous(s)
  \/ ReconcileFound(s) \/ ReconcileUnresolved(s)
  \/ ExecuteRecord(s) \/ ExecuteEscalate(s)

Webhook(s) ==
  \/ \E e \in Events : WebhookDuplicate(s, e) \/ WebhookArrive(s, e)
  \/ WebhookClaim(s) \/ WebhookLostRace(s) \/ WebhookIgnore(s)
  \/ WebhookLookup(s) \/ WebhookUnmatched(s) \/ WebhookMovedOn(s)
  \/ WebhookApply(s)

Provider == \E l \in Links : ProviderCreates(l) \/ ProviderCloses(l)

SessionStep(s) == Diagnose(s) \/ Execute(s) \/ Webhook(s) \/ StaleRollback(s)

Next ==
  \/ \E s \in Sessions : SessionStep(s) \/ Crash(s)
  \/ Provider
  \/ Tick

Spec == Init /\ [][Next]_vars
=============================================================================
