------------------------- MODULE RecoveryProperties -------------------------
(***************************************************************************)
(* Fairness of the recovery pipeline, and what is claimed of it.           *)
(*                                                                         *)
(* NoDoubleCharge, OneExecutor and RoundResolvedByItsLink hold when all    *)
(* deliveries of one event carry the same dedup key (one element in        *)
(* KeySources); the other safety properties hold with any number of them.  *)
(***************************************************************************)
EXTENDS RecoveryPipeline
-----------------------------------------------------------------------------
(* Fairness.  The event loop runs every coroutine that is not blocked; AI  *)
(* and provider calls time out; a link carries expire_by, so the provider  *)
(* closes it; a notification is redelivered until it is answered 2xx.      *)
(* Nothing is assumed of crashes, the clock, or of who asks for a          *)
(* diagnosis or an execution.                                              *)
Unfinished(s) == pc[s] # "idle" /\ SessionStep(s)

Deliver(e) ==
  e \notin acked /\ \E s \in Sessions : WebhookDuplicate(s, e) \/ WebhookArrive(s, e)

Fairness ==
  /\ \A s \in Sessions : WF_vars(Unfinished(s))
  /\ \A l \in Links : WF_vars(ProviderCloses(l))
  /\ \A e \in Links \X KeySources : SF_vars(Deliver(e))

FairSpec == Spec /\ Fairness
-----------------------------------------------------------------------------
(* Properties *)

(* The rows, the ledger and the sessions hold values of their types, and   *)
(* no transient status is ever committed.                                  *)
TypeOK ==
  /\ case \in [Cases -> Rows]
  /\ \A c \in Cases : case[c].status \in CommittedStatuses
  /\ attempt \in [Links -> {"none", "in_progress", "succeeded", "failed"}]
  /\ request \in [Links -> {"none"} \cup OpenOrClosed]
  /\ owner \in [Links -> Cases \cup {None}]
  /\ claimed \subseteq Events
  /\ day \in 0..LastDay
  /\ link \in [Links -> {"none"} \cup OpenOrClosed]
  /\ wire \subseteq Links
  /\ acked \subseteq Events
  /\ pc \in [Sessions -> PCs]
  /\ target \in [Sessions -> Cases \cup {None}]
  /\ copy \in [Sessions -> Rows]
  /\ ref \in [Sessions -> Subjects \cup {None}]
  /\ key \in [Sessions -> KeySources \cup {None}]
  /\ snap \in [Sessions -> {"none"} \cup OpenOrClosed]
  /\ crashes \in 0..MaxCrashes

LinksOf(c) == {l \in Links : owner[l] = c}

(* Some delivery about the link has been claimed.                          *)
Handled(l) == \E k \in KeySources : <<l, k>> \in claimed

(* Something the customer can still pay, has paid in full, or that the     *)
(* database still lists as payable.                                        *)
Outstanding(l) ==
  \/ l \in wire
  \/ link[l] \in {"created", "paid"}
  \/ request[l] \in {"created", "paid"}

(* A customer is never asked twice: at most one link of a case is on its   *)
(* way, payable or paid, whatever double executions, redeliveries,         *)
(* ambiguous answers and crashes happen.                                   *)
NoDoubleCharge ==
  \A c \in Cases : \A l, m \in LinksOf(c) :
     Outstanding(l) /\ Outstanding(m) => l = m

(* Revenue is counted exactly when a case is RECOVERED, once, in full, and *)
(* behind it stands one claimed event of a link the provider closed paid.  *)
CreditMatchesPayment ==
  \A c \in Cases :
     IF case[c].status = "RECOVERED"
     THEN /\ case[c].recovered = Amount[c]
          /\ \E l \in LinksOf(c) :
               Handled(l) /\ link[l] = "paid" /\ request[l] = "paid"
     ELSE case[c].recovered = 0

(* current_attempt_number counts the payment requests recorded for the     *)
(* case: no increment is lost to a concurrent writer or made twice.        *)
AttemptsMatchRequests ==
  \A c \in Cases :
     case[c].attempts = Cardinality({l \in LinksOf(c) : request[l] # "none"})

ExecutingPCs == {"exec_claimed", "exec_wait", "exec_unsure", "exec_record",
                 "exec_failed"}

(* A double-clicked Execute: between the commit of EXECUTING and the end   *)
(* of the execution one session owns the case, and nobody has moved it.    *)
OneExecutor ==
  \A s \in Sessions : pc[s] \in ExecutingPCs =>
     /\ case[target[s]] = copy[s]
     /\ case[target[s]].status = "EXECUTING"
     /\ \A t \in Sessions :
          pc[t] \in ExecutingPCs /\ target[t] = target[s] => t = s

(* An approval can only lapse by the passing of time: the re-check of an   *)
(* APPROVED case finds the expired window or nothing, and its action has   *)
(* an executor.                                                            *)
OnlyTimeRevokesApproval ==
  \A c \in Cases : LET row == case[c] IN
     row.status = "APPROVED" =>
       /\ row.action \in ExecutableActions
       /\ EvaluatePolicy(PolicyInput(c, row, row.status, row.action, row.confidence))
            \subseteq {"RECOVERY_WINDOW_EXPIRED"}

(* What one committed transaction may do to a status.                      *)
TransactionMoves(st) ==
  CASE st = "DISCOVERED" -> {"INELIGIBLE", "APPROVED", "STOPPED", "ESCALATED"}
    [] st = "FAILED"     -> {"APPROVED", "STOPPED", "ESCALATED"}
    [] st = "APPROVED"   -> {"EXECUTING", "ESCALATED"}
    [] st = "EXECUTING"  -> {"RECOVERED", "FAILED", "ESCALATED"}
    [] OTHER             -> {}

(* Whatever snapshot a session decided on, the row it overwrites is the    *)
(* one it read: committed statuses only make the moves of one handler      *)
(* (so a terminal case never changes), the version only grows, and money   *)
(* is credited only by the move to RECOVERED.                              *)
CommitsAreLegal ==
  [][\A c \in Cases : LET old == case[c]  new == case'[c] IN
       /\ old # new => new.version > old.version
       /\ old.status # new.status => new.status \in TransactionMoves(old.status)
       /\ old.recovered # new.recovered =>
            old.status = "EXECUTING" /\ new.status = "RECOVERED"
       /\ old.status \in TerminalStatuses => new = old]_vars

(* A round is resolved by its own link: when an event ends an execution,   *)
(* it is the first one handled for its link, no execution of the case is   *)
(* in flight, and every other link of the case was settled before.         *)
RoundResolvedByItsLink ==
  [][\A c \in Cases :
       /\ case[c].status = "EXECUTING"
       /\ case'[c].status \in {"RECOVERED", "FAILED"}
       => /\ \E l \in LinksOf(c) :
               /\ ~Handled(l) /\ Handled(l)'
               /\ \A m \in LinksOf(c) \ {l} :
                    Handled(m) /\ link[m] \in ClosedStatuses \ {"paid"}
          /\ \A s \in Sessions : pc[s] \in ExecutingPCs => target[s] # c]_vars

(* No wait cycle over row locks and uncommitted dedup rows: every request  *)
(* ends.                                                                   *)
SessionsFinish == \A s \in Sessions : pc[s] # "idle" ~> pc[s] = "idle"

(* Redelivery works: once the payment request of an executing case is      *)
(* recorded and its event is neither claimed nor in the hands of a handler *)
(* that looked too early, the case is resolved, through every crash,       *)
(* stale rollback and lost race of the handlers.                           *)
Tracked(l) ==
  /\ request[l] # "none"
  /\ case[owner[l]].status = "EXECUTING"
  /\ ~Handled(l)
  /\ \A s \in Sessions : ~(pc[s] = "hook_unmatched" /\ ref[s] = l)

TrackedLinkResolves ==
  \A l \in Links :
     Tracked(l) ~> owner[l] # None /\ case[owner[l]].status \in {"RECOVERED", "FAILED"}
-----------------------------------------------------------------------------
(* What the documentation says and the code does not do *)

(* docs/recovery-state-machine.md: max_retry_count is one of the limits    *)
(* that force the FAILED loop to end.                                      *)
RetryCapEndsLoop == \A c \in Cases : case[c].attempts <= MaxRetryCount

(* docs/architecture.md: a payment request row is updated by webhook and   *)
(* reflects the current provider state; so it does once the link's event   *)
(* has been answered.                                                      *)
AnsweredEventReflected ==
  \A l \in Links :
     request[l] # "none" /\ (\E k \in KeySources : <<l, k>> \in acked)
       => request[l] = link[l]

(* docs/razorpay-integration.md: a redelivered webhook is short-circuited  *)
(* to a duplicate before any state change is attempted.  So a delivery     *)
(* about a link whose end is on record leaves the round of another link    *)
(* alone.                                                                  *)
RedeliverySparesLaterRound ==
  [][\A l \in Links :
       /\ {e \in claimed' \ claimed : e[1] = l} # {}
       /\ Handled(l)
       /\ request[l] = link[l]
       /\ \E m \in LinksOf(owner[l]) \ {l} : Outstanding(m)
       => case' = case]_vars

(* docs/recovery-state-machine.md: every case ends recovered, halted, or   *)
(* with a human.  An execution in particular comes to an end.              *)
ExecutionEnds ==
  \A c \in Cases : case[c].status = "EXECUTING" ~> case[c].status # "EXECUTING"
=============================================================================
