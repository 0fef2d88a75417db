----------------------------- MODULE AuditTrail -----------------------------
(***************************************************************************)
(* The audit trail of one recovery case: what diagnosis, execution and     *)
(* webhooks record while they move it (services/audit_service.py and its   *)
(* callers), and what the timeline and the export make of it               *)
(* (services/timeline_service.py, services/audit_export_service.py).       *)
(*                                                                         *)
(* An event is stamped when it is flushed and seen when its transaction    *)
(* commits; readers order events by stamp.  A handler is the sequence of   *)
(* database steps it takes, chosen when it begins.                         *)
(***************************************************************************)
EXTENDS CaseStateMachine, FiniteSets, SequencesExt

CONSTANTS
  Handlers,    \* sessions that serve requests, webhooks and cycles
  MaxBegins,   \* bound on handlers begun
  MaxDeaths,   \* bound on handlers that die half-way
  MaxReads     \* bound on timelines read, 0 or 1

AuditAssumption == MaxBegins \in Nat /\ MaxDeaths \in Nat /\ MaxReads \in 0..1

VARIABLES
  row,      \* the RecoveryCase row: status, version
  trail,    \* the committed audit_events about the case and its attempts
  attempts, \* the committed recovery_attempts of the case
  clock,    \* utcnow()
  copy,     \* the row as each session has it; NoCopy
  script,   \* the steps left of the handler it runs
  pend,     \* the events it has flushed and not committed
  own,      \* the attempt it has created; 0: none
  reader,   \* a GET of the timeline
  begins, deaths

store == <<row, trail, attempts>>
session == <<copy, script, pend, own>>
auditVars == <<store, clock, session, reader, begins, deaths>>

NoCopy == [status |-> "none", version |-> 0]
NoReader == [phase |-> "idle", known |-> {}, shown |-> {}]

(* AuditEvent.  about: 0 for entity_type "recovery_case", otherwise the    *)
(* attempt; from, to: a status change; status: the case_status in its      *)
(* payload.                                                                *)
Event(at, about, what, from, to, status) ==
  [at |-> at, about |-> about, what |-> what, from |-> from, to |-> to, status |-> status]

StatusChange == "recovery_case_status_changed"
Changes(events) == {e \in events : e.what = StatusChange}
----------------------------------------------------------------------------
(* What the handlers do.  touch: an UPDATE of the case that leaves its     *)
(* status alone.                                                           *)
Move(st) == [do |-> "move", arg |-> st]
Note(what) == [do |-> "note", arg |-> what]
AttemptNote(what) == [do |-> "attempt_note", arg |-> what]
Touch == [do |-> "touch", arg |-> "current_attempt_number"]
NewAttempt == [do |-> "attempt", arg |-> "execution_started"]
Commit == [do |-> "commit", arg |-> "none"]

Review(final) ==
  <<Move("DIAGNOSING"), Note("ai_diagnosis_created"),
    Note("recovery_recommendation_created"), Move("RECOMMENDED"),
    Move("POLICY_REVIEW"), Note("policy_evaluated"), Move(final), Commit>>

(* diagnose_recovery_case *)
Diagnoses(st) ==
  LET requested == <<Note("diagnosis_requested")>>
      finals == {"APPROVED", "STOPPED", "ESCALATED"} IN
  CASE st = "DISCOVERED" ->
         {requested \o <<Move("INELIGIBLE"), Commit>>}
         \cup {requested \o <<Move("ELIGIBLE")>> \o Review(f) : f \in finals}
    [] st = "FAILED" -> {requested \o Review(f) : f \in finals}
    [] OTHER -> {}

(* execute_recovery_case *)
Escalate == <<Move("ESCALATED"), Commit>>
LinkCreated == <<Touch, Note("payment_link_created"), Commit>>
Reconcile == <<AttemptNote("provider_ambiguous_result"),
               AttemptNote("provider_state_reconciliation"), Commit>>

Executions(st) ==
  LET gate == <<Note("execution_requested"), Note("policy_rechecked"), Move("EXECUTING")>>
      call == gate \o <<Commit, NewAttempt, Commit>> IN
  IF st # "APPROVED" THEN {}
  ELSE {gate \o Escalate, call \o LinkCreated, call \o Escalate,
        call \o Reconcile \o LinkCreated, call \o Reconcile \o Escalate}

(* _apply_payment_link_event, for a link that is on record; a payment that *)
(* does not cover what is due is confirmed, and fails the case.            *)
LinkOnRecord == \E e \in trail : e.what = "payment_link_created"

Deliveries(st) ==
  IF ~LinkOnRecord THEN {}
  ELSE IF st = "EXECUTING"
       THEN {<<Note("payment_confirmed"), Move("RECOVERED"), Commit>>,
             <<Note("payment_confirmed"), Move("FAILED"), Commit>>,
             <<Note("payment_not_recovered"), Move("FAILED"), Commit>>}
       ELSE {<<Note("payment_confirmed"), Commit>>, <<Note("payment_not_recovered"), Commit>>}

Scripts(st) == Diagnoses(st) \cup Executions(st) \cup Deliveries(st)
----------------------------------------------------------------------------
(* _create_case has recorded recovery_case_created.                        *)
Init ==
  /\ row = [status |-> "DISCOVERED", version |-> 1]
  /\ trail = {Event(1, 0, "recovery_case_created", "none", "none", "none")}
  /\ attempts = {}
  /\ clock = 1
  /\ copy = [s \in Handlers |-> NoCopy]
  /\ script = [s \in Handlers |-> <<>>]
  /\ pend = [s \in Handlers |-> {}]
  /\ own = [s \in Handlers |-> 0]
  /\ reader = NoReader
  /\ begins = 0 /\ deaths = 0

Leave(s) ==
  /\ copy' = [copy EXCEPT ![s] = NoCopy]
  /\ script' = [script EXCEPT ![s] = <<>>]
  /\ pend' = [pend EXCEPT ![s] = {}]
  /\ own' = [own EXCEPT ![s] = 0]

(* The row is loaded; in a cycle, by an earlier statement of the session,  *)
(* and what it holds is never refreshed (expire_on_commit is off).         *)
Load(s) ==
  /\ copy[s] = NoCopy
  /\ begins < MaxBegins
  /\ begins' = begins + 1
  /\ copy' = [copy EXCEPT ![s] = row]
  /\ UNCHANGED <<store, clock, script, pend, own, reader, deaths>>

Begin(s) ==
  /\ copy[s] # NoCopy
  /\ script[s] = <<>>
  /\ \E p \in Scripts(copy[s].status) : script' = [script EXCEPT ![s] = p]
  /\ UNCHANGED <<store, clock, copy, pend, own, reader, begins, deaths>>

(* A session that finds nothing to do with its copy is closed.             *)
Close(s) ==
  /\ copy[s] # NoCopy
  /\ script[s] = <<>>
  /\ Leave(s)
  /\ UNCHANGED <<store, clock, reader, begins, deaths>>

Step(s) == Head(script[s])
GoOn(s) == script' = [script EXCEPT ![s] = Tail(@)]

(* record_event: flushed, and stamped, at once.                            *)
Record(s, about, what, from, to, status) ==
  /\ clock' = clock + 1
  /\ pend' = [pend EXCEPT ![s] = @ \cup {Event(clock + 1, about, what, from, to, status)}]

(* Only what a request found is recorded with the status it found.         *)
Found(s) ==
  IF Step(s).arg \in {"diagnosis_requested", "execution_requested"}
  THEN copy[s].status ELSE "none"

(* Mutant: events are written by a session of their own.                   *)
DetachedTakeNote(s) ==
  /\ script[s] # <<>>
  /\ Step(s).do \in {"note", "attempt_note"}
  /\ clock' = clock + 1
  /\ trail' = trail \cup {Event(clock + 1, IF Step(s).do = "note" THEN 0 ELSE own[s],
                                Step(s).arg, "none", "none", Found(s))}
  /\ GoOn(s)
  /\ UNCHANGED <<row, attempts, copy, pend, own, reader, begins, deaths>>

TakeNote(s) ==
  /\ script[s] # <<>>
  /\ Step(s).do \in {"note", "attempt_note"}
  /\ Record(s, IF Step(s).do = "note" THEN 0 ELSE own[s], Step(s).arg, "none", "none", Found(s))
  /\ GoOn(s)
  /\ UNCHANGED <<store, copy, own, reader, begins, deaths>>

(* The UPDATE waits for the row lock, and finds the version it loaded.     *)
Writing(s) == copy[s].version > row.version
(* Mutant: nothing is flushed before the commit.                           *)
NeverLocked(s) == FALSE

Locked(s) == \E t \in Handlers \ {s} : copy[t] # NoCopy /\ Writing(t)

(* Mutant: no version check.                                               *)
UncheckedFresh(s) == TRUE

Fresh(s) == Writing(s) \/ copy[s].version = row.version

Update(s, st) == copy' = [copy EXCEPT ![s] = [status |-> st, version |-> @.version + 1]]

(* _transition *)
TakeMove(s) ==
  /\ script[s] # <<>>
  /\ Step(s).do = "move"
  /\ ~Locked(s) /\ Fresh(s)
  /\ CanTransition(copy[s].status, Step(s).arg)
  /\ Update(s, Step(s).arg)
  /\ Record(s, 0, StatusChange, copy[s].status, Step(s).arg, "none")
  /\ GoOn(s)
  /\ UNCHANGED <<store, own, reader, begins, deaths>>

TakeTouch(s) ==
  /\ script[s] # <<>>
  /\ Step(s) = Touch
  /\ ~Locked(s) /\ Fresh(s)
  /\ Update(s, copy[s].status)
  /\ GoOn(s)
  /\ UNCHANGED <<store, clock, pend, own, reader, begins, deaths>>

(* StaleDataError: the transaction is rolled back, its events with it.     *)
Stale(s) ==
  /\ script[s] # <<>>
  /\ Step(s).do \in {"move", "touch"}
  /\ ~Locked(s) /\ ~Fresh(s)
  /\ Leave(s)
  /\ UNCHANGED <<store, clock, reader, begins, deaths>>

(* The attempt is flushed and its first event recorded about it.           *)
TakeAttempt(s) ==
  /\ script[s] # <<>>
  /\ Step(s) = NewAttempt
  /\ own' = [own EXCEPT ![s] = clock + 1]
  /\ Record(s, clock + 1, "execution_started", "none", "none", "none")
  /\ GoOn(s)
  /\ UNCHANGED <<store, copy, reader, begins, deaths>>

(* After its last commit the session goes.                                 *)
TakeCommit(s) ==
  /\ script[s] # <<>>
  /\ Step(s) = Commit
  /\ trail' = trail \cup pend[s]
  /\ attempts' = attempts \cup ({own[s]} \ {0})
  /\ row' = IF Writing(s) THEN copy[s] ELSE row
  /\ IF Tail(script[s]) = <<>>
     THEN Leave(s)
     ELSE /\ GoOn(s)
          /\ pend' = [pend EXCEPT ![s] = {}]
          /\ UNCHANGED <<copy, own>>
  /\ UNCHANGED <<clock, reader, begins, deaths>>

Die(s) ==
  /\ script[s] # <<>>
  /\ deaths < MaxDeaths
  /\ deaths' = deaths + 1
  /\ Leave(s)
  /\ UNCHANGED <<store, clock, reader, begins>>
----------------------------------------------------------------------------
(* get_case_timeline: the case with its attempts first ...                 *)
ReadAttempts ==
  /\ reader.phase = "idle"
  /\ MaxReads = 1
  /\ reader' = [NoReader EXCEPT !.phase = "attempts", !.known = attempts]
  /\ UNCHANGED <<store, clock, session, begins, deaths>>

(* ... then the events about it and them, in one statement.                *)
ReadEvents ==
  /\ reader.phase = "attempts"
  /\ reader' = [reader EXCEPT !.phase = "shown",
                              !.shown = {e \in trail : e.about \in {0} \cup reader.known}]
  /\ UNCHANGED <<store, clock, session, begins, deaths>>

Handler(s) ==
  \/ Load(s) \/ Begin(s) \/ Close(s)
  \/ TakeNote(s) \/ TakeMove(s) \/ TakeTouch(s) \/ Stale(s)
  \/ TakeAttempt(s) \/ TakeCommit(s) \/ Die(s)

Next == (\E s \in Handlers : Handler(s)) \/ ReadAttempts \/ ReadEvents

Spec == Init /\ [][Next]_auditVars
----------------------------------------------------------------------------
(* The status the timeline, in order of created_at, shows just before t.   *)
StatusAt(events, t) ==
  LET before == {e \in Changes(events) : e.at < t} IN
  IF before = {} THEN "DISCOVERED"
  ELSE (CHOOSE e \in before : \A f \in before : f.at <= e.at).to

(* export: final_outcome of a row.                                         *)
ExportOutcomes == {"RECOVERED", "STOPPED", "ESCALATED", "FAILED", "INELIGIBLE"}
FinalOutcome(e) == IF e.to \in ExportOutcomes THEN e.to ELSE "none"

(* Read in the order of its stamps the committed trail tells one story:    *)
(* each status change starts where the one before it ended, the first one  *)
(* from DISCOVERED, the last one at the status of the row, whoever else    *)
(* was rolled back, died or waited in between (audit_service.record_event  *)
(* inside the handlers' transactions).                                     *)
TrailTellsTheStatus ==
  /\ \A e \in Changes(trail) : e.from = StatusAt(trail, e.at)
  /\ row.status = StatusAt(trail, clock + 1)

(* A request is recorded with the status it found, and the trail agrees:   *)
(* that is the status the case had at that place of its timeline           *)
(* (diagnosis_requested, execution_requested).                             *)
RequestsAgreeWithHistory ==
  \A e \in trail : e.status # "none" => e.status = StatusAt(trail, e.at)

(* A timeline that was read stays true: the status changes committed       *)
(* after it was read all come after those it shows, so a later one only    *)
(* goes on where it ended (get_case_timeline).                             *)
HistoryGrowsAtItsEnd ==
  reader.phase = "shown" =>
    \A e \in Changes(trail \ reader.shown), f \in Changes(reader.shown) : f.at < e.at

(* get_case_timeline: "Every audit event for one recovery case [...]       *)
(* combining case-level events with events recorded against its attempts": *)
(* what a read shows is all there is when it shows it.                     *)
TimelineIsComplete ==
  [][ reader'.phase = "shown" /\ reader.phase = "attempts" => trail \subseteq reader'.shown ]_auditVars

(* test_audit_export.py: a status that "is not terminal" leaves the        *)
(* final_outcome of its row blank.                                         *)
FinalOutcomeIsFinal ==
  \A e \in Changes(trail) : FinalOutcome(e) # "none" => e.to \in TerminalStatuses
============================================================================
