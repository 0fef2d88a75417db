----------------------------- MODULE Ingestion -----------------------------
(***************************************************************************)
(* Failed-payment ingestion and discovery (services/ingestion_service.py): *)
(* the reports of a payment provider become Payment rows and recovery      *)
(* cases in DISCOVERED.  Every session runs one transaction at READ        *)
(* COMMITTED: what it wrote is seen by others when it commits, except that *)
(* the unique constraint on RecoveryCase.payment_id makes a second insert  *)
(* of the same payment wait for the first.                                 *)
(*                                                                         *)
(* A payment is known by its place in `payment', a customer by its place   *)
(* in `customer': the order of created_at.                                 *)
(***************************************************************************)
EXTENDS Naturals, Sequences, FiniteSets

CONSTANTS
  Callers,       \* sessions of POST /payments and POST /recovery-cases
  Sweepers,      \* sessions of discover_failed_payments
  ProviderIds,   \* provider_payment_id values
  References,    \* customer_reference values
  NoValue,       \* an omitted provider_payment_id or customer_reference
  SweepLimit,    \* limit of one sweep
  MaxPayments,   \* bound on Payment rows
  MaxAborts      \* bound on transactions that die half-way

Sessions == Callers \cup Sweepers

ASSUME IngestionAssumption ==
  /\ Callers \cap Sweepers = {}
  /\ NoValue \notin ProviderIds \cup References
  /\ SweepLimit \in Nat \ {0}
  /\ MaxPayments \in Nat
  /\ MaxAborts \in Nat

VARIABLES
  payment,    \* Payment rows
  customer,   \* Customer rows
  cases,      \* for each payment, how many RecoveryCase rows name it
  pc,         \* where each session is
  req,        \* the request an ingestion serves
  owner,      \* the Customer row an ingestion loaded; 0: a row of its own
  copy,       \* the counters of that row when it was loaded
  todo,       \* payments a session has yet to open a case for
  mine,       \* payments whose case it has inserted and not committed
  aborts      \* transactions that have died

tables == <<payment, customer, cases>>
locals == <<req, owner, copy, todo, mine>>
vars == <<tables, locals, pc, aborts>>

Payments == 1..Len(payment)

(* PaymentIngestRequest, without the fields nothing below depends on.      *)
Requests == [pid : ProviderIds \cup {NoValue}, ref : References \cup {NoValue},
             failed : BOOLEAN, auto : BOOLEAN]
AnyRequest == [pid |-> NoValue, ref |-> NoValue, failed |-> FALSE, auto |-> FALSE]
Counters == [total : Nat, failed : Nat]
Zero == [total |-> 0, failed |-> 0]

Init ==
  /\ payment = <<>> /\ customer = <<>> /\ cases = <<>>
  /\ pc = [s \in Sessions |-> "idle"]
  /\ req = [s \in Sessions |-> AnyRequest]
  /\ owner = [s \in Sessions |-> 0]
  /\ copy = [s \in Sessions |-> Zero]
  /\ todo = [s \in Sessions |-> {}]
  /\ mine = [s \in Sessions |-> {}]
  /\ aborts = 0

(* The end of a transaction, committed or rolled back: the session and     *)
(* what it holds are gone.                                                 *)
Leave(s) ==
  /\ pc' = [pc EXCEPT ![s] = "idle"]
  /\ req' = [req EXCEPT ![s] = AnyRequest]
  /\ owner' = [owner EXCEPT ![s] = 0]
  /\ copy' = [copy EXCEPT ![s] = Zero]
  /\ todo' = [todo EXCEPT ![s] = {}]
  /\ mine' = [mine EXCEPT ![s] = {}]
----------------------------------------------------------------------------
(* ingest_payment *)

IngestRequest(s, r) ==
  /\ pc[s] = "idle"
  /\ Len(payment) < MaxPayments
  /\ pc' = [pc EXCEPT ![s] = "dedup"]
  /\ req' = [req EXCEPT ![s] = r]
  /\ UNCHANGED <<tables, owner, copy, todo, mine, aborts>>

(* get_by_provider_payment_id: the earliest committed match.               *)
KnownPayments(pid) == {i \in Payments : pid # NoValue /\ payment[i].pid = pid}

(* Mutant: the repeat is counted before it is recognised.                  *)
CountingDuplicate(s) ==
  /\ pc[s] = "dedup"
  /\ \E i \in KnownPayments(req[s].pid) :
        customer' = [customer EXCEPT ![payment[i].customer].counts.total = @ + 1]
  /\ UNCHANGED <<payment, cases, aborts>>
  /\ Leave(s)

(* A repeat is answered with the payment that is there and its case.       *)
IngestDuplicate(s) ==
  /\ pc[s] = "dedup"
  /\ KnownPayments(req[s].pid) # {}
  /\ UNCHANGED <<tables, aborts>>
  /\ Leave(s)

IngestNew(s) ==
  /\ pc[s] = "dedup"
  /\ KnownPayments(req[s].pid) = {}
  /\ pc' = [pc EXCEPT ![s] = "customer"]
  /\ UNCHANGED <<tables, locals, aborts>>

CustomersOf(ref) ==
  {k \in 1..Len(customer) : ref # NoValue /\ customer[k].ref = ref}

(* _find_or_create_customer.  scalar_one_or_none() returns the one row.    *)
IngestCustomer(s) ==
  /\ pc[s] = "customer"
  /\ \/ /\ CustomersOf(req[s].ref) = {}
        /\ UNCHANGED <<owner, copy>>
     \/ \E k \in CustomersOf(req[s].ref) :
          /\ CustomersOf(req[s].ref) = {k}
          /\ owner' = [owner EXCEPT ![s] = k]
          /\ copy' = [copy EXCEPT ![s] = customer[k].counts]
  /\ pc' = [pc EXCEPT ![s] = "write"]
  /\ UNCHANGED <<tables, req, todo, mine, aborts>>

(* ... and raises MultipleResultsFound, which nothing catches, if there    *)
(* are two: the request ends in a 500.                                     *)
IngestAmbiguousCustomer(s) ==
  /\ pc[s] = "customer"
  /\ Cardinality(CustomersOf(req[s].ref)) > 1
  /\ UNCHANGED <<tables, aborts>>
  /\ Leave(s)

(* The counters are plain attributes: the UPDATE sets those that changed   *)
(* to the loaded value plus one, whatever the row holds by then.           *)
Counted(counts, loaded, failed) ==
  [counts EXCEPT !.total = loaded.total + 1,
                 !.failed = IF failed THEN loaded.failed + 1 ELSE @]

NewCustomer(s) == [ref |-> req[s].ref, counts |-> Counted(Zero, Zero, req[s].failed)]
NewPayment(s) ==
  [pid |-> req[s].pid, failed |-> req[s].failed,
   customer |-> IF owner[s] = 0 THEN Len(customer) + 1 ELSE owner[s]]

(* The counters, the payment and, for a failed payment with                *)
(* auto_create_case, its case, in one transaction.                         *)
IngestCommit(s) ==
  /\ pc[s] = "write"
  /\ customer' = IF owner[s] = 0
                 THEN Append(customer, NewCustomer(s))
                 ELSE [customer EXCEPT ![owner[s]].counts = Counted(@, copy[s], req[s].failed)]
  /\ payment' = Append(payment, NewPayment(s))
  /\ cases' = Append(cases, IF req[s].failed /\ req[s].auto THEN 1 ELSE 0)
  /\ UNCHANGED aborts
  /\ Leave(s)
----------------------------------------------------------------------------
(* create_recovery_case_for_payment and discover_failed_payments *)

Uncased == {i \in Payments : payment[i].failed /\ cases[i] = 0}

BeginInserts(s, list) ==
  /\ pc' = [pc EXCEPT ![s] = "insert"]
  /\ todo' = [todo EXCEPT ![s] = list]
  /\ UNCHANGED <<tables, req, owner, copy, mine, aborts>>

(* A payment that has not failed is a 422, one with a case is answered     *)
(* with it, and nothing is written.                                        *)
OpenCheck(s, i) ==
  /\ pc[s] = "idle"
  /\ i \in Uncased
  /\ BeginInserts(s, {i})

(* The oldest SweepLimit of them.                                          *)
OldestOf(set, list) ==
  /\ \A i \in list, j \in set \ list : i < j
  /\ IF Cardinality(set) <= SweepLimit THEN list = set ELSE Cardinality(list) = SweepLimit

(* Mutant: the outer join keeps the payments that have a case.             *)
BlindSweep(s) ==
  /\ pc[s] = "idle"
  /\ \E list \in SUBSET Payments :
       /\ list # {}
       /\ OldestOf({i \in Payments : payment[i].failed}, list)
       /\ BeginInserts(s, list)

(* list_failed_without_recovery_case; with nothing listed the sweep        *)
(* reports zero and commits nothing.                                       *)
SweepRead(s) ==
  /\ pc[s] = "idle"
  /\ \E list \in SUBSET Uncased :
       /\ list # {}
       /\ OldestOf(Uncased, list)
       /\ BeginInserts(s, list)

(* The sweep follows the list, oldest first.                               *)
NextInsert(s, i) ==
  /\ pc[s] = "insert"
  /\ i \in todo[s]
  /\ \A j \in todo[s] : i <= j

(* The unique constraint: an uncommitted row of another session decides.   *)
Blocked(s, i) == \E t \in Sessions \ {s} : i \in mine[t]

(* Mutant: payment_id is not unique.                                       *)
UncheckedInsert(s, i) ==
  /\ NextInsert(s, i)
  /\ mine' = [mine EXCEPT ![s] = @ \cup {i}]
  /\ todo' = [todo EXCEPT ![s] = @ \ {i}]
  /\ UNCHANGED <<tables, pc, req, owner, copy, aborts>>

(* Mutant: the list comes in no particular order.                          *)
UnorderedInsert(s, i) ==
  /\ pc[s] = "insert"
  /\ i \in todo[s]
  /\ ~Blocked(s, i)
  /\ cases[i] = 0
  /\ mine' = [mine EXCEPT ![s] = @ \cup {i}]
  /\ todo' = [todo EXCEPT ![s] = @ \ {i}]
  /\ UNCHANGED <<tables, pc, req, owner, copy, aborts>>

(* _create_case flushes each case as it goes.                              *)
InsertCase(s, i) ==
  /\ NextInsert(s, i)
  /\ ~Blocked(s, i)
  /\ cases[i] = 0
  /\ mine' = [mine EXCEPT ![s] = @ \cup {i}]
  /\ todo' = [todo EXCEPT ![s] = @ \ {i}]
  /\ UNCHANGED <<tables, pc, req, owner, copy, aborts>>

(* The payment was cased by somebody else meanwhile: an IntegrityError     *)
(* that nothing catches rolls back every case of this transaction.         *)
InsertConflict(s, i) ==
  /\ NextInsert(s, i)
  /\ cases[i] > 0
  /\ UNCHANGED <<tables, aborts>>
  /\ Leave(s)

CommitCases(s) ==
  /\ pc[s] = "insert"
  /\ todo[s] = {}
  /\ cases' = [i \in DOMAIN cases |-> cases[i] + (IF i \in mine[s] THEN 1 ELSE 0)]
  /\ UNCHANGED <<payment, customer, aborts>>
  /\ Leave(s)

(* A worker dies, or the connection is lost: the transaction rolls back.   *)
Abandon(s) ==
  /\ pc[s] # "idle"
  /\ aborts < MaxAborts
  /\ aborts' = aborts + 1
  /\ UNCHANGED tables
  /\ Leave(s)
----------------------------------------------------------------------------
(* What a session does once it has begun. *)
Ingest(s) ==
  \/ IngestDuplicate(s) \/ IngestNew(s)
  \/ IngestCustomer(s) \/ IngestAmbiguousCustomer(s) \/ IngestCommit(s)
Insert(s) ==
  \/ \E i \in Payments : InsertCase(s, i) \/ InsertConflict(s, i)
  \/ CommitCases(s)

Next ==
  \/ \E s \in Callers : \/ \E r \in Requests : IngestRequest(s, r)
                        \/ Ingest(s)
                        \/ \E i \in Payments : OpenCheck(s, i)
  \/ \E s \in Sweepers : SweepRead(s)
  \/ \E s \in Sessions : Insert(s) \/ Abandon(s)

Spec == Init /\ [][Next]_vars

(* The event loop resumes every coroutine whose database call returned,    *)
(* and the orchestrator's loop sweeps again and again.                     *)
FairSpec ==
  /\ Spec
  /\ \A s \in Callers : WF_vars(Ingest(s))
  /\ \A s \in Sessions : WF_vars(Insert(s))
  /\ \A s \in Sweepers : WF_vars(SweepRead(s))
----------------------------------------------------------------------------
(* Whoever opens it, by whichever of the three paths and however they      *)
(* interleave, a payment has at most one case, and only a failed one has   *)
(* any (create_recovery_case_for_payment, discover_failed_payments).       *)
OneCasePerFailedPayment ==
  \A i \in Payments : cases[i] <= 1 /\ (cases[i] = 1 => payment[i].failed)

(* Sessions that wait for one another's uncommitted cases never wait in a  *)
(* circle, which the database would break by killing one: sweeps insert    *)
(* oldest first (list_failed_without_recovery_case).                       *)
WaitsFor(s, t) == \E i \in mine[t] : t # s /\ NextInsert(s, i)
NoWaitCycle ==
  ~\E circle \in SUBSET Sessions :
      /\ circle # {}
      /\ \A s \in circle : \E t \in circle : WaitsFor(s, t)

PaymentsOf(k) == {i \in Payments : payment[i].customer = k}
FailuresOf(k) == {i \in PaymentsOf(k) : payment[i].failed}

(* Concurrent ingestions lose counts, but a customer is never reported as  *)
(* having more payments, or more failed ones, than were ingested for it    *)
(* (ingest_payment's counters).                                            *)
CountersNeverOvercount ==
  \A k \in 1..Len(customer) :
    /\ customer[k].counts.total <= Cardinality(PaymentsOf(k))
    /\ customer[k].counts.failed <= Cardinality(FailuresOf(k))

(* schemas/ingestion.py: "repeat ingestions for the same reference reuse   *)
(* one Customer row so behavioural history accumulates": the counters are  *)
(* the customer's history.                                                 *)
CountersAddUp ==
  \A k \in 1..Len(customer) :
    customer[k].counts = [total |-> Cardinality(PaymentsOf(k)),
                          failed |-> Cardinality(FailuresOf(k))]

(* The same sentence: one row for each reference.                          *)
OneCustomerPerReference ==
  \A ref \in References : Cardinality(CustomersOf(ref)) <= 1

(* ingest_payment: "a repeat ingestion returns the original payment (and   *)
(* its case) instead of creating a duplicate".                             *)
OnePaymentPerProviderId ==
  \A pid \in ProviderIds : Cardinality(KnownPayments(pid)) <= 1

(* create_recovery_case_for_payment "is safe to call repeatedly": a second *)
(* call returns the case that is there; it does not fail on it.            *)
RepeatedOpenSucceeds ==
  \A s \in Callers, i \in Payments : ~(NextInsert(s, i) /\ cases[i] > 0)

(* Every failed payment has its case in the end, also one reported without *)
(* auto_create_case and one whose sweep was rolled back: the sweeps get    *)
(* there (discover_failed_payments).                                       *)
EveryFailureIsCased ==
  \A n \in 1..(MaxPayments + Cardinality(Callers)) :
    (n \in Payments /\ payment[n].failed) ~> (n \in Payments /\ cases[n] > 0)
============================================================================
