--------------------------- MODULE IngestionProofs ---------------------------
(***************************************************************************)
(* What holds of ingestion and discovery for any number of callers, sweeps *)
(* and payments: a payment never has two cases, transactions never wait    *)
(* for one another in a circle, and no customer is counted more payments   *)
(* than were reported.                                                     *)
(*                                                                         *)
(* None of them is inductive.  That a commit does not give a payment its   *)
(* second case rests on what the unique constraint makes of uncommitted    *)
(* rows: a payment is held by one session at most, and by none once it has *)
(* a committed case.  That there is no circle rests on the order of a sweep: *)
(* what it holds is older than what it still waits for.  That no count     *)
(* runs ahead rests on what sessions have loaded: a lost update writes an  *)
(* old count plus one, and the old count was no more than the payments     *)
(* there were then, of which none has gone since.                          *)
(***************************************************************************)
EXTENDS Ingestion, SequenceTheorems, FiniteSetTheorems, WellFoundedInduction, TLAPS

PCs == {"idle", "dedup", "customer", "write", "insert"}
CustomerRows == [ref : References \cup {NoValue}, counts : Counters]
PaymentRows == [pid : ProviderIds \cup {NoValue}, failed : BOOLEAN, customer : Nat]

(* The tables and what a session holds are of their types.                 *)
RowsOK ==
  /\ payment \in Seq(PaymentRows)
  /\ customer \in Seq(CustomerRows)
  /\ pc \in [Sessions -> PCs]
  /\ cases \in Seq({0, 1}) /\ Len(cases) = Len(payment)
  /\ req \in [Sessions -> Requests]
  /\ owner \in [Sessions -> Nat]
  /\ copy \in [Sessions -> Counters]
  /\ todo \in [Sessions -> SUBSET Payments]
  /\ mine \in [Sessions -> SUBSET Payments]

OnlyFailed == \A i \in Payments : cases[i] = 1 => payment[i].failed

SessionCasesFailed ==
  \A s \in Sessions : \A i \in todo[s] \cup mine[s] : payment[i].failed

HeldUncased == \A s \in Sessions : \A i \in mine[s] : cases[i] = 0

HeldOnce == \A s, t \in Sessions : \A i \in mine[s] : i \in mine[t] => s = t

SweepsInOrder == \A s \in Sessions : \A i \in mine[s], j \in todo[s] : i < j

IdleHoldsNothing == \A s \in Sessions : pc[s] = "idle" => mine[s] = {}

IngestionInv ==
  /\ RowsOK /\ OnlyFailed /\ SessionCasesFailed
  /\ HeldUncased /\ HeldOnce /\ SweepsInOrder /\ IdleHoldsNothing
----------------------------------------------------------------------------
(* Functions on 1..n are sequences.                                        *)
LEMMA FunctionIsSeq ==
  ASSUME NEW S, NEW n \in Nat, NEW f \in [1..n -> S]
  PROVE  f \in Seq(S) /\ Len(f) = n
OBVIOUS

(* Nothing has been reported, and nobody holds anything.                   *)
LEMMA IngestionInit == Init => IngestionInv
<1> SUFFICES ASSUME Init PROVE IngestionInv
  OBVIOUS
<1>1. Payments = {}
  BY DEF Init, Payments
<1>2. RowsOK
  BY <1>1 DEF Init, RowsOK, AnyRequest, Requests, Zero, Counters, PCs
<1> QED
  BY <1>1, <1>2 DEF Init, IngestionInv, OnlyFailed, SessionCasesFailed, HeldUncased,
     HeldOnce, SweepsInOrder, IdleHoldsNothing

(* A transaction that ends takes what it held with it.                     *)
LEMMA LeaveTypes ==
  ASSUME RowsOK, NEW s \in Sessions, Leave(s)
  PROVE  /\ req' \in [Sessions -> Requests] /\ owner' \in [Sessions -> Nat]
         /\ copy' \in [Sessions -> Counters] /\ pc' \in [Sessions -> PCs]
         /\ todo' \in [Sessions -> SUBSET Payments]
         /\ mine' \in [Sessions -> SUBSET Payments]
         /\ todo'[s] = {} /\ mine'[s] = {}
         /\ \A t \in Sessions \ {s} :
              todo'[t] = todo[t] /\ mine'[t] = mine[t] /\ pc'[t] = pc[t]
BY DEF Leave, RowsOK, AnyRequest, Requests, Zero, Counters, PCs

(* ... and so leaves nobody else with more than before.                    *)
LEMMA LeaveHolds ==
  ASSUME IngestionInv, NEW s \in Sessions, Leave(s)
  PROVE  /\ HeldOnce' /\ SweepsInOrder' /\ IdleHoldsNothing'
         /\ \A t \in Sessions : \A i \in todo'[t] \cup mine'[t] :
              i \in Payments /\ i \in todo[t] \cup mine[t]
         /\ \A t \in Sessions : \A i \in mine'[t] : t # s /\ i \in mine[t] /\ i \in Payments
<1>1. /\ RowsOK /\ HeldOnce /\ SweepsInOrder /\ IdleHoldsNothing
  BY DEF IngestionInv
<1>2. /\ mine'[s] = {} /\ todo'[s] = {}
      /\ \A t \in Sessions \ {s} :
           todo'[t] = todo[t] /\ mine'[t] = mine[t] /\ pc'[t] = pc[t]
  BY <1>1, LeaveTypes
<1>3. \A t \in Sessions : \A i \in mine'[t] : t # s /\ i \in mine[t]
  BY <1>2
<1>4. \A t \in Sessions : \A i \in todo'[t] : i \in todo[t]
  BY <1>2
<1>5. HeldOnce'
  BY <1>1, <1>3 DEF HeldOnce
<1>6. SweepsInOrder'
  BY <1>1, <1>3, <1>4 DEF SweepsInOrder
<1>7. IdleHoldsNothing'
  BY <1>1, <1>2 DEF IdleHoldsNothing
<1>8. \A t \in Sessions : todo[t] \subseteq Payments /\ mine[t] \subseteq Payments
  BY <1>1 DEF RowsOK
<1> QED BY <1>3, <1>4, <1>5, <1>6, <1>7, <1>8

(* A transaction that ends without having changed the tables.              *)
LEMMA LeaveKeeps ==
  ASSUME IngestionInv, NEW s \in Sessions, Leave(s), UNCHANGED tables
  PROVE  IngestionInv'
<1>1. /\ payment' = payment /\ customer' = customer /\ cases' = cases
      /\ Payments' = Payments
  BY DEF tables, Payments
<1>2. RowsOK'
  BY <1>1, LeaveTypes DEF IngestionInv, RowsOK
<1>3. OnlyFailed'
  BY <1>1 DEF IngestionInv, OnlyFailed
<1>4. SessionCasesFailed'
  BY <1>1, LeaveHolds DEF IngestionInv, SessionCasesFailed
<1>5. HeldUncased'
  BY <1>1, LeaveHolds DEF IngestionInv, HeldUncased
<1> QED
  BY <1>2, <1>3, <1>4, <1>5, LeaveHolds DEF IngestionInv

(* A statement of an ingestion that only reads changes nothing but what    *)
(* the request has loaded.                                                 *)
LEMMA ReadKeeps ==
  ASSUME IngestionInv, NEW s \in Sessions, NEW label \in PCs \ {"idle"},
         UNCHANGED <<tables, todo, mine>>, pc' = [pc EXCEPT ![s] = label],
         req' \in [Sessions -> Requests], owner' \in [Sessions -> Nat],
         copy' \in [Sessions -> Counters]
  PROVE  IngestionInv'
<1>1. /\ payment' = payment /\ customer' = customer /\ cases' = cases
      /\ Payments' = Payments /\ todo' = todo /\ mine' = mine
  BY DEF tables, Payments
<1>2. IdleHoldsNothing'
  BY <1>1 DEF IngestionInv, IdleHoldsNothing, RowsOK
<1> QED
  BY <1>1, <1>2 DEF IngestionInv, RowsOK, OnlyFailed, SessionCasesFailed, HeldUncased,
     HeldOnce, SweepsInOrder

(* What an ingestion writes is of its type.                                *)
LEMMA WrittenRows ==
  ASSUME RowsOK, NEW s \in Sessions
  PROVE  /\ NewPayment(s) \in PaymentRows /\ NewPayment(s).failed = req[s].failed
         /\ NewCustomer(s) \in CustomerRows
         /\ \A row \in CustomerRows :
              [row EXCEPT !.counts = Counted(@, copy[s], req[s].failed)] \in CustomerRows
<1>1. /\ Len(customer) \in Nat /\ owner[s] \in Nat /\ req[s] \in Requests
      /\ copy[s] \in Counters
  BY DEF RowsOK
<1>2. \A c, l \in Counters, f \in BOOLEAN : Counted(c, l, f) \in Counters
  <2> SUFFICES ASSUME NEW c \in Counters, NEW l \in Counters, NEW f \in BOOLEAN
               PROVE  Counted(c, l, f) \in Counters
    OBVIOUS
  <2>1. l.total + 1 \in Nat /\ l.failed + 1 \in Nat /\ c.failed \in Nat
    BY DEF Counters
  <2>2. CASE f
    BY <2>1, <2>2 DEF Counted, Counters
  <2>3. CASE ~f
    BY <2>1, <2>3 DEF Counted, Counters
  <2> QED BY <2>2, <2>3
<1>3. Zero \in Counters /\ req[s].failed \in BOOLEAN
  BY <1>1 DEF Zero, Counters, Requests
<1>4. NewPayment(s) \in PaymentRows /\ NewPayment(s).failed = req[s].failed
  BY <1>1 DEF NewPayment, PaymentRows, Requests
<1>5. NewCustomer(s) \in CustomerRows
  BY <1>1, <1>2, <1>3 DEF NewCustomer, Requests, CustomerRows
<1>6. ASSUME NEW row \in CustomerRows
      PROVE  [row EXCEPT !.counts = Counted(@, copy[s], req[s].failed)] \in CustomerRows
  <2>1. Counted(row.counts, copy[s], req[s].failed) \in Counters
    BY <1>1, <1>2, <1>3 DEF CustomerRows
  <2> QED BY <2>1 DEF CustomerRows
<1> QED BY <1>4, <1>5, <1>6

(* The commit of an ingestion adds a payment nobody holds, with a case at  *)
(* most if it has failed.                                                  *)
LEMMA CommitKeeps ==
  ASSUME IngestionInv, NEW s \in Sessions, IngestCommit(s)
  PROVE  IngestionInv'
<1> DEFINE n == Len(payment) + 1
           opened == IF req[s].failed /\ req[s].auto THEN 1 ELSE 0
<1>1. /\ payment' = Append(payment, NewPayment(s)) /\ cases' = Append(cases, opened)
      /\ Leave(s) /\ RowsOK /\ Len(payment) \in Nat
  BY DEF IngestCommit, IngestionInv, RowsOK
<1>2. /\ payment' \in Seq(PaymentRows) /\ Len(payment') = n
      /\ \A i \in Payments : payment'[i] = payment[i]
      /\ payment'[n].failed = req[s].failed
  BY <1>1, WrittenRows DEF RowsOK, Payments
<1>3. Payments' = Payments \cup {n} /\ n \notin Payments
  BY <1>1, <1>2 DEF Payments
<1>4. /\ cases' \in Seq({0, 1}) /\ Len(cases') = n
      /\ \A i \in Payments : cases'[i] = cases[i]
      /\ cases'[n] = opened
  <2>1. opened \in {0, 1}
    OBVIOUS
  <2> HIDE DEF opened
  <2> QED BY <1>1, <2>1 DEF RowsOK, Payments
<1>5. cases'[n] = 1 => payment'[n].failed
  BY <1>2, <1>4
<1>6. customer' \in Seq(CustomerRows)
  <2>1. customer \in Seq(CustomerRows)
    BY <1>1 DEF RowsOK
  <2>2. CASE owner[s] = 0
    BY <1>1, <2>1, <2>2, WrittenRows DEF IngestCommit
  <2>3. CASE owner[s] # 0
    <3> DEFINE o == owner[s]
               row == [customer[o] EXCEPT !.counts = Counted(@, copy[s], req[s].failed)]
    <3>1. customer' = [customer EXCEPT ![o] = row]
      BY <2>3 DEF IngestCommit
    <3>2. o \in 1..Len(customer) => row \in CustomerRows
      BY <1>1, <2>1, WrittenRows, ElementOfSeq
    <3> HIDE DEF o, row
    <3>3. o \notin 1..Len(customer) => customer' = customer
      BY <2>1, <3>1
    <3>4. o \in 1..Len(customer) => customer' \in Seq(CustomerRows)
      BY <2>1, <3>1, <3>2, ExceptSeq
    <3> QED BY <2>1, <3>3, <3>4
  <2> QED BY <2>2, <2>3
<1> HIDE DEF n, opened
<1>7. /\ req' \in [Sessions -> Requests] /\ owner' \in [Sessions -> Nat]
      /\ copy' \in [Sessions -> Counters] /\ pc' \in [Sessions -> PCs]
      /\ todo' \in [Sessions -> SUBSET Payments] /\ mine' \in [Sessions -> SUBSET Payments]
  BY <1>1, LeaveTypes
<1>8. RowsOK'
  BY <1>2, <1>3, <1>4, <1>6, <1>7 DEF RowsOK
<1>9. OnlyFailed'
  BY <1>2, <1>3, <1>4, <1>5 DEF IngestionInv, OnlyFailed
<1>10. SessionCasesFailed'
  BY <1>1, <1>2, LeaveHolds DEF IngestionInv, SessionCasesFailed
<1>11. HeldUncased'
  BY <1>1, <1>4, LeaveHolds DEF IngestionInv, HeldUncased
<1> QED
  BY <1>1, <1>8, <1>9, <1>10, <1>11, LeaveHolds DEF IngestionInv

(* A list of failed payments without a case is taken up.                   *)
LEMMA BeginKeeps ==
  ASSUME IngestionInv, NEW s \in Sessions, NEW list \in SUBSET Uncased,
         pc[s] = "idle", BeginInserts(s, list)
  PROVE  IngestionInv'
<1>1. /\ payment' = payment /\ customer' = customer /\ cases' = cases
      /\ Payments' = Payments /\ mine' = mine /\ req' = req /\ owner' = owner
      /\ copy' = copy /\ todo' = [todo EXCEPT ![s] = list]
      /\ pc' = [pc EXCEPT ![s] = "insert"]
  BY DEF BeginInserts, tables, Payments
<1>2. list \subseteq Payments /\ (\A i \in list : payment[i].failed) /\ mine[s] = {}
  BY DEF Uncased, IngestionInv, IdleHoldsNothing
<1>3. RowsOK'
  BY <1>1, <1>2 DEF IngestionInv, RowsOK, PCs
<1>4. \A t \in Sessions : /\ todo'[t] = IF t = s THEN list ELSE todo[t]
                         /\ pc'[t] = IF t = s THEN "insert" ELSE pc[t]
  BY <1>1 DEF IngestionInv, RowsOK
<1>5. OnlyFailed' /\ HeldUncased' /\ HeldOnce'
  BY <1>1 DEF IngestionInv, OnlyFailed, HeldUncased, HeldOnce
<1>6. SessionCasesFailed' /\ SweepsInOrder' /\ IdleHoldsNothing'
  BY <1>1, <1>2, <1>4 DEF IngestionInv, SessionCasesFailed, SweepsInOrder, IdleHoldsNothing
<1> QED BY <1>3, <1>5, <1>6 DEF IngestionInv

(* An insert goes through for a payment nobody holds and nobody has cased. *)
LEMMA InsertKeeps ==
  ASSUME IngestionInv, NEW s \in Sessions, NEW i \in Payments, InsertCase(s, i)
  PROVE  IngestionInv'
<1>1. /\ payment' = payment /\ customer' = customer /\ cases' = cases
      /\ Payments' = Payments /\ req' = req /\ owner' = owner
      /\ copy' = copy /\ pc' = pc
      /\ mine' = [mine EXCEPT ![s] = @ \cup {i}]
      /\ todo' = [todo EXCEPT ![s] = @ \ {i}]
  BY DEF InsertCase, tables, Payments
<1>2. /\ i \in todo[s] /\ (\A j \in todo[s] : i <= j) /\ cases[i] = 0 /\ pc[s] = "insert"
      /\ \A t \in Sessions \ {s} : i \notin mine[t]
  BY DEF InsertCase, NextInsert, Blocked
<1>3. RowsOK'
  BY <1>1 DEF IngestionInv, RowsOK
<1>4. \A t \in Sessions : /\ mine'[t] = IF t = s THEN mine[t] \cup {i} ELSE mine[t]
                         /\ todo'[t] = IF t = s THEN todo[t] \ {i} ELSE todo[t]
  BY <1>1 DEF IngestionInv, RowsOK
<1>5. OnlyFailed' /\ SessionCasesFailed' /\ HeldUncased' /\ HeldOnce'
  BY <1>1, <1>2, <1>4 DEF IngestionInv, OnlyFailed, SessionCasesFailed, HeldUncased, HeldOnce
<1>6. SweepsInOrder'
  <2>1. \A j \in todo[s] : j \in Nat /\ i \in Nat
    BY DEF IngestionInv, RowsOK, Payments
  <2>2. \A j \in todo[s] \ {i} : i < j
    BY <1>2, <2>1
  <2> QED BY <1>4, <2>2 DEF IngestionInv, SweepsInOrder
<1>7. IdleHoldsNothing'
  BY <1>1, <1>2, <1>4 DEF IngestionInv, IdleHoldsNothing
<1> QED BY <1>3, <1>5, <1>6, <1>7 DEF IngestionInv

(* A commit of cases gives the payments it holds, and no others, theirs.   *)
LEMMA CasesKeep ==
  ASSUME IngestionInv, NEW s \in Sessions, CommitCases(s)
  PROVE  IngestionInv'
<1>1. /\ payment' = payment /\ customer' = customer /\ Payments' = Payments
      /\ cases' = [i \in DOMAIN cases |-> cases[i] + (IF i \in mine[s] THEN 1 ELSE 0)]
      /\ Leave(s) /\ RowsOK /\ Len(payment) \in Nat
  BY DEF CommitCases, Payments, IngestionInv, RowsOK
<1>2. DOMAIN cases = Payments /\ \A i \in Payments : cases[i] \in {0, 1}
  BY <1>1, LenProperties, ElementOfSeq DEF RowsOK, Payments
<1>3. \A i \in Payments : cases'[i] = IF i \in mine[s] THEN 1 ELSE cases[i]
  BY <1>1, <1>2 DEF IngestionInv, HeldUncased
<1>4. cases' \in [1..Len(payment) -> {0, 1}]
  BY <1>1, <1>2, <1>3 DEF Payments
<1>5. /\ req' \in [Sessions -> Requests] /\ owner' \in [Sessions -> Nat]
      /\ copy' \in [Sessions -> Counters] /\ pc' \in [Sessions -> PCs]
      /\ todo' \in [Sessions -> SUBSET Payments] /\ mine' \in [Sessions -> SUBSET Payments]
  BY <1>1, LeaveTypes
<1>6. RowsOK'
  BY <1>1, <1>4, <1>5, FunctionIsSeq DEF RowsOK
<1>7. OnlyFailed'
  BY <1>1, <1>3 DEF IngestionInv, OnlyFailed, SessionCasesFailed, RowsOK
<1>8. HeldUncased'
  <2> SUFFICES ASSUME NEW t \in Sessions, NEW i \in mine'[t]
               PROVE  cases'[i] = 0
    BY DEF HeldUncased
  <2>1. t # s /\ i \in mine[t] /\ i \in Payments
    BY <1>1, LeaveHolds
  <2>2. i \notin mine[s] /\ cases[i] = 0
    BY <2>1 DEF IngestionInv, HeldOnce, HeldUncased
  <2> QED BY <1>3, <2>1, <2>2
<1>9. SessionCasesFailed'
  BY <1>1, LeaveHolds DEF IngestionInv, SessionCasesFailed
<1> QED BY <1>1, <1>6, <1>7, <1>8, <1>9, LeaveHolds DEF IngestionInv
----------------------------------------------------------------------------
(* Every step keeps the invariant.                                         *)
LEMMA IngestionStep == IngestionInv /\ [Next]_vars => IngestionInv'
<1> SUFFICES ASSUME IngestionInv, [Next]_vars PROVE IngestionInv'
  OBVIOUS
<1>1. ASSUME NEW s \in Callers, NEW r \in Requests, IngestRequest(s, r)
      PROVE  IngestionInv'
  <2>1. s \in Sessions /\ req' \in [Sessions -> Requests]
    BY <1>1 DEF Sessions, IngestRequest, IngestionInv, RowsOK
  <2>2. owner' \in [Sessions -> Nat] /\ copy' \in [Sessions -> Counters]
    BY <1>1 DEF IngestRequest, IngestionInv, RowsOK
  <2> QED BY <1>1, <2>1, <2>2, ReadKeeps DEF IngestRequest, PCs
<1>2. ASSUME NEW s \in Sessions, Ingest(s)  PROVE IngestionInv'
  <2>1. CASE IngestDuplicate(s)
    BY <2>1, LeaveKeeps DEF IngestDuplicate
  <2>2. CASE IngestNew(s)
    <3>1. /\ req' \in [Sessions -> Requests] /\ owner' \in [Sessions -> Nat]
          /\ copy' \in [Sessions -> Counters]
      BY <2>2 DEF IngestNew, locals, IngestionInv, RowsOK
    <3> QED BY <2>2, <3>1, ReadKeeps DEF IngestNew, locals, PCs
  <2>3. CASE IngestCustomer(s)
    <3>1. \A k \in 1..Len(customer) : customer[k].counts \in Counters
      <4>1. customer \in Seq(CustomerRows)
        BY DEF IngestionInv, RowsOK
      <4>2. \A k \in 1..Len(customer) : customer[k] \in CustomerRows
        BY <4>1, ElementOfSeq
      <4> QED BY <4>2 DEF CustomerRows
    <3>2. owner' \in [Sessions -> Nat] /\ copy' \in [Sessions -> Counters]
      <4>1. owner \in [Sessions -> Nat] /\ copy \in [Sessions -> Counters]
        BY DEF IngestionInv, RowsOK
      <4>2. \/ UNCHANGED <<owner, copy>>
            \/ \E k \in 1..Len(customer) : /\ owner' = [owner EXCEPT ![s] = k]
                                          /\ copy' = [copy EXCEPT ![s] = customer[k].counts]
        BY <2>3 DEF IngestCustomer, CustomersOf
      <4> QED BY <3>1, <4>1, <4>2
    <3>3. req' \in [Sessions -> Requests]
      BY <2>3 DEF IngestCustomer, IngestionInv, RowsOK
    <3> QED BY <2>3, <3>2, <3>3, ReadKeeps DEF IngestCustomer, PCs
  <2>4. CASE IngestAmbiguousCustomer(s)
    BY <2>4, LeaveKeeps DEF IngestAmbiguousCustomer
  <2>5. CASE IngestCommit(s)
    BY <2>5, CommitKeeps
  <2> QED BY <1>2, <2>1, <2>2, <2>3, <2>4, <2>5 DEF Ingest
<1>3. ASSUME NEW s \in Callers, NEW i \in Payments, OpenCheck(s, i)  PROVE IngestionInv'
  <2>1. s \in Sessions /\ {i} \in SUBSET Uncased
    BY <1>3 DEF Sessions, OpenCheck
  <2> QED BY <1>3, <2>1, BeginKeeps DEF OpenCheck
<1>4. ASSUME NEW s \in Sweepers, SweepRead(s)  PROVE IngestionInv'
  <2>1. s \in Sessions
    BY DEF Sessions
  <2> QED BY <1>4, <2>1, BeginKeeps DEF SweepRead
<1>5. ASSUME NEW s \in Sessions, Insert(s)  PROVE IngestionInv'
  BY <1>5, InsertKeeps, CasesKeep, LeaveKeeps DEF Insert, InsertConflict
<1>6. ASSUME NEW s \in Sessions, Abandon(s)  PROVE IngestionInv'
  BY <1>6, LeaveKeeps DEF Abandon
<1>7. CASE UNCHANGED vars
  <2>1. UNCHANGED <<tables, locals, pc>>
    BY <1>7 DEF vars
  <2> QED
    BY <2>1 DEF tables, locals, Payments, IngestionInv, RowsOK, OnlyFailed,
       SessionCasesFailed, HeldUncased, HeldOnce, SweepsInOrder, IdleHoldsNothing
<1>8. \A s \in Callers : s \in Sessions
  BY DEF Sessions
<1> QED
  BY <1>1, <1>2, <1>3, <1>4, <1>5, <1>6, <1>7, <1>8 DEF Next

(* What ingestion and discovery keep, whoever takes part.                  *)
THEOREM IngestionInvariance == Spec => []IngestionInv
<1>1. Init => IngestionInv
  BY IngestionInit
<1>2. IngestionInv /\ [Next]_vars => IngestionInv'
  BY IngestionStep
<1> QED BY <1>1, <1>2, PTL DEF Spec

(* Whoever opens it and however they interleave, a payment has at most one *)
(* case, and only a failed one has any (create_recovery_case_for_payment,  *)
(* discover_failed_payments).                                              *)
THEOREM OneCaseEach == Spec => []OneCasePerFailedPayment
<1>1. IngestionInv => OneCasePerFailedPayment
  <2> SUFFICES ASSUME IngestionInv PROVE OneCasePerFailedPayment
    OBVIOUS
  <2>1. \A i \in Payments : cases[i] \in {0, 1}
    BY ElementOfSeq DEF IngestionInv, RowsOK, Payments
  <2> QED
    BY <2>1 DEF IngestionInv, OnlyFailed, OneCasePerFailedPayment
<1> QED BY <1>1, IngestionInvariance, PTL
----------------------------------------------------------------------------
(* The least of a set of numbers.                                          *)
LEMMA LeastOf ==
  ASSUME NEW T \in SUBSET Nat, T # {}
  PROVE  \E x \in T : \A y \in T : x <= y
<1> DEFINE R == OpToRel(<, Nat)
<1>1. IsWellFoundedOn(R, Nat)
  BY NatLessThanWellFounded
<1>2. \A x, y \in Nat : <<y, x>> \in R <=> y < x
  BY DEF OpToRel
<1> HIDE DEF R
<1>3. PICK x \in T : \A y \in T : ~(<<y, x>> \in R)
  BY <1>1, WFMin
<1>4. \A y \in T : x \in Nat /\ y \in Nat /\ ~(y < x)
  BY <1>2, <1>3
<1>5. \A y \in T : x <= y
  BY <1>4
<1> QED BY <1>5

(* A session that waits has a next case to insert, and one only.           *)
LEMMA NextIsOne ==
  ASSUME IngestionInv, NEW s \in Sessions, NEW i, NEW j, NextInsert(s, i), NextInsert(s, j)
  PROVE  i = j /\ i \in Payments
<1>1. todo[s] \subseteq Payments
  BY DEF IngestionInv, RowsOK
<1>2. i \in todo[s] /\ j \in todo[s] /\ i <= j /\ j <= i
  BY DEF NextInsert
<1> QED BY <1>1, <1>2 DEF Payments

(* Whoever waits for a session that waits itself has an older case to      *)
(* insert than that one.                                                   *)
LEMMA WaitsForYounger ==
  ASSUME IngestionInv, NEW s \in Sessions, NEW t \in Sessions, WaitsFor(s, t),
         NEW i, NextInsert(s, i), NEW j, NextInsert(t, j)
  PROVE  i < j
<1>1. PICK k \in mine[t] : NextInsert(s, k)
  BY DEF WaitsFor
<1>2. k = i
  BY <1>1, NextIsOne
<1>3. j \in todo[t]
  BY DEF NextInsert
<1> QED BY <1>1, <1>2, <1>3 DEF IngestionInv, SweepsInOrder

(* Transactions never wait for one another in a circle, however many there *)
(* are: in a circle, the one with the youngest case to insert would wait   *)
(* for one with a younger (list_failed_without_recovery_case sorts by age).*)
THEOREM NoDeadlock == Spec => []NoWaitCycle
<1>1. IngestionInv => NoWaitCycle
  <2> SUFFICES ASSUME IngestionInv, NEW circle \in SUBSET Sessions, circle # {},
                      \A s \in circle : \E t \in circle : WaitsFor(s, t)
               PROVE  FALSE
    BY DEF NoWaitCycle
  <2> DEFINE T == {n \in Nat : \E s \in circle, i \in Payments :
                                  NextInsert(s, i) /\ n = Len(payment) - i}
  <2>1. Len(payment) \in Nat
    BY DEF IngestionInv, RowsOK
  <2>2. \A s \in circle : \E i \in Payments : NextInsert(s, i)
    BY NextIsOne DEF WaitsFor
  <2>3. \A i \in Payments : i \in Nat /\ Len(payment) - i \in Nat
    BY <2>1 DEF Payments
  <2>4. T # {} /\ T \in SUBSET Nat
    BY <2>2, <2>3
  <2>5. PICK x \in T : \A y \in T : x <= y
    <3> HIDE DEF T
    <3> QED BY <2>4, LeastOf
  <2>6. PICK s \in circle, i \in Payments : NextInsert(s, i) /\ x = Len(payment) - i
    BY <2>5
  <2>7. PICK t \in circle : WaitsFor(s, t)
    OBVIOUS
  <2>8. PICK j \in Payments : NextInsert(t, j)
    BY <2>2
  <2>9. i < j
    BY <2>6, <2>7, <2>8, WaitsForYounger
  <2>10. Len(payment) - j \in T
    BY <2>3, <2>8
  <2> QED
    BY <2>1, <2>3, <2>5, <2>6, <2>9, <2>10
<1> QED BY <1>1, IngestionInvariance, PTL
----------------------------------------------------------------------------
(* What an ingestion has loaded is no more than the payments there were.   *)
LoadedCounts ==
  \A s \in Sessions : owner[s] # 0 =>
    /\ owner[s] \in 1..Len(customer)
    /\ copy[s].total <= Cardinality(PaymentsOf(owner[s]))
    /\ copy[s].failed <= Cardinality(FailuresOf(owner[s]))

CountInv == IngestionInv /\ CountersNeverOvercount /\ LoadedCounts

(* A customer's payments are finitely many, the failed ones among them.    *)
LEMMA PaymentsAreFinite ==
  ASSUME IngestionInv, NEW k
  PROVE  /\ IsFiniteSet(PaymentsOf(k)) /\ IsFiniteSet(FailuresOf(k))
         /\ Cardinality(PaymentsOf(k)) \in Nat /\ Cardinality(FailuresOf(k)) \in Nat
<1>1. Len(payment) \in Nat
  BY DEF IngestionInv, RowsOK
<1>2. IsFiniteSet(Payments)
  BY <1>1, FS_Interval DEF Payments
<1>3. PaymentsOf(k) \in SUBSET Payments /\ FailuresOf(k) \in SUBSET Payments
  BY DEF PaymentsOf, FailuresOf
<1>4. IsFiniteSet(PaymentsOf(k)) /\ IsFiniteSet(FailuresOf(k))
  BY <1>2, <1>3, FS_Subset
<1>. QED BY <1>4, FS_CardinalityType

(* A commit gives the customer it is for one payment more, and the others  *)
(* none (NewPayment).                                                      *)
LEMMA CommitCounts ==
  ASSUME IngestionInv, NEW s \in Sessions, IngestCommit(s), NEW k
  PROVE  /\ Cardinality(PaymentsOf(k)') =
              Cardinality(PaymentsOf(k)) + (IF NewPayment(s).customer = k THEN 1 ELSE 0)
         /\ Cardinality(FailuresOf(k)') =
              Cardinality(FailuresOf(k))
              + (IF NewPayment(s).customer = k /\ req[s].failed THEN 1 ELSE 0)
<1>. DEFINE n == Len(payment) + 1
            row == NewPayment(s)
<1>1. /\ payment' = Append(payment, row) /\ payment \in Seq(PaymentRows)
      /\ Len(payment) \in Nat /\ row \in PaymentRows /\ row.failed = req[s].failed
  BY WrittenRows DEF IngestCommit, IngestionInv, RowsOK
<1>. HIDE DEF row
<1>2. /\ Payments' = Payments \cup {n} /\ n \notin Payments /\ payment'[n] = row
      /\ \A i \in Payments : payment'[i] = payment[i]
  BY <1>1 DEF Payments
<1>. HIDE DEF n
<1>3. /\ PaymentsOf(k)' = IF row.customer = k THEN PaymentsOf(k) \cup {n} ELSE PaymentsOf(k)
      /\ FailuresOf(k)' = IF row.customer = k /\ row.failed
                          THEN FailuresOf(k) \cup {n} ELSE FailuresOf(k)
  BY <1>2 DEF PaymentsOf, FailuresOf
<1>4. n \notin PaymentsOf(k) /\ n \notin FailuresOf(k)
  BY <1>2 DEF PaymentsOf, FailuresOf
<1>5. /\ Cardinality(PaymentsOf(k) \cup {n}) = Cardinality(PaymentsOf(k)) + 1
      /\ Cardinality(FailuresOf(k) \cup {n}) = Cardinality(FailuresOf(k)) + 1
  BY <1>4, PaymentsAreFinite, FS_AddElement
<1>. QED BY <1>1, <1>3, <1>5, PaymentsAreFinite DEF row

(* The counters an ingestion writes.                                       *)
LEMMA CountedFields ==
  ASSUME NEW c \in Counters, NEW l \in Counters, NEW f \in BOOLEAN
  PROVE  /\ Counted(c, l, f).total = l.total + 1
         /\ Counted(c, l, f).failed = IF f THEN l.failed + 1 ELSE c.failed
         /\ l.total \in Nat /\ l.failed \in Nat /\ c.failed \in Nat
BY DEF Counted, Counters

(* A commit counts what it adds: one more than it has loaded.              *)
LEMMA CommitNeverOvercounts ==
  ASSUME CountInv, NEW s \in Sessions, IngestCommit(s)
  PROVE  CountInv'
<1>1. /\ IngestionInv /\ IngestionInv' /\ CountersNeverOvercount /\ LoadedCounts
      /\ RowsOK
  BY CommitKeeps DEF CountInv, IngestionInv
<1>. DEFINE o == NewPayment(s).customer
<1>2. ASSUME NEW k
      PROVE  \E p, f \in Nat :
               /\ p = Cardinality(PaymentsOf(k)) /\ f = Cardinality(FailuresOf(k))
               /\ Cardinality(PaymentsOf(k)') = p + (IF o = k THEN 1 ELSE 0)
               /\ Cardinality(FailuresOf(k)') = f + (IF o = k /\ req[s].failed THEN 1 ELSE 0)
  BY <1>1, PaymentsAreFinite, CommitCounts
<1>3. /\ customer \in Seq(CustomerRows) /\ owner[s] \in Nat /\ copy[s] \in Counters
      /\ Len(customer) \in Nat /\ req[s].failed \in BOOLEAN
  BY <1>1 DEF RowsOK, Requests
<1>4. owner[s] # 0 => owner[s] \in 1..Len(customer)
  BY <1>1 DEF LoadedCounts
<1>5. o = IF owner[s] = 0 THEN Len(customer) + 1 ELSE owner[s]
  BY DEF NewPayment
<1>6. Len(customer') = IF owner[s] = 0 THEN Len(customer) + 1 ELSE Len(customer)
  BY <1>3 DEF IngestCommit
<1>7. ASSUME NEW k \in 1..Len(customer), k # o
      PROVE  customer'[k] = customer[k]
  BY <1>3, <1>4, <1>5, <1>7 DEF IngestCommit
<1>8. /\ o \in 1..Len(customer')
      /\ owner[s] = 0 => customer'[o].counts = Counted(Zero, Zero, req[s].failed)
      /\ owner[s] # 0 =>
           customer'[o].counts = Counted(customer[o].counts, copy[s], req[s].failed)
  <2>1. CASE owner[s] = 0
    <3>1. customer' = Append(customer, NewCustomer(s)) /\ o = Len(customer) + 1
      BY <1>5, <2>1 DEF IngestCommit
    <3>. HIDE DEF o
    <3>2. customer'[o] = NewCustomer(s)
      BY <1>3, <3>1
    <3>. QED BY <1>3, <1>6, <2>1, <3>1, <3>2 DEF NewCustomer
  <2>2. CASE owner[s] # 0
    <3>1. /\ customer' = [customer EXCEPT ![o].counts = Counted(@, copy[s], req[s].failed)]
          /\ o \in 1..Len(customer)
      BY <1>4, <1>5, <2>2 DEF IngestCommit
    <3>. HIDE DEF o
    <3>2. customer[o] \in CustomerRows
      BY <1>3, <3>1, ElementOfSeq
    <3>. QED BY <1>3, <1>6, <2>2, <3>1, <3>2 DEF CustomerRows
  <2>. QED BY <2>1, <2>2
<1>. HIDE DEF o
<1>9. CountersNeverOvercount'
  <2>. SUFFICES ASSUME NEW k \in 1..Len(customer')
                PROVE  /\ customer'[k].counts.total <= Cardinality(PaymentsOf(k)')
                       /\ customer'[k].counts.failed <= Cardinality(FailuresOf(k)')
    BY DEF CountersNeverOvercount
  <2>1. PICK p, f \in Nat :
          /\ p = Cardinality(PaymentsOf(k)) /\ f = Cardinality(FailuresOf(k))
          /\ Cardinality(PaymentsOf(k)') = p + (IF o = k THEN 1 ELSE 0)
          /\ Cardinality(FailuresOf(k)') = f + (IF o = k /\ req[s].failed THEN 1 ELSE 0)
    BY <1>2
  <2>2. k \in 1..Len(customer) =>
          /\ customer[k].counts \in Counters
          /\ customer[k].counts.total <= p /\ customer[k].counts.failed <= f
    <3>1. k \in 1..Len(customer) => customer[k] \in CustomerRows
      BY <1>3, ElementOfSeq
    <3>. QED BY <1>1, <2>1, <3>1 DEF CountersNeverOvercount, CustomerRows
  <2>3. CASE k # o
    <3>1. k \in 1..Len(customer)
      BY <1>3, <1>5, <1>6, <2>3
    <3>. QED BY <1>7, <2>1, <2>2, <2>3, <3>1
  <2>4. CASE k = o /\ owner[s] = 0
    <3>1. Zero \in Counters /\ Zero.total = 0 /\ Zero.failed = 0
      BY DEF Zero, Counters
    <3>2. /\ customer'[k].counts.total = 1
          /\ customer'[k].counts.failed = IF req[s].failed THEN 1 ELSE 0
      BY <1>3, <1>8, <2>4, <3>1, CountedFields
    <3>. QED BY <2>1, <2>4, <3>2
  <2>5. CASE k = o /\ owner[s] # 0
    <3>1. k \in 1..Len(customer) /\ copy[s].total <= p /\ copy[s].failed <= f
      BY <1>1, <1>4, <1>5, <2>1, <2>5 DEF LoadedCounts
    <3>2. customer[k].counts \in Counters
      BY <2>2, <3>1
    <3>3. customer'[k].counts = Counted(customer[k].counts, copy[s], req[s].failed)
      BY <1>8, <2>5
    <3>4. /\ customer'[k].counts.total = copy[s].total + 1
          /\ customer'[k].counts.failed =
               IF req[s].failed THEN copy[s].failed + 1 ELSE customer[k].counts.failed
          /\ copy[s].total \in Nat /\ copy[s].failed \in Nat
          /\ customer[k].counts.failed \in Nat
      BY <1>3, <3>2, <3>3, CountedFields
    <3>5. customer'[k].counts.total <= Cardinality(PaymentsOf(k)')
      BY <2>1, <2>5, <3>1, <3>4
    <3>6. CASE req[s].failed
      <4>1. /\ Cardinality(FailuresOf(k)') = f + 1
            /\ customer'[k].counts.failed = copy[s].failed + 1
        BY <2>1, <2>5, <3>4, <3>6
      <4>. QED BY <3>1, <3>4, <3>5, <4>1
    <3>7. CASE ~req[s].failed
      <4>1. /\ Cardinality(FailuresOf(k)') = f
            /\ customer'[k].counts.failed = customer[k].counts.failed
        BY <2>1, <3>4, <3>7
      <4>. QED BY <2>2, <3>1, <3>5, <4>1
    <3>. QED BY <3>6, <3>7
  <2>. QED BY <2>3, <2>4, <2>5
<1>10. LoadedCounts'
  <2>. SUFFICES ASSUME NEW t \in Sessions, NEW k, k = owner'[t], k # 0
                PROVE  /\ k \in 1..Len(customer')
                       /\ copy'[t].total <= Cardinality(PaymentsOf(k)')
                       /\ copy'[t].failed <= Cardinality(FailuresOf(k)')
    BY DEF LoadedCounts, PaymentsOf, FailuresOf
  <2>1. k = owner[t] /\ copy'[t] = copy[t]
    BY <1>1 DEF IngestCommit, Leave, RowsOK
  <2>2. PICK p, f \in Nat :
          /\ p = Cardinality(PaymentsOf(k)) /\ f = Cardinality(FailuresOf(k))
          /\ Cardinality(PaymentsOf(k)') = p + (IF o = k THEN 1 ELSE 0)
          /\ Cardinality(FailuresOf(k)') = f + (IF o = k /\ req[s].failed THEN 1 ELSE 0)
    BY <1>2
  <2>3. k \in 1..Len(customer) /\ copy'[t].total <= p /\ copy'[t].failed <= f
    BY <1>1, <2>1, <2>2 DEF LoadedCounts
  <2>4. copy'[t].total \in Nat /\ copy'[t].failed \in Nat
    BY <1>1, <2>1 DEF RowsOK, Counters
  <2>. QED BY <1>3, <1>6, <2>2, <2>3, <2>4
<1>. QED BY <1>1, <1>9, <1>10 DEF CountInv

(* A step that leaves the payments and customers alone, and after which    *)
(* what a session has loaded is what it had or what a customer has now.    *)
LEMMA LoadKeepsCounts ==
  ASSUME CountInv, IngestionInv', UNCHANGED <<payment, customer>>,
         \A s \in Sessions :
           \/ owner'[s] = 0
           \/ owner'[s] = owner[s] /\ copy'[s] = copy[s]
           \/ owner'[s] \in 1..Len(customer) /\ copy'[s] = customer[owner'[s]].counts
  PROVE  CountInv'
<1>1. \A k : PaymentsOf(k)' = PaymentsOf(k) /\ FailuresOf(k)' = FailuresOf(k)
  BY DEF PaymentsOf, FailuresOf, Payments
<1>2. CountersNeverOvercount /\ LoadedCounts
  BY DEF CountInv
<1>3. CountersNeverOvercount'
  BY <1>1, <1>2 DEF CountersNeverOvercount
<1>4. LoadedCounts'
  <2>. SUFFICES ASSUME NEW s \in Sessions, NEW k, k = owner'[s], k # 0
                PROVE  /\ k \in 1..Len(customer')
                       /\ copy'[s].total <= Cardinality(PaymentsOf(k)')
                       /\ copy'[s].failed <= Cardinality(FailuresOf(k)')
    BY DEF LoadedCounts, PaymentsOf, FailuresOf
  <2>1. /\ k \in 1..Len(customer)
        /\ copy'[s].total <= Cardinality(PaymentsOf(k))
        /\ copy'[s].failed <= Cardinality(FailuresOf(k))
    BY <1>2 DEF LoadedCounts, CountersNeverOvercount
  <2>. QED BY <1>1, <2>1
<1>. QED BY <1>3, <1>4 DEF CountInv

(* Every step keeps the counters within what was ingested.                 *)
LEMMA CountStep == CountInv /\ [Next]_vars => CountInv'
<1>. SUFFICES ASSUME CountInv, [Next]_vars PROVE CountInv'
  OBVIOUS
<1>1. IngestionInv /\ IngestionInv' /\ RowsOK
  BY IngestionStep DEF CountInv, IngestionInv
<1>2. ASSUME NEW s \in Sessions, Leave(s), UNCHANGED <<payment, customer>>
      PROVE  CountInv'
  <2>1. \A t \in Sessions : \/ owner'[t] = 0
                            \/ owner'[t] = owner[t] /\ copy'[t] = copy[t]
    BY <1>1, <1>2 DEF Leave, RowsOK
  <2>. QED BY <1>1, <1>2, <2>1, LoadKeepsCounts
<1>3. ASSUME UNCHANGED <<payment, customer, owner, copy>>
      PROVE  CountInv'
  BY <1>1, <1>3, LoadKeepsCounts
<1>4. ASSUME NEW s \in Callers, NEW r \in Requests, IngestRequest(s, r)
      PROVE  CountInv'
  BY <1>3, <1>4 DEF IngestRequest, tables
<1>5. ASSUME NEW s \in Sessions, Ingest(s)
      PROVE  CountInv'
  <2>1. CASE IngestDuplicate(s)
    BY <1>2, <2>1 DEF IngestDuplicate, tables
  <2>2. CASE IngestNew(s)
    BY <1>3, <2>2 DEF IngestNew, tables, locals
  <2>3. CASE IngestCustomer(s)
    <3>1. CASE UNCHANGED <<owner, copy>>
      BY <1>3, <2>3, <3>1 DEF IngestCustomer, tables
    <3>2. CASE \E k \in 1..Len(customer) : /\ owner' = [owner EXCEPT ![s] = k]
                                          /\ copy' = [copy EXCEPT ![s] = customer[k].counts]
      <4>1. PICK k \in 1..Len(customer) : /\ owner' = [owner EXCEPT ![s] = k]
                                          /\ copy' = [copy EXCEPT ![s] = customer[k].counts]
        BY <3>2
      <4>2. \A t \in Sessions :
              \/ owner'[t] = owner[t] /\ copy'[t] = copy[t]
              \/ owner'[t] \in 1..Len(customer) /\ copy'[t] = customer[owner'[t]].counts
        BY <1>1, <4>1 DEF RowsOK
      <4>. QED BY <1>1, <2>3, <4>2, LoadKeepsCounts DEF IngestCustomer, tables
    <3>. QED BY <2>3, <3>1, <3>2 DEF IngestCustomer, CustomersOf
  <2>4. CASE IngestAmbiguousCustomer(s)
    BY <1>2, <2>4 DEF IngestAmbiguousCustomer, tables
  <2>5. CASE IngestCommit(s)
    BY <2>5, CommitNeverOvercounts
  <2>. QED BY <1>5, <2>1, <2>2, <2>3, <2>4, <2>5 DEF Ingest
<1>6. ASSUME NEW s \in Sessions, NEW i \in Payments, OpenCheck(s, i)
      PROVE  CountInv'
  BY <1>3, <1>6 DEF OpenCheck, BeginInserts, tables
<1>7. ASSUME NEW s \in Sessions, SweepRead(s)
      PROVE  CountInv'
  BY <1>3, <1>7 DEF SweepRead, BeginInserts, tables
<1>8. ASSUME NEW s \in Sessions, Insert(s)
      PROVE  CountInv'
  <2>1. ASSUME NEW i \in Payments, InsertCase(s, i)  PROVE CountInv'
    BY <1>3, <2>1 DEF InsertCase, tables
  <2>2. ASSUME NEW i \in Payments, InsertConflict(s, i)  PROVE CountInv'
    BY <1>2, <2>2 DEF InsertConflict, tables
  <2>3. CASE CommitCases(s)
    BY <1>2, <2>3 DEF CommitCases
  <2>. QED BY <1>8, <2>1, <2>2, <2>3 DEF Insert
<1>9. ASSUME NEW s \in Sessions, Abandon(s)
      PROVE  CountInv'
  BY <1>2, <1>9 DEF Abandon, tables
<1>10. CASE UNCHANGED vars
  BY <1>3, <1>10 DEF vars, tables, locals
<1>11. Callers \subseteq Sessions /\ Sweepers \subseteq Sessions
  BY DEF Sessions
<1>. QED BY <1>4, <1>5, <1>6, <1>7, <1>8, <1>9, <1>10, <1>11 DEF Next

(* Concurrent ingestions lose counts, but however many there are a         *)
(* customer never has more payments, or more failed ones, on its counters  *)
(* than were ingested for it (ingest_payment, _find_or_create_customer).   *)
THEOREM CountsCorrect == Spec => []CountersNeverOvercount
<1>1. Init => CountInv
  <2>1. Init => CountersNeverOvercount /\ LoadedCounts
    BY DEF Init, CountersNeverOvercount, LoadedCounts
  <2>. QED BY <2>1, IngestionInit DEF CountInv
<1>2. CountInv /\ [Next]_vars => CountInv'
  BY CountStep
<1>3. CountInv => CountersNeverOvercount
  BY DEF CountInv
<1>. QED BY <1>1, <1>2, <1>3, PTL DEF Spec
============================================================================
