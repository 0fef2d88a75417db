--------------------------- MODULE RecoveryProofs ---------------------------
(***************************************************************************)
(* What holds of the pipeline for any number of cases, sessions, links and *)
(* dedup keys, any policy configuration and any bound.                     *)
(***************************************************************************)
EXTENDS RecoveryProperties, TLAPS
-----------------------------------------------------------------------------
(* What a path of n flushes makes of a row: the status and the version     *)
(* change, and nothing else.                                               *)
IsMoved(new, row, st, n) ==
  /\ new \in Rows
  /\ new.status = st
  /\ new.version = row.version + n
  /\ new.attempts = row.attempts
  /\ new.recovered = row.recovered
  /\ new.action = row.action
  /\ new.confidence = row.confidence

(* An update of status and version is such a row.                          *)
LEMMA RowUpdate ==
  ASSUME NEW row \in Rows, NEW st \in Statuses, NEW n \in Nat,
         NEW v \in Nat, v = row.version + n
  PROVE  IsMoved([row EXCEPT !.status = st, !.version = v], row, st, n)
<1> DEFINE new == [row EXCEPT !.status = st, !.version = v]
<1>1. /\ new \in Rows
      /\ new.status = st
      /\ new.version = v
      /\ new.attempts = row.attempts
      /\ new.recovered = row.recovered
      /\ new.action = row.action
      /\ new.confidence = row.confidence
  BY DEF Rows
<1>2. IsMoved(new, row, st, n)
  <2> HIDE DEF new
  <2> QED BY <1>1 DEF IsMoved
<1> QED BY <1>2

(* A path of one flush.                                                    *)
LEMMA MovedOne ==
  ASSUME NEW row \in Rows, NEW a \in Statuses
  PROVE  IsMoved(Moved(row, <<a>>), row, a, 1)
<1> DEFINE v == row.version + 1
<1>1. Len(<<a>>) = 1 /\ <<a>>[1] = a  OBVIOUS
<1>2. v \in Nat  BY DEF Rows
<1>3. Moved(row, <<a>>) = [row EXCEPT !.status = a, !.version = v]
  BY <1>1 DEF Moved
<1>4. v = row.version + 1 /\ 1 \in Nat  OBVIOUS
<1> QED
  <2> HIDE DEF v
  <2>1. IsMoved([row EXCEPT !.status = a, !.version = v], row, a, 1)
    BY <1>2, <1>4, RowUpdate
  <2> QED BY <2>1, <1>3

(* A path of two flushes.                                                  *)
LEMMA MovedTwo ==
  ASSUME NEW row \in Rows, NEW a, NEW b \in Statuses
  PROVE  IsMoved(Moved(row, <<a, b>>), row, b, 2)
<1> DEFINE v == row.version + 2
<1>1. Len(<<a, b>>) = 2 /\ <<a, b>>[2] = b  OBVIOUS
<1>2. v \in Nat  BY DEF Rows
<1>3. Moved(row, <<a, b>>) = [row EXCEPT !.status = b, !.version = v]
  BY <1>1 DEF Moved
<1>4. v = row.version + 2 /\ 2 \in Nat  OBVIOUS
<1> QED
  <2> HIDE DEF v
  <2>1. IsMoved([row EXCEPT !.status = b, !.version = v], row, b, 2)
    BY <1>2, <1>4, RowUpdate
  <2> QED BY <2>1, <1>3

(* A path of three flushes.                                                *)
LEMMA MovedThree ==
  ASSUME NEW row \in Rows, NEW a, NEW b, NEW d \in Statuses
  PROVE  IsMoved(Moved(row, <<a, b, d>>), row, d, 3)
<1> DEFINE v == row.version + 3
<1>1. Len(<<a, b, d>>) = 3 /\ <<a, b, d>>[3] = d  OBVIOUS
<1>2. v \in Nat  BY DEF Rows
<1>3. Moved(row, <<a, b, d>>) = [row EXCEPT !.status = d, !.version = v]
  BY <1>1 DEF Moved
<1>4. v = row.version + 3 /\ 3 \in Nat  OBVIOUS
<1> QED
  <2> HIDE DEF v
  <2>1. IsMoved([row EXCEPT !.status = d, !.version = v], row, d, 3)
    BY <1>2, <1>4, RowUpdate
  <2> QED BY <2>1, <1>3

(* The row a diagnosis ends with: moved on by three flushes to the status  *)
(* the verdict resolves to, with the recommendation written on it.         *)
IsDecided(new, row) ==
  /\ new \in Rows
  /\ new.status \in {"APPROVED", "STOPPED", "ESCALATED"}
  /\ new.version = row.version + 3
  /\ new.attempts = row.attempts
  /\ new.recovered = row.recovered

DecidedRow(row, a, f, codes) ==
  [Moved(row, <<"RECOMMENDED", "POLICY_REVIEW", ResolveNextStatus(a, codes)>>)
   EXCEPT !.action = a, !.confidence = f]

(* Whatever the verdict, recommend, review and resolve give such a row.    *)
LEMMA RowDecided ==
  ASSUME NEW row \in Rows, NEW a \in Actions, NEW f \in 0..100, NEW codes
  PROVE  IsDecided(DecidedRow(row, a, f, codes), row)
<1> DEFINE next == ResolveNextStatus(a, codes)
           moved == Moved(row, <<"RECOMMENDED", "POLICY_REVIEW", next>>)
           new == [moved EXCEPT !.action = a, !.confidence = f]
<1>1. next \in {"APPROVED", "STOPPED", "ESCALATED"}
  BY DEF ResolveNextStatus
<1>2. IsMoved(moved, row, next, 3)
  <2> HIDE DEF next
  <2> QED BY <1>1, MovedThree DEF Statuses
<1>3. /\ new \in Rows
      /\ new.status = moved.status
      /\ new.version = moved.version
      /\ new.attempts = moved.attempts
      /\ new.recovered = moved.recovered
  <2>1. moved \in Rows
    BY <1>2 DEF IsMoved
  <2> HIDE DEF moved
  <2> QED BY <2>1 DEF Rows
<1>4. IsDecided(new, row)
  <2> HIDE DEF new, moved, next
  <2> QED BY <1>1, <1>2, <1>3 DEF IsMoved, IsDecided
<1> QED BY <1>4 DEF DecidedRow

(* diagnose_recovery_case commits such a row, whatever the AI recommends.  *)
LEMMA DiagnosisDecides ==
  ASSUME NEW s, copy[s] \in Rows, DiagnoseFinish(s)
  PROVE  \E new : Save(s, new) /\ IsDecided(new, copy[s])
<1>1. PICK rec \in Recommendations : \E codes :
        Save(s, DecidedRow(copy[s], rec.action, rec.confidence, codes))
  BY DEF DiagnoseFinish, DecidedRow
<1>2. rec.action \in Actions /\ rec.confidence \in 0..100
  BY <1>1, PipelineAssumption
<1> QED BY <1>1, <1>2, RowDecided

(* A recorded link counts one attempt.                                     *)
LEMMA RowAttempt ==
  ASSUME NEW row \in Rows
  PROVE  LET new == [row EXCEPT !.attempts = @ + 1, !.version = @ + 1]
         IN  /\ new \in Rows
             /\ new.status = row.status
             /\ new.version = row.version + 1
             /\ new.attempts = row.attempts + 1
             /\ new.recovered = row.recovered
             /\ new.action = row.action
             /\ new.confidence = row.confidence
<1> DEFINE v == row.version + 1
           n == row.attempts + 1
           new == [row EXCEPT !.attempts = n, !.version = v]
<1>1. v \in Nat /\ n \in Nat  BY DEF Rows
<1>2. /\ new \in Rows
      /\ new.status = row.status
      /\ new.version = v
      /\ new.attempts = n
      /\ new.recovered = row.recovered
      /\ new.action = row.action
      /\ new.confidence = row.confidence
  <2> HIDE DEF v, n
  <2> QED BY <1>1 DEF Rows
<1> QED BY <1>2

(* A paid link credits an amount to the moved row.                         *)
LEMMA RowCredit ==
  ASSUME NEW row \in Rows, NEW x \in Nat
  PROVE  LET new == [row EXCEPT !.recovered = @ + x]
         IN  /\ new \in Rows
             /\ new.status = row.status
             /\ new.version = row.version
             /\ new.attempts = row.attempts
             /\ new.recovered = row.recovered + x
             /\ new.action = row.action
             /\ new.confidence = row.confidence
<1> DEFINE r == row.recovered + x
           new == [row EXCEPT !.recovered = r]
<1>1. r \in Nat  BY DEF Rows
<1>2. /\ new \in Rows
      /\ new.status = row.status
      /\ new.version = row.version
      /\ new.attempts = row.attempts
      /\ new.recovered = r
      /\ new.action = row.action
      /\ new.confidence = row.confidence
  <2> HIDE DEF r
  <2> QED BY <1>1 DEF Rows
<1> QED BY <1>2

(* What the end of a link's round writes.                                  *)
LEMMA RowResolved ==
  ASSUME NEW row \in Rows, NEW l, Amount[owner[l]] \in Nat
  PROVE  LET new == Resolved(row, l)
         IN  /\ new \in Rows
             /\ new.version = row.version + 1
             /\ new.attempts = row.attempts
             /\ IF FullyPaid(l)
                THEN /\ new.status = "RECOVERED"
                     /\ new.recovered = row.recovered + Amount[owner[l]]
                ELSE /\ new.status = "FAILED"
                     /\ new.recovered = row.recovered
<1>0. "RECOVERED" \in Statuses /\ "FAILED" \in Statuses  BY DEF Statuses
<1>1. CASE FullyPaid(l)
  <2> DEFINE moved == Moved(row, <<"RECOVERED">>)
             new == [moved EXCEPT !.recovered = @ + Amount[owner[l]]]
  <2>1. IsMoved(moved, row, "RECOVERED", 1)  BY <1>0, MovedOne
  <2>2. /\ new \in Rows
        /\ new.status = moved.status
        /\ new.version = moved.version
        /\ new.attempts = moved.attempts
        /\ new.recovered = moved.recovered + Amount[owner[l]]
    <3> HIDE DEF moved
    <3> QED BY <2>1, RowCredit DEF IsMoved
  <2>3. Resolved(row, l) = new  BY <1>1 DEF Resolved
  <2> QED
    <3> HIDE DEF moved, new
    <3> QED BY <1>1, <2>1, <2>2, <2>3 DEF IsMoved
<1>2. CASE ~FullyPaid(l)
  <2>1. IsMoved(Moved(row, <<"FAILED">>), row, "FAILED", 1)  BY <1>0, MovedOne
  <2>2. Resolved(row, l) = Moved(row, <<"FAILED">>)  BY <1>2 DEF Resolved
  <2> QED BY <1>2, <2>1, <2>2 DEF IsMoved
<1> QED BY <1>1, <1>2
-----------------------------------------------------------------------------
(* The type invariant.  TypeOK alone is not inductive: a handler writes    *)
(* through target and ref, so these must be a case and a link wherever a   *)
(* handler uses them, and it writes its copy back, so its status must be   *)
(* one that may be committed.                                              *)

CasePCs == {"diag_read", "diag_ai", "exec_allowed", "exec_blocked",
            "exec_claimed", "exec_wait", "exec_unsure", "exec_record",
            "exec_failed", "hook_read"}
LinkPCs == {"exec_wait", "exec_unsure", "exec_record", "exec_failed", "hook_read"}
HookPCs == {"hook_start"} \cup HoldsClaim

SessionOK(s) ==
  /\ pc[s] \in CasePCs => target[s] \in Cases
  /\ pc[s] \in LinkPCs => ref[s] \in Links /\ owner[ref[s]] \in Cases
  /\ pc[s] = "hook_unmatched" => ref[s] \in Links
  /\ pc[s] \in HookPCs => Event(s) \in Events
  /\ pc[s] # "diag_ai" => copy[s].status \in CommittedStatuses

RequestsOwned == \A l \in Links : request[l] # "none" => owner[l] \in Cases

(* The part of TypeOK about the session variables.                         *)
SessionTypes ==
  /\ pc \in [Sessions -> PCs]
  /\ target \in [Sessions -> Cases \cup {None}]
  /\ copy \in [Sessions -> Rows]
  /\ ref \in [Sessions -> Subjects \cup {None}]
  /\ key \in [Sessions -> KeySources \cup {None}]
  /\ snap \in [Sessions -> {"none"} \cup OpenOrClosed]

SessionsOK == SessionTypes /\ \A s \in Sessions : SessionOK(s)

CasesOK ==
  /\ case \in [Cases -> Rows]
  /\ \A c \in Cases : case[c].status \in CommittedStatuses

DbOK ==
  /\ attempt \in [Links -> {"none", "in_progress", "succeeded", "failed"}]
  /\ request \in [Links -> {"none"} \cup OpenOrClosed]
  /\ owner \in [Links -> Cases \cup {None}]
  /\ claimed \subseteq Events
  /\ RequestsOwned

WorldOK ==
  /\ link \in [Links -> {"none"} \cup OpenOrClosed]
  /\ wire \subseteq Links
  /\ acked \subseteq Events
  /\ day \in 0..LastDay
  /\ crashes \in 0..MaxCrashes

TypeInv == SessionsOK /\ CasesOK /\ DbOK /\ WorldOK

(* The parts make up TypeOK.                                               *)
LEMMA TypeInvTypeOK == TypeInv => TypeOK
  BY DEF TypeInv, TypeOK, SessionsOK, SessionTypes, CasesOK, DbOK, WorldOK

(* The row of a new case, and of a session that has none.                  *)
LEMMA NewRowOK == NewRow \in Rows /\ NewRow.status = "DISCOVERED"
  BY DEF NewRow, Rows, Statuses

(* A session that ends leaves the sessions well-formed.                    *)
LEMMA LeaveOK ==
  ASSUME SessionsOK, NEW s \in Sessions, Leave(s), owner' = owner
  PROVE  SessionsOK'
<1>1. SessionTypes'
  BY NewRowOK DEF SessionsOK, SessionTypes, Leave, PCs
<1>2. ASSUME NEW t \in Sessions  PROVE SessionOK(t)'
  <2>1. CASE t = s
    <3>1. pc'[s] = "idle" /\ copy'[s] = NewRow
      BY DEF SessionsOK, SessionTypes, Leave
    <3> QED
      BY <2>1, <3>1, NewRowOK
      DEF SessionOK, CasePCs, LinkPCs, HookPCs, HoldsClaim,
          CommittedStatuses, TransientStatuses, Statuses
  <2>2. CASE t # s
    <3>1. /\ pc'[t] = pc[t] /\ target'[t] = target[t] /\ copy'[t] = copy[t]
          /\ ref'[t] = ref[t] /\ key'[t] = key[t]
      BY <2>2 DEF SessionsOK, SessionTypes, Leave
    <3> QED
      BY <3>1 DEF SessionsOK, SessionOK, Event
  <2> QED BY <2>1, <2>2
<1> QED BY <1>1, <1>2 DEF SessionsOK

(* A session that takes a step, the others unchanged and no owner taken    *)
(* back, leaves them well-formed if it is well-formed itself.              *)
LEMMA StayOK ==
  ASSUME SessionsOK, SessionTypes', NEW s \in Sessions, SessionOK(s)',
         \A t \in Sessions \ {s} :
           /\ pc'[t] = pc[t] /\ target'[t] = target[t] /\ copy'[t] = copy[t]
           /\ ref'[t] = ref[t] /\ key'[t] = key[t],
         \A l \in Links : owner[l] \in Cases => owner'[l] \in Cases
  PROVE  SessionsOK'
<1>1. ASSUME NEW t \in Sessions \ {s}  PROVE SessionOK(t)'
  <2>1. /\ pc'[t] = pc[t] /\ target'[t] = target[t] /\ copy'[t] = copy[t]
        /\ ref'[t] = ref[t] /\ key'[t] = key[t]
    OBVIOUS
  <2> QED BY <2>1 DEF SessionsOK, SessionOK, Event
<1> QED BY <1>1 DEF SessionsOK
(* Writing a row that may be committed keeps the committed rows so.        *)
LEMMA SaveOK ==
  ASSUME CasesOK, NEW s, target[s] \in Cases, NEW row \in Rows,
         row.status \in CommittedStatuses, Save(s, row)
  PROVE  CasesOK'
  BY DEF CasesOK, Save

(* The invariant holds initially.                                          *)
LEMMA TypeInit == Init => TypeInv
<1> SUFFICES ASSUME Init  PROVE TypeInv
  OBVIOUS
<1> USE PipelineAssumption DEF Init
<1>1. SessionsOK
  BY NewRowOK
  DEF SessionsOK, SessionTypes, SessionOK, PCs, CasePCs, LinkPCs, HookPCs,
      HoldsClaim, CommittedStatuses, TransientStatuses, Statuses
<1>2. CasesOK
  BY NewRowOK DEF CasesOK, CommittedStatuses, TransientStatuses, Statuses
<1>3. DbOK /\ WorldOK
  BY DEF DbOK, WorldOK, RequestsOwned
<1> QED BY <1>1, <1>2, <1>3 DEF TypeInv

(* Every step of a diagnosis keeps it.                                     *)
LEMMA TypeDiagnose ==
  ASSUME TypeInv, NEW s \in Sessions, Diagnose(s)
  PROVE  TypeInv'
<1> USE DEF TypeInv
<1>1. ASSUME NEW c \in Cases, DiagnoseRead(s, c)  PROVE TypeInv'
  <2>1. SessionTypes' /\ SessionOK(s)'
    BY <1>1 DEF DiagnoseRead, GoTo, SessionsOK, SessionTypes, SessionOK, CasesOK,
                PCs, CasePCs, LinkPCs, HookPCs, HoldsClaim
  <2>2. SessionsOK'
    BY <1>1, <2>1, StayOK DEF DiagnoseRead, GoTo, SessionsOK, SessionTypes, dbVars
  <2> QED
    BY <1>1, <2>2 DEF DiagnoseRead, CasesOK, DbOK, WorldOK, RequestsOwned,
                      dbVars, providerVars
<1>2. ASSUME DiagnoseIneligible(s)  PROVE TypeInv'
  <2>1. target[s] \in Cases /\ copy[s] \in Rows
    BY <1>2 DEF DiagnoseIneligible, SessionsOK, SessionTypes, SessionOK, CasePCs
  <2>2. IsMoved(Moved(copy[s], <<"INELIGIBLE">>), copy[s], "INELIGIBLE", 1)
    BY <2>1, MovedOne DEF Statuses
  <2>3. CasesOK'
    BY <1>2, <2>1, <2>2, SaveOK
    DEF DiagnoseIneligible, IsMoved, CommittedStatuses, TransientStatuses, Statuses
  <2>4. SessionsOK'
    BY <1>2, LeaveOK DEF DiagnoseIneligible
  <2> QED
    BY <1>2, <2>3, <2>4 DEF DiagnoseIneligible, DbOK, WorldOK, RequestsOwned,
                            providerVars
<1>3. ASSUME DiagnoseBegin(s)  PROVE TypeInv'
  <2>1. target[s] \in Cases /\ copy[s] \in Rows
    BY <1>3 DEF DiagnoseBegin, SessionsOK, SessionTypes, SessionOK, CasePCs
  <2>2. /\ Moved(copy[s], <<"ELIGIBLE", "DIAGNOSING">>) \in Rows
        /\ Moved(copy[s], <<"DIAGNOSING">>) \in Rows
    <3>1. "ELIGIBLE" \in Statuses /\ "DIAGNOSING" \in Statuses
      BY DEF Statuses
    <3>2. IsMoved(Moved(copy[s], <<"ELIGIBLE", "DIAGNOSING">>), copy[s], "DIAGNOSING", 2)
      BY <2>1, <3>1, MovedTwo
    <3>3. IsMoved(Moved(copy[s], <<"DIAGNOSING">>), copy[s], "DIAGNOSING", 1)
      BY <2>1, <3>1, MovedOne
    <3> QED BY <3>2, <3>3 DEF IsMoved
  <2>3. SessionTypes' /\ SessionOK(s)'
    BY <1>3, <2>1, <2>2
    DEF DiagnoseBegin, GoTo, SessionsOK, SessionTypes, SessionOK,
        PCs, CasePCs, LinkPCs, HookPCs, HoldsClaim
  <2>4. SessionsOK'
    BY <1>3, <2>3, StayOK DEF DiagnoseBegin, GoTo, SessionsOK, SessionTypes, dbVars
  <2> QED
    BY <1>3, <2>4 DEF DiagnoseBegin, CasesOK, DbOK, WorldOK, RequestsOwned,
                      dbVars, providerVars
<1>4. ASSUME DiagnoseFinish(s)  PROVE TypeInv'
  <2>1. target[s] \in Cases /\ copy[s] \in Rows
    BY <1>4 DEF DiagnoseFinish, SessionsOK, SessionTypes, SessionOK, CasePCs
  <2>2. PICK new : Save(s, new) /\ IsDecided(new, copy[s])
    BY <1>4, <2>1, DiagnosisDecides
  <2>3. CasesOK'
    BY <2>1, <2>2, SaveOK
    DEF IsDecided, CommittedStatuses, TransientStatuses, Statuses
  <2>4. SessionsOK'
    BY <1>4, LeaveOK DEF DiagnoseFinish
  <2> QED
    BY <1>4, <2>3, <2>4 DEF DiagnoseFinish, DbOK, WorldOK, RequestsOwned, providerVars
<1> QED BY <1>1, <1>2, <1>3, <1>4 DEF Diagnose

(* Every step of an execution keeps it.                                    *)
LEMMA TypeExecute ==
  ASSUME TypeInv, NEW s \in Sessions, Execute(s)
  PROVE  TypeInv'
<1> USE DEF TypeInv
<1>1. ASSUME NEW c \in Cases, ExecuteRead(s, c)  PROVE TypeInv'
  <2>1. SessionTypes' /\ SessionOK(s)'
    BY <1>1 DEF ExecuteRead, GoTo, SessionsOK, SessionTypes, SessionOK, CasesOK,
                PCs, CasePCs, LinkPCs, HookPCs, HoldsClaim
  <2>2. SessionsOK'
    BY <1>1, <2>1, StayOK DEF ExecuteRead, GoTo, SessionsOK, SessionTypes, dbVars
  <2> QED
    BY <1>1, <2>2 DEF ExecuteRead, CasesOK, DbOK, WorldOK, RequestsOwned,
                      dbVars, providerVars
<1>2. ASSUME ExecuteBlocked(s)  PROVE TypeInv'
  <2>1. target[s] \in Cases /\ copy[s] \in Rows
    BY <1>2 DEF ExecuteBlocked, SessionsOK, SessionTypes, SessionOK, CasePCs
  <2>2. IsMoved(Moved(copy[s], <<"EXECUTING", "ESCALATED">>), copy[s], "ESCALATED", 2)
    BY <2>1, MovedTwo DEF Statuses
  <2>3. CasesOK'
    BY <1>2, <2>1, <2>2, SaveOK
    DEF ExecuteBlocked, IsMoved, CommittedStatuses, TransientStatuses, Statuses
  <2>4. SessionsOK'
    BY <1>2, LeaveOK DEF ExecuteBlocked
  <2> QED
    BY <1>2, <2>3, <2>4 DEF ExecuteBlocked, DbOK, WorldOK, RequestsOwned, providerVars
<1>3. ASSUME ExecuteClaim(s)  PROVE TypeInv'
  <2>1. target[s] \in Cases /\ copy[s] \in Rows
    BY <1>3 DEF ExecuteClaim, SessionsOK, SessionTypes, SessionOK, CasePCs
  <2>2. IsMoved(Moved(copy[s], <<"EXECUTING">>), copy[s], "EXECUTING", 1)
    BY <2>1, MovedOne DEF Statuses
  <2>3. "EXECUTING" \in CommittedStatuses
    BY DEF CommittedStatuses, TransientStatuses, Statuses
  <2>4. CasesOK'
    BY <1>3, <2>1, <2>2, <2>3, SaveOK DEF ExecuteClaim, IsMoved
  <2>5. SessionTypes' /\ SessionOK(s)'
    BY <1>3, <2>1, <2>2, <2>3
    DEF ExecuteClaim, GoTo, IsMoved, SessionsOK, SessionTypes, SessionOK,
        PCs, CasePCs, LinkPCs, HookPCs, HoldsClaim
  <2>6. SessionsOK'
    BY <1>3, <2>5, StayOK DEF ExecuteClaim, GoTo, SessionsOK, SessionTypes
  <2> QED
    BY <1>3, <2>4, <2>6 DEF ExecuteClaim, DbOK, WorldOK, RequestsOwned, providerVars
<1>4. ASSUME NEW l \in Links, ExecuteCall(s, l)  PROVE TypeInv'
  <2>1. target[s] \in Cases
    BY <1>4 DEF ExecuteCall, SessionsOK, SessionOK, CasePCs
  <2>2. \A m \in Links : owner[m] \in Cases => owner'[m] \in Cases
    BY <1>4, <2>1 DEF ExecuteCall, DbOK
  <2>3. SessionTypes' /\ SessionOK(s)'
    BY <1>4, <2>1
    DEF ExecuteCall, GoTo, DbOK, SessionsOK, SessionTypes, SessionOK, Subjects,
        PCs, CasePCs, LinkPCs, HookPCs, HoldsClaim
  <2>4. SessionsOK'
    BY <1>4, <2>2, <2>3, StayOK DEF ExecuteCall, GoTo, SessionsOK, SessionTypes
  <2>5. DbOK'
    BY <1>4, <2>1, <2>2 DEF ExecuteCall, DbOK, RequestsOwned
  <2> QED
    BY <1>4, <2>4, <2>5 DEF ExecuteCall, CasesOK, WorldOK
<1>5. ASSUME ExecuteAccepted(s) \/ ReconcileFound(s)  PROVE TypeInv'
  <2>1. pc[s] \in LinkPCs /\ pc'= [pc EXCEPT ![s] = "exec_record"]
    BY <1>5 DEF ExecuteAccepted, ReconcileFound, GoTo, LinkPCs
  <2>2. \E st \in OpenOrClosed : snap' = [snap EXCEPT ![s] = st]
    BY <1>5, <2>1
    DEF ExecuteAccepted, ReconcileFound, OpenOrClosed, SessionsOK, SessionOK, WorldOK
  <2>3. UNCHANGED <<dbVars, providerVars, target, copy, ref, key, day, crashes>>
    BY <1>5 DEF ExecuteAccepted, ReconcileFound
  <2>4. pc[s] \in {"exec_wait", "exec_unsure"}
    BY <1>5 DEF ExecuteAccepted, ReconcileFound
  <2>5. SessionTypes' /\ SessionOK(s)'
    BY <2>1, <2>2, <2>3, <2>4
    DEF dbVars, SessionsOK, SessionTypes, SessionOK,
        PCs, CasePCs, LinkPCs, HookPCs, HoldsClaim
  <2>6. SessionsOK'
    BY <2>1, <2>3, <2>5, StayOK DEF dbVars, SessionsOK, SessionTypes
  <2> QED
    BY <2>3, <2>6 DEF CasesOK, DbOK, WorldOK, RequestsOwned, dbVars, providerVars
<1>6. ASSUME ExecuteRefused(s) \/ ExecuteAmbiguous(s) \/ ReconcileUnresolved(s)
      PROVE  TypeInv'
  <2>1. \E label \in {"exec_unsure", "exec_failed"} : pc' = [pc EXCEPT ![s] = label]
    BY <1>6 DEF ExecuteRefused, ExecuteAmbiguous, ReconcileUnresolved, GoTo
  <2>2. pc[s] \in {"exec_wait", "exec_unsure"}
    BY <1>6 DEF ExecuteRefused, ExecuteAmbiguous, ReconcileUnresolved
  <2>3. UNCHANGED <<dbVars, link, acked, target, copy, ref, key, snap, day, crashes>>
    BY <1>6 DEF ExecuteRefused, ExecuteAmbiguous, ReconcileUnresolved, providerVars
  <2>4. wire' \subseteq wire
    BY <1>6 DEF ExecuteRefused, ExecuteAmbiguous, ReconcileUnresolved, providerVars
  <2>5. SessionTypes' /\ SessionOK(s)'
    BY <2>1, <2>2, <2>3
    DEF dbVars, SessionsOK, SessionTypes, SessionOK,
        PCs, CasePCs, LinkPCs, HookPCs, HoldsClaim
  <2>6. SessionsOK'
    BY <2>1, <2>3, <2>5, StayOK DEF dbVars, SessionsOK, SessionTypes
  <2> QED
    BY <2>3, <2>4, <2>6 DEF CasesOK, DbOK, WorldOK, RequestsOwned, dbVars
<1>7. ASSUME ExecuteRecord(s)  PROVE TypeInv'
  <2>1. /\ target[s] \in Cases /\ copy[s] \in Rows
        /\ copy[s].status \in CommittedStatuses
        /\ ref[s] \in Links /\ owner[ref[s]] \in Cases
    BY <1>7 DEF ExecuteRecord, SessionsOK, SessionTypes, SessionOK, CasePCs, LinkPCs
  <2> DEFINE new == [copy[s] EXCEPT !.attempts = @ + 1, !.version = @ + 1]
  <2>2. new \in Rows /\ new.status = copy[s].status
    BY <2>1, RowAttempt
  <2>3. CasesOK'
    <3>1. Save(s, new)  BY <1>7 DEF ExecuteRecord
    <3> HIDE DEF new
    <3> QED BY <2>1, <2>2, <3>1, SaveOK
  <2>4. SessionsOK'
    BY <1>7, LeaveOK DEF ExecuteRecord
  <2>5. DbOK'
    BY <1>7, <2>1 DEF ExecuteRecord, DbOK, RequestsOwned, SessionsOK, SessionTypes
  <2> QED
    BY <1>7, <2>3, <2>4, <2>5 DEF ExecuteRecord, WorldOK, providerVars
<1>8. ASSUME ExecuteEscalate(s)  PROVE TypeInv'
  <2>1. target[s] \in Cases /\ copy[s] \in Rows
    BY <1>8 DEF ExecuteEscalate, SessionsOK, SessionTypes, SessionOK, CasePCs
  <2>2. IsMoved(Moved(copy[s], <<"ESCALATED">>), copy[s], "ESCALATED", 1)
    BY <2>1, MovedOne DEF Statuses
  <2>3. CasesOK'
    BY <1>8, <2>1, <2>2, SaveOK
    DEF ExecuteEscalate, IsMoved, CommittedStatuses, TransientStatuses, Statuses
  <2>4. SessionsOK'
    BY <1>8, LeaveOK DEF ExecuteEscalate
  <2>5. DbOK'
    BY <1>8 DEF ExecuteEscalate, DbOK, RequestsOwned
  <2> QED
    BY <1>8, <2>3, <2>4, <2>5 DEF ExecuteEscalate, WorldOK, providerVars
<1> QED
  BY <1>1, <1>2, <1>3, <1>4, <1>5, <1>6, <1>7, <1>8 DEF Execute

(* Every step of a webhook delivery keeps it.                              *)
LEMMA TypeWebhook ==
  ASSUME TypeInv, NEW s \in Sessions, Webhook(s)
  PROVE  TypeInv'
<1> USE DEF TypeInv
<1>1. ASSUME NEW e \in Events, WebhookDuplicate(s, e)  PROVE TypeInv'
  BY <1>1
  DEF WebhookDuplicate, Acknowledge, SessionsOK, SessionTypes, SessionOK, Event,
      CasesOK, DbOK, WorldOK, RequestsOwned, dbVars, sessionVars
<1>2. ASSUME NEW e \in Events, WebhookArrive(s, e)  PROVE TypeInv'
  <2>1. /\ e[1] \in Subjects /\ e[2] \in KeySources /\ e = <<e[1], e[2]>>
    BY DEF Events
  <2>2. SessionTypes' /\ SessionOK(s)'
    BY <1>2, <2>1
    DEF WebhookArrive, GoTo, Event, SessionsOK, SessionTypes, SessionOK,
        PCs, CasePCs, LinkPCs, HookPCs, HoldsClaim
  <2>3. SessionsOK'
    BY <1>2, <2>2, StayOK DEF WebhookArrive, GoTo, SessionsOK, SessionTypes, dbVars
  <2> QED
    BY <1>2, <2>3 DEF WebhookArrive, CasesOK, DbOK, WorldOK, RequestsOwned,
                      dbVars, providerVars
<1>3. ASSUME WebhookClaim(s)  PROVE TypeInv'
  <2>1. SessionTypes' /\ SessionOK(s)'
    BY <1>3
    DEF WebhookClaim, GoTo, Event, SessionsOK, SessionTypes, SessionOK,
        PCs, CasePCs, LinkPCs, HookPCs, HoldsClaim
  <2>2. SessionsOK'
    BY <1>3, <2>1, StayOK DEF WebhookClaim, GoTo, SessionsOK, SessionTypes, dbVars
  <2> QED
    BY <1>3, <2>2 DEF WebhookClaim, CasesOK, DbOK, WorldOK, RequestsOwned,
                      dbVars, providerVars
<1>4. ASSUME WebhookLostRace(s)  PROVE TypeInv'
  <2>1. Event(s) \in Events
    BY <1>4 DEF WebhookLostRace, SessionsOK, SessionOK, HookPCs
  <2>2. SessionsOK'
    BY <1>4, LeaveOK DEF WebhookLostRace, dbVars
  <2> QED
    BY <1>4, <2>1, <2>2 DEF WebhookLostRace, Acknowledge, CasesOK, DbOK, WorldOK,
                            RequestsOwned, dbVars
<1>5. ASSUME WebhookIgnore(s) \/ WebhookUnmatched(s)  PROVE TypeInv'
  <2>1. Event(s) \in Events
    BY <1>5 DEF WebhookIgnore, WebhookUnmatched, SessionsOK, SessionOK, HookPCs, HoldsClaim
  <2>2. CommitClaim(s) /\ UNCHANGED <<case, attempt, request, owner, link, wire, day, crashes>>
    BY <1>5 DEF WebhookIgnore, WebhookUnmatched
  <2>3. SessionsOK'
    BY <2>2, LeaveOK DEF CommitClaim
  <2> QED
    BY <2>1, <2>2, <2>3 DEF CommitClaim, Acknowledge, CasesOK, DbOK, WorldOK, RequestsOwned
<1>6. ASSUME WebhookLookup(s)  PROVE TypeInv'
  <2>1. ref[s] \in Links /\ Event(s) \in Events
    BY <1>6 DEF WebhookLookup, SessionsOK, SessionOK, HookPCs, HoldsClaim
  <2>2. request[ref[s]] # "none" => owner[ref[s]] \in Cases
    BY <2>1 DEF DbOK, RequestsOwned
  <2>3. SessionTypes' /\ SessionOK(s)'
    BY <1>6, <2>1, <2>2
    DEF WebhookLookup, GoTo, Event, dbVars, CasesOK, SessionsOK, SessionTypes,
        SessionOK, PCs, CasePCs, LinkPCs, HookPCs, HoldsClaim
  <2>4. SessionsOK'
    BY <1>6, <2>3, StayOK DEF WebhookLookup, GoTo, SessionsOK, SessionTypes, dbVars
  <2> QED
    BY <1>6, <2>4 DEF WebhookLookup, CasesOK, DbOK, WorldOK, RequestsOwned,
                      dbVars, providerVars
<1>7. ASSUME WebhookMovedOn(s)  PROVE TypeInv'
  <2>1. Event(s) \in Events /\ ref[s] \in Links /\ owner[ref[s]] \in Cases
    BY <1>7 DEF WebhookMovedOn, SessionsOK, SessionOK, HookPCs, HoldsClaim, LinkPCs
  <2>2. SessionsOK'
    BY <1>7, LeaveOK DEF WebhookMovedOn, CommitClaim
  <2>3. DbOK'
    BY <1>7, <2>1 DEF WebhookMovedOn, CommitClaim, DbOK, WorldOK, RequestsOwned
  <2> QED
    BY <1>7, <2>1, <2>2, <2>3 DEF WebhookMovedOn, CommitClaim, Acknowledge, CasesOK, WorldOK
<1>8. ASSUME WebhookApply(s)  PROVE TypeInv'
  <2>1. /\ Event(s) \in Events /\ ref[s] \in Links /\ owner[ref[s]] \in Cases
        /\ target[s] \in Cases /\ copy[s] \in Rows
    BY <1>8 DEF WebhookApply, SessionsOK, SessionTypes, SessionOK, HookPCs, HoldsClaim,
                LinkPCs, CasePCs
  <2>2. /\ Resolved(copy[s], ref[s]) \in Rows
        /\ Resolved(copy[s], ref[s]).status \in {"RECOVERED", "FAILED"}
    <3>1. Amount[owner[ref[s]]] \in Nat
      BY <2>1, PipelineAssumption
    <3> QED BY <2>1, <3>1, RowResolved
  <2>3. CasesOK'
    BY <1>8, <2>1, <2>2, SaveOK
    DEF WebhookApply, CommittedStatuses, TransientStatuses, Statuses
  <2>4. SessionsOK'
    BY <1>8, LeaveOK DEF WebhookApply, CommitClaim
  <2>5. DbOK'
    BY <1>8, <2>1 DEF WebhookApply, CommitClaim, DbOK, WorldOK, RequestsOwned
  <2> QED
    BY <1>8, <2>1, <2>3, <2>4, <2>5 DEF WebhookApply, CommitClaim, Acknowledge, WorldOK
<1> QED
  BY <1>1, <1>2, <1>3, <1>4, <1>5, <1>6, <1>7, <1>8 DEF Webhook

(* So do rollbacks, crashes, the provider and the clock: every step does.  *)
LEMMA TypeStep ==
  ASSUME TypeInv, [Next]_vars
  PROVE  TypeInv'
<1> USE DEF TypeInv
<1>1. ASSUME NEW s \in Sessions, StaleRollback(s) \/ Crash(s)  PROVE TypeInv'
  <2>1. Leave(s) /\ UNCHANGED <<dbVars, providerVars, day>>
    BY <1>1 DEF StaleRollback, Crash
  <2>2. crashes' \in 0..MaxCrashes
    BY <1>1, PipelineAssumption DEF StaleRollback, Crash, WorldOK
  <2>3. SessionsOK'
    BY <2>1, LeaveOK DEF dbVars
  <2> QED
    BY <2>1, <2>2, <2>3 DEF CasesOK, DbOK, WorldOK, RequestsOwned, dbVars, providerVars
<1>2. ASSUME NEW l \in Links, ProviderCreates(l) \/ ProviderCloses(l)  PROVE TypeInv'
  <2>1. UNCHANGED <<dbVars, acked, sessionVars, day, crashes>> /\ wire' \subseteq wire
    BY <1>2 DEF ProviderCreates, ProviderCloses
  <2>2. link' \in [Links -> {"none"} \cup OpenOrClosed]
    BY <1>2, PipelineAssumption
    DEF ProviderCreates, ProviderCloses, WorldOK, OpenOrClosed, ClosedStatuses
  <2> QED
    BY <2>1, <2>2
    DEF SessionsOK, SessionTypes, SessionOK, Event, CasesOK, DbOK, WorldOK,
        RequestsOwned, dbVars, sessionVars
<1>3. ASSUME Tick  PROVE TypeInv'
  <2>1. UNCHANGED <<dbVars, providerVars, sessionVars, crashes>> /\ day' \in 0..LastDay
    BY <1>3, PipelineAssumption DEF Tick, WorldOK
  <2> QED
    BY <2>1
    DEF SessionsOK, SessionTypes, SessionOK, Event, CasesOK, DbOK, WorldOK,
        RequestsOwned, dbVars, providerVars, sessionVars
<1>4. ASSUME UNCHANGED vars  PROVE TypeInv'
  BY <1>4
  DEF SessionsOK, SessionTypes, SessionOK, Event, CasesOK, DbOK, WorldOK,
      RequestsOwned, vars, dbVars, providerVars, sessionVars
<1> QED
  BY <1>1, <1>2, <1>3, <1>4, TypeDiagnose, TypeExecute, TypeWebhook
  DEF Next, SessionStep, Provider

(* The type invariant with its strengthening holds in every behaviour.     *)
THEOREM TypeInvariance == Spec => []TypeInv
<1>1. TypeInv /\ [Next]_vars => TypeInv'
  BY TypeStep
<1> QED BY <1>1, TypeInit, PTL DEF Spec

(* Whatever sessions, crashes and deliveries interleave, every row, ledger *)
(* entry and session variable keeps its type, and diagnose_recovery_case   *)
(* never leaves one of its intermediate statuses committed.                *)
THEOREM TypeCorrect == Spec => []TypeOK
  BY TypeInvariance, TypeInvTypeOK, PTL
=============================================================================
