------------------------ MODULE RecoverySafetyProofs ------------------------
(***************************************************************************)
(* The safety of optimistic locking and of the event ledger, for any       *)
(* number of cases, sessions, links and dedup keys.                        *)
(***************************************************************************)
EXTENDS RecoveryProofs, FiniteSetTheorems

(* A session's copy of a row is the committed row, or older than it.  Only *)
(* a diagnosis is ahead of it, and then alone and with the row locked.     *)
CopyOK(s) ==
  LET row == case[target[s]]  mine == copy[s] IN
  /\ pc[s] \in CasePCs \ {"diag_ai"} =>
       /\ mine.version <= row.version
       /\ mine.version = row.version => mine = row
  /\ pc[s] = "diag_ai" =>
       /\ row.status \in {"DISCOVERED", "FAILED"}
       /\ mine.version > row.version
       /\ mine.attempts = row.attempts
       /\ mine.recovered = row.recovered
       /\ \A t \in Sessions : pc[t] = "diag_ai" /\ target[t] = target[s] => t = s
  /\ pc[s] = "diag_read" => mine.status \in {"DISCOVERED", "FAILED"}
  /\ pc[s] \in {"exec_allowed", "exec_blocked"} => mine.status = "APPROVED"
  /\ pc[s] \in ExecutingPCs => mine.status = "EXECUTING"

CallingPCs == {"exec_wait", "exec_unsure", "exec_record", "exec_failed"}

(* An execution that has drawn a reference has it for itself, unrecorded;  *)
(* a handler about a link works on the case of that link.                  *)
RefOK(s) ==
  /\ pc[s] \in CallingPCs =>
       /\ owner[ref[s]] = target[s]
       /\ attempt[ref[s]] # "none"
       /\ request[ref[s]] = "none"
       /\ \A t \in Sessions : pc[t] \in CallingPCs /\ ref[t] = ref[s] => t = s
  /\ pc[s] = "exec_record" => snap[s] # "none"
  /\ pc[s] \in HookPCs /\ ref[s] \in Links => link[ref[s]] \in ClosedStatuses
  /\ pc[s] = "hook_read" => owner[ref[s]] = target[s] /\ request[ref[s]] # "none"

(* A reference leads to nothing before its attempt is committed, and its   *)
(* link is created once.                                                   *)
LinkOK(l) ==
  /\ attempt[l] = "none" => request[l] = "none" /\ link[l] = "none" /\ l \notin wire
  /\ l \in wire => link[l] = "none"

RequestsOf(c) == {l \in LinksOf(c) : request[l] # "none"}

AttemptsCounted ==
  \A c \in Cases :
     /\ IsFiniteSet(RequestsOf(c))
     /\ case[c].attempts = Cardinality(RequestsOf(c))

SafetyInv ==
  /\ TypeInv
  /\ \A s \in Sessions : CopyOK(s)
  /\ \A s \in Sessions : RefOK(s)
  /\ \A l \in Links : LinkOK(l)
  /\ CreditMatchesPayment
  /\ AttemptsCounted
-----------------------------------------------------------------------------
(* One session takes a step.  Its own copy is good afterwards, and the     *)
(* committed row either stays or is overwritten by a newer version while   *)
(* nobody else has it locked: then all copies are good.                    *)
OthersStay(s) ==
  \A t \in Sessions \ {s} :
    /\ pc'[t] = pc[t] /\ target'[t] = target[t] /\ copy'[t] = copy[t]
    /\ ref'[t] = ref[t] /\ key'[t] = key[t] /\ snap'[t] = snap[t]

LockedByOther(s, c) ==
  \E t \in Sessions \ {s} : pc[t] = "diag_ai" /\ target[t] = c

Overwrites(s, new) ==
  /\ case' = [case EXCEPT ![target[s]] = new]
  /\ new \in Rows
  /\ new.version > case[target[s]].version
  /\ ~LockedByOther(s, target[s])

(* The optimistic lock: such a step leaves every session with a copy that  *)
(* is either the committed row or visibly older.                           *)
LEMMA CopyStep ==
  ASSUME TypeInv, \A t \in Sessions : CopyOK(t), NEW s \in Sessions,
         OthersStay(s), CopyOK(s)',
         case' = case \/ \E new : Overwrites(s, new),
         pc'[s] = "diag_ai" => ~LockedByOther(s, target'[s])
  PROVE  \A t \in Sessions : CopyOK(t)'
<1> SUFFICES ASSUME NEW t \in Sessions \ {s}  PROVE CopyOK(t)'
  OBVIOUS
<1>1. /\ pc'[t] = pc[t] /\ target'[t] = target[t] /\ copy'[t] = copy[t]
      /\ CopyOK(t)
  BY DEF OthersStay
<1>2. \A u \in Sessions :
        pc'[u] = "diag_ai" /\ pc[t] = "diag_ai" /\ target'[u] = target[t] => u = t
  <2> SUFFICES ASSUME NEW u \in Sessions, pc'[u] = "diag_ai", pc[t] = "diag_ai",
                      target'[u] = target[t]
               PROVE  u = t
    OBVIOUS
  <2>1. CASE u = s
    BY <2>1 DEF LockedByOther
  <2>2. CASE u # s
    BY <1>1, <2>2 DEF OthersStay, CopyOK
  <2> QED BY <2>1, <2>2
<1>3. CASE case' = case
  BY <1>1, <1>2, <1>3 DEF CopyOK
<1>4. CASE \E new : Overwrites(s, new)
  <2>1. PICK new : Overwrites(s, new)
    BY <1>4
  <2>2. CASE target[t] # target[s]
    <3>1. case'[target[t]] = case[target[t]]
      BY <2>1, <2>2 DEF Overwrites, TypeInv, CasesOK
    <3> QED BY <1>1, <1>2, <3>1 DEF CopyOK
  <2>3. CASE target[t] = target[s]
    <3>1. pc[t] # "diag_ai"
      BY <2>1, <2>3 DEF Overwrites, LockedByOther
    <3>2. CASE pc[t] \in CasePCs
      <4>1. target[t] \in Cases
        BY <3>2 DEF TypeInv, SessionsOK, SessionOK
      <4>2. case'[target[t]] = new
        BY <2>1, <2>3, <4>1 DEF Overwrites, TypeInv, CasesOK
      <4>3. /\ copy[t].version \in Nat /\ case[target[t]].version \in Nat
            /\ new.version \in Nat
        BY <2>1, <4>1 DEF Overwrites, TypeInv, CasesOK, SessionsOK, SessionTypes, Rows
      <4>4. copy[t].version < new.version
        BY <1>1, <2>1, <2>3, <3>1, <3>2, <4>3 DEF Overwrites, CopyOK
      <4> QED BY <1>1, <3>1, <4>2, <4>3, <4>4 DEF CopyOK
    <3>3. CASE pc[t] \notin CasePCs
      BY <1>1, <3>1, <3>3 DEF CopyOK, CasePCs, ExecutingPCs
    <3> QED BY <3>2, <3>3
  <2> QED BY <2>2, <2>3
<1> QED BY <1>3, <1>4

(* One session takes a step: no attempt or owner is taken back, a payment  *)
(* request changes only under the session that works on it, a closed link  *)
(* stays as it is.  Then all sessions keep their references.               *)
RefsKept(s) ==
  /\ \A l \in Links : attempt[l] # "none" => attempt'[l] # "none" /\ owner'[l] = owner[l]
  /\ \A l \in Links : request'[l] # request[l] =>
        /\ request'[l] # "none"
        /\ l = ref[s]
        /\ \/ pc[s] = "exec_record" /\ case[owner[l]].status = "EXECUTING"
           \/ request[l] # "none" /\ request'[l] = link[l]
  /\ \A l \in Links : link[l] \in ClosedStatuses => link'[l] = link[l]

(* A reference stays with the session that drew it, whoever takes a step.  *)
LEMMA RefStep ==
  ASSUME TypeInv, \A t \in Sessions : RefOK(t), \A l \in Links : LinkOK(l),
         NEW s \in Sessions, OthersStay(s), RefsKept(s), RefOK(s)'
  PROVE  \A t \in Sessions : RefOK(t)'
<1> SUFFICES ASSUME NEW t \in Sessions \ {s}  PROVE RefOK(t)'
  OBVIOUS
<1>1. /\ pc'[t] = pc[t] /\ target'[t] = target[t] /\ ref'[t] = ref[t]
      /\ snap'[t] = snap[t] /\ RefOK(t)
  BY DEF OthersStay
<1>2. ASSUME pc[t] \in CallingPCs
      PROVE  /\ owner'[ref[t]] = target[t]
             /\ attempt'[ref[t]] # "none"
             /\ request'[ref[t]] = "none"
             /\ \A u \in Sessions : pc'[u] \in CallingPCs /\ ref'[u] = ref[t] => u = t
  <2>1. ref[t] \in Links
    BY <1>2 DEF TypeInv, SessionsOK, SessionOK, LinkPCs, CallingPCs
  <2>2. /\ owner[ref[t]] = target[t] /\ attempt[ref[t]] # "none"
        /\ request[ref[t]] = "none"
        /\ \A u \in Sessions : pc[u] \in CallingPCs /\ ref[u] = ref[t] => u = t
    BY <1>1, <1>2 DEF RefOK
  <2>3. request'[ref[t]] = "none"
    BY <2>1, <2>2 DEF RefsKept, CallingPCs
  <2>4. ASSUME NEW u \in Sessions, pc'[u] \in CallingPCs, ref'[u] = ref[t]
        PROVE  u = t
    <3>1. CASE u = s
      BY <1>1, <1>2, <2>4, <3>1 DEF RefOK
    <3>2. CASE u # s
      BY <2>2, <2>4, <3>2 DEF OthersStay
    <3> QED BY <3>1, <3>2
  <2> QED BY <2>1, <2>2, <2>3, <2>4 DEF RefsKept
<1>3. ASSUME pc[t] \in HookPCs, ref[t] \in Links
      PROVE  link'[ref[t]] \in ClosedStatuses
  BY <1>1, <1>3 DEF RefOK, RefsKept
<1>4. ASSUME pc[t] = "hook_read"
      PROVE  owner'[ref[t]] = target[t] /\ request'[ref[t]] # "none"
  <2>1. ref[t] \in Links
    BY <1>4 DEF TypeInv, SessionsOK, SessionOK, LinkPCs
  <2>2. attempt[ref[t]] # "none"
    BY <1>1, <1>4, <2>1 DEF RefOK, LinkOK
  <2> QED BY <1>1, <1>4, <2>1, <2>2 DEF RefOK, RefsKept
<1> QED BY <1>1, <1>2, <1>3, <1>4 DEF RefOK
-----------------------------------------------------------------------------
(* What every step of a session amounts to.                                *)

LegalMove(old, new) ==
  /\ new.version > old.version
  /\ old.status # new.status => new.status \in TransactionMoves(old.status)
  /\ old.recovered # new.recovered =>
       old.status = "EXECUTING" /\ new.status = "RECOVERED"
  /\ old.status \notin TerminalStatuses

Credits(c, old, new) ==
  IF new.status = "RECOVERED"
  THEN /\ new.recovered = old.recovered + Amount[c]
       /\ \E l \in Links :
            /\ owner'[l] = c /\ Handled(l)'
            /\ link'[l] = "paid" /\ request'[l] = "paid"
  ELSE new.recovered = old.recovered

Counts(c) ==
  \/ /\ RequestsOf(c)' = RequestsOf(c)
     /\ case'[c].attempts = case[c].attempts
  \/ \E l \in Links \ RequestsOf(c) :
       /\ RequestsOf(c)' = RequestsOf(c) \cup {l}
       /\ case'[c].attempts = case[c].attempts + 1

Writes(s, new) ==
  /\ Overwrites(s, new)
  /\ LegalMove(case[target[s]], new)
  /\ Credits(target[s], case[target[s]], new)

StepOK(s) ==
  /\ OthersStay(s)
  /\ CopyOK(s)'
  /\ pc'[s] = "diag_ai" => ~LockedByOther(s, target'[s])
  /\ RefOK(s)'
  /\ RefsKept(s)
  /\ \A l \in Links : LinkOK(l)'
  /\ claimed \subseteq claimed'
  /\ case' = case \/ \E new : Writes(s, new)
  /\ \A c \in Cases : Counts(c)

LegalCommit ==
  \A c \in Cases : LET old == case[c]  new == case'[c] IN
    /\ old # new => new.version > old.version
    /\ old.status # new.status => new.status \in TransactionMoves(old.status)
    /\ old.recovered # new.recovered =>
         old.status = "EXECUTING" /\ new.status = "RECOVERED"
    /\ old.status \in TerminalStatuses => new = old

(* A payment that is on record as paid stays so.                           *)
LEMMA PaidStays ==
  ASSUME SafetyInv, NEW s \in Sessions, StepOK(s), NEW l \in Links,
         owner[l] \in Cases, case[owner[l]].status = "RECOVERED",
         Handled(l), link[l] = "paid", request[l] = "paid"
  PROVE  /\ owner'[l] = owner[l]
         /\ Handled(l)' /\ link'[l] = "paid" /\ request'[l] = "paid"
<1>1. attempt[l] # "none"
  BY DEF SafetyInv, LinkOK
<1>2. owner'[l] = owner[l]
  BY <1>1 DEF StepOK, RefsKept
<1>3. link'[l] = "paid"
  BY DEF StepOK, RefsKept, ClosedStatuses, OpenOrClosed
<1>4. request'[l] = "paid"
  BY DEF StepOK, RefsKept
<1>5. Handled(l)'
  BY DEF StepOK, Handled
<1> QED BY <1>2, <1>3, <1>4, <1>5

(* So every such step keeps the invariant, and commits only legal moves.   *)
LEMMA StepSafe ==
  ASSUME SafetyInv, TypeInv', NEW s \in Sessions, StepOK(s)
  PROVE  SafetyInv' /\ LegalCommit
<1>1. \A t \in Sessions : CopyOK(t)'
  <2>1. case' = case \/ \E new : Overwrites(s, new)
    BY DEF StepOK, Writes
  <2> QED BY <2>1, CopyStep DEF SafetyInv, StepOK
<1>2. \A t \in Sessions : RefOK(t)'
  BY RefStep DEF SafetyInv, StepOK
<1>3. \A l \in Links : LinkOK(l)'
  BY DEF StepOK
<1>4. ASSUME NEW c \in Cases
      PROVE  \/ case'[c] = case[c]
             \/ \E new : /\ case'[c] = new
                        /\ LegalMove(case[c], new)
                        /\ Credits(c, case[c], new)
  <2>1. CASE case' = case
    BY <2>1
  <2>2. CASE \E new : Writes(s, new)
    <3>1. PICK new : Writes(s, new)
      BY <2>2
    <3>2. case' = [case EXCEPT ![target[s]] = new]
      BY <3>1 DEF Writes, Overwrites
    <3>3. CASE c = target[s]
      BY <3>1, <3>2, <3>3 DEF Writes, SafetyInv, TypeInv, CasesOK
    <3>4. CASE c # target[s]
      BY <3>2, <3>4 DEF SafetyInv, TypeInv, CasesOK
    <3> QED BY <3>3, <3>4
  <2> QED BY <2>1, <2>2 DEF StepOK
<1>5. LegalCommit
  <2> SUFFICES ASSUME NEW c \in Cases
               PROVE  LET old == case[c]  new == case'[c] IN
                        /\ old # new => new.version > old.version
                        /\ old.status # new.status =>
                             new.status \in TransactionMoves(old.status)
                        /\ old.recovered # new.recovered =>
                             old.status = "EXECUTING" /\ new.status = "RECOVERED"
                        /\ old.status \in TerminalStatuses => new = old
    BY DEF LegalCommit
  <2>1. CASE case'[c] = case[c]
    BY <2>1
  <2>2. CASE LegalMove(case[c], case'[c])
    BY <2>2 DEF LegalMove
  <2> QED BY <1>4, <2>1, <2>2
<1>6. CreditMatchesPayment'
  <2> SUFFICES ASSUME NEW c \in Cases
               PROVE  IF case'[c].status = "RECOVERED"
                      THEN /\ case'[c].recovered = Amount[c]
                           /\ \E l \in Links :
                                /\ owner'[l] = c /\ Handled(l)'
                                /\ link'[l] = "paid" /\ request'[l] = "paid"
                      ELSE case'[c].recovered = 0
    BY DEF CreditMatchesPayment, LinksOf
  <2>1. IF case[c].status = "RECOVERED"
        THEN /\ case[c].recovered = Amount[c]
             /\ \E l \in Links :
                  /\ owner[l] = c /\ Handled(l)
                  /\ link[l] = "paid" /\ request[l] = "paid"
        ELSE case[c].recovered = 0
    BY DEF SafetyInv, CreditMatchesPayment, LinksOf
  <2>2. CASE case'[c] = case[c]
    <3>1. CASE case[c].status = "RECOVERED"
      BY <2>1, <2>2, <3>1, PaidStays
    <3>2. CASE case[c].status # "RECOVERED"
      BY <2>1, <2>2, <3>2
    <3> QED BY <3>1, <3>2
  <2>3. CASE LegalMove(case[c], case'[c]) /\ Credits(c, case[c], case'[c])
    <3>1. case[c].status # "RECOVERED" /\ case[c].recovered = 0
      BY <2>1, <2>3 DEF LegalMove, TerminalStatuses
    <3>2. Amount[c] \in Nat
      BY PipelineAssumption
    <3> QED BY <2>3, <3>1, <3>2 DEF Credits
  <2> QED BY <1>4, <2>2, <2>3
<1>7. AttemptsCounted'
  <2> SUFFICES ASSUME NEW c \in Cases
               PROVE  /\ IsFiniteSet(RequestsOf(c)')
                      /\ case'[c].attempts = Cardinality(RequestsOf(c)')
    BY DEF AttemptsCounted
  <2>1. IsFiniteSet(RequestsOf(c)) /\ case[c].attempts = Cardinality(RequestsOf(c))
    BY DEF SafetyInv, AttemptsCounted
  <2>2. CASE RequestsOf(c)' = RequestsOf(c) /\ case'[c].attempts = case[c].attempts
    BY <2>1, <2>2
  <2>3. CASE \E l \in Links \ RequestsOf(c) :
               /\ RequestsOf(c)' = RequestsOf(c) \cup {l}
               /\ case'[c].attempts = case[c].attempts + 1
    BY <2>1, <2>3, FS_AddElement
  <2> QED BY <2>2, <2>3 DEF StepOK, Counts
<1> QED BY <1>1, <1>2, <1>3, <1>5, <1>6, <1>7 DEF SafetyInv
-----------------------------------------------------------------------------
(* A session that ends, or goes on, as seen by the others.                 *)
LEMMA LeaveStep ==
  ASSUME SafetyInv, NEW s \in Sessions, Leave(s)
  PROVE  OthersStay(s) /\ pc'[s] = "idle" /\ CopyOK(s)' /\ RefOK(s)'
<1>1. OthersStay(s) /\ pc'[s] = "idle"
  BY DEF SafetyInv, TypeInv, SessionsOK, SessionTypes, Leave, OthersStay
<1>2. CopyOK(s)' /\ RefOK(s)'
  BY <1>1 DEF CopyOK, RefOK, CasePCs, ExecutingPCs, CallingPCs, HookPCs, HoldsClaim
<1> QED BY <1>1, <1>2

(* A step that commits nothing about a case, an attempt or a request.      *)
LEMMA QuietStep ==
  ASSUME SafetyInv, NEW s \in Sessions, OthersStay(s), CopyOK(s)', RefOK(s)',
         pc'[s] = "diag_ai" => ~LockedByOther(s, target'[s]),
         UNCHANGED <<case, attempt, request, owner, link>>,
         wire' \subseteq wire, claimed \subseteq claimed'
  PROVE  StepOK(s)
<1>1. RefsKept(s)
  BY DEF RefsKept
<1>2. \A l \in Links : LinkOK(l)'
  BY DEF SafetyInv, LinkOK
<1>3. \A c \in Cases : Counts(c)
  BY DEF Counts, RequestsOf, LinksOf
<1> QED BY <1>1, <1>2, <1>3 DEF StepOK

(* A copy that is still fresh is the committed row, and nobody else has    *)
(* the row locked.                                                         *)
LEMMA FreshCopy ==
  ASSUME SafetyInv, NEW s \in Sessions, Fresh(s), pc[s] \in CasePCs \ {"diag_ai"}
  PROVE  /\ target[s] \in Cases
         /\ copy[s] \in Rows
         /\ case[target[s]] = copy[s]
         /\ ~LockedByOther(s, target[s])
  BY DEF SafetyInv, TypeInv, SessionsOK, SessionTypes, SessionOK, CopyOK, Fresh,
         Locked, LockedByOther

(* A step that moves the case's status, short of RECOVERED, and touches no *)
(* payment request.                                                        *)
LEMMA MoveStep ==
  ASSUME SafetyInv, NEW s \in Sessions, OthersStay(s), CopyOK(s)', RefOK(s)',
         pc'[s] # "diag_ai", target[s] \in Cases,
         NEW new, Overwrites(s, new),
         new.status \in TransactionMoves(case[target[s]].status) \ {"RECOVERED"},
         new.attempts = case[target[s]].attempts,
         new.recovered = case[target[s]].recovered,
         UNCHANGED <<request, owner, link, wire, claimed>>,
         \A l \in Links : attempt'[l] = "none" <=> attempt[l] = "none"
  PROVE  StepOK(s)
<1>1. RefsKept(s)
  BY DEF RefsKept
<1>2. \A l \in Links : LinkOK(l)'
  BY DEF SafetyInv, LinkOK
<1>3. \A c \in Cases : Counts(c)
  BY DEF Counts, RequestsOf, LinksOf, Overwrites, SafetyInv, TypeInv, CasesOK
<1>4. Writes(s, new)
  <2>1. case[target[s]].status \notin TerminalStatuses
    BY DEF TransactionMoves, TerminalStatuses
  <2> QED BY <2>1 DEF Writes, LegalMove, Credits, Overwrites
<1> QED BY <1>1, <1>2, <1>3, <1>4 DEF StepOK
-----------------------------------------------------------------------------
(* Every step of a diagnosis is such a step.                               *)
LEMMA SafeDiagnose ==
  ASSUME SafetyInv, NEW s \in Sessions, Diagnose(s)
  PROVE  StepOK(s)
<1>1. ASSUME NEW c \in Cases, DiagnoseRead(s, c)  PROVE StepOK(s)
  <2>1. /\ OthersStay(s) /\ pc'[s] = "diag_read"
        /\ target'[s] = c /\ copy'[s] = case[c]
        /\ UNCHANGED <<dbVars, providerVars>>
    BY <1>1 DEF DiagnoseRead, GoTo, OthersStay, SafetyInv, TypeInv, SessionsOK,
                SessionTypes
  <2>2. case[c] \in Rows /\ case[c].status \in {"DISCOVERED", "FAILED"}
    BY <1>1 DEF DiagnoseRead, Diagnosable, CanTransition, AllowedTransitions, SafetyInv,
                TypeInv, CasesOK, CommittedStatuses, TransientStatuses, Statuses
  <2>3. CopyOK(s)'
    BY <2>1, <2>2 DEF dbVars, CopyOK, Rows, CasePCs, ExecutingPCs
  <2>4. RefOK(s)'
    BY <2>1 DEF RefOK, CallingPCs, HookPCs, HoldsClaim
  <2> QED BY <2>1, <2>3, <2>4, QuietStep DEF dbVars, providerVars
<1>2. ASSUME DiagnoseIneligible(s)  PROVE StepOK(s)
  <2> DEFINE new == Moved(copy[s], <<"INELIGIBLE">>)
  <2>1. /\ target[s] \in Cases /\ copy[s] \in Rows /\ case[target[s]] = copy[s]
        /\ ~LockedByOther(s, target[s])
    BY <1>2, FreshCopy DEF DiagnoseIneligible, CasePCs
  <2>2. IsMoved(new, copy[s], "INELIGIBLE", 1)
    BY <2>1, MovedOne DEF Statuses
  <2>3. Overwrites(s, new)
    BY <1>2, <2>1, <2>2 DEF DiagnoseIneligible, Save, Overwrites, IsMoved, Rows
  <2>4. new.status \in TransactionMoves(case[target[s]].status) \ {"RECOVERED"}
    BY <1>2, <2>1, <2>2 DEF DiagnoseIneligible, IsMoved, TransactionMoves
  <2>5. OthersStay(s) /\ pc'[s] = "idle" /\ CopyOK(s)' /\ RefOK(s)'
    BY <1>2, LeaveStep DEF DiagnoseIneligible
  <2>6. UNCHANGED <<attempt, request, owner, link, wire, claimed>>
    BY <1>2 DEF DiagnoseIneligible, providerVars
  <2>7. new.attempts = copy[s].attempts /\ new.recovered = copy[s].recovered
    BY <2>2 DEF IsMoved
  <2> HIDE DEF new
  <2> QED BY <2>1, <2>3, <2>4, <2>5, <2>6, <2>7, MoveStep
<1>3. ASSUME DiagnoseBegin(s)  PROVE StepOK(s)
  <2>1. /\ target[s] \in Cases /\ copy[s] \in Rows /\ case[target[s]] = copy[s]
        /\ ~LockedByOther(s, target[s])
    BY <1>3, FreshCopy DEF DiagnoseBegin, CasePCs
  <2>2. /\ OthersStay(s) /\ pc'[s] = "diag_ai" /\ target'[s] = target[s]
        /\ UNCHANGED <<dbVars, providerVars>>
    BY <1>3 DEF DiagnoseBegin, GoTo, OthersStay, SafetyInv, TypeInv, SessionsOK,
                SessionTypes
  <2>3. \E n \in {1, 2} : IsMoved(copy'[s], copy[s], "DIAGNOSING", n)
    <3>1. /\ IsMoved(Moved(copy[s], <<"ELIGIBLE", "DIAGNOSING">>), copy[s], "DIAGNOSING", 2)
          /\ IsMoved(Moved(copy[s], <<"DIAGNOSING">>), copy[s], "DIAGNOSING", 1)
      BY <2>1, MovedOne, MovedTwo DEF Statuses
    <3>2. \/ copy'[s] = Moved(copy[s], <<"ELIGIBLE", "DIAGNOSING">>)
          \/ copy'[s] = Moved(copy[s], <<"DIAGNOSING">>)
      BY <1>3 DEF DiagnoseBegin, SafetyInv, TypeInv, SessionsOK, SessionTypes
    <3> QED BY <3>1, <3>2
  <2>4. copy[s].status \in {"DISCOVERED", "FAILED"}
    BY <1>3 DEF DiagnoseBegin, SafetyInv, CopyOK
  <2>5. ~LockedByOther(s, target'[s])
    BY <2>1, <2>2
  <2>6. CopyOK(s)'
    <3>1. copy'[s].version > copy[s].version
      BY <2>1, <2>3 DEF IsMoved, Rows
    <3>2. copy'[s].attempts = copy[s].attempts /\ copy'[s].recovered = copy[s].recovered
      BY <2>3 DEF IsMoved
    <3>3. \A t \in Sessions : pc'[t] = "diag_ai" /\ target'[t] = target'[s] => t = s
      BY <2>2, <2>5 DEF OthersStay, LockedByOther
    <3> QED
      BY <2>1, <2>2, <2>4, <3>1, <3>2, <3>3 DEF CopyOK, dbVars, ExecutingPCs
  <2>7. RefOK(s)'
    BY <2>2 DEF RefOK, CallingPCs, HookPCs, HoldsClaim
  <2> QED BY <2>2, <2>5, <2>6, <2>7, QuietStep DEF dbVars, providerVars
<1>4. ASSUME DiagnoseFinish(s)  PROVE StepOK(s)
  <2>1. /\ target[s] \in Cases /\ copy[s] \in Rows /\ case[target[s]] \in Rows
        /\ CopyOK(s) /\ pc[s] = "diag_ai"
    BY <1>4 DEF DiagnoseFinish, SafetyInv, TypeInv, SessionsOK, SessionTypes, SessionOK,
                CasePCs, CasesOK
  <2>2. ~LockedByOther(s, target[s])
    BY <2>1 DEF CopyOK, LockedByOther
  <2>3. PICK new : Save(s, new) /\ IsDecided(new, copy[s])
    BY <1>4, <2>1, DiagnosisDecides
  <2>4. /\ new.version > case[target[s]].version
        /\ new.attempts = case[target[s]].attempts
        /\ new.recovered = case[target[s]].recovered
    BY <2>1, <2>3 DEF CopyOK, IsDecided, Rows
  <2>5. Overwrites(s, new)
    BY <2>2, <2>3, <2>4 DEF Save, Overwrites, IsDecided
  <2>6. new.status \in TransactionMoves(case[target[s]].status) \ {"RECOVERED"}
    BY <2>1, <2>3 DEF CopyOK, IsDecided, TransactionMoves
  <2>7. OthersStay(s) /\ pc'[s] = "idle" /\ CopyOK(s)' /\ RefOK(s)'
    BY <1>4, LeaveStep DEF DiagnoseFinish
  <2>8. UNCHANGED <<attempt, request, owner, link, wire, claimed>>
    BY <1>4 DEF DiagnoseFinish, providerVars
  <2> QED BY <2>1, <2>4, <2>5, <2>6, <2>7, <2>8, MoveStep
<1> QED BY <1>1, <1>2, <1>3, <1>4 DEF Diagnose

(* Every step of an execution is.                                          *)
LEMMA SafeExecute ==
  ASSUME SafetyInv, NEW s \in Sessions, Execute(s)
  PROVE  StepOK(s)
<1>1. ASSUME NEW c \in Cases, ExecuteRead(s, c)  PROVE StepOK(s)
  <2>1. /\ OthersStay(s) /\ pc'[s] \in {"exec_allowed", "exec_blocked"}
        /\ target'[s] = c /\ copy'[s] = case[c]
        /\ UNCHANGED <<dbVars, providerVars>>
    BY <1>1 DEF ExecuteRead, GoTo, OthersStay, SafetyInv, TypeInv, SessionsOK,
                SessionTypes
  <2>2. case[c] \in Rows /\ case[c].status = "APPROVED"
    BY <1>1 DEF ExecuteRead, CanTransition, AllowedTransitions, SafetyInv, TypeInv,
                CasesOK, CommittedStatuses, TransientStatuses, Statuses
  <2>3. CopyOK(s)'
    BY <2>1, <2>2 DEF dbVars, CopyOK, Rows, CasePCs, ExecutingPCs
  <2>4. RefOK(s)'
    BY <2>1 DEF RefOK, CallingPCs, HookPCs, HoldsClaim
  <2> QED BY <2>1, <2>3, <2>4, QuietStep DEF dbVars, providerVars
<1>2. ASSUME ExecuteBlocked(s)  PROVE StepOK(s)
  <2> DEFINE new == Moved(copy[s], <<"EXECUTING", "ESCALATED">>)
  <2>1. /\ target[s] \in Cases /\ copy[s] \in Rows /\ case[target[s]] = copy[s]
        /\ ~LockedByOther(s, target[s])
    BY <1>2, FreshCopy DEF ExecuteBlocked, CasePCs
  <2>2. IsMoved(new, copy[s], "ESCALATED", 2)
    BY <2>1, MovedTwo DEF Statuses
  <2>3. Overwrites(s, new)
    BY <1>2, <2>1, <2>2 DEF ExecuteBlocked, Save, Overwrites, IsMoved, Rows
  <2>4. new.status \in TransactionMoves(case[target[s]].status) \ {"RECOVERED"}
    BY <1>2, <2>1, <2>2 DEF ExecuteBlocked, SafetyInv, CopyOK, IsMoved, TransactionMoves
  <2>5. OthersStay(s) /\ pc'[s] = "idle" /\ CopyOK(s)' /\ RefOK(s)'
    BY <1>2, LeaveStep DEF ExecuteBlocked
  <2>6. UNCHANGED <<attempt, request, owner, link, wire, claimed>>
    BY <1>2 DEF ExecuteBlocked, providerVars
  <2>7. new.attempts = copy[s].attempts /\ new.recovered = copy[s].recovered
    BY <2>2 DEF IsMoved
  <2> HIDE DEF new
  <2> QED BY <2>1, <2>3, <2>4, <2>5, <2>6, <2>7, MoveStep
<1>3. ASSUME ExecuteClaim(s)  PROVE StepOK(s)
  <2> DEFINE new == Moved(copy[s], <<"EXECUTING">>)
  <2>1. /\ target[s] \in Cases /\ copy[s] \in Rows /\ case[target[s]] = copy[s]
        /\ ~LockedByOther(s, target[s])
    BY <1>3, FreshCopy DEF ExecuteClaim, CasePCs
  <2>2. IsMoved(new, copy[s], "EXECUTING", 1)
    BY <2>1, MovedOne DEF Statuses
  <2>3. Overwrites(s, new)
    BY <1>3, <2>1, <2>2 DEF ExecuteClaim, Save, Overwrites, IsMoved, Rows
  <2>4. new.status \in TransactionMoves(case[target[s]].status) \ {"RECOVERED"}
    BY <1>3, <2>1, <2>2 DEF ExecuteClaim, SafetyInv, CopyOK, IsMoved, TransactionMoves
  <2>5. /\ OthersStay(s) /\ pc'[s] = "exec_claimed" /\ target'[s] = target[s]
        /\ copy'[s] = new /\ case'[target[s]] = new
    BY <1>3, <2>1 DEF ExecuteClaim, GoTo, Save, OthersStay, SafetyInv, TypeInv,
                      SessionsOK, SessionTypes, CasesOK
  <2>6. CopyOK(s)'
    <3>1. new \in Rows /\ new.status = "EXECUTING"
      BY <2>2 DEF IsMoved
    <3> HIDE DEF new
    <3> QED BY <2>5, <3>1 DEF CopyOK, Rows
  <2>7. RefOK(s)'
    BY <2>5 DEF RefOK, CallingPCs, HookPCs, HoldsClaim
  <2>8. UNCHANGED <<attempt, request, owner, link, wire, claimed>>
    BY <1>3 DEF ExecuteClaim, providerVars
  <2>9. new.attempts = copy[s].attempts /\ new.recovered = copy[s].recovered
    BY <2>2 DEF IsMoved
  <2> HIDE DEF new
  <2> QED BY <2>1, <2>3, <2>4, <2>5, <2>6, <2>7, <2>8, <2>9, MoveStep
<1>4. ASSUME NEW l \in Links, ExecuteCall(s, l)  PROVE StepOK(s)
  <2>1. /\ OthersStay(s) /\ pc[s] = "exec_claimed" /\ pc'[s] = "exec_wait"
        /\ target'[s] = target[s] /\ copy'[s] = copy[s] /\ ref'[s] = l
        /\ attempt[l] = "none"
        /\ UNCHANGED <<case, request, claimed, link>>
    BY <1>4 DEF ExecuteCall, UnusedLinks, GoTo, OthersStay, SafetyInv, TypeInv,
                SessionsOK, SessionTypes
  <2>2. /\ attempt' = [attempt EXCEPT ![l] = "in_progress"]
        /\ owner' = [owner EXCEPT ![l] = target[s]]
        /\ wire' = wire \cup {l}
    BY <1>4 DEF ExecuteCall
  <2>3. CopyOK(s)'
    BY <2>1 DEF CopyOK, SafetyInv, CasePCs, ExecutingPCs
  <2>4. request[l] = "none" /\ link[l] = "none"
    BY <2>1 DEF SafetyInv, LinkOK
  <2>5. ASSUME NEW t \in Sessions, pc'[t] \in CallingPCs, ref'[t] = l
        PROVE  t = s
    <3>1. SUFFICES ASSUME t # s  PROVE FALSE
      OBVIOUS
    <3>2. pc[t] \in CallingPCs /\ ref[t] = l
      BY <2>1, <2>5, <3>1 DEF OthersStay
    <3>3. attempt[l] # "none"
      BY <3>2 DEF SafetyInv, RefOK
    <3> QED BY <2>1, <3>3
  <2>6. RefOK(s)'
    BY <2>1, <2>2, <2>4, <2>5
    DEF RefOK, CallingPCs, HookPCs, HoldsClaim, SafetyInv, TypeInv, DbOK
  <2>7. RefsKept(s)
    BY <2>1, <2>2 DEF RefsKept, SafetyInv, TypeInv, DbOK
  <2>8. \A m \in Links : LinkOK(m)'
    BY <2>1, <2>2, <2>4 DEF LinkOK, SafetyInv, TypeInv, DbOK
  <2>9. \A c \in Cases : Counts(c)
    BY <2>1, <2>2, <2>4 DEF Counts, RequestsOf, LinksOf, SafetyInv, TypeInv, DbOK
  <2> QED BY <2>1, <2>3, <2>6, <2>7, <2>8, <2>9 DEF StepOK
<1>5. ASSUME \/ ExecuteAccepted(s) \/ ReconcileFound(s) \/ ExecuteRefused(s)
             \/ ExecuteAmbiguous(s) \/ ReconcileUnresolved(s)
      PROVE  StepOK(s)
  <2>1. /\ UNCHANGED <<dbVars, link, acked, target, copy, ref, key, day, crashes>>
        /\ wire' \subseteq wire
        /\ pc[s] \in {"exec_wait", "exec_unsure"}
    BY <1>5 DEF ExecuteAccepted, ReconcileFound, ExecuteRefused, ExecuteAmbiguous,
                ReconcileUnresolved, providerVars
  <2>2. \E label \in {"exec_unsure", "exec_record", "exec_failed"} :
          pc' = [pc EXCEPT ![s] = label]
    BY <1>5 DEF ExecuteAccepted, ReconcileFound, ExecuteRefused, ExecuteAmbiguous,
                ReconcileUnresolved, GoTo
  <2>3. snap' = snap \/ snap' = [snap EXCEPT ![s] = snap'[s]]
    BY <1>5 DEF ExecuteAccepted, ReconcileFound, ExecuteRefused, ExecuteAmbiguous,
                ReconcileUnresolved, SafetyInv, TypeInv, SessionsOK, SessionTypes
  <2>4. pc'[s] \in {"exec_unsure", "exec_record", "exec_failed"} /\ OthersStay(s)
    BY <2>1, <2>2, <2>3 DEF OthersStay, SafetyInv, TypeInv, SessionsOK, SessionTypes
  <2>5. pc'[s] = "exec_record" => snap'[s] # "none"
    BY <1>5, <2>4 DEF ExecuteAccepted, ReconcileFound, ExecuteRefused, ExecuteAmbiguous,
                ReconcileUnresolved, GoTo, SafetyInv, TypeInv, SessionsOK, SessionTypes
  <2>6. CopyOK(s)'
    BY <2>1, <2>4 DEF dbVars, CopyOK, SafetyInv, CasePCs, ExecutingPCs
  <2>7. \A t \in Sessions : pc'[t] \in CallingPCs => pc[t] \in CallingPCs
    BY <2>1, <2>4 DEF OthersStay, CallingPCs
  <2>8. RefOK(s)'
    BY <2>1, <2>4, <2>5, <2>7
    DEF dbVars, RefOK, SafetyInv, CallingPCs, HookPCs, HoldsClaim
  <2> QED BY <2>1, <2>4, <2>6, <2>8, QuietStep DEF dbVars
<1>6. ASSUME ExecuteRecord(s)  PROVE StepOK(s)
  <2> DEFINE new == [copy[s] EXCEPT !.attempts = @ + 1, !.version = @ + 1]
             c == target[s]
             l == ref[s]
  <2>1. /\ c \in Cases /\ copy[s] \in Rows /\ case[c] = copy[s]
        /\ ~LockedByOther(s, c)
    BY <1>6, FreshCopy DEF ExecuteRecord, CasePCs
  <2>2. /\ new \in Rows
        /\ new.status = copy[s].status
        /\ new.version = copy[s].version + 1
        /\ new.attempts = copy[s].attempts + 1
        /\ new.recovered = copy[s].recovered
    BY <2>1, RowAttempt
  <2>3. /\ l \in Links /\ owner[l] = c /\ attempt[l] # "none" /\ request[l] = "none"
        /\ snap[s] # "none" /\ copy[s].status = "EXECUTING" /\ pc[s] = "exec_record"
    BY <1>6 DEF ExecuteRecord, SafetyInv, TypeInv, SessionsOK, SessionOK, LinkPCs,
                RefOK, CallingPCs, CopyOK, ExecutingPCs
  <2>4. /\ request' = [request EXCEPT ![l] = snap[s]]
        /\ attempt' = [attempt EXCEPT ![l] = "succeeded"]
        /\ case' = [case EXCEPT ![c] = new]
        /\ UNCHANGED <<owner, claimed, link, wire>>
    BY <1>6 DEF ExecuteRecord, Save, providerVars
  <2> HIDE DEF new
  <2>5. Writes(s, new)
    BY <2>1, <2>2, <2>3, <2>4
    DEF Writes, Overwrites, LegalMove, Credits, TerminalStatuses, Rows
  <2>6. OthersStay(s) /\ pc'[s] = "idle" /\ CopyOK(s)' /\ RefOK(s)'
    BY <1>6, LeaveStep DEF ExecuteRecord
  <2>7. RefsKept(s)
    BY <2>1, <2>3, <2>4 DEF RefsKept, SafetyInv, TypeInv, DbOK
  <2>8. \A m \in Links : LinkOK(m)'
    BY <2>3, <2>4 DEF LinkOK, SafetyInv, TypeInv, DbOK
  <2>9. ASSUME NEW d \in Cases  PROVE Counts(d)
    <3>1. CASE d = c
      <4>1. RequestsOf(d)' = RequestsOf(d) \cup {l} /\ l \notin RequestsOf(d)
        BY <2>3, <2>4, <3>1 DEF RequestsOf, LinksOf, SafetyInv, TypeInv, DbOK
      <4>2. case'[d].attempts = case[d].attempts + 1
        BY <2>1, <2>2, <2>4, <3>1 DEF SafetyInv, TypeInv, CasesOK
      <4> QED BY <2>3, <4>1, <4>2 DEF Counts
    <3>2. CASE d # c
      <4>1. RequestsOf(d)' = RequestsOf(d)
        BY <2>3, <2>4, <3>2 DEF RequestsOf, LinksOf, SafetyInv, TypeInv, DbOK
      <4>2. case'[d] = case[d]
        BY <2>4, <3>2 DEF SafetyInv, TypeInv, CasesOK
      <4> QED BY <4>1, <4>2 DEF Counts
    <3> QED BY <3>1, <3>2
  <2> QED BY <2>4, <2>5, <2>6, <2>7, <2>8, <2>9 DEF StepOK
<1>7. ASSUME ExecuteEscalate(s)  PROVE StepOK(s)
  <2> DEFINE new == Moved(copy[s], <<"ESCALATED">>)
  <2>1. /\ target[s] \in Cases /\ copy[s] \in Rows /\ case[target[s]] = copy[s]
        /\ ~LockedByOther(s, target[s])
    BY <1>7, FreshCopy DEF ExecuteEscalate, CasePCs
  <2>2. IsMoved(new, copy[s], "ESCALATED", 1)
    BY <2>1, MovedOne DEF Statuses
  <2>3. Overwrites(s, new)
    BY <1>7, <2>1, <2>2 DEF ExecuteEscalate, Save, Overwrites, IsMoved, Rows
  <2>4. new.status \in TransactionMoves(case[target[s]].status) \ {"RECOVERED"}
    BY <1>7, <2>1, <2>2
    DEF ExecuteEscalate, SafetyInv, CopyOK, ExecutingPCs, IsMoved, TransactionMoves
  <2>5. OthersStay(s) /\ pc'[s] = "idle" /\ CopyOK(s)' /\ RefOK(s)'
    BY <1>7, LeaveStep DEF ExecuteEscalate
  <2>6. UNCHANGED <<request, owner, link, wire, claimed>>
    BY <1>7 DEF ExecuteEscalate, providerVars
  <2>7. new.attempts = copy[s].attempts /\ new.recovered = copy[s].recovered
    BY <2>2 DEF IsMoved
  <2>8. ref[s] \in Links /\ attempt[ref[s]] # "none"
    BY <1>7 DEF ExecuteEscalate, SafetyInv, TypeInv, SessionsOK, SessionOK, LinkPCs,
                RefOK, CallingPCs
  <2>9. \A l \in Links : attempt'[l] = "none" <=> attempt[l] = "none"
    BY <1>7, <2>8 DEF ExecuteEscalate, SafetyInv, TypeInv, DbOK
  <2> HIDE DEF new
  <2> QED BY <2>1, <2>3, <2>4, <2>5, <2>6, <2>7, <2>9, MoveStep
<1> QED BY <1>1, <1>2, <1>3, <1>4, <1>5, <1>6, <1>7 DEF Execute

(* Every step of a webhook delivery is.                                    *)
LEMMA SafeWebhook ==
  ASSUME SafetyInv, NEW s \in Sessions, Webhook(s)
  PROVE  StepOK(s)
<1>1. ASSUME NEW e \in Events, WebhookDuplicate(s, e)  PROVE StepOK(s)
  <2>1. UNCHANGED <<dbVars, link, wire, sessionVars>> /\ pc[s] = "idle"
    BY <1>1 DEF WebhookDuplicate
  <2>2. OthersStay(s)
    BY <2>1 DEF OthersStay, sessionVars
  <2>3. CopyOK(s)' /\ RefOK(s)'
    BY <2>1 DEF sessionVars, CopyOK, RefOK, CasePCs, ExecutingPCs, CallingPCs, HookPCs,
                HoldsClaim
  <2> QED BY <2>1, <2>2, <2>3, QuietStep DEF dbVars, sessionVars
<1>2. ASSUME NEW e \in Events, WebhookArrive(s, e)  PROVE StepOK(s)
  <2>1. /\ OthersStay(s) /\ pc'[s] = "hook_start" /\ ref'[s] = e[1]
        /\ UNCHANGED <<dbVars, providerVars>> /\ Deliverable(e)
    BY <1>2 DEF WebhookArrive, GoTo, OthersStay, SafetyInv, TypeInv, SessionsOK,
                SessionTypes
  <2>2. CopyOK(s)'
    BY <2>1 DEF CopyOK, CasePCs, ExecutingPCs
  <2>3. RefOK(s)'
    BY <2>1, PipelineAssumption DEF RefOK, Deliverable, providerVars, CallingPCs
  <2> QED BY <2>1, <2>2, <2>3, QuietStep DEF dbVars, providerVars
<1>3. ASSUME WebhookClaim(s)  PROVE StepOK(s)
  <2>1. /\ OthersStay(s) /\ pc[s] = "hook_start" /\ pc'[s] = "hook_claimed"
        /\ UNCHANGED <<dbVars, providerVars, ref>>
    BY <1>3 DEF WebhookClaim, GoTo, OthersStay, SafetyInv, TypeInv, SessionsOK,
                SessionTypes
  <2>2. CopyOK(s)'
    BY <2>1 DEF CopyOK, CasePCs, ExecutingPCs
  <2>3. RefOK(s)'
    BY <2>1 DEF RefOK, SafetyInv, providerVars, CallingPCs, HookPCs
  <2> QED BY <2>1, <2>2, <2>3, QuietStep DEF dbVars, providerVars
<1>4. ASSUME WebhookLostRace(s) \/ WebhookIgnore(s) \/ WebhookUnmatched(s)
      PROVE  StepOK(s)
  <2>1. /\ Leave(s) /\ claimed \subseteq claimed'
        /\ UNCHANGED <<case, attempt, request, owner, link, wire>>
    BY <1>4 DEF WebhookLostRace, WebhookIgnore, WebhookUnmatched, CommitClaim, dbVars
  <2> QED BY <2>1, LeaveStep, QuietStep
<1>5. ASSUME WebhookLookup(s)  PROVE StepOK(s)
  <2>1. /\ OthersStay(s) /\ pc[s] = "hook_claimed"
        /\ pc'[s] \in {"hook_unmatched", "hook_read"}
        /\ pc'[s] = "hook_read" => /\ request[ref[s]] # "none"
                                   /\ target'[s] = owner[ref[s]]
                                   /\ copy'[s] = case[owner[ref[s]]]
        /\ ref[s] \in Links
        /\ UNCHANGED <<dbVars, providerVars, ref>>
    BY <1>5 DEF WebhookLookup, GoTo, OthersStay, SafetyInv, TypeInv, SessionsOK,
                SessionTypes
  <2>2. pc'[s] = "hook_read" => copy'[s].version \in Nat
    BY <2>1 DEF SafetyInv, TypeInv, DbOK, RequestsOwned, CasesOK, Rows
  <2>3. CopyOK(s)'
    BY <2>1, <2>2 DEF CopyOK, dbVars, CasePCs, ExecutingPCs
  <2>4. RefOK(s)'
    BY <2>1 DEF RefOK, SafetyInv, dbVars, providerVars, CallingPCs, HookPCs, HoldsClaim
  <2> QED BY <2>1, <2>3, <2>4, QuietStep DEF dbVars, providerVars
<1>6. ASSUME pc[s] = "hook_read"
      PROVE  /\ ref[s] \in Links /\ owner[ref[s]] = target[s] /\ target[s] \in Cases
             /\ attempt[ref[s]] # "none" /\ request[ref[s]] # "none"
             /\ link[ref[s]] \in ClosedStatuses
             /\ key[s] \in KeySources
  <2>1. ref[s] \in Links /\ target[s] \in Cases /\ Event(s) \in Events
    BY <1>6 DEF SafetyInv, TypeInv, SessionsOK, SessionOK, LinkPCs, CasePCs, HookPCs,
                HoldsClaim
  <2>2. key[s] \in KeySources
    BY <2>1 DEF Event, Events
  <2>3. /\ owner[ref[s]] = target[s] /\ request[ref[s]] # "none"
        /\ link[ref[s]] \in ClosedStatuses
    BY <1>6, <2>1 DEF SafetyInv, RefOK, HookPCs, HoldsClaim
  <2>4. attempt[ref[s]] # "none"
    BY <2>1, <2>3 DEF SafetyInv, LinkOK
  <2> QED BY <2>1, <2>2, <2>3, <2>4
<1>7. ASSUME pc[s] = "hook_read", request' = [request EXCEPT ![ref[s]] = link[ref[s]]],
             UNCHANGED <<attempt, owner, link, wire>>
      PROVE  /\ RefsKept(s) /\ \A l \in Links : LinkOK(l)'
             /\ \A c \in Cases : RequestsOf(c)' = RequestsOf(c)
  <2>1. RefsKept(s)
    BY <1>6, <1>7
    DEF RefsKept, ClosedStatuses, OpenOrClosed, SafetyInv, TypeInv, DbOK
  <2>2. \A l \in Links : LinkOK(l)'
    BY <1>6, <1>7 DEF LinkOK, SafetyInv, TypeInv, DbOK
  <2>3. \A c \in Cases : RequestsOf(c)' = RequestsOf(c)
    BY <1>6, <1>7
    DEF RequestsOf, LinksOf, ClosedStatuses, OpenOrClosed, SafetyInv, TypeInv, DbOK
  <2> QED BY <2>1, <2>2, <2>3
<1>8. ASSUME WebhookMovedOn(s)  PROVE StepOK(s)
  <2>1. /\ Leave(s) /\ claimed \subseteq claimed' /\ case' = case
    BY <1>8 DEF WebhookMovedOn, CommitClaim
  <2>2. /\ RefsKept(s) /\ \A l \in Links : LinkOK(l)'
        /\ \A c \in Cases : RequestsOf(c)' = RequestsOf(c)
    BY <1>7, <1>8 DEF WebhookMovedOn
  <2> QED BY <2>1, <2>2, LeaveStep DEF StepOK, Counts
<1>9. ASSUME WebhookApply(s)  PROVE StepOK(s)
  <2>1. /\ copy[s] \in Rows /\ case[target[s]] = copy[s]
        /\ ~LockedByOther(s, target[s])
        /\ copy[s].status = "EXECUTING" /\ pc[s] = "hook_read"
    BY <1>9, FreshCopy DEF WebhookApply, CasePCs
  <2>2. PICK c \in Cases, l \in Links :
          c = target[s] /\ l = ref[s] /\ owner[l] = c /\ key[s] \in KeySources
    BY <1>6, <2>1
  <2>3. Amount[owner[l]] \in Nat /\ Amount[c] = Amount[owner[l]]
    BY <2>2, PipelineAssumption
  <2>4. PICK new : new = Resolved(copy[s], l)
    OBVIOUS
  <2>5. /\ new \in Rows
        /\ new.version = copy[s].version + 1
        /\ new.attempts = copy[s].attempts
        /\ IF FullyPaid(l)
           THEN new.status = "RECOVERED" /\ new.recovered = copy[s].recovered + Amount[c]
           ELSE new.status = "FAILED" /\ new.recovered = copy[s].recovered
    BY <2>1, <2>3, <2>4, RowResolved
  <2>6. /\ request' = [request EXCEPT ![l] = link[l]]
        /\ case' = [case EXCEPT ![c] = new]
        /\ claimed' = claimed \cup {<<l, key[s]>>}
        /\ Leave(s)
        /\ UNCHANGED <<attempt, owner, link, wire>>
    BY <1>9, <2>2, <2>4 DEF WebhookApply, Save, CommitClaim, Event
  <2>7. ASSUME FullyPaid(l)
        PROVE  owner'[l] = c /\ Handled(l)' /\ link'[l] = "paid" /\ request'[l] = "paid"
    <3>1. Handled(l)'
      BY <2>2, <2>6 DEF Handled
    <3> QED BY <2>2, <2>6, <2>7, <3>1 DEF FullyPaid, SafetyInv, TypeInv, DbOK
  <2>8. Overwrites(s, new)
    BY <2>1, <2>2, <2>5, <2>6 DEF Overwrites, Rows
  <2>9. LegalMove(case[c], new)
    BY <2>1, <2>2, <2>5 DEF LegalMove, TransactionMoves, TerminalStatuses, Rows
  <2>10. Credits(c, case[c], new)
    BY <2>1, <2>2, <2>5, <2>7 DEF Credits
  <2>11. /\ RefsKept(s) /\ \A m \in Links : LinkOK(m)'
         /\ \A d \in Cases : RequestsOf(d)' = RequestsOf(d)
    BY <1>7, <2>1, <2>2, <2>6
  <2>12. \A d \in Cases : Counts(d)
    <3>1. \A d \in Cases : case'[d].attempts = case[d].attempts
      BY <2>1, <2>2, <2>5, <2>6 DEF SafetyInv, TypeInv, CasesOK
    <3> QED BY <2>11, <3>1 DEF Counts
  <2>13. OthersStay(s) /\ pc'[s] = "idle" /\ CopyOK(s)' /\ RefOK(s)'
    BY <2>6, LeaveStep
  <2>14. Writes(s, new)
    BY <2>2, <2>8, <2>9, <2>10 DEF Writes
  <2> QED
    BY <2>6, <2>11, <2>12, <2>13, <2>14 DEF StepOK
<1> QED
  BY <1>1, <1>2, <1>3, <1>4, <1>5, <1>8, <1>9 DEF Webhook
-----------------------------------------------------------------------------
(* The invariant holds initially.                                          *)
LEMMA SafetyInit == Init => SafetyInv
<1> SUFFICES ASSUME Init  PROVE SafetyInv
  OBVIOUS
<1>1. TypeInv
  BY TypeInit
<1>2. \A s \in Sessions : CopyOK(s) /\ RefOK(s)
  BY DEF Init, CopyOK, RefOK, CasePCs, ExecutingPCs, CallingPCs, HookPCs, HoldsClaim
<1>3. \A l \in Links : LinkOK(l)
  BY DEF Init, LinkOK
<1>4. CreditMatchesPayment
  BY DEF Init, NewRow, CreditMatchesPayment
<1>5. AttemptsCounted
  <2>1. \A c \in Cases : RequestsOf(c) = {}
    BY DEF Init, RequestsOf, LinksOf
  <2> QED BY <2>1, FS_EmptySet DEF Init, NewRow, AttemptsCounted
<1> QED BY <1>1, <1>2, <1>3, <1>4, <1>5 DEF SafetyInv

(* The provider moves its links only.                                      *)
LEMMA SafeProvider ==
  ASSUME SafetyInv, TypeInv', Provider
  PROVE  SafetyInv' /\ case' = case
<1>1. PICK l \in Links : ProviderCreates(l) \/ ProviderCloses(l)
  BY DEF Provider
<1>2. UNCHANGED <<dbVars, sessionVars>> /\ wire' \subseteq wire
  BY <1>1 DEF ProviderCreates, ProviderCloses
<1>3. \A m \in Links : link[m] \in ClosedStatuses => link'[m] = link[m]
  BY <1>1 DEF ProviderCreates, ProviderCloses, SafetyInv, LinkOK, TypeInv, WorldOK,
              ClosedStatuses, OpenOrClosed
<1>4. \A m \in Links : LinkOK(m)'
  BY <1>1 DEF ProviderCreates, ProviderCloses, dbVars, SafetyInv, LinkOK, TypeInv, WorldOK
<1>5. \A s \in Sessions : CopyOK(s)'
  BY <1>2 DEF dbVars, sessionVars, SafetyInv, CopyOK
<1>6. \A s \in Sessions : RefOK(s)'
  BY <1>2, <1>3 DEF dbVars, sessionVars, SafetyInv, RefOK
<1>7. CreditMatchesPayment'
  <2>1. \A m \in Links : link[m] = "paid" => link'[m] = "paid"
    BY <1>3 DEF ClosedStatuses, OpenOrClosed
  <2>2. \A c \in Cases : LinksOf(c)' = LinksOf(c)
    BY <1>2 DEF dbVars, LinksOf
  <2>3. \A m \in Links : Handled(m)' = Handled(m)
    BY <1>2 DEF dbVars, Handled
  <2>4. \A c \in Cases : LinksOf(c) \subseteq Links
    BY DEF LinksOf
  <2> QED BY <1>2, <2>1, <2>2, <2>3, <2>4 DEF dbVars, SafetyInv, CreditMatchesPayment
<1>8. AttemptsCounted'
  BY <1>2 DEF dbVars, SafetyInv, AttemptsCounted, RequestsOf, LinksOf
<1> QED BY <1>2, <1>4, <1>5, <1>6, <1>7, <1>8 DEF SafetyInv, dbVars

(* Every step keeps the invariant and commits only legal moves.            *)
LEMMA SafetyStep ==
  ASSUME SafetyInv, [Next]_vars
  PROVE  SafetyInv' /\ LegalCommit
<1>1. TypeInv'
  BY TypeStep DEF SafetyInv
<1>2. ASSUME case' = case  PROVE LegalCommit
  BY <1>2 DEF LegalCommit
<1>3. ASSUME NEW s \in Sessions, SessionStep(s) \/ Crash(s)
      PROVE  SafetyInv' /\ LegalCommit
  <2>1. ASSUME StaleRollback(s) \/ Crash(s)  PROVE StepOK(s)
    <3>1. Leave(s) /\ UNCHANGED <<dbVars, providerVars>>
      BY <2>1 DEF StaleRollback, Crash
    <3> QED BY <3>1, LeaveStep, QuietStep DEF dbVars, providerVars
  <2>2. StepOK(s)
    BY <1>3, <2>1, SafeDiagnose, SafeExecute, SafeWebhook DEF SessionStep
  <2> QED BY <1>1, <2>2, StepSafe
<1>4. CASE Provider
  BY <1>1, <1>2, <1>4, SafeProvider
<1>5. CASE Tick \/ UNCHANGED vars
  <2>1. UNCHANGED <<dbVars, providerVars, sessionVars>>
    BY <1>5 DEF Tick, vars
  <2>2. \A s \in Sessions : CopyOK(s)' /\ RefOK(s)'
    BY <2>1 DEF dbVars, providerVars, sessionVars, SafetyInv, CopyOK, RefOK
  <2>3. /\ \A l \in Links : LinkOK(l)'
        /\ CreditMatchesPayment' /\ AttemptsCounted'
    BY <2>1 DEF dbVars, providerVars, SafetyInv, LinkOK, CreditMatchesPayment,
                AttemptsCounted, RequestsOf, LinksOf, Handled
  <2> QED BY <1>1, <1>2, <2>1, <2>2, <2>3 DEF SafetyInv, dbVars
<1> QED BY <1>3, <1>4, <1>5 DEF Next

(* SafetyInv is an invariant of the pipeline.                              *)
THEOREM SafetyInvariance == Spec => []SafetyInv
<1>1. SafetyInv /\ [Next]_vars => SafetyInv'
  BY SafetyStep
<1> QED BY <1>1, SafetyInit, PTL DEF Spec

(* Revenue is counted exactly when a case is RECOVERED, once and in full,  *)
(* and a paid link whose event was claimed stands behind it: under any     *)
(* redelivery, with whatever dedup keys, crash and stale rollback of       *)
(* process_webhook_event.                                                  *)
THEOREM CreditCorrect == Spec => []CreditMatchesPayment
<1>1. SafetyInv => CreditMatchesPayment
  BY DEF SafetyInv
<1> QED BY <1>1, SafetyInvariance, PTL

(* current_attempt_number, incremented in _record_payment_link_created on  *)
(* a copy of the row, is the number of payment requests recorded.          *)
THEOREM AttemptsCorrect == Spec => []AttemptsMatchRequests
<1>1. SafetyInv => AttemptsMatchRequests
  BY DEF SafetyInv, AttemptsCounted, RequestsOf, AttemptsMatchRequests
<1> QED BY <1>1, SafetyInvariance, PTL

(* No session overwrites a row with a decision made on an older one: the   *)
(* version check of every flush lets through only the moves of one handler *)
(* from the committed status, and nothing at all from a terminal one.      *)
THEOREM CommitsCorrect == Spec => CommitsAreLegal
<1>1. SafetyInv /\ [Next]_vars => [LegalCommit]_vars
  BY SafetyStep
<1>2. CommitsAreLegal <=> [][LegalCommit]_vars
  BY PTL DEF CommitsAreLegal, LegalCommit
<1> QED BY <1>1, <1>2, SafetyInvariance, PTL DEF Spec
-----------------------------------------------------------------------------
(* What a review allowed stays allowed until the window closes: neither    *)
(* the status nor the days the re-check sees add another reason.           *)
LEMMA ApprovalLapses ==
  ASSUME NEW in \in PolicyInputs, NEW re \in PolicyInputs,
         in.status \in {"POLICY_REVIEW", "APPROVED"}, re.status = "APPROVED",
         in.action \in ExecutableActions, re.action = in.action,
         re.attempt = in.attempt, re.contacts = in.contacts,
         re.confidence = in.confidence, re.amount = in.amount,
         EvaluatePolicy(in) \subseteq {"RECOVERY_WINDOW_EXPIRED"}
  PROVE  EvaluatePolicy(re) \subseteq {"RECOVERY_WINDOW_EXPIRED"}
<1> SUFFICES ASSUME NEW code \in ReasonCodes, Violates(code, re),
                    code # "RECOVERY_WINDOW_EXPIRED"
             PROVE  FALSE
  BY DEF EvaluatePolicy
<1>1. ~Violates(code, in)
  BY DEF EvaluatePolicy
<1>2. CASE code = "TERMINAL_STATE_PROTECTED"
  BY <1>2 DEF Violates, TerminalStatuses
<1>3. CASE code = "ACTION_NOT_ELIGIBLE_FOR_STATUS"
  <2>1. EligibleStatuses(re.action) = {"RECOMMENDED", "POLICY_REVIEW", "APPROVED"}
    BY DEF EligibleStatuses, ExecutableActions, ActiveRecoveryActions
  <2> QED BY <1>3, <2>1 DEF Violates
<1>4. CASE code = "MAX_RETRIES_REACHED"
  BY <1>1, <1>4 DEF Violates, RetriesExhausted
<1>5. CASE code = "MAX_CONTACTS_REACHED"
  BY <1>1, <1>5 DEF Violates
<1>6. CASE code = "AMOUNT_OUT_OF_BOUNDS"
  BY <1>1, <1>6 DEF Violates
<1>7. CASE code = "CONFIDENCE_BELOW_THRESHOLD"
  BY <1>1, <1>7 DEF Violates
<1> QED BY <1>2, <1>3, <1>4, <1>5, <1>6, <1>7 DEF ReasonCodes

RowInput(c, row) == PolicyInput(c, row, row.status, row.action, row.confidence)

ApprovalHolds(c) ==
  case[c].status = "APPROVED" =>
    /\ case[c].action \in ExecutableActions
    /\ EvaluatePolicy(RowInput(c, case[c])) \subseteq {"RECOVERY_WINDOW_EXPIRED"}

(* What the policy is asked about a row are facts of their types.          *)
LEMMA RowInputs ==
  ASSUME TypeInv, NEW c \in Cases, NEW row \in Rows, NEW st \in Statuses,
         NEW a \in Actions, NEW f \in 0..100
  PROVE  PolicyInput(c, row, st, a, f) \in PolicyInputs
BY PipelineAssumption DEF PolicyInput, PolicyInputs, Rows, TypeInv, WorldOK

(* Time alone adds no reason but the window.                               *)
LEMMA ApprovalAges ==
  ASSUME TypeInv, TypeInv', case' = case, NEW c \in Cases, ApprovalHolds(c)
  PROVE  ApprovalHolds(c)'
<1> SUFFICES ASSUME case[c].status = "APPROVED"
             PROVE  /\ case[c].action \in ExecutableActions
                    /\ EvaluatePolicy(RowInput(c, case[c])')
                         \subseteq {"RECOVERY_WINDOW_EXPIRED"}
  BY DEF ApprovalHolds
<1>1. PICK row \in Rows : row = case[c]
  BY DEF TypeInv, CasesOK
<1>2. PICK in : in = RowInput(c, row)
  OBVIOUS
<1>3. PICK re : re = RowInput(c, row)'
  OBVIOUS
<1>4. row.action \in Actions /\ row.confidence \in 0..100 /\ row.status \in Statuses
  BY <1>1 DEF ApprovalHolds, ExecutableActions, Actions, Rows
<1>5. in \in PolicyInputs /\ re \in PolicyInputs
  <2>1. day' \in Nat /\ Amount[c] \in Int /\ row.attempts \in Nat
    BY <1>1, PipelineAssumption DEF TypeInv, WorldOK, Rows
  <2>2. in \in PolicyInputs
    BY <1>1, <1>2, <1>4, RowInputs DEF RowInput
  <2>3. re \in PolicyInputs
    BY <1>1, <1>3, <1>4, <2>1 DEF RowInput, PolicyInput, PolicyInputs
  <2> QED BY <2>2, <2>3
<1>6. /\ in.status = "APPROVED" /\ re.status = "APPROVED" /\ re.action = in.action
      /\ in.action = row.action /\ re.attempt = in.attempt
      /\ re.contacts = in.contacts /\ re.confidence = in.confidence
      /\ re.amount = in.amount
  BY <1>1, <1>2, <1>3 DEF RowInput, PolicyInput
<1>7. /\ in.action \in ExecutableActions
      /\ EvaluatePolicy(in) \subseteq {"RECOVERY_WINDOW_EXPIRED"}
  BY <1>1, <1>2, <1>6 DEF ApprovalHolds
<1>8. EvaluatePolicy(re) \subseteq {"RECOVERY_WINDOW_EXPIRED"}
  BY <1>5, <1>6, <1>7, ApprovalLapses
<1> QED BY <1>1, <1>3, <1>6, <1>7, <1>8

(* The row of a decision holds what was recommended and resolved.          *)
HoldsDecision(new, row, a, f, next) ==
  /\ new \in Rows
  /\ new.status = next
  /\ new.action = a /\ new.confidence = f
  /\ new.attempts = row.attempts

LEMMA DecidedFields ==
  ASSUME NEW row \in Rows, NEW a \in Actions, NEW f \in 0..100, NEW codes
  PROVE  HoldsDecision(DecidedRow(row, a, f, codes), row, a, f, ResolveNextStatus(a, codes))
<1>1. PICK next : next = ResolveNextStatus(a, codes)
  OBVIOUS
<1>2. next \in Statuses
  BY <1>1 DEF ResolveNextStatus, Statuses
<1>3. PICK moved : moved = Moved(row, <<"RECOMMENDED", "POLICY_REVIEW", next>>)
  OBVIOUS
<1>4. IsMoved(moved, row, next, 3)
  BY <1>2, <1>3, MovedThree DEF Statuses
<1>5. DecidedRow(row, a, f, codes) = [moved EXCEPT !.action = a, !.confidence = f]
  BY <1>1, <1>3 DEF DecidedRow
<1>6. HoldsDecision([moved EXCEPT !.action = a, !.confidence = f], row, a, f, next)
  BY <1>4 DEF IsMoved, Rows, HoldsDecision
<1> QED BY <1>1, <1>5, <1>6

(* A diagnosis approves only what its review allowed.                      *)
LEMMA DiagnosisApproves ==
  ASSUME SafetyInv, TypeInv', NEW s \in Sessions, DiagnoseFinish(s),
         NEW c \in Cases, c = target[s]
  PROVE  ApprovalHolds(c)'
<1>1. PICK mine \in Rows : mine = copy[s]
  BY DEF SafetyInv, TypeInv, SessionsOK, SessionTypes
<1>2. PICK a \in Actions, f \in 0..100 :
        case' = [case EXCEPT ![c] = DecidedRow(mine, a, f,
                   EvaluatePolicy(PolicyInput(c, mine, "POLICY_REVIEW", a, f)))]
  <2>1. PICK rec \in Recommendations :
          Save(s, DecidedRow(mine, rec.action, rec.confidence,
                    EvaluatePolicy(PolicyInput(c, mine, "POLICY_REVIEW",
                                               rec.action, rec.confidence))))
    BY <1>1 DEF DiagnoseFinish, DecidedRow
  <2>2. rec.action \in Actions /\ rec.confidence \in 0..100
    BY PipelineAssumption
  <2> QED BY <2>1, <2>2 DEF Save
<1>3. PICK in, codes, new :
        /\ in = PolicyInput(c, mine, "POLICY_REVIEW", a, f)
        /\ codes = EvaluatePolicy(in)
        /\ new = DecidedRow(mine, a, f, codes)
        /\ case' = [case EXCEPT ![c] = new]
  BY <1>2
<1>4. /\ new.status = ResolveNextStatus(a, codes)
      /\ new.action = a /\ new.confidence = f
      /\ new.attempts = mine.attempts /\ new \in Rows
  <2>1. HoldsDecision(new, mine, a, f, ResolveNextStatus(a, codes))
    BY <1>3, DecidedFields
  <2> QED BY <2>1 DEF HoldsDecision
<1>5. case'[c] = new /\ day' = day
  BY <1>3 DEF SafetyInv, TypeInv, CasesOK, DiagnoseFinish
<1>6. SUFFICES ASSUME new.status = "APPROVED"
               PROVE  /\ a \in ExecutableActions
                      /\ EvaluatePolicy(RowInput(c, case[c])')
                           \subseteq {"RECOVERY_WINDOW_EXPIRED"}
  BY <1>4, <1>5 DEF ApprovalHolds
<1>7. a \in ExecutableActions /\ codes = {}
  BY <1>4, <1>6 DEF ResolveNextStatus
<1>8. PICK re : re = RowInput(c, case[c])'
  OBVIOUS
<1>9. re = PolicyInput(c, new, "APPROVED", a, f)
  BY <1>4, <1>5, <1>6, <1>8 DEF RowInput, PolicyInput
<1>10. in \in PolicyInputs /\ re \in PolicyInputs
  BY <1>1, <1>3, <1>4, <1>9, RowInputs DEF SafetyInv, Statuses
<1>11. /\ in.status = "POLICY_REVIEW" /\ re.status = "APPROVED"
       /\ in.action = a /\ re.action = a /\ re.attempt = in.attempt
       /\ re.contacts = in.contacts /\ re.confidence = in.confidence
       /\ re.amount = in.amount
  BY <1>3, <1>4, <1>9 DEF PolicyInput
<1>12. EvaluatePolicy(re) \subseteq {"RECOVERY_WINDOW_EXPIRED"}
  BY <1>3, <1>7, <1>10, <1>11, ApprovalLapses
<1> QED BY <1>7, <1>8, <1>12

(* What the other handlers write.                                          *)
LEMMA WrittenStatus ==
  ASSUME SafetyInv, NEW s \in Sessions, SessionStep(s), ~DiagnoseFinish(s)
  PROVE  \/ case' = case
         \/ \E new : /\ case' = [case EXCEPT ![target[s]] = new]
                     /\ new.status \in {"INELIGIBLE", "EXECUTING", "RECOVERED",
                                        "FAILED", "ESCALATED"}
<1> DEFINE Written(new) ==
      /\ case' = [case EXCEPT ![target[s]] = new]
      /\ new.status \in {"INELIGIBLE", "EXECUTING", "RECOVERED", "FAILED", "ESCALATED"}
<1>1. copy[s] \in Rows
  BY DEF SafetyInv, TypeInv, SessionsOK, SessionTypes
<1>2. /\ Moved(copy[s], <<"INELIGIBLE">>).status = "INELIGIBLE"
      /\ Moved(copy[s], <<"EXECUTING">>).status = "EXECUTING"
      /\ Moved(copy[s], <<"ESCALATED">>).status = "ESCALATED"
  BY <1>1, MovedOne DEF Statuses, IsMoved
<1>3. Moved(copy[s], <<"EXECUTING", "ESCALATED">>).status = "ESCALATED"
  <2>1. IsMoved(Moved(copy[s], <<"EXECUTING", "ESCALATED">>), copy[s], "ESCALATED", 2)
    BY <1>1, MovedTwo DEF Statuses
  <2> QED BY <2>1 DEF IsMoved
<1>4. ASSUME Diagnose(s)  PROVE case' = case \/ \E new : Written(new)
  BY <1>2, <1>4
  DEF Diagnose, DiagnoseRead, DiagnoseIneligible, DiagnoseBegin, Save, dbVars
<1>5. ASSUME ExecuteRecord(s)  PROVE \E new : Written(new)
  <2> DEFINE new == [copy[s] EXCEPT !.attempts = @ + 1, !.version = @ + 1]
  <2>1. copy[s].status = "EXECUTING"
    BY <1>5 DEF ExecuteRecord, SafetyInv, CopyOK, ExecutingPCs
  <2>2. new.status = "EXECUTING"
    BY <1>1, <2>1, RowAttempt
  <2>3. case' = [case EXCEPT ![target[s]] = new]
    BY <1>5 DEF ExecuteRecord, Save
  <2> QED BY <2>2, <2>3
<1>6. ASSUME Execute(s), ~ExecuteRecord(s)  PROVE case' = case \/ \E new : Written(new)
  BY <1>2, <1>3, <1>6
  DEF Execute, ExecuteRead, ExecuteBlocked, ExecuteClaim, ExecuteCall,
      ExecuteAccepted, ExecuteRefused, ExecuteAmbiguous, ReconcileFound,
      ReconcileUnresolved, ExecuteEscalate, Save, dbVars
<1>7. ASSUME WebhookApply(s)  PROVE \E new : Written(new)
  <2>1. PICK new : new = Resolved(copy[s], ref[s])
    OBVIOUS
  <2>2. Amount[owner[ref[s]]] \in Nat
    BY <1>7, PipelineAssumption
    DEF WebhookApply, SafetyInv, RefOK, TypeInv, SessionsOK, SessionOK, CasePCs
  <2>3. new.status \in {"RECOVERED", "FAILED"}
    BY <1>1, <2>1, <2>2, RowResolved
  <2> QED BY <1>7, <2>1, <2>3 DEF WebhookApply, Save
<1>8. ASSUME Webhook(s), ~WebhookApply(s)  PROVE case' = case
  BY <1>8
  DEF Webhook, WebhookDuplicate, WebhookArrive, WebhookClaim, WebhookLostRace,
      WebhookIgnore, WebhookLookup, WebhookUnmatched, WebhookMovedOn, dbVars
<1>9. ASSUME StaleRollback(s)  PROVE case' = case
  BY <1>9 DEF StaleRollback, dbVars
<1> QED BY <1>4, <1>5, <1>6, <1>7, <1>8, <1>9 DEF SessionStep

(* So an approval is kept by every step of a session.                      *)
LEMMA ApprovalStep ==
  ASSUME SafetyInv, TypeInv', \A c \in Cases : ApprovalHolds(c),
         NEW s \in Sessions, SessionStep(s), NEW c \in Cases
  PROVE  ApprovalHolds(c)'
<1>1. CASE case'[c] = case[c]
  <2>1. ASSUME Diagnose(s)  PROVE day' = day
    BY <2>1
    DEF Diagnose, DiagnoseRead, DiagnoseIneligible, DiagnoseBegin, DiagnoseFinish
  <2>2. ASSUME Execute(s)  PROVE day' = day
    BY <2>2
    DEF Execute, ExecuteRead, ExecuteBlocked, ExecuteClaim, ExecuteCall,
        ExecuteAccepted, ExecuteRefused, ExecuteAmbiguous, ReconcileFound,
        ReconcileUnresolved, ExecuteRecord, ExecuteEscalate
  <2>3. ASSUME Webhook(s)  PROVE day' = day
    BY <2>3
    DEF Webhook, WebhookDuplicate, WebhookArrive, WebhookClaim, WebhookLostRace,
        WebhookIgnore, WebhookLookup, WebhookUnmatched, WebhookMovedOn, WebhookApply
  <2>4. day' = day
    BY <2>1, <2>2, <2>3 DEF SessionStep, StaleRollback
  <2> QED BY <1>1, <2>4 DEF ApprovalHolds, RowInput, PolicyInput
<1>2. CASE DiagnoseFinish(s) /\ c = target[s]
  BY <1>2, DiagnosisApproves
<1>3. CASE DiagnoseFinish(s) /\ c # target[s]
  BY <1>1, <1>3 DEF DiagnoseFinish, Save, SafetyInv, TypeInv, CasesOK
<1>4. CASE ~DiagnoseFinish(s) /\ case'[c] # case[c]
  <2>1. PICK new : /\ case' = [case EXCEPT ![target[s]] = new]
                   /\ new.status \in {"INELIGIBLE", "EXECUTING", "RECOVERED",
                                      "FAILED", "ESCALATED"}
    BY <1>4, WrittenStatus
  <2>2. case'[c] = new
    BY <1>4, <2>1 DEF SafetyInv, TypeInv, CasesOK
  <2> QED BY <2>1, <2>2 DEF ApprovalHolds
<1> QED BY <1>1, <1>2, <1>3, <1>4

ApprovalInv == SafetyInv /\ \A c \in Cases : ApprovalHolds(c)

(* Whoever reads an APPROVED case, however late and with whatever attempts *)
(* and crashes before, the re-check finds the closed window or nothing     *)
(* (execute_recovery_case's second evaluation of the policy).              *)
THEOREM ApprovalCorrect == Spec => []OnlyTimeRevokesApproval
<1>1. Init => ApprovalInv
  BY SafetyInit DEF Init, NewRow, ApprovalInv, ApprovalHolds
<1>2. ApprovalInv /\ [Next]_vars => ApprovalInv'
  <2> SUFFICES ASSUME ApprovalInv, [Next]_vars, NEW c \in Cases
               PROVE  SafetyInv' /\ ApprovalHolds(c)'
    BY SafetyStep DEF ApprovalInv
  <2>1. SafetyInv' /\ TypeInv'
    BY SafetyStep DEF ApprovalInv, SafetyInv
  <2>2. ASSUME NEW s \in Sessions, SessionStep(s)  PROVE ApprovalHolds(c)'
    BY <2>1, <2>2, ApprovalStep DEF ApprovalInv
  <2>3. ASSUME case' = case  PROVE ApprovalHolds(c)'
    BY <2>1, <2>3, ApprovalAges DEF ApprovalInv, SafetyInv
  <2> QED
    BY <2>1, <2>2, <2>3
    DEF Next, Crash, Provider, ProviderCreates, ProviderCloses, Tick, vars, dbVars
<1>3. ApprovalInv => OnlyTimeRevokesApproval
  BY DEF ApprovalInv, ApprovalHolds, RowInput, OnlyTimeRevokesApproval
<1> QED BY <1>1, <1>2, <1>3, PTL DEF Spec
=============================================================================
