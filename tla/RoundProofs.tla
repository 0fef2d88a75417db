----------------------------- MODULE RoundProofs -----------------------------
(***************************************************************************)
(* The rounds of a case, for any number of cases, sessions and links: with *)
(* one dedup key per event a customer is never asked or charged twice, an  *)
(* execution has its case to itself, and a round is ended by its own link; *)
(* and the pipeline is an implementation of the abstract lifecycle.        *)
(*                                                                         *)
(* A link is settled once its event was handled, it ended unpaid, and the  *)
(* database knows.  The invariant says that a case between two rounds has  *)
(* only settled links, and at most one that is not at any time.            *)
(***************************************************************************)
EXTENDS RecoverySafetyProofs, RecoveryRefinement

(* All deliveries of one event carry the same dedup key.                   *)
OneKey == \A k, m \in KeySources : k = m

Settled(l) ==
  /\ Handled(l)
  /\ link[l] \in ClosedStatuses \ {"paid"}
  /\ request[l] = link[l]

(* A session that holds an uncommitted dedup row is alone with it.         *)
ClaimOK(s) ==
  pc[s] \in HoldsClaim =>
    /\ Event(s) \notin claimed
    /\ \A t \in Sessions : pc[t] \in HoldsClaim /\ Event(t) = Event(s) => t = s

(* An execution knows the case as it is and is alone with it, and no link  *)
(* but its own is left of the case.                                        *)
ExecOK(s) ==
  pc[s] \in ExecutingPCs =>
    /\ case[target[s]] = copy[s]
    /\ \A t \in Sessions : pc[t] \in ExecutingPCs /\ target[t] = target[s] => t = s
    /\ \A l \in LinksOf(target[s]) :
         Settled(l) \/ (pc[s] \in CallingPCs /\ l = ref[s])

(* Where a round is open, or was left open for good.                       *)
RoundStatuses == {"EXECUTING", "RECOVERED", "ESCALATED"}

RoundOK(c) ==
  /\ \A l, m \in LinksOf(c) : ~Settled(l) /\ ~Settled(m) => l = m
  /\ case[c].status \notin RoundStatuses => \A l \in LinksOf(c) : Settled(l)

RoundsOK ==
  /\ \A s \in Sessions : ClaimOK(s)
  /\ \A s \in Sessions : ExecOK(s)
  /\ \A c \in Cases : RoundOK(c)

RoundInv == SafetyInv /\ RoundsOK
-----------------------------------------------------------------------------
(* What the invariant says of one link, one execution and one handler.     *)

(* A settled link is neither payable nor paid, nor listed as such.         *)
LEMMA SettledIsOver ==
  ASSUME SafetyInv, NEW l \in Links, Settled(l)
  PROVE  /\ ~Outstanding(l)
         /\ l \notin wire /\ link[l] \notin {"none", "created", "paid"}
         /\ request[l] # "none" /\ attempt[l] # "none"
<1>1. link[l] \notin {"none", "created", "paid"} /\ request[l] = link[l]
  BY DEF Settled, ClosedStatuses, OpenOrClosed
<1>2. l \notin wire /\ attempt[l] # "none"
  BY <1>1 DEF SafetyInv, LinkOK
<1> QED BY <1>1, <1>2 DEF Outstanding

(* No step of a session unsettles a link, or gives it to another case.     *)
LEMMA SettledStays ==
  ASSUME SafetyInv, NEW s \in Sessions, StepOK(s), NEW l \in Links, Settled(l)
  PROVE  Settled(l)' /\ owner'[l] = owner[l]
<1>1. request[l] # "none" /\ attempt[l] # "none"
  BY SettledIsOver
<1>2. Handled(l)'
  BY DEF Settled, StepOK, Handled
<1>3. link'[l] = link[l] /\ owner'[l] = owner[l]
  BY <1>1 DEF Settled, StepOK, RefsKept
<1>4. request'[l] = link'[l]
  <2>1. CASE request'[l] = request[l]
    BY <1>3, <2>1 DEF Settled
  <2>2. CASE request'[l] # request[l]
    <3>1. l = ref[s] /\ (pc[s] = "exec_record" \/ request'[l] = link[l])
      BY <2>2 DEF StepOK, RefsKept
    <3>2. pc[s] # "exec_record"
      BY <1>1, <3>1 DEF SafetyInv, RefOK, CallingPCs
    <3> QED BY <1>3, <3>1, <3>2
  <2> QED BY <2>1, <2>2
<1> QED BY <1>2, <1>3, <1>4 DEF Settled

(* While an execution goes on its case is EXECUTING.                       *)
LEMMA ExecutionStatus ==
  ASSUME RoundInv, NEW s \in Sessions, pc[s] \in ExecutingPCs
  PROVE  /\ target[s] \in Cases
         /\ case[target[s]] = copy[s]
         /\ case[target[s]].status = "EXECUTING"
<1>1. target[s] \in Cases
  BY DEF RoundInv, SafetyInv, TypeInv, SessionsOK, SessionOK, ExecutingPCs, CasePCs
<1>2. copy[s].status = "EXECUTING"
  BY DEF RoundInv, SafetyInv, CopyOK
<1>3. case[target[s]] = copy[s]
  BY DEF RoundInv, RoundsOK, ExecOK
<1> QED BY <1>1, <1>2, <1>3

(* With one dedup key, the link of a handler that holds the claim has not  *)
(* been handled before.                                                    *)
LEMMA ClaimIsFirst ==
  ASSUME OneKey, RoundInv, NEW s \in Sessions, pc[s] \in HoldsClaim
  PROVE  ~Handled(ref[s])
<1>1. Event(s) \in Events /\ Event(s) \notin claimed
  BY DEF RoundInv, SafetyInv, TypeInv, SessionsOK, SessionOK, HookPCs, RoundsOK, ClaimOK
<1>2. key[s] \in KeySources
  BY <1>1 DEF Event, Events
<1>3. \A k \in KeySources : <<ref[s], k>> = Event(s)
  BY <1>2 DEF OneKey, Event
<1> QED BY <1>1, <1>3 DEF Handled

(* So a handler that has found its link's request meets no execution: one  *)
(* in progress leaves no other link of its case unsettled, and its own is  *)
(* not recorded yet.                                                       *)
LEMMA HandlerMeetsNoExecution ==
  ASSUME OneKey, RoundInv, NEW s \in Sessions, pc[s] = "hook_read",
         NEW t \in Sessions, pc[t] \in ExecutingPCs
  PROVE  target[t] # target[s]
<1> SUFFICES ASSUME target[t] = target[s]  PROVE FALSE
  OBVIOUS
<1>1. ref[s] \in Links /\ owner[ref[s]] = target[s] /\ request[ref[s]] # "none"
  BY DEF RoundInv, SafetyInv, TypeInv, SessionsOK, SessionOK, LinkPCs, RefOK
<1>2. ~Settled(ref[s])
  BY ClaimIsFirst DEF HoldsClaim, Settled
<1>3. pc[t] \in CallingPCs /\ ref[t] = ref[s]
  BY <1>1, <1>2 DEF RoundInv, RoundsOK, ExecOK, LinksOf
<1>4. request[ref[t]] = "none"
  BY <1>3 DEF RoundInv, SafetyInv, RefOK
<1> QED BY <1>1, <1>3, <1>4
-----------------------------------------------------------------------------
(* A step of one session as the rounds see it.                             *)

(* It commits no dedup row but its own.                                    *)
ClaimsKept(s) ==
  \/ claimed' = claimed
  \/ pc[s] \in HoldsClaim /\ claimed' = claimed \cup {Event(s)}

(* It changes no case that another session executes.                       *)
SparesExecutions(s) ==
  \A t \in Sessions \ {s} :
    pc[t] \in ExecutingPCs => case'[target[t]] = case[target[t]]

(* It draws a reference for the case it executes only.                     *)
DrawsForItsCase(s) ==
  \A l \in Links : owner'[l] = owner[l] \/ (pc[s] = "exec_claimed" /\ owner'[l] = target[s])

(* The other handlers keep what they hold.                                 *)
LEMMA OthersClaims ==
  ASSUME RoundInv, NEW s \in Sessions, OthersStay(s), ClaimsKept(s), ClaimOK(s)'
  PROVE  \A t \in Sessions : ClaimOK(t)'
<1> SUFFICES ASSUME NEW t \in Sessions \ {s}, pc'[t] \in HoldsClaim
             PROVE  /\ Event(t)' \notin claimed'
                    /\ \A u \in Sessions :
                         pc'[u] \in HoldsClaim /\ Event(u)' = Event(t)' => u = t
  BY DEF ClaimOK
<1>1. /\ pc[t] \in HoldsClaim /\ Event(t)' = Event(t)
      /\ Event(t) \notin claimed
      /\ \A u \in Sessions : pc[u] \in HoldsClaim /\ Event(u) = Event(t) => u = t
  BY DEF OthersStay, Event, RoundInv, RoundsOK, ClaimOK
<1>2. Event(t)' \notin claimed'
  BY <1>1 DEF ClaimsKept
<1>3. ASSUME NEW u \in Sessions, pc'[u] \in HoldsClaim, Event(u)' = Event(t)'
      PROVE  u = t
  <2>1. CASE u = s
    BY <1>3, <2>1 DEF ClaimOK
  <2>2. CASE u # s
    BY <1>1, <1>3, <2>2 DEF OthersStay, Event
  <2> QED BY <2>1, <2>2
<1> QED BY <1>2, <1>3

(* The other executions go on undisturbed.                                 *)
LEMMA OthersExecutions ==
  ASSUME RoundInv, NEW s \in Sessions, StepOK(s), SparesExecutions(s),
         DrawsForItsCase(s), ExecOK(s)'
  PROVE  \A t \in Sessions : ExecOK(t)'
<1> SUFFICES ASSUME NEW t \in Sessions \ {s}, pc'[t] \in ExecutingPCs
             PROVE  ExecOK(t)'
  BY DEF ExecOK
<1>1. /\ pc'[t] = pc[t] /\ target'[t] = target[t] /\ copy'[t] = copy[t]
      /\ ref'[t] = ref[t]
  BY DEF StepOK, OthersStay
<1>2. /\ case[target[t]] = copy[t]
      /\ \A u \in Sessions : pc[u] \in ExecutingPCs /\ target[u] = target[t] => u = t
      /\ \A l \in LinksOf(target[t]) :
           Settled(l) \/ (pc[t] \in CallingPCs /\ l = ref[t])
  BY <1>1 DEF RoundInv, RoundsOK, ExecOK
<1>3. case'[target'[t]] = copy'[t]
  BY <1>1, <1>2 DEF SparesExecutions
<1>4. ASSUME NEW u \in Sessions, pc'[u] \in ExecutingPCs, target'[u] = target'[t]
      PROVE  u = t
  <2>1. CASE u = s
    BY <1>4, <2>1 DEF ExecOK
  <2>2. CASE u # s
    BY <1>1, <1>2, <1>4, <2>2 DEF StepOK, OthersStay
  <2> QED BY <2>1, <2>2
<1>5. ASSUME NEW l \in Links, owner'[l] = target'[t]
      PROVE  Settled(l)' \/ (pc'[t] \in CallingPCs /\ l = ref'[t])
  <2>1. owner[l] = target[t]
    <3>1. ~(pc[s] = "exec_claimed" /\ owner'[l] = target[s])
      BY <1>1, <1>2, <1>5 DEF ExecutingPCs
    <3> QED BY <1>1, <1>5, <3>1 DEF DrawsForItsCase
  <2>2. Settled(l) \/ (pc[t] \in CallingPCs /\ l = ref[t])
    BY <1>2, <2>1 DEF LinksOf
  <2>3. Settled(l) => Settled(l)'
    BY SettledStays DEF RoundInv
  <2> QED BY <1>1, <2>2, <2>3
<1> QED BY <1>3, <1>4, <1>5 DEF ExecOK, LinksOf

(* A case that neither gets a link nor falls back between two rounds keeps *)
(* its links in order.                                                     *)
LEMMA RoundKept ==
  ASSUME RoundInv, NEW s \in Sessions, StepOK(s), NEW c \in Cases,
         \A l \in Links : owner'[l] = c => owner[l] = c,
         case'[c].status \notin RoundStatuses => case[c].status \notin RoundStatuses
  PROVE  RoundOK(c)'
<1>1. RoundOK(c)
  BY DEF RoundInv, RoundsOK
<1>2. \A l \in Links : Settled(l) => Settled(l)'
  BY SettledStays DEF RoundInv
<1>3. \A l, m \in LinksOf(c)' : ~Settled(l)' /\ ~Settled(m)' => l = m
  BY <1>1, <1>2 DEF RoundOK, LinksOf
<1>4. case'[c].status \notin RoundStatuses => \A l \in LinksOf(c)' : Settled(l)'
  BY <1>1, <1>2 DEF RoundOK, LinksOf
<1> QED BY <1>3, <1>4 DEF RoundOK

(* The steps that draw no reference and end no round.                      *)
LEMMA PlainStep ==
  ASSUME RoundInv, NEW s \in Sessions, StepOK(s), owner' = owner,
         ClaimsKept(s), SparesExecutions(s), ClaimOK(s)', ExecOK(s)',
         \A c \in Cases :
           case'[c].status \notin RoundStatuses => case[c].status \notin RoundStatuses
  PROVE  RoundsOK'
<1>1. \A t \in Sessions : ClaimOK(t)'
  BY OthersClaims DEF StepOK
<1>2. \A t \in Sessions : ExecOK(t)'
  BY OthersExecutions DEF DrawsForItsCase
<1>3. \A c \in Cases : RoundOK(c)'
  BY RoundKept
<1> QED BY <1>1, <1>2, <1>3 DEF RoundsOK

(* A session that is neither executing nor handling an event has nothing   *)
(* to show.                                                                *)
LEMMA OutsideOK ==
  ASSUME NEW s \in Sessions, pc'[s] \notin ExecutingPCs, pc'[s] \notin HoldsClaim
  PROVE  ClaimOK(s)' /\ ExecOK(s)'
BY DEF ClaimOK, ExecOK

(* Whoever moves a case on that is not EXECUTING disturbs no execution.    *)
LEMMA SparedByStatus ==
  ASSUME RoundInv, NEW s \in Sessions, NEW c \in Cases, NEW new,
         case' = [case EXCEPT ![c] = new], case[c].status # "EXECUTING"
  PROVE  SparesExecutions(s)
<1> SUFFICES ASSUME NEW t \in Sessions, pc[t] \in ExecutingPCs
             PROVE  case'[target[t]] = case[target[t]]
  BY DEF SparesExecutions
<1>1. target[t] \in Cases /\ target[t] # c
  BY ExecutionStatus
<1> QED BY <1>1 DEF RoundInv, SafetyInv, TypeInv, CasesOK

(* A session that ends without bringing a case between two rounds.         *)
LEMMA LeaveRound ==
  ASSUME RoundInv, NEW s \in Sessions, StepOK(s), Leave(s), owner' = owner,
         ClaimsKept(s), SparesExecutions(s),
         \A c \in Cases :
           case'[c].status \notin RoundStatuses => case[c].status \notin RoundStatuses
  PROVE  RoundsOK'
<1>1. pc'[s] = "idle"
  BY LeaveStep DEF RoundInv
<1>2. ClaimOK(s)' /\ ExecOK(s)'
  BY <1>1, OutsideOK DEF ExecutingPCs, HoldsClaim
<1> QED BY <1>2, PlainStep

(* A case between two rounds moves on.                                     *)
LEMMA MoveBetweenRounds ==
  ASSUME RoundInv, NEW s \in Sessions, StepOK(s), NEW c \in Cases, NEW new,
         case' = [case EXCEPT ![c] = new], case[c].status \notin RoundStatuses,
         UNCHANGED <<owner, claimed>>, ClaimOK(s)', ExecOK(s)'
  PROVE  RoundsOK'
<1>1. SparesExecutions(s)
  BY SparedByStatus DEF RoundStatuses
<1>2. \A d \in Cases :
        case'[d].status \notin RoundStatuses => case[d].status \notin RoundStatuses
  BY DEF RoundInv, SafetyInv, TypeInv, CasesOK
<1> QED BY <1>1, <1>2, PlainStep DEF ClaimsKept
-----------------------------------------------------------------------------
(* A diagnosis commits a decision on a case that is DISCOVERED or FAILED.  *)
LEMMA DiagnosisMoves ==
  ASSUME RoundInv, NEW s \in Sessions, DiagnoseIneligible(s) \/ DiagnoseFinish(s)
  PROVE  /\ target[s] \in Cases
         /\ case[target[s]].status \in {"DISCOVERED", "FAILED"}
         /\ \E new : case' = [case EXCEPT ![target[s]] = new]
<1>1. /\ target[s] \in Cases
      /\ case[target[s]].status \in {"DISCOVERED", "FAILED"}
  <2>1. CASE DiagnoseIneligible(s)
    BY <2>1, FreshCopy DEF DiagnoseIneligible, CasePCs, RoundInv
  <2>2. CASE DiagnoseFinish(s)
    BY <2>2 DEF DiagnoseFinish, RoundInv, SafetyInv, TypeInv, SessionsOK, SessionOK,
                CasePCs, CopyOK
  <2> QED BY <2>1, <2>2
<1>2. \E new : case' = [case EXCEPT ![target[s]] = new]
  BY DEF DiagnoseIneligible, DiagnoseFinish, Save
<1> QED BY <1>1, <1>2

(* A diagnosis decides a case between two rounds.                          *)
LEMMA RoundDiagnose ==
  ASSUME RoundInv, NEW s \in Sessions, Diagnose(s)
  PROVE  RoundsOK'
<1>1. StepOK(s)
  BY SafeDiagnose DEF RoundInv
<1>2. ASSUME \/ \E c \in Cases : DiagnoseRead(s, c)
             \/ DiagnoseBegin(s)
      PROVE  RoundsOK'
  <2>1. pc'[s] \in {"diag_read", "diag_ai"} /\ UNCHANGED dbVars
    BY <1>2 DEF DiagnoseRead, DiagnoseBegin, GoTo, RoundInv, SafetyInv, TypeInv,
                SessionsOK, SessionTypes
  <2>2. ClaimOK(s)' /\ ExecOK(s)'
    BY <2>1, OutsideOK DEF ExecutingPCs, HoldsClaim
  <2> QED BY <1>1, <2>1, <2>2, PlainStep DEF dbVars, ClaimsKept, SparesExecutions
<1>3. ASSUME DiagnoseIneligible(s) \/ DiagnoseFinish(s)  PROVE RoundsOK'
  <2>1. /\ target[s] \in Cases
        /\ case[target[s]].status \in {"DISCOVERED", "FAILED"}
        /\ \E new : case' = [case EXCEPT ![target[s]] = new]
    BY <1>3, DiagnosisMoves
  <2>2. Leave(s) /\ UNCHANGED <<owner, claimed>>
    BY <1>3 DEF DiagnoseIneligible, DiagnoseFinish
  <2>3. pc'[s] = "idle"
    BY <2>2, LeaveStep DEF RoundInv
  <2>4. ClaimOK(s)' /\ ExecOK(s)'
    BY <2>3, OutsideOK DEF ExecutingPCs, HoldsClaim
  <2> QED BY <1>1, <2>1, <2>2, <2>4, MoveBetweenRounds DEF RoundStatuses
<1> QED BY <1>2, <1>3 DEF Diagnose

(* An execution starts from an APPROVED case, as it read it.               *)
LEMMA ExecutionStarts ==
  ASSUME RoundInv, NEW s \in Sessions, ExecuteBlocked(s) \/ ExecuteClaim(s)
  PROVE  /\ target[s] \in Cases /\ copy[s] \in Rows
         /\ case[target[s]] = copy[s]
         /\ case[target[s]].status = "APPROVED"
         /\ \E new : case' = [case EXCEPT ![target[s]] = new]
<1>1. /\ target[s] \in Cases /\ copy[s] \in Rows
      /\ case[target[s]] = copy[s]
      /\ case[target[s]].status = "APPROVED"
  BY FreshCopy DEF ExecuteBlocked, ExecuteClaim, CasePCs, RoundInv, SafetyInv, CopyOK
<1>2. \E new : case' = [case EXCEPT ![target[s]] = new]
  BY DEF ExecuteBlocked, ExecuteClaim, Save
<1> QED BY <1>1, <1>2

(* It leaves the case EXECUTING, its link recorded, or ESCALATED.          *)
LEMMA ExecutionLeaves ==
  ASSUME RoundInv, NEW s \in Sessions, ExecuteRecord(s) \/ ExecuteEscalate(s)
  PROVE  /\ target[s] \in Cases /\ case[target[s]].status = "EXECUTING"
         /\ \E new : /\ case' = [case EXCEPT ![target[s]] = new]
                     /\ new.status \in {"EXECUTING", "ESCALATED"}
<1>1. pc[s] \in {"exec_record", "exec_failed"}
  BY DEF ExecuteRecord, ExecuteEscalate
<1>2. /\ target[s] \in Cases /\ case[target[s]].status = "EXECUTING"
      /\ copy[s] \in Rows /\ copy[s].status = "EXECUTING"
  BY <1>1, ExecutionStatus
  DEF ExecutingPCs, RoundInv, SafetyInv, TypeInv, SessionsOK, SessionTypes
<1>3. CASE ExecuteRecord(s)
  <2> DEFINE new == [copy[s] EXCEPT !.attempts = @ + 1, !.version = @ + 1]
  <2>1. new.status = "EXECUTING"
    BY <1>2, RowAttempt
  <2>2. case' = [case EXCEPT ![target[s]] = new]
    BY <1>3 DEF ExecuteRecord, Save
  <2> QED BY <1>2, <2>1, <2>2
<1>4. CASE ExecuteEscalate(s)
  <2> DEFINE new == Moved(copy[s], <<"ESCALATED">>)
  <2>1. IsMoved(new, copy[s], "ESCALATED", 1)
    BY <1>2, MovedOne DEF Statuses
  <2>2. case' = [case EXCEPT ![target[s]] = new]
    BY <1>4 DEF ExecuteEscalate, Save
  <2> HIDE DEF new
  <2> QED BY <1>2, <2>1, <2>2 DEF IsMoved
<1> QED BY <1>3, <1>4

(* An execution opens a round when everything before it is settled, and is *)
(* alone with it.                                                          *)
LEMMA RoundExecute ==
  ASSUME RoundInv, NEW s \in Sessions, Execute(s)
  PROVE  RoundsOK'
<1>1. StepOK(s)
  BY SafeExecute DEF RoundInv
<1>2. ASSUME NEW c \in Cases, ExecuteRead(s, c)  PROVE RoundsOK'
  <2>1. pc'[s] \in {"exec_allowed", "exec_blocked"} /\ UNCHANGED dbVars
    BY <1>2 DEF ExecuteRead, GoTo, RoundInv, SafetyInv, TypeInv, SessionsOK,
                SessionTypes
  <2>2. ClaimOK(s)' /\ ExecOK(s)'
    BY <2>1, OutsideOK DEF ExecutingPCs, HoldsClaim
  <2> QED BY <1>1, <2>1, <2>2, PlainStep DEF dbVars, ClaimsKept, SparesExecutions
<1>3. ASSUME ExecuteBlocked(s) \/ ExecuteClaim(s)
      PROVE  /\ target[s] \in Cases /\ copy[s] \in Rows
             /\ case[target[s]] = copy[s]
             /\ case[target[s]].status = "APPROVED"
  BY <1>3, ExecutionStarts
<1>4. ASSUME ExecuteBlocked(s)  PROVE RoundsOK'
  <2>1. pc'[s] = "idle"
    BY <1>4, LeaveStep DEF ExecuteBlocked, RoundInv
  <2>2. ClaimOK(s)' /\ ExecOK(s)'
    BY <2>1, OutsideOK DEF ExecutingPCs, HoldsClaim
  <2>3. \E new : case' = [case EXCEPT ![target[s]] = new]
    BY <1>4 DEF ExecuteBlocked, Save
  <2>4. UNCHANGED <<owner, claimed>>
    BY <1>4 DEF ExecuteBlocked
  <2> QED
    BY <1>1, <1>3, <1>4, <2>2, <2>3, <2>4, MoveBetweenRounds DEF RoundStatuses
<1>5. ASSUME ExecuteClaim(s)  PROVE RoundsOK'
  <2>1. PICK new : case' = [case EXCEPT ![target[s]] = new] /\ copy' = [copy EXCEPT ![s] = new]
    BY <1>5 DEF ExecuteClaim, Save
  <2>2. /\ pc'[s] = "exec_claimed" /\ UNCHANGED <<owner, claimed, target>>
        /\ case'[target[s]] = new /\ copy'[s] = new
        /\ \A t \in Sessions \ {s} : pc'[t] = pc[t]
    BY <1>3, <1>5, <2>1 DEF ExecuteClaim, GoTo, RoundInv, SafetyInv, TypeInv,
                            SessionsOK, SessionTypes, CasesOK
  <2>3. ClaimOK(s)'
    BY <2>2 DEF ClaimOK, HoldsClaim
  <2>4. ASSUME NEW t \in Sessions \ {s}, pc[t] \in ExecutingPCs
        PROVE  target[t] # target[s]
    BY <1>3, <1>5, <2>4, ExecutionStatus
  <2>5. \A l \in LinksOf(target[s]) : Settled(l)
    BY <1>3, <1>5 DEF RoundInv, RoundsOK, RoundOK, RoundStatuses
  <2>6. \A l \in LinksOf(target[s]) : Settled(l)'
    BY <1>1, <2>5, SettledStays DEF LinksOf, RoundInv
  <2>7. ExecOK(s)'
    BY <2>2, <2>4, <2>6 DEF ExecOK, LinksOf
  <2> QED
    BY <1>1, <1>3, <1>5, <2>1, <2>2, <2>3, <2>7, MoveBetweenRounds DEF RoundStatuses
<1>6. ASSUME NEW l \in Links, ExecuteCall(s, l)  PROVE RoundsOK'
  <2>1. /\ pc[s] = "exec_claimed" /\ pc'[s] = "exec_wait" /\ ref'[s] = l
        /\ owner' = [owner EXCEPT ![l] = target[s]]
        /\ UNCHANGED <<case, claimed, target, copy>>
        /\ \A t \in Sessions \ {s} : pc'[t] = pc[t]
    BY <1>6 DEF ExecuteCall, GoTo, RoundInv, SafetyInv, TypeInv, SessionsOK, SessionTypes
  <2>2. /\ target[s] \in Cases /\ case[target[s]].status = "EXECUTING"
        /\ case[target[s]] = copy[s]
    BY <2>1, ExecutionStatus DEF ExecutingPCs
  <2>3. \A m \in Links \ {l} : owner'[m] = owner[m]
    BY <2>1 DEF RoundInv, SafetyInv, TypeInv, DbOK
  <2>4. /\ \A m \in LinksOf(target[s]) : Settled(m)
        /\ \A t \in Sessions : pc[t] \in ExecutingPCs /\ target[t] = target[s] => t = s
    BY <2>1 DEF RoundInv, RoundsOK, ExecOK, ExecutingPCs, CallingPCs
  <2>5. \A m \in LinksOf(target[s])' : m # l => Settled(m)'
    BY <1>1, <2>1, <2>3, <2>4, SettledStays DEF LinksOf, RoundInv
  <2>6. ClaimOK(s)'
    BY <2>1 DEF ClaimOK, HoldsClaim
  <2>7. ExecOK(s)'
    BY <2>1, <2>2, <2>4, <2>5 DEF ExecOK, ExecutingPCs, CallingPCs
  <2>8. \A t \in Sessions : ClaimOK(t)'
    BY <1>1, <2>1, <2>6, OthersClaims DEF StepOK, ClaimsKept
  <2>9. \A t \in Sessions : ExecOK(t)'
    BY <1>1, <2>1, <2>3, <2>7, OthersExecutions
    DEF SparesExecutions, DrawsForItsCase, RoundInv, SafetyInv, TypeInv, DbOK
  <2>10. ASSUME NEW d \in Cases  PROVE RoundOK(d)'
    <3>1. CASE d = target[s]
      BY <2>1, <2>2, <2>5, <3>1 DEF RoundOK, RoundStatuses
    <3>2. CASE d # target[s]
      <4>1. \A m \in Links : owner'[m] = d => owner[m] = d
        BY <2>1, <2>3, <3>2 DEF RoundInv, SafetyInv, TypeInv, DbOK
      <4> QED BY <1>1, <2>1, <4>1, RoundKept
    <3> QED BY <3>1, <3>2
  <2> QED BY <2>8, <2>9, <2>10 DEF RoundsOK
<1>7. ASSUME \/ ExecuteAccepted(s) \/ ReconcileFound(s) \/ ExecuteRefused(s)
             \/ ExecuteAmbiguous(s) \/ ReconcileUnresolved(s)
      PROVE  RoundsOK'
  <2>1. /\ UNCHANGED <<dbVars, target, copy, ref>>
        /\ pc[s] \in {"exec_wait", "exec_unsure"}
    BY <1>7 DEF ExecuteAccepted, ReconcileFound, ExecuteRefused, ExecuteAmbiguous,
                ReconcileUnresolved
  <2>2. /\ pc'[s] \in {"exec_unsure", "exec_record", "exec_failed"}
        /\ \A t \in Sessions \ {s} : pc'[t] = pc[t]
    BY <1>7 DEF ExecuteAccepted, ReconcileFound, ExecuteRefused, ExecuteAmbiguous,
                ReconcileUnresolved, GoTo, RoundInv, SafetyInv, TypeInv, SessionsOK,
                SessionTypes
  <2>3. ClaimOK(s)'
    BY <2>2 DEF ClaimOK, HoldsClaim
  <2>4. /\ case[target[s]] = copy[s]
        /\ \A t \in Sessions : pc[t] \in ExecutingPCs /\ target[t] = target[s] => t = s
        /\ \A l \in LinksOf(target[s]) : Settled(l) \/ l = ref[s]
    BY <2>1 DEF RoundInv, RoundsOK, ExecOK, ExecutingPCs
  <2>5. \A l \in LinksOf(target[s]) : Settled(l)' \/ l = ref[s]
    BY <1>1, <2>4, SettledStays DEF LinksOf, RoundInv
  <2>6. ExecOK(s)'
    BY <2>1, <2>2, <2>4, <2>5 DEF ExecOK, LinksOf, dbVars, CallingPCs
  <2> QED
    BY <1>1, <2>1, <2>3, <2>6, PlainStep DEF dbVars, ClaimsKept, SparesExecutions
<1>8. ASSUME ExecuteRecord(s) \/ ExecuteEscalate(s)  PROVE RoundsOK'
  <2>1. /\ Leave(s) /\ UNCHANGED <<owner, claimed>>
        /\ pc[s] \in {"exec_record", "exec_failed"}
    BY <1>8 DEF ExecuteRecord, ExecuteEscalate
  <2>2. target[s] \in Cases /\ case[target[s]].status = "EXECUTING"
    BY <1>8, ExecutionLeaves
  <2>3. \E new : /\ case' = [case EXCEPT ![target[s]] = new]
                 /\ new.status \in {"EXECUTING", "ESCALATED"}
    BY <1>8, ExecutionLeaves
  <2>4. SparesExecutions(s)
    <3> SUFFICES ASSUME NEW t \in Sessions \ {s}, pc[t] \in ExecutingPCs
                 PROVE  case'[target[t]] = case[target[t]]
      BY DEF SparesExecutions
    <3>1. target[t] # target[s]
      BY <2>1 DEF RoundInv, RoundsOK, ExecOK, ExecutingPCs
    <3>2. target[t] \in Cases
      BY ExecutionStatus
    <3> QED BY <2>3, <3>1, <3>2 DEF RoundInv, SafetyInv, TypeInv, CasesOK
  <2>5. \A c \in Cases :
          case'[c].status \notin RoundStatuses => case[c].status \notin RoundStatuses
    BY <2>2, <2>3 DEF RoundStatuses, RoundInv, SafetyInv, TypeInv, CasesOK
  <2> QED BY <1>1, <2>1, <2>4, <2>5, LeaveRound DEF ClaimsKept
<1> QED BY <1>2, <1>4, <1>5, <1>6, <1>7, <1>8 DEF Execute

(* What the end of a round changes: the link of the handler is settled, or *)
(* paid, and every other link of the case was settled before.              *)
LEMMA RoundEnds ==
  ASSUME OneKey, RoundInv, NEW s \in Sessions, WebhookApply(s), NEW l, l = ref[s]
  PROVE  /\ target[s] \in Cases /\ l \in Links /\ owner[l] = target[s]
         /\ case[target[s]] = copy[s] /\ copy[s].status = "EXECUTING"
         /\ copy[s] \in Rows
         /\ ~Handled(l) /\ Handled(l)'
         /\ link[l] \in ClosedStatuses
         /\ request'[l] = link[l]
         /\ \A m \in LinksOf(target[s]) : m # l => Settled(m)
         /\ \A t \in Sessions : pc[t] \in ExecutingPCs => target[t] # target[s]
<1>1. /\ pc[s] = "hook_read" /\ copy[s].status = "EXECUTING" /\ Fresh(s)
      /\ request' = [request EXCEPT ![l] = link[l]]
      /\ claimed' = claimed \cup {<<l, key[s]>>}
  BY DEF WebhookApply, CommitClaim, Event
<1>2. target[s] \in Cases /\ case[target[s]] = copy[s] /\ copy[s] \in Rows
  BY <1>1, FreshCopy DEF CasePCs, RoundInv
<1>3. /\ l \in Links /\ owner[l] = target[s] /\ Event(s) \in Events
      /\ link[l] \in ClosedStatuses
  BY <1>1 DEF RoundInv, SafetyInv, TypeInv, SessionsOK, SessionOK, LinkPCs, RefOK,
              HookPCs, HoldsClaim
<1>4. ~Handled(l)
  BY <1>1, ClaimIsFirst DEF HoldsClaim
<1>5. Handled(l)'
  <2>1. key[s] \in KeySources
    BY <1>3 DEF Event, Events
  <2> QED BY <1>1, <2>1 DEF Handled
<1>6. request'[l] = link[l]
  BY <1>1, <1>3 DEF RoundInv, SafetyInv, TypeInv, DbOK
<1>7. \A m \in LinksOf(target[s]) : m # l => Settled(m)
  <2>1. ~Settled(l) /\ l \in LinksOf(target[s])
    BY <1>3, <1>4 DEF Settled, LinksOf
  <2> QED BY <1>2, <2>1 DEF RoundInv, RoundsOK, RoundOK
<1>8. \A t \in Sessions : pc[t] \in ExecutingPCs => target[t] # target[s]
  BY <1>1, HandlerMeetsNoExecution
<1> QED BY <1>1, <1>2, <1>3, <1>4, <1>5, <1>6, <1>7, <1>8

(* A handler commits its own claim; it ends a round or leaves it as it is. *)
LEMMA RoundWebhook ==
  ASSUME OneKey, RoundInv, NEW s \in Sessions, Webhook(s)
  PROVE  RoundsOK'
<1>1. StepOK(s)
  BY SafeWebhook DEF RoundInv
<1>2. ASSUME NEW e \in Events, WebhookDuplicate(s, e)  PROVE RoundsOK'
  <2>1. pc'[s] = "idle" /\ UNCHANGED dbVars
    BY <1>2 DEF WebhookDuplicate, sessionVars
  <2>2. ClaimOK(s)' /\ ExecOK(s)'
    BY <2>1, OutsideOK DEF ExecutingPCs, HoldsClaim
  <2> QED BY <1>1, <2>1, <2>2, PlainStep DEF dbVars, ClaimsKept, SparesExecutions
<1>3. ASSUME NEW e \in Events, WebhookArrive(s, e)  PROVE RoundsOK'
  <2>1. pc'[s] = "hook_start" /\ UNCHANGED dbVars
    BY <1>3 DEF WebhookArrive, GoTo, RoundInv, SafetyInv, TypeInv, SessionsOK,
                SessionTypes
  <2>2. ClaimOK(s)' /\ ExecOK(s)'
    BY <2>1, OutsideOK DEF ExecutingPCs, HoldsClaim
  <2> QED BY <1>1, <2>1, <2>2, PlainStep DEF dbVars, ClaimsKept, SparesExecutions
<1>4. ASSUME WebhookClaim(s)  PROVE RoundsOK'
  <2>1. /\ pc'[s] = "hook_claimed" /\ UNCHANGED <<dbVars, ref, key>>
        /\ Event(s) \notin claimed
        /\ \A t \in Sessions : pc[t] \in HoldsClaim => Event(t) # Event(s)
        /\ \A t \in Sessions \ {s} : pc'[t] = pc[t]
    BY <1>4 DEF WebhookClaim, ClaimSettled, GoTo, RoundInv, SafetyInv, TypeInv,
                SessionsOK, SessionTypes
  <2>2. ClaimOK(s)'
    BY <2>1 DEF ClaimOK, dbVars, Event
  <2>3. ExecOK(s)'
    BY <2>1 DEF ExecOK, ExecutingPCs
  <2> QED
    BY <1>1, <2>1, <2>2, <2>3, PlainStep DEF dbVars, ClaimsKept, SparesExecutions
<1>5. ASSUME \/ WebhookLostRace(s) \/ WebhookIgnore(s) \/ WebhookUnmatched(s)
             \/ WebhookMovedOn(s)
      PROVE  RoundsOK'
  <2>1. Leave(s) /\ UNCHANGED <<case, owner>> /\ ClaimsKept(s)
    BY <1>5 DEF WebhookLostRace, WebhookIgnore, WebhookUnmatched, WebhookMovedOn,
                CommitClaim, ClaimsKept, HoldsClaim, dbVars
  <2> QED BY <1>1, <2>1, LeaveRound DEF SparesExecutions
<1>6. ASSUME WebhookLookup(s)  PROVE RoundsOK'
  <2>1. /\ pc[s] = "hook_claimed" /\ pc'[s] \in {"hook_unmatched", "hook_read"}
        /\ UNCHANGED <<dbVars, ref, key>>
        /\ \A t \in Sessions \ {s} : pc'[t] = pc[t]
    BY <1>6 DEF WebhookLookup, GoTo, RoundInv, SafetyInv, TypeInv, SessionsOK,
                SessionTypes
  <2>2. ClaimOK(s)'
    BY <2>1 DEF ClaimOK, dbVars, Event, HoldsClaim, RoundInv, RoundsOK
  <2>3. ExecOK(s)'
    BY <2>1 DEF ExecOK, ExecutingPCs
  <2> QED
    BY <1>1, <2>1, <2>2, <2>3, PlainStep DEF dbVars, ClaimsKept, SparesExecutions
<1>7. ASSUME WebhookApply(s)  PROVE RoundsOK'
  <2>1. PICK l : l = ref[s]
    OBVIOUS
  <2>2. /\ target[s] \in Cases /\ l \in Links /\ owner[l] = target[s]
        /\ copy[s] \in Rows
        /\ Handled(l)' /\ link[l] \in ClosedStatuses /\ request'[l] = link[l]
        /\ \A m \in LinksOf(target[s]) : m # l => Settled(m)
        /\ \A t \in Sessions : pc[t] \in ExecutingPCs => target[t] # target[s]
    BY <1>7, <2>1, RoundEnds
  <2>3. PICK new : new = Resolved(copy[s], l)
    OBVIOUS
  <2>4. /\ case' = [case EXCEPT ![target[s]] = new] /\ UNCHANGED <<owner, link>>
        /\ Leave(s) /\ ClaimsKept(s)
    BY <1>7, <2>1, <2>3 DEF WebhookApply, Save, CommitClaim, ClaimsKept, HoldsClaim
  <2>5. new.status = IF FullyPaid(l) THEN "RECOVERED" ELSE "FAILED"
    <3>1. Amount[owner[l]] \in Nat
      BY <2>2, PipelineAssumption
    <3> QED BY <2>2, <2>3, <3>1, RowResolved
  <2>6. /\ pc'[s] = "idle"
        /\ case'[target[s]].status = IF link[l] = "paid" THEN "RECOVERED" ELSE "FAILED"
    BY <2>2, <2>4, <2>5, LeaveStep
    DEF RoundInv, SafetyInv, TypeInv, CasesOK, FullyPaid
  <2>7. ClaimOK(s)' /\ ExecOK(s)'
    BY <2>6, OutsideOK DEF ExecutingPCs, HoldsClaim
  <2>8. SparesExecutions(s)
    <3>1. \A t \in Sessions : pc[t] \in ExecutingPCs => target[t] \in Cases
      BY ExecutionStatus
    <3> QED
      BY <2>2, <2>4, <3>1 DEF SparesExecutions, RoundInv, SafetyInv, TypeInv, CasesOK
  <2>9. \A m \in LinksOf(target[s]) : m # l => Settled(m)'
    BY <1>1, <2>2, SettledStays DEF LinksOf, RoundInv
  <2>10. link[l] # "paid" => Settled(l)'
    BY <2>2, <2>4 DEF Settled
  <2>11. ASSUME NEW d \in Cases  PROVE RoundOK(d)'
    <3>1. CASE d = target[s]
      BY <2>2, <2>4, <2>6, <2>9, <2>10, <3>1 DEF RoundOK, LinksOf, RoundStatuses
    <3>2. CASE d # target[s]
      <4>1. case'[d] = case[d]
        BY <2>4, <3>2 DEF RoundInv, SafetyInv, TypeInv, CasesOK
      <4> QED BY <1>1, <2>4, <4>1, RoundKept
    <3> QED BY <3>1, <3>2
  <2>12. \A t \in Sessions : ClaimOK(t)'
    BY <1>1, <2>4, <2>7, OthersClaims DEF StepOK
  <2>13. \A t \in Sessions : ExecOK(t)'
    BY <1>1, <2>4, <2>7, <2>8, OthersExecutions DEF DrawsForItsCase
  <2> QED BY <2>11, <2>12, <2>13 DEF RoundsOK
<1> QED BY <1>2, <1>3, <1>4, <1>5, <1>6, <1>7 DEF Webhook
-----------------------------------------------------------------------------
(* Nothing is claimed, executed or linked initially.                       *)
LEMMA RoundInit == Init => RoundInv
<1> SUFFICES ASSUME Init  PROVE RoundInv
  OBVIOUS
<1>1. SafetyInv
  BY SafetyInit
<1>2. \A s \in Sessions : ClaimOK(s) /\ ExecOK(s)
  BY DEF Init, ClaimOK, ExecOK, HoldsClaim, ExecutingPCs
<1>3. \A c \in Cases : LinksOf(c) = {}
  BY PipelineAssumption DEF Init, LinksOf
<1>4. \A c \in Cases : RoundOK(c)
  BY <1>3 DEF RoundOK
<1> QED BY <1>1, <1>2, <1>4 DEF RoundInv, RoundsOK

(* With the database and the sessions as they were and no closed link      *)
(* reopened, the rounds are as they were.                                  *)
LEMMA WorldSteps ==
  ASSUME RoundInv, UNCHANGED <<dbVars, sessionVars>>,
         \A l \in Links : link[l] \in ClosedStatuses => link'[l] = link[l]
  PROVE  RoundsOK'
<1>1. \A l \in Links : Settled(l) => Settled(l)'
  BY DEF Settled, Handled, dbVars
<1>2. /\ UNCHANGED <<case, owner, claimed, pc, target, ref, copy>>
      /\ \A s \in Sessions : Event(s)' = Event(s)
  BY DEF Event, dbVars, sessionVars
<1>3. ASSUME NEW s \in Sessions  PROVE ClaimOK(s)'
  <2>1. ClaimOK(s)
    BY DEF RoundInv, RoundsOK
  <2> QED BY <1>2, <2>1 DEF ClaimOK
<1>4. ASSUME NEW c \in Cases  PROVE RoundOK(c)'
  <2>1. RoundOK(c)
    BY DEF RoundInv, RoundsOK
  <2>2. LinksOf(c)' = LinksOf(c) /\ LinksOf(c) \subseteq Links
    BY <1>2 DEF LinksOf
  <2> QED BY <1>1, <1>2, <2>1, <2>2 DEF RoundOK
<1>5. ASSUME NEW s \in Sessions  PROVE ExecOK(s)'
  <2>1. ExecOK(s)
    BY DEF RoundInv, RoundsOK
  <2>2. LinksOf(target[s])' = LinksOf(target[s]) /\ LinksOf(target[s]) \subseteq Links
    BY <1>2 DEF LinksOf
  <2> QED BY <1>1, <1>2, <2>1, <2>2 DEF ExecOK
<1> QED BY <1>3, <1>4, <1>5 DEF RoundsOK

(* The provider closes a link once.                                        *)
LEMMA ProviderKeepsClosed ==
  ASSUME SafetyInv, NEW l \in Links, ProviderCreates(l) \/ ProviderCloses(l)
  PROVE  /\ UNCHANGED <<dbVars, sessionVars>>
         /\ \A m \in Links : link[m] \in ClosedStatuses => link'[m] = link[m]
<1>1. UNCHANGED <<dbVars, sessionVars>>
  BY DEF ProviderCreates, ProviderCloses
<1>2. link[l] \in {"none", "created"}
  BY DEF ProviderCreates, ProviderCloses, SafetyInv, LinkOK
<1>3. \A m \in Links \ {l} : link'[m] = link[m]
  BY DEF ProviderCreates, ProviderCloses, SafetyInv, TypeInv, WorldOK
<1> QED BY <1>1, <1>2, <1>3 DEF ClosedStatuses, OpenOrClosed

(* A lost transaction or a crash loses nothing that was committed.         *)
LEMMA GivingUp ==
  ASSUME SafetyInv, NEW s \in Sessions, StaleRollback(s) \/ Crash(s)
  PROVE  StepOK(s) /\ Leave(s) /\ UNCHANGED <<dbVars, providerVars>>
<1>1. Leave(s) /\ UNCHANGED <<dbVars, providerVars>>
  BY DEF StaleRollback, Crash
<1> QED BY <1>1, LeaveStep, QuietStep DEF dbVars, providerVars

LEMMA SessionStepOK ==
  ASSUME SafetyInv, NEW s \in Sessions, SessionStep(s) \/ Crash(s)
  PROVE  StepOK(s)
BY GivingUp, SafeDiagnose, SafeExecute, SafeWebhook DEF SessionStep

(* Every step keeps the rounds in order.                                   *)
LEMMA RoundStep ==
  ASSUME OneKey, RoundInv, [Next]_vars
  PROVE  RoundInv'
<1>1. SafetyInv'
  BY SafetyStep DEF RoundInv
<1>2. ASSUME NEW s \in Sessions, StaleRollback(s) \/ Crash(s)  PROVE RoundsOK'
  BY <1>2, GivingUp, LeaveRound DEF RoundInv, dbVars, ClaimsKept, SparesExecutions
<1>3. ASSUME NEW s \in Sessions, SessionStep(s) \/ Crash(s)  PROVE RoundsOK'
  BY <1>2, <1>3, RoundDiagnose, RoundExecute, RoundWebhook DEF SessionStep
<1>4. ASSUME Provider  PROVE RoundsOK'
  BY <1>4, ProviderKeepsClosed, WorldSteps DEF Provider, RoundInv
<1>5. ASSUME Tick \/ UNCHANGED vars  PROVE RoundsOK'
  BY <1>5, WorldSteps DEF Tick, vars, providerVars
<1>6. RoundsOK'
  BY <1>3, <1>4, <1>5 DEF Next
<1> QED BY <1>1, <1>6 DEF RoundInv

(* The rounds are in order in every behaviour.                             *)
THEOREM RoundInvariance == OneKey => (Spec => []RoundInv)
<1> SUFFICES ASSUME OneKey  PROVE Spec => []RoundInv
  OBVIOUS
<1>1. RoundInv /\ [Next]_vars => RoundInv'
  BY RoundStep
<1> QED BY <1>1, RoundInit, PTL DEF Spec

(* However executions are doubled, answers lost and events redelivered, at *)
(* most one link of a case is on its way, payable or paid                  *)
(* (_create_payment_link, _handle_ambiguous_creation, _escalate).          *)
THEOREM ChargedOnce == OneKey => (Spec => []NoDoubleCharge)
<1> SUFFICES ASSUME OneKey  PROVE Spec => []NoDoubleCharge
  OBVIOUS
<1>1. ASSUME RoundInv  PROVE NoDoubleCharge
  <2>1. \A l \in Links : Outstanding(l) => ~Settled(l)
    BY <1>1, SettledIsOver DEF RoundInv
  <2>2. \A c \in Cases : RoundOK(c) /\ LinksOf(c) \subseteq Links
    BY <1>1 DEF RoundInv, RoundsOK, LinksOf
  <2> QED BY <2>1, <2>2 DEF RoundOK, NoDoubleCharge
<1> QED BY <1>1, RoundInvariance, PTL

(* Between the commit of EXECUTING and its end an execution is alone with  *)
(* its case and its copy is the row (execute_recovery_case).               *)
THEOREM ExecutedByOne == OneKey => (Spec => []OneExecutor)
<1> SUFFICES ASSUME OneKey  PROVE Spec => []OneExecutor
  OBVIOUS
<1>1. ASSUME RoundInv  PROVE OneExecutor
  <2>1. \A s \in Sessions : ExecOK(s)
    BY <1>1 DEF RoundInv, RoundsOK
  <2>2. \A s \in Sessions :
          pc[s] \in ExecutingPCs => case[target[s]].status = "EXECUTING"
    BY <1>1, ExecutionStatus
  <2> QED BY <2>1, <2>2 DEF ExecOK, OneExecutor
<1> QED BY <1>1, RoundInvariance, PTL
-----------------------------------------------------------------------------
(* Only a handler that applies its event ends a round.                     *)
LEMMA HandlersEndRounds ==
  ASSUME RoundInv, NEW s \in Sessions, SessionStep(s), NEW c \in Cases,
         case[c].status = "EXECUTING", case'[c].status \in {"RECOVERED", "FAILED"}
  PROVE  WebhookApply(s) /\ target[s] = c
<1>1. case'[c] # case[c]
  OBVIOUS
<1>2. case' # case
  BY <1>1
<1>3. ~(DiagnoseIneligible(s) \/ DiagnoseFinish(s))
  <2> SUFFICES ASSUME DiagnoseIneligible(s) \/ DiagnoseFinish(s)  PROVE FALSE
    OBVIOUS
  <2>1. target[s] # c
    BY DiagnosisMoves
  <2> QED BY <1>1, <2>1, DiagnosisMoves DEF RoundInv, SafetyInv, TypeInv, CasesOK
<1>4. ~(ExecuteBlocked(s) \/ ExecuteClaim(s))
  <2> SUFFICES ASSUME ExecuteBlocked(s) \/ ExecuteClaim(s)  PROVE FALSE
    OBVIOUS
  <2>1. target[s] # c
    BY ExecutionStarts
  <2> QED BY <1>1, <2>1, ExecutionStarts DEF RoundInv, SafetyInv, TypeInv, CasesOK
<1>5. ~(ExecuteRecord(s) \/ ExecuteEscalate(s))
  <2> SUFFICES ASSUME ExecuteRecord(s) \/ ExecuteEscalate(s)  PROVE FALSE
    OBVIOUS
  <2>1. PICK new : /\ case' = [case EXCEPT ![target[s]] = new]
                   /\ new.status \in {"EXECUTING", "ESCALATED"}
    BY ExecutionLeaves
  <2> QED BY <1>1, <2>1 DEF RoundInv, SafetyInv, TypeInv, CasesOK
<1>6. ~StaleRollback(s)
  BY <1>2 DEF StaleRollback, dbVars
<1>7. ~Diagnose(s)
  BY <1>2, <1>3 DEF Diagnose, DiagnoseRead, DiagnoseBegin, dbVars
<1>8. ~Execute(s)
  BY <1>2, <1>4, <1>5
  DEF Execute, ExecuteRead, ExecuteCall, ExecuteAccepted, ExecuteRefused,
      ExecuteAmbiguous, ReconcileFound, ReconcileUnresolved, dbVars
<1>9. WebhookApply(s)
  <2>1. Webhook(s)
    BY <1>6, <1>7, <1>8 DEF SessionStep
  <2> QED
    BY <1>2, <2>1
    DEF Webhook, WebhookDuplicate, WebhookArrive, WebhookClaim, WebhookLostRace,
        WebhookIgnore, WebhookLookup, WebhookUnmatched, WebhookMovedOn, dbVars
<1>10. target[s] = c
  BY <1>1, <1>9 DEF WebhookApply, Save, RoundInv, SafetyInv, TypeInv, CasesOK
<1> QED BY <1>9, <1>10

EndsByItsLink ==
  \A c \in Cases :
    /\ case[c].status = "EXECUTING"
    /\ case'[c].status \in {"RECOVERED", "FAILED"}
    => /\ \E l \in LinksOf(c) :
            /\ ~Handled(l) /\ Handled(l)'
            /\ \A m \in LinksOf(c) \ {l} :
                 Handled(m) /\ link[m] \in ClosedStatuses \ {"paid"}
       /\ \A s \in Sessions : pc[s] \in ExecutingPCs => target[s] # c

LEMMA RoundStepEnds ==
  ASSUME OneKey, RoundInv, Next
  PROVE  EndsByItsLink
<1> SUFFICES ASSUME NEW c \in Cases, case[c].status = "EXECUTING",
                    case'[c].status \in {"RECOVERED", "FAILED"}
             PROVE  /\ \E l \in LinksOf(c) :
                         /\ ~Handled(l) /\ Handled(l)'
                         /\ \A m \in LinksOf(c) \ {l} :
                              Handled(m) /\ link[m] \in ClosedStatuses \ {"paid"}
                    /\ \A s \in Sessions : pc[s] \in ExecutingPCs => target[s] # c
  BY DEF EndsByItsLink
<1>1. case' # case
  OBVIOUS
<1>2. PICK s \in Sessions : SessionStep(s)
  BY <1>1 DEF Next, Crash, Provider, ProviderCreates, ProviderCloses, Tick, dbVars
<1>3. WebhookApply(s) /\ target[s] = c
  BY <1>2, HandlersEndRounds
<1>4. PICK l : l = ref[s]
  OBVIOUS
<1>5. /\ l \in LinksOf(c) /\ ~Handled(l) /\ Handled(l)'
      /\ \A m \in LinksOf(c) : m # l => Settled(m)
      /\ \A t \in Sessions : pc[t] \in ExecutingPCs => target[t] # c
  BY <1>3, <1>4, RoundEnds DEF LinksOf
<1> QED BY <1>5 DEF Settled

(* A round is ended by the first event handled for its own link, with no   *)
(* execution of the case in flight and every other link of it settled      *)
(* (process_webhook_event's claim and its check for EXECUTING).            *)
THEOREM RoundEndedByItsLink == OneKey => (Spec => RoundResolvedByItsLink)
<1> SUFFICES ASSUME OneKey  PROVE Spec => RoundResolvedByItsLink
  OBVIOUS
<1>1. RoundInv /\ [Next]_vars => [EndsByItsLink]_vars
  BY RoundStepEnds
<1>2. RoundResolvedByItsLink <=> [][EndsByItsLink]_vars
  BY PTL DEF RoundResolvedByItsLink, EndsByItsLink
<1> QED BY <1>1, <1>2, RoundInvariance, PTL DEF Spec
-----------------------------------------------------------------------------
(***************************************************************************)
(* The pipeline implements the lifecycle, under the same assumption.       *)
(*                                                                         *)
(* What a session commits is a legal move of one case, so the stages need  *)
(* no work; the argument is about the offers.  A case between two rounds   *)
(* has only settled links, and those are on offer to nobody.               *)
(***************************************************************************)

Stage    == [c \in Cases |-> case[c].status]
Credited == [c \in Cases |-> case[c].recovered]
Offers   == [c \in Cases |-> OfferOf(c)]

(* A step of the pipeline is a step of the lifecycle, or none.             *)
Simulated == [Lifecycle!Next]_(Lifecycle!lifecycleVars)
-----------------------------------------------------------------------------
(* The mapping of the offers. *)

LEMMA OfferCases ==
  ASSUME NEW c \in Cases
  PROVE  /\ (\E l \in LinksOf(c) : link[l] = "paid") => OfferOf(c) = "paid"
         /\ (\A l \in LinksOf(c) : link[l] # "paid")
            /\ (\E l \in LinksOf(c) : l \in wire \/ link[l] = "created")
            => OfferOf(c) = "open"
         /\ (\A l \in LinksOf(c) : link[l] \notin {"paid", "created"} /\ l \notin wire)
            => OfferOf(c) = "none"
BY DEF OfferOf

(* Settled links are on offer to nobody.                                   *)
LEMMA SettledOffersNone ==
  ASSUME SafetyInv, NEW c \in Cases, \A l \in LinksOf(c) : Settled(l)
  PROVE  OfferOf(c) = "none"
<1>1. \A l \in LinksOf(c) : link[l] \notin {"paid", "created"} /\ l \notin wire
  BY SettledIsOver DEF LinksOf
<1> QED BY <1>1, OfferCases

(* Neither is anything else of a case between two rounds.                  *)
LEMMA NoOfferBetweenRounds ==
  ASSUME RoundInv, NEW c \in Cases, case[c].status \notin RoundStatuses
  PROVE  OfferOf(c) = "none"
BY SettledOffersNone DEF RoundInv, RoundsOK, RoundOK

(* What is offered depends on the links and who they belong to.            *)
LEMMA OffersStay ==
  ASSUME UNCHANGED <<owner, link, wire>>
  PROVE  Offers' = Offers
<1>1. \A c \in Cases : LinksOf(c)' = LinksOf(c)
  BY DEF LinksOf
<1>2. \A c \in Cases : OfferOf(c)' = OfferOf(c)
  BY <1>1 DEF OfferOf
<1> QED BY <1>2 DEF Offers

LEMMA NothingMoves ==
  ASSUME case' = case, Offers' = Offers
  PROVE  Simulated
BY DEF Simulated, Lifecycle!lifecycleVars, Offers

(* A link's offer changes with the link alone.                             *)
LEMMA OneOfferChanges ==
  ASSUME case' = case, NEW c \in Cases, NEW o,
         Offers' = [Offers EXCEPT ![c] = o],
         \/ /\ case[c].status = "EXECUTING"
            /\ OfferOf(c) = "none" /\ o = "open"
         \/ OfferOf(c) = "open" /\ o \in {"paid", "none"}
  PROVE  Simulated
<1>1. UNCHANGED <<Stage, Credited>>
  BY DEF Stage, Credited
<1>2. /\ Stage[c] = case[c].status /\ Offers[c] = OfferOf(c)
  BY DEF Stage, Offers
<1>3. Lifecycle!Offer(c) \/ Lifecycle!Settle(c)
  BY <1>1, <1>2 DEF Lifecycle!Offer, Lifecycle!Settle, Stage, Credited, Offers
<1> QED BY <1>3 DEF Simulated, Lifecycle!Next
-----------------------------------------------------------------------------
(* A commit moves one case, and nothing is on offer before a decision or a *)
(* start, or after a failed round; a paid offer stands behind a credit.    *)
LEMMA CommitSimulated ==
  ASSUME RoundInv, RoundInv', NEW s \in Sessions, NEW new, Writes(s, new),
         NEW c \in Cases, c = target[s], UNCHANGED <<owner, link, wire>>
  PROVE  Simulated
<1>1. PICK old : old = case[c]
  OBVIOUS
<1>2. /\ case' = [case EXCEPT ![c] = new]
      /\ case \in [Cases -> Rows]
      /\ LegalMove(old, new) /\ Credits(c, old, new)
  BY <1>1 DEF Writes, Overwrites, RoundInv, SafetyInv, TypeInv, CasesOK
<1>3. case'[c] = new
  BY <1>2
<1>4. Offers' = Offers /\ OfferOf(c)' = OfferOf(c)
  <2>1. Offers' = Offers
    BY OffersStay
  <2>2. Offers[c] = OfferOf(c) /\ Offers'[c] = OfferOf(c)'
    BY <1>1 DEF Offers
  <2> QED BY <2>1, <2>2
<1>5. /\ Stage' = [Stage EXCEPT ![c] = new.status] /\ Stage[c] = old.status
      /\ Credited' = [Credited EXCEPT ![c] = new.recovered]
      /\ Credited[c] = old.recovered /\ Offers[c] = OfferOf(c)
  BY <1>1, <1>2 DEF Stage, Credited, Offers
<1>6. CASE new.status = old.status
  <2>1. new.status # "RECOVERED"
    BY <1>2, <1>6 DEF LegalMove, TerminalStatuses
  <2>2. new.recovered = old.recovered
    BY <1>2, <2>1 DEF Credits
  <2>3. Stage' = Stage /\ Credited' = Credited
    BY <1>1, <1>5, <1>6, <2>2 DEF Stage, Credited
  <2> QED BY <1>4, <2>3 DEF Simulated, Lifecycle!lifecycleVars, Stage, Credited, Offers
<1>7. CASE new.status # old.status /\ new.status # "RECOVERED"
  <2>1. new.recovered = old.recovered
    BY <1>2, <1>7 DEF Credits
  <2>2. Credited' = Credited
    BY <1>1, <1>5, <2>1 DEF Credited
  <2>3. new.status \in TransactionMoves(old.status)
    BY <1>2, <1>7 DEF LegalMove
  <2>4. CASE old.status \in {"DISCOVERED", "FAILED"}
    <3>1. OfferOf(c) = "none"
      BY <1>1, <2>4, NoOfferBetweenRounds DEF RoundStatuses
    <3>2. Lifecycle!Decide(c)
      BY <1>4, <1>5, <2>2, <2>3, <2>4, <3>1
      DEF Lifecycle!Decide, Lifecycle!Enter, TransactionMoves, Stage, Credited, Offers
    <3> QED BY <1>1, <3>2 DEF Simulated, Lifecycle!Next
  <2>5. CASE old.status = "APPROVED"
    <3>1. OfferOf(c) = "none"
      BY <1>1, <2>5, NoOfferBetweenRounds DEF RoundStatuses
    <3>2. Lifecycle!Start(c)
      BY <1>4, <1>5, <2>2, <2>3, <2>5, <3>1
      DEF Lifecycle!Start, Lifecycle!Enter, TransactionMoves, Stage, Credited, Offers
    <3> QED BY <1>1, <3>2 DEF Simulated, Lifecycle!Next
  <2>6. CASE old.status = "EXECUTING"
    <3>1. CASE new.status = "FAILED"
      <4>1. \A l \in LinksOf(c)' : Settled(l)'
        BY <1>1, <1>3, <3>1 DEF RoundInv, RoundsOK, RoundOK, RoundStatuses
      <4>2. \A l \in LinksOf(c)' :
              link'[l] \notin {"paid", "created"} /\ l \notin wire'
        <5> SUFFICES ASSUME NEW l \in Links, owner'[l] = c
                     PROVE  link'[l] \notin {"paid", "created"} /\ l \notin wire'
          BY DEF LinksOf
        <5>1. request'[l] = link'[l] /\ link'[l] \in ClosedStatuses \ {"paid"}
          BY <4>1 DEF LinksOf, Settled
        <5> QED BY <5>1 DEF RoundInv, SafetyInv, LinkOK, ClosedStatuses, OpenOrClosed
      <4>3. OfferOf(c)' = "none"
        BY <4>2 DEF OfferOf
      <4>4. Lifecycle!Fail(c)
        BY <1>4, <1>5, <2>2, <2>6, <3>1, <4>3
        DEF Lifecycle!Fail, Lifecycle!Enter, Stage, Credited, Offers
      <4> QED BY <1>1, <4>4 DEF Simulated, Lifecycle!Next
    <3>2. CASE new.status = "ESCALATED"
      <4>1. Lifecycle!HandOver(c)
        BY <1>4, <1>5, <2>2, <2>6, <3>2
        DEF Lifecycle!HandOver, Lifecycle!Enter, Stage, Credited, Offers
      <4> QED BY <1>1, <4>1 DEF Simulated, Lifecycle!Next
    <3> QED BY <1>7, <2>3, <2>6, <3>1, <3>2 DEF TransactionMoves
  <2> QED BY <2>3, <2>4, <2>5, <2>6 DEF TransactionMoves
<1>8. CASE new.status # old.status /\ new.status = "RECOVERED"
  <2>1. old.status = "EXECUTING"
    BY <1>2, <1>8 DEF LegalMove, TransactionMoves
  <2>2. new.recovered = old.recovered + Amount[c]
    BY <1>2, <1>8 DEF Credits
  <2>3. \E l \in LinksOf(c) : link[l] = "paid"
    BY <1>2, <1>8 DEF Credits, LinksOf
  <2>4. OfferOf(c) = "paid"
    BY <1>1, <2>3, OfferCases
  <2>5. Lifecycle!Credit(c)
    BY <1>4, <1>5, <1>8, <2>1, <2>2, <2>4
    DEF Lifecycle!Credit, Lifecycle!Enter, Stage, Credited, Offers
  <2> QED BY <1>1, <2>5 DEF Simulated, Lifecycle!Next
<1> QED BY <1>6, <1>7, <1>8
-----------------------------------------------------------------------------
(* The steps that change a link. *)

Open(l) == l \in wire \/ link[l] = "created"

(* An offer stays while the same links are open and the same are paid.     *)
LEMMA OfferKept ==
  ASSUME NEW c \in Cases,
         \A l \in Links :
           /\ (owner'[l] = c /\ link'[l] = "paid") <=> (owner[l] = c /\ link[l] = "paid")
           /\ (owner'[l] = c /\ Open(l)') <=> (owner[l] = c /\ Open(l))
  PROVE  OfferOf(c)' = OfferOf(c)
<1>1. (\E l \in LinksOf(c)' : link'[l] = "paid") <=> (\E l \in LinksOf(c) : link[l] = "paid")
  BY DEF LinksOf
<1>2. (\E l \in LinksOf(c)' : Open(l)') <=> (\E l \in LinksOf(c) : Open(l))
  BY DEF LinksOf
<1> QED BY <1>1, <1>2 DEF OfferOf, Open

(* The step of a link whose case has only settled links beside it.         *)
LEMMA LinkStepSimulated ==
  ASSUME SafetyInv, case' = case, NEW l \in Links, NEW c \in Cases, owner'[l] = c,
         \A m \in Links \ {l} :
           /\ owner'[m] = owner[m] /\ link'[m] = link[m]
           /\ m \in wire' <=> m \in wire
           /\ owner[m] = c => Settled(m),
         \/ /\ case[c].status = "EXECUTING"
            /\ ~Open(l) /\ link[l] # "paid"
            /\ Open(l)' /\ link'[l] # "paid"
         \/ /\ owner[l] = c /\ Open(l) /\ link[l] # "paid"
            /\ ~Open(l)'
  PROVE  Simulated
<1>1. \A m \in Links \ {l} : owner[m] = c => ~Open(m) /\ link[m] # "paid"
  BY SettledIsOver DEF Open
<1>2. ~(\E m \in LinksOf(c) : link[m] = "paid")
  BY <1>1 DEF LinksOf
<1>3. (\E m \in LinksOf(c) : Open(m)) <=> (owner[l] = c /\ Open(l))
  BY <1>1 DEF LinksOf
<1>4. OfferOf(c) = IF owner[l] = c /\ Open(l) THEN "open" ELSE "none"
  BY <1>2, <1>3 DEF OfferOf, Open
<1>5. (\E m \in LinksOf(c)' : link'[m] = "paid") <=> link'[l] = "paid"
  BY <1>1 DEF LinksOf
<1>6. (\E m \in LinksOf(c)' : Open(m)') <=> Open(l)'
  BY <1>1 DEF LinksOf, Open
<1>7. OfferOf(c)' =
        IF link'[l] = "paid" THEN "paid" ELSE IF Open(l)' THEN "open" ELSE "none"
  BY <1>5, <1>6 DEF OfferOf, Open
<1>8. \A d \in Cases \ {c} : OfferOf(d)' = OfferOf(d)
  <2> SUFFICES ASSUME NEW d \in Cases \ {c}  PROVE OfferOf(d)' = OfferOf(d)
    OBVIOUS
  <2>1. ~(owner[l] = d /\ (Open(l) \/ link[l] = "paid"))
    OBVIOUS
  <2> QED BY <2>1, OfferKept DEF Open
<1>9. Offers' = [Offers EXCEPT ![c] = OfferOf(c)']
  BY <1>8 DEF Offers
<1>10. PICK o : o = OfferOf(c)'
  OBVIOUS
<1>11. \/ /\ case[c].status = "EXECUTING"
          /\ OfferOf(c) = "none" /\ o = "open"
       \/ OfferOf(c) = "open" /\ o \in {"paid", "none"}
  BY <1>4, <1>7, <1>10
<1> QED BY <1>9, <1>10, <1>11, OneOfferChanges

(* The call offers a fresh link while everything before it is settled.     *)
LEMMA CallSimulated ==
  ASSUME RoundInv, NEW s \in Sessions, NEW l \in Links, ExecuteCall(s, l)
  PROVE  Simulated
<1>1. PICK c \in Cases : c = target[s]
  BY ExecutionStatus DEF ExecuteCall, ExecutingPCs
<1>2. /\ pc[s] = "exec_claimed" /\ attempt[l] = "none"
      /\ case' = case /\ link' = link /\ wire' = wire \cup {l}
      /\ owner' = [owner EXCEPT ![l] = c]
  BY <1>1 DEF ExecuteCall, UnusedLinks
<1>3. owner'[l] = c /\ \A m \in Links \ {l} : owner'[m] = owner[m]
  BY <1>2 DEF RoundInv, SafetyInv, TypeInv, DbOK
<1>4. case[c].status = "EXECUTING"
  BY <1>1, <1>2, ExecutionStatus DEF ExecutingPCs
<1>5. \A m \in Links : owner[m] = c => Settled(m)
  BY <1>1, <1>2 DEF RoundInv, RoundsOK, ExecOK, ExecutingPCs, CallingPCs, LinksOf
<1>6. link[l] = "none" /\ l \notin wire
  BY <1>2 DEF RoundInv, SafetyInv, LinkOK
<1>7. ~Open(l) /\ link[l] # "paid" /\ Open(l)' /\ link'[l] # "paid"
  BY <1>2, <1>6 DEF Open
<1> QED BY <1>2, <1>3, <1>4, <1>5, <1>7, LinkStepSimulated DEF RoundInv

(* A definite refusal takes the offer back.                                *)
LEMMA RefusalSimulated ==
  ASSUME RoundInv, NEW s \in Sessions, ExecuteRefused(s)
  PROVE  Simulated
<1>1. PICK c \in Cases : c = target[s]
  BY ExecutionStatus DEF ExecuteRefused, ExecutingPCs
<1>2. PICK l \in Links : l = ref[s]
  BY DEF ExecuteRefused, RoundInv, SafetyInv, TypeInv, SessionsOK, SessionOK, LinkPCs
<1>3. /\ pc[s] = "exec_wait" /\ l \in wire /\ wire' = wire \ {l}
      /\ UNCHANGED <<case, link, owner>>
  BY <1>2 DEF ExecuteRefused, dbVars
<1>4. owner[l] = c
  BY <1>1, <1>2, <1>3 DEF RoundInv, SafetyInv, RefOK, CallingPCs
<1>5. \A m \in Links \ {l} : owner[m] = c => Settled(m)
  BY <1>1, <1>2, <1>3 DEF RoundInv, RoundsOK, ExecOK, ExecutingPCs, LinksOf
<1>6. link[l] = "none"
  BY <1>3 DEF RoundInv, SafetyInv, LinkOK
<1>7. Open(l) /\ link[l] # "paid" /\ ~Open(l)'
  BY <1>3, <1>6 DEF Open
<1> QED BY <1>3, <1>4, <1>5, <1>7, LinkStepSimulated DEF RoundInv

(* What is on its way becomes payable; what is payable is closed, and then *)
(* it is the one link of its case that is not settled.                     *)
LEMMA ProviderSimulated ==
  ASSUME RoundInv, NEW l \in Links, ProviderCreates(l) \/ ProviderCloses(l)
  PROVE  Simulated
<1>1. UNCHANGED <<case, owner>>
  BY DEF ProviderCreates, ProviderCloses, dbVars
<1>2. \A m \in Links \ {l} : link'[m] = link[m] /\ (m \in wire' <=> m \in wire)
  BY DEF ProviderCreates, ProviderCloses, RoundInv, SafetyInv, TypeInv, WorldOK
<1>3. Open(l) /\ link[l] # "paid"
  BY DEF ProviderCreates, ProviderCloses, Open, RoundInv, SafetyInv, LinkOK
<1>4. ASSUME \/ Open(l)' /\ link'[l] # "paid"
             \/ owner[l] \notin Cases
      PROVE  Simulated
  <2>1. \A c \in Cases : OfferOf(c)' = OfferOf(c)
    BY <1>1, <1>2, <1>3, <1>4, OfferKept DEF Open
  <2> QED BY <1>1, <2>1, NothingMoves DEF Offers
<1>5. CASE ProviderCreates(l)
  <2>1. link'[l] = "created"
    BY <1>5 DEF ProviderCreates, RoundInv, SafetyInv, TypeInv, WorldOK
  <2> QED BY <1>4, <2>1 DEF Open
<1>6. CASE ProviderCloses(l) /\ owner[l] \in Cases
  <2>1. link[l] = "created" /\ wire' = wire
    BY <1>6 DEF ProviderCloses
  <2>2. l \notin wire
    BY <2>1 DEF RoundInv, SafetyInv, LinkOK
  <2>3. link'[l] # "created"
    BY <1>6, PipelineAssumption
    DEF ProviderCloses, ClosedStatuses, RoundInv, SafetyInv, TypeInv, WorldOK
  <2>4. ~Settled(l)
    BY <2>1 DEF Settled, ClosedStatuses
  <2>5. PICK c \in Cases : c = owner[l]
    BY <1>6
  <2>6. \A m \in Links \ {l} : owner[m] = c => Settled(m)
    BY <2>4, <2>5 DEF RoundInv, RoundsOK, RoundOK, LinksOf
  <2>7. ~Open(l)'
    BY <2>1, <2>2, <2>3 DEF Open
  <2> QED BY <1>1, <1>2, <1>3, <2>5, <2>6, <2>7, LinkStepSimulated DEF RoundInv
<1> QED BY <1>4, <1>5, <1>6
-----------------------------------------------------------------------------
(* The other steps of a session commit at most one move of a case.         *)
LEMMA SessionSimulated ==
  ASSUME RoundInv, RoundInv', NEW s \in Sessions, StepOK(s),
         UNCHANGED <<owner, link, wire>>
  PROVE  Simulated
<1>1. Offers' = Offers
  BY OffersStay
<1>2. CASE case' = case
  BY <1>1, <1>2, NothingMoves
<1>3. ASSUME NEW new, Writes(s, new)  PROVE Simulated
  <2>1. CASE target[s] \in Cases
    BY <1>3, <2>1, CommitSimulated
  <2>2. CASE target[s] \notin Cases
    <3>1. case' = case
      BY <1>3, <2>2 DEF Writes, Overwrites, RoundInv, SafetyInv, TypeInv, CasesOK
    <3> QED BY <1>1, <3>1, NothingMoves
  <2> QED BY <2>1, <2>2
<1> QED BY <1>2, <1>3 DEF StepOK

(* Only a call, a refusal and the provider change what is on offer.        *)
LEMMA OtherSessionSteps ==
  ASSUME NEW s \in Sessions, SessionStep(s) \/ Crash(s),
         ~ExecuteRefused(s), ~\E l \in Links : ExecuteCall(s, l)
  PROVE  UNCHANGED <<owner, link, wire>>
<1>1. ASSUME Diagnose(s)  PROVE UNCHANGED <<owner, link, wire>>
  BY <1>1
  DEF Diagnose, DiagnoseRead, DiagnoseIneligible, DiagnoseBegin, DiagnoseFinish,
      dbVars, providerVars
<1>2. ASSUME Execute(s)  PROVE UNCHANGED <<owner, link, wire>>
  BY <1>2
  DEF Execute, ExecuteRead, ExecuteBlocked, ExecuteClaim, ExecuteAccepted,
      ExecuteAmbiguous, ReconcileFound, ReconcileUnresolved, ExecuteRecord,
      ExecuteEscalate, dbVars, providerVars
<1>3. ASSUME Webhook(s)  PROVE UNCHANGED <<owner, link, wire>>
  BY <1>3
  DEF Webhook, WebhookDuplicate, WebhookArrive, WebhookClaim, WebhookLostRace,
      WebhookIgnore, WebhookLookup, WebhookUnmatched, WebhookMovedOn, WebhookApply,
      dbVars, providerVars
<1>4. ASSUME StaleRollback(s) \/ Crash(s)  PROVE UNCHANGED <<owner, link, wire>>
  BY <1>4 DEF StaleRollback, Crash, dbVars, providerVars
<1> QED BY <1>1, <1>2, <1>3, <1>4 DEF SessionStep

LEMMA StepSimulated ==
  ASSUME OneKey, RoundInv, [Next]_vars
  PROVE  Simulated
<1>1. RoundInv'
  BY RoundStep
<1>2. ASSUME NEW s \in Sessions, SessionStep(s) \/ Crash(s)  PROVE Simulated
  <2>1. CASE ExecuteRefused(s)
    BY <2>1, RefusalSimulated
  <2>2. CASE \E l \in Links : ExecuteCall(s, l)
    BY <2>2, CallSimulated
  <2>3. CASE ~ExecuteRefused(s) /\ ~\E l \in Links : ExecuteCall(s, l)
    <3>1. UNCHANGED <<owner, link, wire>>
      BY <1>2, <2>3, OtherSessionSteps
    <3>2. StepOK(s)
      BY <1>2, SessionStepOK DEF RoundInv
    <3> QED BY <1>1, <3>1, <3>2, SessionSimulated
  <2> QED BY <2>1, <2>2, <2>3
<1>3. ASSUME Provider  PROVE Simulated
  BY <1>3, ProviderSimulated DEF Provider
<1>4. ASSUME Tick \/ UNCHANGED vars  PROVE Simulated
  <2>1. UNCHANGED <<case, owner, link, wire>>
    BY <1>4 DEF Tick, vars, dbVars, providerVars
  <2> QED BY <2>1, OffersStay, NothingMoves
<1> QED BY <1>2, <1>3, <1>4 DEF Next

(* Initially nothing is owned, decided or credited.                        *)
LEMMA InitSimulated == Init => Lifecycle!Init
<1> SUFFICES ASSUME Init  PROVE Lifecycle!Init
  OBVIOUS
<1>1. \A c \in Cases : LinksOf(c) = {}
  BY PipelineAssumption DEF Init, LinksOf
<1>2. \A c \in Cases : OfferOf(c) = "none"
  BY <1>1 DEF OfferOf
<1> QED BY <1>2 DEF Init, Lifecycle!Init, NewRow

(* Sessions, stale copies, crashes, redeliveries and ambiguous provider    *)
(* answers do nothing to a case that the lifecycle does not allow: a case  *)
(* is decided on and started with nothing on offer, and credited for a     *)
(* paid offer (diagnosis_service, execution_service, webhook_service).     *)
THEOREM PipelineImplementsLifecycle == OneKey => (Spec => ImplementsLifecycle)
<1> SUFFICES ASSUME OneKey  PROVE Spec => ImplementsLifecycle
  OBVIOUS
<1>1. RoundInv /\ [Next]_vars => Simulated
  BY StepSimulated
<1> QED
  BY <1>1, InitSimulated, RoundInvariance, PTL
  DEF Spec, ImplementsLifecycle, Lifecycle!Spec, Simulated
=============================================================================
