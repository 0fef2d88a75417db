--------------------------- MODULE CaseCallsProofs ---------------------------
(***************************************************************************)
(* The two conversations of a case, proved.  With Razorpay: the client     *)
(* never makes a second link, never reports a failure for a link that      *)
(* exists or may still appear, and never records one that does not.  The   *)
(* invariant says what an answer on its way back tells about the provider: *)
(* after a 2xx there is a link, after a 4xx there is none and none is      *)
(* coming, and a status can only be out of date in one direction.  With    *)
(* the model: the fallback is the last resort.  And between them: nothing  *)
(* is asked of Razorpay but on an answer of the model.                     *)
(***************************************************************************)
EXTENDS CaseCalls, TLAPS

(* One execution's conversation with Razorpay *)

(* The one request is unsent, on its way, or handled.                      *)
RequestInv ==
  /\ made + sent <= 1
  /\ client = "create" => made = 0 /\ sent = 0
  /\ made = 0 <=> link = "none"

(* What an answer that has come back says about the link.                  *)
ReplyInv ==
  /\ client \notin {"creating", "finding"} => reply = NoReply
  /\ client = "creating" /\ reply # NoReply =>
       /\ sent = 0
       /\ reply.code = 200 => link # "none"
       /\ reply.code \in 400..499 => link = "none"
  /\ reply.link # "none" => link # "none"
  /\ reply.link = "paid" => link = "paid"

(* What the execution reports.                                             *)
OutcomeInv ==
  /\ client # "done" => outcome = "none"
  /\ FailedMeansNoLink
  /\ RecordedIsReal

CallInv == CallTypeOK /\ RequestInv /\ ReplyInv /\ OutcomeInv
----------------------------------------------------------------------------
(* An answer is a record of its three fields, and never the absence of one *)
(* (httpx.Response; NoReply).                                              *)
LEMMA ReplyFields ==
  /\ NoReply \notin Replies
  /\ \A r \in Replies : r.code \in AnswerCodes /\ r.link \in LinkStatuses \cup {"none"}
<1>1. \A r \in Replies : r.code \in AnswerCodes /\ r.link \in LinkStatuses \cup {"none"}
  BY DEF Replies
<1>2. NoReply.code \notin AnswerCodes
  BY DEF NoReply, AnswerCodes
<1> QED BY <1>1, <1>2

(* Only a 4xx is a definite refusal (_classify_error_response).            *)
LEMMA DefiniteIsClientError ==
  ASSUME NEW code \in AnswerCodes, code >= 300,
         ClassifyResponse(code) \in DefiniteErrors
  PROVE  code \in 400..499
BY DEF AnswerCodes, ClassifyResponse, DefiniteErrors

(* A status is recorded as one the code knows, and as paid only if it is   *)
(* (_map_payment_link_status).                                             *)
LEMMA MapIsSafe ==
  ASSUME NEW status \in LinkStatuses
  PROVE  /\ MapStatus(status) \in KnownStatuses
         /\ MapStatus(status) = "paid" => status = "paid"
BY DEF MapStatus, KnownStatuses, LinkStatuses

(* Nothing is sent, made or recorded when an execution begins.             *)
LEMMA Initially == CallInit => CallInv
BY DEF CallInit, CallInv, CallTypeOK, RequestInv, ReplyInv, OutcomeInv, NoReply,
       FailedMeansNoLink, RecordedIsReal

(* The provider's steps: it answers with what it has done.                 *)
LEMMA ServerSteps ==
  ASSUME CallInv, Handle \/ LinkMoves \/ AnswerFind
  PROVE  CallInv'
<1>1. CASE Handle
  <2>1. PICK r \in Replies, creates \in BOOLEAN :
          /\ r.code = 200 => creates
          /\ r.code \in 400..499 => ~creates
          /\ IF creates THEN /\ made' = made + 1
                             /\ link' = IF link = "none" THEN "created" ELSE link
                        ELSE UNCHANGED <<made, link>>
          /\ r.link = link'
          /\ reply' = IF client = "creating" THEN r ELSE reply
    BY <1>1 DEF Handle
  <2>2. /\ sent = 1 /\ sent' = 0 /\ made = 0 /\ link = "none"
        /\ client' = client /\ outcome' = outcome /\ seen' = seen
        /\ client # "create"
    BY <1>1 DEF Handle, CallInv, CallTypeOK, RequestInv
  <2>3. made' \in {0, 1} /\ link' \in {"none", "created"} /\ (made' = 0 <=> link' = "none")
    BY <2>1, <2>2
  <2>4. CallTypeOK'
    <3>1. CallTypeOK
      BY DEF CallInv
    <3>2. made' \in Nat /\ sent' \in Nat
      BY <2>2, <2>3
    <3>3. link' \in LinkStatuses \cup {"none"}
      BY <2>3 DEF LinkStatuses, KnownStatuses
    <3>4. reply' \in Replies \cup {NoReply}
      BY <2>1, <3>1 DEF CallTypeOK
    <3>. QED BY <2>2, <3>1, <3>2, <3>3, <3>4 DEF CallTypeOK
  <2>5. RequestInv'
    <3>1. made' + sent' <= 1
      <4>1. made' = 0 \/ made' = 1
        BY <2>3
      <4>2. 0 + 0 <= 1 /\ 1 + 0 <= 1
        OBVIOUS
      <4>. QED BY <2>2, <4>1, <4>2
    <3>2. client' # "create"
      BY <2>2
    <3>. QED BY <2>3, <3>1, <3>2 DEF RequestInv
  <2>6. ReplyInv'
    BY <2>1, <2>2, <2>3, ReplyFields DEF CallInv, ReplyInv, NoReply
  <2>7. OutcomeInv'
    BY <2>2 DEF CallInv, OutcomeInv, FailedMeansNoLink, RecordedIsReal
  <2>. QED BY <2>4, <2>5, <2>6, <2>7 DEF CallInv
<1>2. CASE LinkMoves
  <2>1. /\ link # "none" /\ link # "paid" /\ link' \in LinkStatuses
        /\ UNCHANGED <<sent, made, reply, client, outcome, seen>>
    BY <1>2 DEF LinkMoves
  <2>2. link' # "none"
    BY <2>1 DEF LinkStatuses, KnownStatuses
  <2>. QED
    BY <2>1, <2>2 DEF CallInv, CallTypeOK, RequestInv, ReplyInv, OutcomeInv,
                      FailedMeansNoLink, RecordedIsReal
<1>3. CASE AnswerFind
  <2>1. /\ client = "finding" /\ reply' \in Replies /\ reply'.link = link
        /\ UNCHANGED <<sent, link, made, client, outcome, seen>>
    BY <1>3 DEF AnswerFind, server
  <2>. QED
    BY <2>1 DEF CallInv, CallTypeOK, RequestInv, ReplyInv, OutcomeInv,
                FailedMeansNoLink, RecordedIsReal
<1>. QED BY <1>1, <1>2, <1>3

(* The client's steps before an outcome: the request is sent once.         *)
LEMMA WaitingSteps ==
  ASSUME CallInv, Create \/ CreateAmbiguous \/ Find
  PROVE  CallInv'
BY DEF CallInv, CallTypeOK, RequestInv, ReplyInv, OutcomeInv, FailedMeansNoLink,
       RecordedIsReal, Create, CreateAmbiguous, Find, server, NoReply

(* An outcome that says nothing of a link: unresolved, or an exception.    *)
LEMMA OpenOutcomes ==
  ASSUME CallInv, CreateRaises \/ FindNothing \/ FindRaises \/ FindFails
  PROVE  CallInv'
<1>1. /\ client' = "done" /\ outcome' \in {"raised", "unresolved"} /\ seen' = "none"
      /\ reply' = NoReply /\ UNCHANGED <<sent, link, made>>
  BY DEF CreateRaises, FindNothing, FindRaises, FindFails, Finish, server
<1>. QED
  BY <1>1 DEF CallInv, CallTypeOK, RequestInv, ReplyInv, OutcomeInv,
              FailedMeansNoLink, RecordedIsReal, NoReply

(* A failure is reported when nothing was sent, or the answer is definite. *)
LEMMA FailedOutcomes ==
  ASSUME CallInv, CreateUnconfigured \/ CreateRefused
  PROVE  CallInv'
<1>1. /\ client' = "done" /\ outcome' = "failed" /\ seen' = "none"
      /\ reply' = NoReply /\ UNCHANGED <<sent, link, made>>
  BY DEF CreateUnconfigured, CreateRefused, Finish, server
<1>2. link = "none" /\ sent = 0
  <2>1. CASE CreateUnconfigured
    BY <2>1 DEF CreateUnconfigured, CallInv, RequestInv
  <2>2. CASE CreateRefused
    <3>1. reply \in Replies /\ client = "creating" /\ reply # NoReply
      BY <2>2, ReplyFields DEF CreateRefused, CallInv, CallTypeOK, NoReply
    <3>2. reply.code \in AnswerCodes /\ reply.code >= 300
      BY <2>2, <3>1, ReplyFields DEF CreateRefused
    <3>3. reply.code \in 400..499
      BY <2>2, <3>2, DefiniteIsClientError DEF CreateRefused
    <3>. QED BY <3>1, <3>3 DEF CallInv, ReplyInv
  <2>. QED BY <2>1, <2>2
<1>. QED
  BY <1>1, <1>2 DEF CallInv, CallTypeOK, RequestInv, ReplyInv, OutcomeInv,
                    FailedMeansNoLink, RecordedIsReal, NoReply

(* A link is recorded when the provider has shown it.                      *)
LEMMA RecordedOutcomes ==
  ASSUME CallInv, CreateSucceeds \/ FindAdopts
  PROVE  CallInv'
<1>1. /\ client' = "done" /\ outcome' = "recorded" /\ seen' = MapStatus(reply.link)
      /\ reply' = NoReply /\ UNCHANGED <<sent, link, made>>
  BY DEF CreateSucceeds, FindAdopts, Finish, server
<1>2. reply \in Replies /\ reply # NoReply
  BY DEF CreateSucceeds, FindAdopts, CallInv, CallTypeOK, NoReply
<1>3. link # "none"
  BY <1>2 DEF CreateSucceeds, FindAdopts, CallInv, ReplyInv
<1>4. /\ seen' \in KnownStatuses
      /\ seen' = "paid" => reply.link = "paid"
  <2>1. CASE reply.link = "none"
    BY <1>1, <2>1 DEF MapStatus, KnownStatuses
  <2>2. CASE reply.link # "none"
    BY <1>1, <1>2, <2>2, ReplyFields, MapIsSafe
  <2>. QED BY <2>1, <2>2
<1>. QED
  BY <1>1, <1>3, <1>4 DEF CallInv, CallTypeOK, RequestInv, ReplyInv, OutcomeInv,
                          FailedMeansNoLink, RecordedIsReal, NoReply

(* Every step of the conversation keeps the invariant.                     *)
LEMMA CallStep == CallInv /\ [CallNext]_callVars => CallInv'
<1>. SUFFICES ASSUME CallInv, [CallNext]_callVars PROVE CallInv'
  OBVIOUS
<1>1. CASE ClientStep
  BY <1>1, WaitingSteps, OpenOutcomes, FailedOutcomes, RecordedOutcomes DEF ClientStep
<1>2. CASE UNCHANGED callVars
  BY <1>2 DEF callVars, CallInv, CallTypeOK, RequestInv, ReplyInv, OutcomeInv,
              FailedMeansNoLink, RecordedIsReal
<1>. QED BY <1>1, <1>2, ServerSteps DEF CallNext

(* The conversation keeps its invariant.                                   *)
THEOREM CallInvariant == CallSpec => []CallInv
BY Initially, CallStep, PTL DEF CallSpec

(* Nothing unknown is recorded: every variable keeps its type.             *)
THEOREM CallTypeCorrect == CallSpec => []CallTypeOK
<1>1. CallInv => CallTypeOK
  BY DEF CallInv
<1>. QED BY CallInvariant, <1>1, PTL

(* However the network loses, delays or garbles the answers, one execution *)
(* makes at most one link (create_payment_link, _handle_ambiguous_creation).*)
THEOREM OneLink == CallSpec => []OneLinkPerReference
<1>1. CallInv => OneLinkPerReference
  BY DEF CallInv, RequestInv, OneLinkPerReference
<1>. QED BY CallInvariant, <1>1, PTL

(* A failure is reported only when there is no link and none can appear    *)
(* (_classify_error_response, _handle_definite_failure).                   *)
THEOREM FailureIsDefinite == CallSpec => []FailedMeansNoLink
<1>1. CallInv => FailedMeansNoLink
  BY DEF CallInv, OutcomeInv
<1>. QED BY CallInvariant, <1>1, PTL

(* A recorded link exists, and is recorded as paid only if it was paid     *)
(* (_map_payment_link_status, _record_payment_link_created).               *)
THEOREM RecordIsReal == CallSpec => []RecordedIsReal
<1>1. CallInv => RecordedIsReal
  BY DEF CallInv, OutcomeInv
<1>. QED BY CallInvariant, <1>1, PTL
----------------------------------------------------------------------------
(* The conversation with the model *)

(* While the model is being asked there is no usable answer, and no more   *)
(* than the budget was asked; what was taken for an answer is one.         *)
ConversationInv ==
  /\ facts \in [attempt : Nat, amount : Int, days : Nat, contacts : Nat, key : BOOLEAN]
  /\ replies \in Seq(Completions)
  /\ phase \in {"ask", "wait", "failed", "answered", "decided"}
  /\ Attempted <= MaxRetries + 1
  /\ phase \in {"ask", "wait"} => Attempted <= MaxRetries
  /\ phase \in {"ask", "wait", "failed"} =>
       source = Undecided /\ \A i \in 1..Attempted : replies[i] # "valid"
  /\ phase = "failed" => Attempted > 0
  /\ phase \in {"answered", "decided"} => source \in {"ai", "fallback"}
  /\ source = "ai" => Attempted > 0 /\ LastReply = "valid"
  /\ advice \in Recommendations \cup {Fallback}
  /\ source = "fallback" => advice = Fallback
  /\ FallbackIsLastResort

(* Nothing has been asked of the model when a diagnosis begins.            *)
LEMMA AskInitially == RecommendationInit => ConversationInv
<1>. SUFFICES ASSUME RecommendationInit PROVE ConversationInv
  OBVIOUS
<1>1. facts \in [attempt : Nat, amount : Int, days : Nat, contacts : Nat, key : BOOLEAN]
  <2>1. /\ Attempts \subseteq Nat /\ Amounts \subseteq Int
        /\ {0, MaxWindowDays + 1} \subseteq Nat /\ {0, MaxContacts} \subseteq Nat
    BY RecommendationAssumption, PolicyAssumption
  <2>. QED BY <2>1 DEF RecommendationInit
<1>2. replies \in Seq(Completions) /\ Attempted = 0
  BY DEF RecommendationInit, Attempted
<1>. QED
  BY <1>1, <1>2, RecommendationAssumption
  DEF RecommendationInit, ConversationInv, FallbackIsLastResort, Undecided

(* The model, or what stands for it, answers one request.                  *)
LEMMA ModelSteps ==
  ASSUME ConversationInv, ProviderFails \/ ProviderAnswers
  PROVE  ConversationInv'
<1>1. PICK completion \in Completions :
        /\ replies' = Append(replies, completion)
        /\ ProviderFails => completion # "valid"
        /\ ProviderAnswers => completion = "valid"
  BY DEF ProviderFails, ProviderAnswers, Completions
<1>2. /\ Attempted' = Attempted + 1 /\ replies' \in Seq(Completions)
      /\ LastReply' = completion
      /\ \A i \in 1..Attempted : replies'[i] = replies[i]
      /\ Attempted \in Nat
  BY <1>1 DEF ConversationInv, Attempted, LastReply
<1>3. Attempted <= MaxRetries /\ source = Undecided
  BY DEF ConversationInv, ProviderFails, ProviderAnswers
<1>4. Attempted' <= MaxRetries + 1 /\ Attempted' > 0
  BY <1>2, <1>3, RecommendationAssumption
<1>5. CASE ProviderFails
  <2>1. \A i \in 1..Attempted' : replies'[i] # "valid"
    <3>1. \A i \in 1..Attempted : replies[i] # "valid"
      BY <1>5 DEF ConversationInv, ProviderFails
    <3>2. replies'[Attempted + 1] = completion /\ completion # "valid"
      BY <1>1, <1>2, <1>5 DEF LastReply, Attempted
    <3>. QED BY <1>2, <3>1, <3>2
  <2>. QED
    BY <1>2, <1>3, <1>4, <1>5, <2>1
    DEF ProviderFails, ConversationInv, FallbackIsLastResort, Undecided
<1>6. CASE ProviderAnswers
  BY <1>1, <1>2, <1>4, <1>6
  DEF ProviderAnswers, ConversationInv, FallbackIsLastResort
<1>. QED BY <1>5, <1>6

(* Only an error that repeating does not mend is not retried (_classify).  *)
LEMMA NotRetryable ==
  ASSUME NEW completion \in Completions, completion # "valid",
         ClassifyCompletion(completion) \notin Retryable
  PROVE  completion \in {"authentication", "permission", "empty", "malformed"}
BY DEF Completions, ClassifyCompletion, Retryable

(* What the service does between two requests, and at the end.             *)
LEMMA ServiceSteps ==
  ASSUME ConversationInv, Ask \/ Retry \/ GiveUp \/ ConcludeDiagnosis
  PROVE  ConversationInv'
<1>1. UNCHANGED <<facts, replies>> /\ Attempted' = Attempted /\ LastReply' = LastReply
  BY DEF Ask, Retry, GiveUp, ConcludeDiagnosis, Attempted, LastReply
<1>2. CASE Ask \/ Retry \/ ConcludeDiagnosis
  BY <1>1, <1>2 DEF Ask, Retry, ConcludeDiagnosis, ConversationInv, FallbackIsLastResort
<1>3. CASE GiveUp
  <2>1. /\ Attempted > 0 /\ Attempted <= MaxRetries + 1
        /\ \A i \in 1..Attempted : replies[i] # "valid"
        /\ Attempted \in Nat /\ replies \in Seq(Completions)
    BY <1>3 DEF GiveUp, ConversationInv, Attempted
  <2>2. LastReply \in Completions /\ LastReply # "valid"
    BY <2>1 DEF LastReply, Attempted
  <2>3. \/ Attempted = MaxRetries + 1
        \/ LastReply \in {"authentication", "permission", "empty", "malformed"}
    BY <1>3, <2>1, <2>2, NotRetryable, RecommendationAssumption DEF GiveUp
  <2>. QED BY <1>1, <1>3, <2>1, <2>3 DEF GiveUp, ConversationInv, FallbackIsLastResort
<1>. QED BY <1>2, <1>3

(* Every step of the conversation with the model keeps its invariant.      *)
LEMMA ConversationStep ==
  ASSUME ConversationInv, [RecommendationNext]_recommendationVars
  PROVE  ConversationInv'
<1>1. CASE UNCHANGED recommendationVars
  BY <1>1 DEF recommendationVars, ConversationInv, FallbackIsLastResort, Attempted, LastReply
<1>. QED BY <1>1, ModelSteps, ServiceSteps DEF RecommendationNext
----------------------------------------------------------------------------
(* From the one to the other *)

(* What the execution's re-check has made sure of.                         *)
Cleared ==
  /\ source = "ai" /\ LastReply = "valid"
  /\ facts.amount > 0 /\ facts.amount <= MaxAmount
  /\ advice.action \in ExecutableActions
  /\ advice.confidence >= ConfidenceThreshold(facts.amount)
  /\ facts.days <= MaxWindowDays /\ facts.contacts < MaxContacts

GateInv ==
  /\ gate \in {"closed", "open"}
  /\ gate = "closed" => client = "create" /\ sent = 0 /\ made = 0
  /\ gate = "open" => phase = "decided" /\ Cleared

CaseInv == CallInv /\ ConversationInv /\ GateInv

(* An allowed payment link is within the amounts, the window and the       *)
(* contacts, and its confidence clears the threshold (evaluate_policy).    *)
LEMMA AllowedIsWithinLimits ==
  ASSUME NEW in \in PolicyInputs, EvaluatePolicy(in) = {}, in.action \in ExecutableActions
  PROVE  /\ in.days <= MaxWindowDays /\ in.contacts < MaxContacts
         /\ in.confidence >= ConfidenceThreshold(in.amount)
         /\ in.amount > 0 /\ in.amount <= MaxAmount
<1>1. /\ in.days \in Nat /\ in.contacts \in Nat /\ in.confidence \in 0..100
      /\ in.amount \in Int
  BY DEF PolicyInputs
<1>2. \A code \in ReasonCodes : ~Violates(code, in)
  BY DEF EvaluatePolicy
<1>3. in.action \in ActiveRecoveryActions /\ in.action \in ContactActions
  BY DEF ExecutableActions, ActiveRecoveryActions, ContactActions
<1>4. ~(in.days > MaxWindowDays)
  BY <1>2, <1>3 DEF ReasonCodes, Violates, WindowExpired
<1>5. ~(in.contacts >= MaxContacts)
  BY <1>2, <1>3 DEF ReasonCodes, Violates
<1>6. ~(in.confidence < ConfidenceThreshold(in.amount))
  BY <1>2, <1>3 DEF ReasonCodes, Violates
<1>7. ConfidenceThreshold(in.amount) \in Int
  BY <1>1, PolicyAssumption DEF ConfidenceThreshold
<1>8. MaxWindowDays \in Nat /\ MaxContacts \in Nat /\ MaxAmount \in Nat
  BY PolicyAssumption
<1>9. ~(in.amount <= 0 \/ in.amount > MaxAmount)
  BY <1>2, <1>3 DEF ReasonCodes, Violates
<1>. QED BY <1>1, <1>4, <1>5, <1>6, <1>7, <1>8, <1>9

(* The execution of an approved case opens the gate only when the policy   *)
(* allows the model's own advice on the day (_recheck_policy).             *)
LEMMA RecheckClears ==
  ASSUME ConversationInv, GateInv, Execute
  PROVE  ConversationInv' /\ GateInv'
<1>. DEFINE in == [status |-> "APPROVED", action |-> advice.action,
                   confidence |-> advice.confidence, attempt |-> facts.attempt,
                   days |-> facts.days, contacts |-> facts.contacts,
                   amount |-> facts.amount]
<1>1. UNCHANGED <<facts, phase, replies, advice, source, callVars>>
  BY DEF Execute
<1>2. ConversationInv'
  BY <1>1 DEF ConversationInv, FallbackIsLastResort, Attempted, LastReply
<1>3. in \in PolicyInputs
  <2>1. /\ facts.attempt \in Nat /\ facts.days \in Nat /\ facts.contacts \in Nat
        /\ facts.amount \in Int
    BY DEF ConversationInv
  <2>2. advice.action \in Actions /\ advice.confidence \in 0..100
    <3>1. advice \in Recommendations \cup {Fallback}
      BY DEF ConversationInv
    <3>2. \A c \in Confidences : c \in 0..100
      BY RecommendationAssumption
    <3>3. CASE advice = Fallback
      BY <3>3 DEF Fallback, Actions
    <3>4. CASE advice \in Recommendations
      BY <3>2, <3>4 DEF Recommendations
    <3>. QED BY <3>1, <3>3, <3>4
  <2>3. "APPROVED" \in Statuses
    BY DEF Statuses
  <2>. QED BY <2>1, <2>2, <2>3 DEF PolicyInputs
<1>4. CASE EvaluatePolicy(in) = {} /\ advice.action \in ExecutableActions
  <2>1. gate' = "open" /\ phase = "decided"
    BY <1>4 DEF Execute, Approved
  <2>2. /\ in.days <= MaxWindowDays /\ in.contacts < MaxContacts
        /\ in.confidence >= ConfidenceThreshold(in.amount)
        /\ in.amount > 0 /\ in.amount <= MaxAmount
    BY <1>3, <1>4, AllowedIsWithinLimits
  <2>3. source = "ai" /\ LastReply = "valid"
    <3>1. source # "fallback"
      BY <1>4 DEF ConversationInv, Fallback, ExecutableActions
    <3>. QED BY <2>1, <3>1 DEF ConversationInv
  <2>4. Cleared
    BY <1>4, <2>2, <2>3 DEF Cleared
  <2>. QED BY <1>1, <1>2, <2>1, <2>4 DEF GateInv, Cleared, LastReply
<1>5. CASE ~(EvaluatePolicy(in) = {} /\ advice.action \in ExecutableActions)
  <2>1. UNCHANGED gate /\ gate = "closed"
    BY <1>5 DEF Execute
  <2>. QED BY <1>1, <1>2, <2>1 DEF GateInv, callVars
<1>. QED BY <1>4, <1>5

(* Every step of a case keeps the invariant of both conversations.         *)
LEMMA CaseStep ==
  ASSUME CaseInv, [CaseNext]_caseVars
  PROVE  CaseInv'
<1>1. CallInv /\ ConversationInv /\ GateInv
  BY DEF CaseInv
<1>2. CASE Diagnosis
  <2>1. RecommendationNext /\ UNCHANGED <<callVars, gate>>
    BY <1>2 DEF Diagnosis
  <2>2. ConversationInv'
    BY <1>1, <2>1, ConversationStep
  <2>3. CallInv'
    BY <1>1, <2>1, CallStep
  <2>4. gate = "closed"
    BY <1>1, <2>1
    DEF GateInv, RecommendationNext, Ask, ProviderFails, ProviderAnswers, Retry, GiveUp,
        ConcludeDiagnosis
  <2>. QED BY <1>1, <2>1, <2>2, <2>3, <2>4 DEF CaseInv, GateInv, callVars
<1>3. CASE WindowPasses
  <2>1. /\ UNCHANGED <<phase, replies, advice, source, callVars, gate>>
        /\ facts' = [facts EXCEPT !.days = MaxWindowDays + 1] /\ gate = "closed"
    BY <1>3 DEF WindowPasses
  <2>2. MaxWindowDays + 1 \in Nat
    BY PolicyAssumption
  <2>3. ConversationInv'
    BY <1>1, <2>1, <2>2 DEF ConversationInv, FallbackIsLastResort, Attempted, LastReply
  <2>4. CallInv'
    BY <1>1, <2>1, CallStep
  <2>. QED BY <1>1, <2>1, <2>3, <2>4 DEF CaseInv, GateInv, callVars
<1>4. CASE Execute
  <2>1. CallInv'
    BY <1>1, <1>4, CallStep DEF Execute
  <2>. QED BY <1>1, <1>4, <2>1, RecheckClears DEF CaseInv
<1>5. CASE Execution
  <2>1. CallNext /\ gate = "open" /\ UNCHANGED <<recommendationVars, gate>>
    BY <1>5 DEF Execution
  <2>2. CallInv'
    BY <1>1, <2>1, CallStep
  <2>3. ConversationInv'
    BY <1>1, <2>1, ConversationStep
  <2>4. Cleared' /\ phase' = "decided"
    BY <1>1, <2>1 DEF GateInv, Cleared, LastReply, recommendationVars
  <2>. QED BY <2>1, <2>2, <2>3, <2>4 DEF CaseInv, GateInv
<1>6. CASE UNCHANGED caseVars
  <2>1. UNCHANGED <<recommendationVars, callVars, gate>>
    BY <1>6 DEF caseVars
  <2>2. CallInv' /\ ConversationInv'
    BY <1>1, <2>1, CallStep, ConversationStep
  <2>. QED BY <1>1, <2>1, <2>2 DEF CaseInv, GateInv, Cleared, LastReply, recommendationVars, callVars
<1>. QED BY <1>2, <1>3, <1>4, <1>5, <1>6 DEF CaseNext

(* Both conversations keep their invariant, and so does the gate between.  *)
THEOREM CaseInvariance == CaseSpec => []CaseInv
<1>1. CaseInit => CaseInv
  <2>. SUFFICES ASSUME CaseInit PROVE CaseInv
    OBVIOUS
  <2>1. CallInv /\ ConversationInv
    BY Initially, AskInitially DEF CaseInit
  <2>2. GateInv
    BY DEF CaseInit, CallInit, GateInv
  <2>. QED BY <2>1, <2>2 DEF CaseInv
<1>2. CaseInv /\ [CaseNext]_caseVars => CaseInv'
  BY CaseStep
<1>. QED BY <1>1, <1>2, PTL DEF CaseSpec

(* A diagnosis falls back only when asking again was pointless, and throws *)
(* no answer away, whatever ai_max_retries is (get_recommendation).        *)
THEOREM FallbackCorrect == CaseSpec => []FallbackIsLastResort
<1>1. CaseInv => FallbackIsLastResort
  BY DEF CaseInv, ConversationInv
<1>. QED BY CaseInvariance, <1>1, PTL

(* A payment link is asked for only on a valid answer of the model that    *)
(* clears the policy when it is sent, for any configuration and any facts  *)
(* (_resolve_next_status, _recheck_policy).                                *)
THEOREM AnswerCorrect == CaseSpec => []LinkRestsOnAnAnswer
<1>1. CaseInv => LinkRestsOnAnAnswer
  <2>. SUFFICES ASSUME CaseInv, made + sent > 0 PROVE gate = "open" /\ Cleared
    BY DEF LinkRestsOnAnAnswer, Cleared
  <2>. QED BY DEF CaseInv, GateInv
<1>. QED BY CaseInvariance, <1>1, PTL

(* Inside a case, as alone, an execution makes one link at most, calls     *)
(* nothing a failure that may be a link, and records only what is real.    *)
THEOREM CaseCallsCorrect ==
  CaseSpec => [](OneLinkPerReference /\ FailedMeansNoLink /\ RecordedIsReal)
<1>1. CaseInv => OneLinkPerReference /\ FailedMeansNoLink /\ RecordedIsReal
  BY DEF CaseInv, CallInv, RequestInv, OutcomeInv, OneLinkPerReference
<1>. QED BY CaseInvariance, <1>1, PTL
============================================================================
