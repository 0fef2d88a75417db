-------------------------- MODULE PaymentLinkCall --------------------------
(***************************************************************************)
(* One execution's conversation with Razorpay over HTTP: the creation of a *)
(* payment link, its one reconciliation, and how every way a request can   *)
(* end is classified (payments/providers/razorpay.py,                      *)
(* execution_service._create_payment_link, _handle_ambiguous_creation).    *)
(* RecoveryPipeline knows these conversations as accepted, refused and     *)
(* ambiguous; here they are taken apart.                                   *)
(***************************************************************************)
EXTENDS Naturals, FiniteSets

(* The statuses the client knows, and one it does not.                     *)
KnownStatuses == {"created", "paid", "partially_paid", "expired", "cancelled"}
LinkStatuses == KnownStatuses \cup {"a new status"}

VARIABLES
  sent,     \* POSTs on their way to the provider
  link,     \* the status of the link with our reference; "none"
  made,     \* links the provider has made for it
  reply,    \* the answer on its way back; NoReply
  client,   \* "create", "creating", "find", "finding" or "done"
  outcome,  \* how the execution ended
  seen      \* the link status it recorded; "none"

callVars == <<sent, link, made, reply, client, outcome, seen>>
server == <<sent, link, made>>

(* An answer, with the status of the link when it was given.               *)
NoReply == [code |-> 0, body |-> "none", link |-> "none"]
AnswerCodes == {200, 302, 400, 401, 403, 404, 422, 429, 500}
Replies == [code : AnswerCodes,
            body : {"good", "incomplete", "not json"},
            link : LinkStatuses \cup {"none"}]

CallInit ==
  /\ sent = 0 /\ link = "none" /\ made = 0
  /\ reply = NoReply
  /\ client = "create"
  /\ outcome = "none" /\ seen = "none"
----------------------------------------------------------------------------
(* The provider *)

(* It makes a link before it answers 2xx, never before a 4xx; what it did  *)
(* before any other answer nobody can tell.                                *)
Handle ==
  /\ sent > 0
  /\ sent' = sent - 1
  /\ \E r \in Replies, creates \in BOOLEAN :
       /\ r.code = 200 => creates
       /\ r.code \in 400..499 => ~creates
       /\ IF creates THEN /\ made' = made + 1
                          /\ link' = IF link = "none" THEN "created" ELSE link
                     ELSE UNCHANGED <<made, link>>
       /\ r.link = link'
       /\ reply' = IF client = "creating" THEN r ELSE reply
  /\ UNCHANGED <<client, outcome, seen>>

(* The customer pays or not, or the provider invents a status.             *)
LinkMoves ==
  /\ link \in {"created", "a new status"}
  /\ link' \in LinkStatuses \ {"created", link}
  /\ UNCHANGED <<sent, made, reply, client, outcome, seen>>

(* GET /payment_links/?reference_id=...                                    *)
AnswerFind ==
  /\ client = "finding"
  /\ reply = NoReply
  /\ \E r \in Replies : r.link = link /\ reply' = r
  /\ UNCHANGED <<server, client, outcome, seen>>
----------------------------------------------------------------------------
(* The client *)

(* Mutant: a server error is a definite failure.                           *)
ConfidentClassifyResponse(code) ==
  CASE code \in {401, 403} -> "PaymentProviderAuthError"
    [] code = 429 -> "PaymentProviderRateLimitError"
    [] OTHER -> "PaymentProviderValidationError"

(* _classify_error_response *)
ClassifyResponse(code) ==
  CASE code \in {401, 403} -> "PaymentProviderAuthError"
    [] code = 429 -> "PaymentProviderRateLimitError"
    [] code \in {400, 422} -> "PaymentProviderValidationError"
    [] OTHER -> "PaymentProviderUnavailableError"

DefiniteErrors == {"PaymentProviderAuthError", "PaymentProviderRateLimitError",
                   "PaymentProviderValidationError"}

(* Mutant: an unknown status counts as paid.                               *)
HopefulMapStatus(status) == IF status \in KnownStatuses THEN status ELSE "paid"

(* _map_payment_link_status: fail closed.                                  *)
MapStatus(status) == IF status \in KnownStatuses THEN status ELSE "created"

Finish(how, status) ==
  /\ client' = "done"
  /\ outcome' = how
  /\ seen' = status
  /\ reply' = NoReply

Create ==
  /\ client = "create"
  /\ sent' = sent + 1
  /\ client' = "creating"
  /\ UNCHANGED <<link, made, reply, outcome, seen>>

(* Without credentials _UnconfiguredPaymentProvider refuses every call.    *)
CreateUnconfigured ==
  /\ client = "create"
  /\ Finish("failed", "none")
  /\ UNCHANGED server

(* A 2xx with every field of PaymentLinkSnapshot: recorded.                *)
CreateSucceeds ==
  /\ client = "creating"
  /\ reply.code = 200 /\ reply.body = "good"
  /\ Finish("recorded", MapStatus(reply.link))
  /\ UNCHANGED server

(* response.json() raises ValueError, or data["id"] KeyError.              *)
CreateRaises ==
  /\ client = "creating"
  /\ reply.code = 200 /\ reply.body # "good"
  /\ Finish("raised", "none")
  /\ UNCHANGED server

CreateRefused ==
  /\ client = "creating"
  /\ reply.code >= 300
  /\ ClassifyResponse(reply.code) \in DefiniteErrors
  /\ Finish("failed", "none")
  /\ UNCHANGED server

(* Mutant: an ambiguous creation is tried again.                           *)
RetryingCreateAmbiguous ==
  /\ client = "creating"
  /\ \/ reply = NoReply
     \/ reply.code >= 300 /\ ClassifyResponse(reply.code) \notin DefiniteErrors
  /\ \/ client' = "find"
     \/ made = 0 /\ client' = "create"
  /\ reply' = NoReply
  /\ UNCHANGED <<server, outcome, seen>>

(* httpx timed out or lost the connection, or the answer says nothing      *)
(* definite: PaymentProviderAmbiguousError.                                *)
CreateAmbiguous ==
  /\ client = "creating"
  /\ \/ reply = NoReply
     \/ reply.code >= 300 /\ ClassifyResponse(reply.code) \notin DefiniteErrors
  /\ client' = "find"
  /\ reply' = NoReply
  /\ UNCHANGED <<server, outcome, seen>>

Find ==
  /\ client = "find"
  /\ client' = "finding"
  /\ UNCHANGED <<server, reply, outcome, seen>>

(* find_payment_link_by_reference: links[0], adopted in the status it has. *)
FindAdopts ==
  /\ client = "finding"
  /\ reply.code = 200 /\ reply.body = "good"
  /\ reply.link # "none"
  /\ Finish("recorded", MapStatus(reply.link))
  /\ UNCHANGED server

FindNothing ==
  /\ client = "finding"
  /\ reply.code = 200 /\ reply.body = "good"
  /\ reply.link = "none"
  /\ Finish("unresolved", "none")
  /\ UNCHANGED server

FindRaises ==
  /\ client = "finding"
  /\ reply.code = 200 /\ reply.body # "good"
  /\ Finish("raised", "none")
  /\ UNCHANGED server

(* Mutant: the reconciliation has no timeout.                              *)
PatientFindFails ==
  /\ client = "finding"
  /\ reply.code >= 300
  /\ Finish("unresolved", "none")
  /\ UNCHANGED server

(* Any error of the reconciliation is kept for the record, and the case    *)
(* escalated.                                                              *)
FindFails ==
  /\ client = "finding"
  /\ reply = NoReply \/ reply.code >= 300
  /\ Finish("unresolved", "none")
  /\ UNCHANGED server

ClientStep ==
  \/ Create \/ CreateUnconfigured \/ CreateSucceeds \/ CreateRaises
  \/ CreateRefused \/ CreateAmbiguous
  \/ Find \/ FindAdopts \/ FindNothing \/ FindRaises \/ FindFails

CallNext == Handle \/ LinkMoves \/ AnswerFind \/ ClientStep

CallSpec == CallInit /\ [][CallNext]_callVars

----------------------------------------------------------------------------
(* An outcome and a link status are among those the code knows.            *)
CallTypeOK ==
  /\ sent \in Nat /\ made \in Nat
  /\ link \in LinkStatuses \cup {"none"}
  /\ reply \in Replies \cup {NoReply}
  /\ client \in {"create", "creating", "find", "finding", "done"}
  /\ outcome \in {"none", "recorded", "failed", "unresolved", "raised"}
  /\ seen \in KnownStatuses \cup {"none"}

(* "failed" tells the operator that nothing was created: then there is no  *)
(* link, and none can still appear (_classify_error_response).             *)
FailedMeansNoLink == outcome = "failed" => link = "none" /\ sent = 0

(* What is recorded is a link that exists, and it is recorded as paid only *)
(* if it is (_map_payment_link_status).                                    *)
RecordedIsReal ==
  outcome = "recorded" => link # "none" /\ (seen = "paid" => link = "paid")

(* One execution never makes two links, whatever the network does          *)
(* (create_payment_link: "NOT retried on ambiguous failure").              *)
OneLinkPerReference == made + sent <= 1

(* domain/providers/base.py: "A provider never raises a raw SDK/HTTP       *)
(* exception past this boundary".                                          *)
NothingRawEscapes == outcome # "raised"
============================================================================
