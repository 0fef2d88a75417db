------------------------- MODULE RecoveryRefinement -------------------------
(***************************************************************************)
(* The refinement mapping from RecoveryPipeline to RecoveryLifecycle.      *)
(***************************************************************************)
EXTENDS RecoveryProperties

(* A creation request on its way counts as an open offer: the provider may *)
(* act on it at any time.                                                  *)
OfferOf(c) ==
  IF \E l \in LinksOf(c) : link[l] = "paid" THEN "paid"
  ELSE IF \E l \in LinksOf(c) : l \in wire \/ link[l] = "created" THEN "open"
  ELSE "none"

Lifecycle == INSTANCE RecoveryLifecycle WITH
  Due <- Amount,
  stage <- [c \in Cases |-> case[c].status],
  credited <- [c \in Cases |-> case[c].recovered],
  offer <- [c \in Cases |-> OfferOf(c)]

(* The pipeline, with its sessions, crashes, redeliveries and ambiguous    *)
(* provider answers, does nothing to a case that the lifecycle does not    *)
(* allow.                                                                  *)
ImplementsLifecycle == Lifecycle!Spec
=============================================================================
