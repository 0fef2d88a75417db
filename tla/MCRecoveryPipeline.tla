------------------------ MODULE MCRecoveryPipeline ------------------------
(* Small instances of RecoveryPipeline for TLC. *)
EXTENDS RecoveryRefinement, TLC

CONSTANTS c1, c2   \* c1 an ordinary case; c2 of high value

MCAmount == [c \in Cases |-> IF c = c1 THEN 1 ELSE 2]

(* A link that only an ordinary case may be sent, an action without an     *)
(* executor, the fallback, and a stop.                                     *)
MCRecommendations ==
  {[action |-> "SEND_PAYMENT_LINK", confidence |-> 60],
   [action |-> "SEND_REMINDER", confidence |-> 80],
   [action |-> "ESCALATE", confidence |-> 0],
   [action |-> "STOP", confidence |-> 90]}

MCSymmetry == Permutations(Sessions) \cup Permutations(Links)
===========================================================================
