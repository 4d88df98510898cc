----------------------- MODULE AtMostOnceCancellation -----------------------
(***************************************************************************)
(* What the cancellation of broker orders promises, whichever callers,     *)
(* restarts and lost answers lie behind it: one request per order, ever;   *)
(* CANCELLED is recorded only of an order that has ended, and answered     *)
(* only once it is recorded; neither is taken back.  LiveCancelJournal     *)
(* implements this specification.                                          *)
(***************************************************************************)
EXTENDS Naturals

CONSTANTS Orders

VARIABLES requests,         \* cancel requests that have left, for each order
          ended,            \* orders that can no longer fill
          confirmed,        \* orders recorded as CANCELLED
          answered          \* orders for which a caller was told so

vars == <<requests, ended, confirmed, answered>>

Init ==
  requests = [o \in Orders |-> 0] /\ ended = {} /\ confirmed = {} /\ answered = {}

Request(o) ==
  /\ requests[o] = 0
  /\ requests' = [requests EXCEPT ![o] = 1]
  /\ UNCHANGED <<ended, confirmed, answered>>

End(o) ==
  /\ ended' = ended \union {o}
  /\ UNCHANGED <<requests, confirmed, answered>>

\* The caller that records it is told at once; others ask later.
Confirm(o) ==
  /\ o \in ended
  /\ confirmed' = confirmed \union {o}
  /\ answered' = answered \union {o}
  /\ UNCHANGED <<requests, ended>>

Answer(o) ==
  /\ o \in confirmed
  /\ answered' = answered \union {o}
  /\ UNCHANGED <<requests, ended, confirmed>>

Next == \E o \in Orders : Request(o) \/ End(o) \/ Confirm(o) \/ Answer(o)

Spec == Init /\ [][Next]_vars
=============================================================================
