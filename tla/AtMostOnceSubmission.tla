------------------------ MODULE AtMostOnceSubmission ------------------------
(***************************************************************************)
(* What the live submission pipeline promises for an execution key,        *)
(* whatever threads, crashes, time-outs and restarts lie behind it: its    *)
(* order leaves for the broker at most once; "confirmed" is said only of   *)
(* an order the broker holds; "closed" is said only when no order of the   *)
(* key exists and none can still arrive.  LiveExecutionJournal implements  *)
(* this specification.                                                     *)
(***************************************************************************)
EXTENDS Naturals

CONSTANTS Keys              \* execution keys, one per order

VARIABLES outcome,          \* what the program knows durably about a key
          live,             \* keys with a transmission still travelling
          orders            \* orders of the key in the broker's book

vars == <<outcome, live, orders>>

Init ==
  /\ outcome = [k \in Keys |-> "open"]
  /\ live = {}
  /\ orders = [k \in Keys |-> 0]

Transmit(k) ==
  /\ outcome[k] = "open"
  /\ outcome' = [outcome EXCEPT ![k] = "sent"]
  /\ live' = live \union {k}
  /\ UNCHANGED orders

Accept(k) ==
  /\ k \in live
  /\ live' = live \ {k}
  /\ orders' = [orders EXCEPT ![k] = @ + 1]
  /\ UNCHANGED outcome

Drop(k) ==
  /\ k \in live
  /\ live' = live \ {k}
  /\ UNCHANGED <<outcome, orders>>

Confirm(k) ==
  /\ outcome[k] = "sent"
  /\ orders[k] = 1
  /\ outcome' = [outcome EXCEPT ![k] = "confirmed"]
  /\ UNCHANGED <<live, orders>>

Close(k) ==
  /\ outcome[k] \in {"open", "sent"}
  /\ orders[k] = 0
  /\ k \notin live
  /\ outcome' = [outcome EXCEPT ![k] = "closed"]
  /\ UNCHANGED <<live, orders>>

Next == \E k \in Keys : Transmit(k) \/ Accept(k) \/ Drop(k) \/ Confirm(k) \/ Close(k)

Spec == Init /\ [][Next]_vars
=============================================================================
