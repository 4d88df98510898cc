-------------------------- MODULE LiveCancelJournal --------------------------
(***************************************************************************)
(* Cancelling a broker order (LiveProtectiveCancelService over the table   *)
(* live_cancel_journal): CANCEL_PENDING is inserted once, only the caller  *)
(* that inserted it sends cancelorder, and every later caller, after a     *)
(* restart for example, may resolve the row from a read of /orders but     *)
(* never sends again.                                                      *)
(*                                                                         *)
(* The broker is external: a request may be answered late, lost, or carried *)
(* out after its caller has given up, and an order may also end by itself  *)
(* (a fill or the close of the session).                                   *)
(***************************************************************************)
EXTENDS Naturals

CONSTANTS Orders,           \* broker order ids
          Workers,          \* threads that may cancel
          NoOrder,          \* what a worker with nothing to do works on
          MaxCrashes        \* bound: calls cut short by the death of the process

ASSUME CancelAssumption == NoOrder \notin Orders /\ MaxCrashes \in Nat

VARIABLES
  row,                      \* durable: live_cancel_journal.state of each order
  pc,                       \* the next step of each worker's call
  oid,                      \* the order each worker cancels
  answered,                 \* orders for which a call has returned CANCELLED
  ended,                    \* orders the broker reports with State 5
  wire,                     \* cancel requests not yet handled, per sender
  sends,                    \* history: cancelorder calls made for each order
  crashes

vars == <<row, pc, oid, answered, ended, wire, sends, crashes>>

LiveCancelJournalState == {"cancel_pending", "cancelled", "unknown"}
Steps == {"idle", "begin", "cancel", "read", "freeze", "complete", "observe", "recover"}

\* The steps reached only by the caller that inserted the row.
Creating == {"cancel", "read", "freeze", "complete"}

Init ==
  /\ row = [o \in Orders |-> "none"]
  /\ pc = [w \in Workers |-> "idle"]
  /\ oid = [w \in Workers |-> NoOrder]
  /\ answered = {}
  /\ ended = {}
  /\ wire = [w \in Workers |-> {}]
  /\ sends = [o \in Orders |-> 0]
  /\ crashes = 0

Goto(w, step) ==
  /\ pc' = [pc EXCEPT ![w] = step]
  /\ UNCHANGED <<oid, answered>>

\* Every way out of a call: an answer (LiveCancelResult) or the end of the process.
Leave(w) ==
  /\ pc' = [pc EXCEPT ![w] = "idle"]
  /\ oid' = [oid EXCEPT ![w] = NoOrder]

ReturnCancelled(w) == Leave(w) /\ answered' = answered \union {oid[w]}
ReturnBlocked(w)   == Leave(w) /\ UNCHANGED answered

-----------------------------------------------------------------------------
(* cancel_and_reconcile.                                                   *)

\* The conflict resolver hands in an unfinished order of the symbol.
CancelAndReconcile(w, o) ==
  /\ pc[w] = "idle"
  /\ pc' = [pc EXCEPT ![w] = "begin"]
  /\ oid' = [oid EXCEPT ![w] = o]
  /\ UNCHANGED <<row, answered, ended, wire, sends, crashes>>

\* Mutant: an ambiguous earlier attempt is retried.
BeginOnceRetrying(w) ==
  /\ pc[w] = "begin"
  /\ \/ /\ row[oid[w]] \in {"none", "unknown"}
        /\ row' = [row EXCEPT ![oid[w]] = "cancel_pending"]
        /\ Goto(w, "cancel")
     \/ row[oid[w]] = "cancelled" /\ ReturnCancelled(w) /\ UNCHANGED row
     \/ row[oid[w]] = "cancel_pending" /\ Goto(w, "observe") /\ UNCHANGED row
     \/ ReturnBlocked(w) /\ UNCHANGED row
  /\ UNCHANGED <<ended, wire, sends, crashes>>

\* INSERT OR IGNORE: a new row, an old CANCELLED row, or an old ambiguous one;
\* an exception of the database blocks.
BeginOnce(w) ==
  /\ pc[w] = "begin"
  /\ \/ /\ row[oid[w]] = "none"
        /\ row' = [row EXCEPT ![oid[w]] = "cancel_pending"]
        /\ Goto(w, "cancel")
     \/ row[oid[w]] = "cancelled" /\ ReturnCancelled(w) /\ UNCHANGED row
     \/ row[oid[w]] \in {"cancel_pending", "unknown"} /\ Goto(w, "observe") /\ UNCHANGED row
     \/ ReturnBlocked(w) /\ UNCHANGED row
  /\ UNCHANGED <<ended, wire, sends, crashes>>

\* One PUT /cancelorder; it answers with success, or raises.
CancelOrder(w) ==
  /\ pc[w] = "cancel"
  /\ wire' = [wire EXCEPT ![w] = @ \union {oid[w]}]
  /\ sends' = [sends EXCEPT ![oid[w]] = @ + 1]
  /\ Goto(w, "read") \/ Goto(w, "freeze")
  /\ UNCHANGED <<row, ended, crashes>>

\* Mutant: an accepted request counts as a cancelled order.
ReadAfterCancelTrusting(w) ==
  /\ pc[w] = "read"
  /\ Goto(w, "complete") \/ Goto(w, "freeze")
  /\ UNCHANGED <<row, ended, wire, sends, crashes>>

\* /orders after the request: State 5, or another state, or no usable answer.
ReadAfterCancel(w) ==
  /\ pc[w] = "read"
  /\ (oid[w] \in ended /\ Goto(w, "complete")) \/ Goto(w, "freeze")
  /\ UNCHANGED <<row, ended, wire, sends, crashes>>

\* A refused transition, like a database that fails, raises and is swallowed.
MarkUnknown(w) ==
  /\ pc[w] = "freeze"
  /\ \/ row[oid[w]] = "cancel_pending" /\ row' = [row EXCEPT ![oid[w]] = "unknown"]
     \/ UNCHANGED row
  /\ ReturnBlocked(w)
  /\ UNCHANGED <<ended, wire, sends, crashes>>

\* Mutant: a failed completion still answers CANCELLED.
MarkCancelledBestEffort(w) ==
  /\ pc[w] = "complete"
  /\ \/ row[oid[w]] = "cancel_pending" /\ row' = [row EXCEPT ![oid[w]] = "cancelled"]
     \/ UNCHANGED row
  /\ ReturnCancelled(w)
  /\ UNCHANGED <<ended, wire, sends, crashes>>

MarkCancelled(w) ==
  /\ pc[w] = "complete"
  /\ \/ /\ row[oid[w]] = "cancel_pending"
        /\ row' = [row EXCEPT ![oid[w]] = "cancelled"]
        /\ ReturnCancelled(w)
     \/ ReturnBlocked(w) /\ UNCHANGED row
  /\ UNCHANGED <<ended, wire, sends, crashes>>

\* _reconcile_existing_attempt reads only.
ReconcileExistingAttempt(w) ==
  /\ pc[w] = "observe"
  /\ (oid[w] \in ended /\ Goto(w, "recover")) \/ ReturnBlocked(w)
  /\ UNCHANGED <<row, ended, wire, sends, crashes>>

RecoverCancelled(w) ==
  /\ pc[w] = "recover"
  /\ \/ /\ row[oid[w]] \in {"cancel_pending", "unknown"}
        /\ row' = [row EXCEPT ![oid[w]] = "cancelled"]
        /\ ReturnCancelled(w)
     \/ ReturnBlocked(w) /\ UNCHANGED row
  /\ UNCHANGED <<ended, wire, sends, crashes>>

Crash(w) ==
  /\ pc[w] # "idle"
  /\ crashes < MaxCrashes
  /\ crashes' = crashes + 1
  /\ ReturnBlocked(w)
  /\ UNCHANGED <<row, ended, wire, sends>>

WorkerStep(w) ==
  \/ BeginOnce(w) \/ CancelOrder(w) \/ ReadAfterCancel(w) \/ MarkUnknown(w)
  \/ MarkCancelled(w) \/ ReconcileExistingAttempt(w) \/ RecoverCancelled(w)

-----------------------------------------------------------------------------
(* The broker.                                                             *)

\* A request is carried out (the order ends), or refused or lost.
BrokerCancel(w, o) ==
  /\ o \in wire[w]
  /\ wire' = [wire EXCEPT ![w] = @ \ {o}]
  /\ ended' \in {ended, ended \union {o}}
  /\ UNCHANGED <<row, pc, oid, answered, sends, crashes>>

\* Filled, expired or rejected.
BrokerEnd(o) ==
  /\ o \notin ended
  /\ ended' = ended \union {o}
  /\ UNCHANGED <<row, pc, oid, answered, wire, sends, crashes>>

-----------------------------------------------------------------------------

Next ==
  \/ \E w \in Workers : WorkerStep(w) \/ Crash(w)
  \/ \E w \in Workers, o \in Orders : CancelAndReconcile(w, o) \/ BrokerCancel(w, o)
  \/ \E o \in Orders : BrokerEnd(o)

Spec == Init /\ [][Next]_vars

-----------------------------------------------------------------------------
(* Properties.                                                             *)

\* The rows, the workers and the broker hold values of their types.
TypeOK ==
  /\ row \in [Orders -> LiveCancelJournalState \union {"none"}]
  /\ pc \in [Workers -> Steps]
  /\ oid \in [Workers -> Orders \union {NoOrder}]
  /\ \A w \in Workers : oid[w] = NoOrder <=> pc[w] = "idle"
  /\ answered \subseteq Orders /\ ended \subseteq Orders
  /\ wire \in [Workers -> SUBSET Orders]
  /\ sends \in [Orders -> Nat]
  /\ crashes \in 0..MaxCrashes

\* However often an order is handed in, over restarts and lost answers, at
\* most one cancelorder request leaves ("a process restart must not silently
\* turn it into a second cancel").
CancelSentOnce == \A o \in Orders : sends[o] <= 1

\* The exit is planned anew once a row says CANCELLED: the broker has then
\* ended the order, so it cannot fill later.
CancelledHasEnded ==
  \A o \in Orders : row[o] = "cancelled" => o \in ended

\* CANCELLED is answered only when the row says so, so that a caller in a later
\* process is told the same.
AnswerIsDurable == \A o \in answered : row[o] = "cancelled"

\* No second transmission can begin: an order whose row exists is either in
\* the hands of the one worker that inserted it or will never be sent again.
ExclusiveCreator ==
  \A v, w \in Workers :
    pc[v] \in Creating /\ pc[w] \in Creating /\ oid[v] = oid[w] => v = w

\* What a worker's step says of its order.
CreatorTrue(w) ==
  /\ pc[w] \in Creating => row[oid[w]] # "none"
  /\ pc[w] = "cancel" => sends[oid[w]] = 0
  /\ pc[w] \in {"complete", "recover"} => oid[w] \in ended
  /\ pc[w] \in {"observe", "recover"} => row[oid[w]] # "none"

CancelInv ==
  /\ TypeOK /\ CancelSentOnce /\ CancelledHasEnded /\ AnswerIsDurable
  /\ ExclusiveCreator
  /\ \A w \in Workers : CreatorTrue(w)
  /\ \A o \in Orders : row[o] = "none" => sends[o] = 0

\* The journal and the broker seen from outside: rows that say CANCELLED.
Cancellation == INSTANCE AtMostOnceCancellation WITH
                  requests  <- sends,
                  confirmed <- {o \in Orders : row[o] = "cancelled"}

\* Callers, restarts and the broker together implement AtMostOnceCancellation: a
\* second request is a step that it does not have, and so is a row CANCELLED that
\* comes before the end of its order or changes again.
CancelledAtMostOnce == Cancellation!Spec
=============================================================================
