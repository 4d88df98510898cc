------------------------ MODULE LiveExecutionJournal ------------------------
(***************************************************************************)
(* The submission pipeline of a live order (src/app/live): idempotency     *)
(* reservation, PREPARED row, claim gate, position baseline, durable       *)
(* SUBMISSION_PENDING, one HTTP transmission, and the row that records its *)
(* outcome.  Every durable write is one SQLite transaction and one action  *)
(* here; workers (processes that opened the same database, an operator     *)
(* among them) interleave between any two of them and may stop anywhere.   *)
(*                                                                         *)
(* The broker is external.  It may answer, or the answer may be lost; a    *)
(* request whose caller has timed out or died may still be accepted.  Of   *)
(* its answers HTTP 4xx with an error code alone means that the order was  *)
(* refused; a 5xx, with a code or without, leaves that open.               *)
(***************************************************************************)
EXTENDS Naturals

CONSTANTS Keys,             \* execution keys
          Workers,          \* threads that may run the pipeline
          NoKey,            \* what a worker with nothing to do works on
          MaxCrashes        \* bound: submissions cut short by an exception or a crash

ASSUME ConstantsAssumption == NoKey \notin Keys /\ MaxCrashes \in Nat

VARIABLES
  \* durable, one row per key
  reserved,                 \* keys in live_order_idempotency_reservations
  state,                    \* live_execution_journal.state
  baseline,                 \* keys in the position-baseline table
  \* volatile, per worker
  pc,                       \* the next step of the submission
  key,                      \* the key it submits
  reply,                    \* the HTTP answer it has received
  \* the broker and the network
  wire,                     \* keys of each worker's requests not yet handled
  orders,                   \* orders of each key in the broker's book
  \* history and bound
  sends,                    \* send_once calls made for each key
  recovered,                \* UNKNOWN keys that an operator has closed as refused
  crashes

durable == <<reserved, state, baseline, recovered>>
broker  == <<wire, orders, sends>>
vars    == <<durable, pc, key, reply, broker, crashes>>

LiveExecutionState ==
  {"prepared", "claimed", "submission_pending", "submitted", "aborted", "unknown"}

\* The states in which a transmission may have happened.
Ambiguous == {"submission_pending", "unknown"}
Settled   == {"submitted", "aborted", "unknown"}

Steps == {"idle", "reserve", "prepare", "check", "gate", "claim", "baseline",
          "pending", "transport", "await"}

\* The steps a worker reaches only with the row it claimed itself.
Owning == {"baseline", "pending", "transport", "await"}

\* "ambiguous": malformed, without an OrderId, HTTP 5xx with or without a code.
Replies == {"none", "order_id", "rejected", "ambiguous"}

Init ==
  /\ reserved = {}
  /\ state = [k \in Keys |-> "none"]
  /\ baseline = {}
  /\ pc = [w \in Workers |-> "idle"]
  /\ key = [w \in Workers |-> NoKey]
  /\ reply = [w \in Workers |-> "none"]
  /\ wire = [w \in Workers |-> {}]
  /\ orders = [k \in Keys |-> 0]
  /\ sends = [k \in Keys |-> 0] /\ recovered = {}
  /\ crashes = 0

-----------------------------------------------------------------------------
(* Control of a worker and the guarded UPDATE of the journal.              *)

Goto(w, step) ==
  /\ pc' = [pc EXCEPT ![w] = step]
  /\ UNCHANGED <<key, reply>>

\* Return, or raise to the caller: nothing volatile survives.
Leave(w) ==
  /\ pc' = [pc EXCEPT ![w] = "idle"]
  /\ key' = [key EXCEPT ![w] = NoKey]
  /\ reply' = [reply EXCEPT ![w] = "none"]

\* UPDATE ... SET state = to WHERE execution_key = k AND state = from
Transition(k, from, to) ==
  /\ state[k] = from
  /\ state' = [state EXCEPT ![k] = to]

-----------------------------------------------------------------------------
(* The steps of LivePreparedExecutionTrackingFlow.submit.                  *)

\* A signal, an exit plan or a replay after a restart hands a key in.
Submit(w, k) ==
  /\ pc[w] = "idle"
  /\ pc' = [pc EXCEPT ![w] = "reserve"]
  /\ key' = [key EXCEPT ![w] = k]
  /\ UNCHANGED <<durable, reply, broker, crashes>>

\* Safety, kill switch or final risk revalidation blocks: nothing is written.
EvaluateBlocked(w) ==
  /\ pc[w] = "reserve"
  /\ Leave(w)
  /\ UNCHANGED <<durable, broker, crashes>>

\* They pass: a new reservation (LOCKED) and an old one (DUPLICATE) both go on.
EvaluateReserve(w) ==
  /\ pc[w] = "reserve"
  /\ reserved' = reserved \union {key[w]}
  /\ Goto(w, "prepare")
  /\ UNCHANGED <<state, baseline, recovered, broker, crashes>>

\* INSERT OR IGNORE of the PREPARED row.
Prepare(w) ==
  /\ pc[w] = "prepare"
  /\ state' = [state EXCEPT ![key[w]] = IF @ = "none" THEN "prepared" ELSE @]
  /\ Goto(w, "check")
  /\ UNCHANGED <<reserved, baseline, recovered, broker, crashes>>

\* The row read back must still be PREPARED.
CheckPrepared(w) ==
  /\ pc[w] = "check"
  /\ IF state[key[w]] = "prepared" THEN Goto(w, "gate") ELSE Leave(w)
  /\ UNCHANGED <<durable, broker, crashes>>

\* Safe Stop, reconciliation and kill switch are read again; a block raises
\* and leaves the row PREPARED.
ClaimGate(w) ==
  /\ pc[w] = "gate"
  /\ Goto(w, "claim") \/ Leave(w)
  /\ UNCHANGED <<durable, broker, crashes>>

\* Mutant: the UPDATE lacks "AND state = 'prepared'".
ClaimUnguarded(w) ==
  /\ pc[w] = "claim"
  /\ state' = [state EXCEPT ![key[w]] = "claimed"]
  /\ Goto(w, "baseline")
  /\ UNCHANGED <<reserved, baseline, recovered, broker, crashes>>

Claim(w) ==
  /\ pc[w] = "claim"
  /\ \/ Transition(key[w], "prepared", "claimed") /\ Goto(w, "baseline")
     \/ state[key[w]] # "prepared" /\ Leave(w) /\ UNCHANGED state
  /\ UNCHANGED <<reserved, baseline, recovered, broker, crashes>>

\* Mutant: a failed account read does not stop the submission.
SaveBaselineBestEffort(w) ==
  /\ pc[w] = "baseline"
  /\ baseline' \in {baseline, baseline \union {key[w]}}
  /\ Goto(w, "pending")
  /\ UNCHANGED <<reserved, state, recovered, broker, crashes>>

\* A fresh account read; a quantity other than the required one raises and
\* leaves the row CLAIMED.
SaveBaseline(w) ==
  /\ pc[w] = "baseline"
  /\ \/ baseline' = baseline \union {key[w]} /\ Goto(w, "pending")
     \/ Leave(w) /\ UNCHANGED baseline
  /\ UNCHANGED <<reserved, state, recovered, broker, crashes>>

EnterSubmissionPending(w) ==
  /\ pc[w] = "pending"
  /\ \/ Transition(key[w], "claimed", "submission_pending") /\ Goto(w, "transport")
     \/ state[key[w]] # "claimed" /\ Leave(w) /\ UNCHANGED state
  /\ UNCHANGED <<reserved, baseline, recovered, broker, crashes>>

\* Activation, runtime arm or daily authorization refuses: no network call,
\* and the row stays SUBMISSION_PENDING.
TransportBlocked(w) ==
  /\ pc[w] = "transport"
  /\ Leave(w)
  /\ UNCHANGED <<durable, broker, crashes>>

SendOnce(w) ==
  /\ pc[w] = "transport"
  /\ wire' = [wire EXCEPT ![w] = @ \union {key[w]}]
  /\ sends' = [sends EXCEPT ![key[w]] = @ + 1]
  /\ Goto(w, "await")
  /\ UNCHANGED <<durable, orders, crashes>>

\* Mutant: no answer is taken for an acceptance.
MarkSubmittedOptimistically(w) ==
  /\ pc[w] = "await" /\ reply[w] \in {"order_id", "none"}
  /\ \/ Transition(key[w], "submission_pending", "submitted")
     \/ state[key[w]] # "submission_pending" /\ UNCHANGED state
  /\ Leave(w)
  /\ UNCHANGED <<reserved, baseline, recovered, broker, crashes>>

MarkSubmitted(w) ==
  /\ pc[w] = "await" /\ reply[w] = "order_id"
  /\ \/ Transition(key[w], "submission_pending", "submitted")
     \/ state[key[w]] # "submission_pending" /\ UNCHANGED state
  /\ Leave(w)
  /\ UNCHANGED <<reserved, baseline, recovered, broker, crashes>>

\* Mutant: any answer without an OrderId counts as the broker's refusal.
MarkBrokerRejectedAnyError(w) ==
  /\ pc[w] = "await" /\ reply[w] \in {"rejected", "ambiguous"}
  /\ \/ Transition(key[w], "submission_pending", "aborted")
     \/ state[key[w]] # "submission_pending" /\ UNCHANGED state
  /\ Leave(w)
  /\ UNCHANGED <<reserved, baseline, recovered, broker, crashes>>

\* HTTP 4xx with an error code.
MarkBrokerRejected(w) ==
  /\ pc[w] = "await" /\ reply[w] = "rejected"
  /\ \/ Transition(key[w], "submission_pending", "aborted")
     \/ state[key[w]] # "submission_pending" /\ UNCHANGED state
  /\ Leave(w)
  /\ UNCHANGED <<reserved, baseline, recovered, broker, crashes>>

\* Mutant: only an answer is handled, a time-out is not.
FreezeUnknownOnAnswer(w) ==
  /\ pc[w] = "await" /\ reply[w] = "ambiguous"
  /\ \/ Transition(key[w], "submission_pending", "unknown")
     \/ state[key[w]] # "submission_pending" /\ UNCHANGED state
  /\ Leave(w)
  /\ UNCHANGED <<reserved, baseline, recovered, broker, crashes>>

\* Any other exception: a time-out with no answer, a malformed answer, a 5xx.
FreezeUnknown(w) ==
  /\ pc[w] = "await" /\ reply[w] \in {"none", "ambiguous"}
  /\ \/ Transition(key[w], "submission_pending", "unknown")
     \/ state[key[w]] # "submission_pending" /\ UNCHANGED state
  /\ Leave(w)
  /\ UNCHANGED <<reserved, baseline, recovered, broker, crashes>>

\* An exception that no step above names, or the death of the process.
Crash(w) ==
  /\ pc[w] # "idle"
  /\ crashes < MaxCrashes
  /\ crashes' = crashes + 1
  /\ Leave(w)
  /\ UNCHANGED <<durable, broker>>

WorkerStep(w) ==
  \/ EvaluateBlocked(w) \/ EvaluateReserve(w) \/ Prepare(w) \/ CheckPrepared(w)
  \/ ClaimGate(w) \/ Claim(w) \/ SaveBaseline(w) \/ EnterSubmissionPending(w)
  \/ TransportBlocked(w) \/ SendOnce(w)
  \/ MarkSubmitted(w) \/ MarkBrokerRejected(w) \/ FreezeUnknown(w)

-----------------------------------------------------------------------------
(* The operator's transitions, possible at any moment.                     *)

\* Mutant: a pending submission may be aborted too.
MarkAbortedLate(k) ==
  /\ \/ Transition(k, "prepared", "aborted")
     \/ Transition(k, "claimed", "aborted")
     \/ Transition(k, "submission_pending", "aborted")
  /\ UNCHANGED <<reserved, baseline, recovered, pc, key, reply, broker, crashes>>

\* ABORTED before a submission attempt could have reached the broker.
MarkAborted(k) ==
  /\ \/ Transition(k, "prepared", "aborted")
     \/ Transition(k, "claimed", "aborted")
  /\ UNCHANGED <<reserved, baseline, recovered, pc, key, reply, broker, crashes>>

\* SUBMISSION_PENDING found during recovery is frozen.
RecoverIfAmbiguous(k) ==
  /\ Transition(k, "submission_pending", "unknown")
  /\ UNCHANGED <<reserved, baseline, recovered, pc, key, reply, broker, crashes>>

\* mark_unknown() itself also freezes a row that is only claimed.
MarkUnknown(k) ==
  /\ \/ Transition(k, "claimed", "unknown")
     \/ Transition(k, "submission_pending", "unknown")
  /\ UNCHANGED <<reserved, baseline, recovered, pc, key, reply, broker, crashes>>

\* UNKNOWN becomes ABORTED for a caller who quotes any part of the stored
\* detail, which every UNKNOWN row has: no answer of the broker need be in it.
RecoverUnknownBrokerRejection(k) ==
  /\ Transition(k, "unknown", "aborted")
  /\ recovered' = recovered \union {k}
  /\ UNCHANGED <<reserved, baseline, pc, key, reply, broker, crashes>>

OperatorStep(k) ==
  \/ MarkAborted(k) \/ RecoverIfAmbiguous(k) \/ MarkUnknown(k)
  \/ RecoverUnknownBrokerRejection(k)

-----------------------------------------------------------------------------
(* The broker and the network.                                             *)

\* The answer reaches the caller if it still waits, or is lost.
Answer(w, k, answers) ==
  \/ /\ pc[w] = "await" /\ key[w] = k
     /\ \E a \in answers : reply' = [reply EXCEPT ![w] = a]
  \/ UNCHANGED reply

BrokerAccept(w, k) ==
  /\ k \in wire[w]
  /\ wire' = [wire EXCEPT ![w] = @ \ {k}]
  /\ orders' = [orders EXCEPT ![k] = @ + 1]
  /\ Answer(w, k, {"order_id", "ambiguous"})
  /\ UNCHANGED <<durable, pc, key, sends, crashes>>

\* Refused, or lost before the broker saw it.
BrokerRefuse(w, k) ==
  /\ k \in wire[w]
  /\ wire' = [wire EXCEPT ![w] = @ \ {k}]
  /\ Answer(w, k, {"rejected", "ambiguous"})
  /\ UNCHANGED <<durable, pc, key, orders, sends, crashes>>

-----------------------------------------------------------------------------

Next ==
  \/ \E w \in Workers : WorkerStep(w) \/ Crash(w)
  \/ \E w \in Workers, k \in Keys : Submit(w, k) \/ BrokerAccept(w, k) \/ BrokerRefuse(w, k)
  \/ \E k \in Keys : OperatorStep(k)

\* A submission is straight-line code with an HTTP time-out: it always goes on.
Fairness == \A w \in Workers : WF_vars(WorkerStep(w))

Spec == Init /\ [][Next]_vars
FairSpec == Spec /\ Fairness

-----------------------------------------------------------------------------
(* Properties.                                                             *)

InFlight(k) == \E w \in Workers : k \in wire[w]

\* The durable rows, the workers and the broker hold values of their types,
\* and a worker has a key exactly while a submission runs.
TypeOK ==
  /\ reserved \subseteq Keys /\ baseline \subseteq Keys
  /\ state \in [Keys -> LiveExecutionState \union {"none"}]
  /\ recovered \subseteq Keys
  /\ pc \in [Workers -> Steps]
  /\ key \in [Workers -> Keys \union {NoKey}]
  /\ \A w \in Workers : key[w] = NoKey <=> pc[w] = "idle"
  /\ reply \in [Workers -> Replies]
  /\ wire \in [Workers -> SUBSET Keys]
  /\ orders \in [Keys -> Nat] /\ sends \in [Keys -> Nat]
  /\ crashes \in 0..MaxCrashes

\* An order is handed to the network once at most, whatever restarts, replays
\* of a signal, second workers and lost answers there are
\* (README: ambiguous outcomes are never automatically retransmitted).
AtMostOneTransmission == \A k \in Keys : sends[k] <= 1

\* The row is SUBMISSION_PENDING or later, the idempotency key is reserved and
\* the position baseline is saved before the broker can know of the order.
DurableBeforeTransmission ==
  \A k \in Keys : sends[k] > 0 =>
    /\ state[k] \in {"submission_pending", "submitted", "unknown", "aborted"}
    /\ k \in reserved /\ k \in baseline

\* ABORTED closes a key for good: the broker holds no order of it and no
\* request of it is under way or can still be made (the entry cycle drops such
\* a key unprotected).  A row that an operator has recovered from UNKNOWN is set
\* aside: nothing but the operator's word says what the broker holds.
AbortedHasNoOrder ==
  \A k \in Keys \ recovered : state[k] = "aborted" =>
    /\ orders[k] = 0
    /\ \A w \in Workers : k \notin wire[w] /\ ~(pc[w] = "transport" /\ key[w] = k)

\* SUBMITTED is recorded only of an order the broker accepted.
SubmittedIsAtBroker == \A k \in Keys : state[k] = "submitted" => orders[k] = 1

\* A row the program itself has closed tells the truth about the broker, whatever
\* answers are lost, late or ambiguous and whatever is aborted or frozen meanwhile.
ClosedRowsTrue == AbortedHasNoOrder /\ SubmittedIsAtBroker

\* What the promise calls the outcome of a key.  An operator's recovery of an
\* UNKNOWN key closes nothing in its terms.
Outcome(k) ==
  CASE state[k] = "submitted"                    -> "confirmed"
    [] state[k] = "aborted" /\ k \notin recovered -> "closed"
    [] OTHER                                     -> IF sends[k] > 0 THEN "sent" ELSE "open"

Promise == INSTANCE AtMostOnceSubmission WITH
  outcome <- [k \in Keys |-> Outcome(k)],
  live    <- {k \in Keys : InFlight(k)}

\* The promise seen from outside: the pipeline implements AtMostOnceSubmission.
AtMostOnce == Promise!Spec

\* A key that was transmitted is settled: submitted, closed, or frozen for
\* reconciliation.  The time-out of the HTTP call suffices; only a submission cut
\* short may leave the row SUBMISSION_PENDING for an operator.
TransmissionSettles ==
  \A k \in Keys : sends[k] > 0 ~> state[k] \in Settled \/ crashes > 0

-----------------------------------------------------------------------------
(* The inductive invariant behind the safety properties.                   *)

\* A row belongs to the one worker that claimed it, a request to one call.
ExclusiveOwner ==
  \A v, w \in Workers :
    pc[v] \in Owning /\ pc[w] \in Owning /\ key[v] = key[w] => v = w
ExclusiveRequest ==
  \A k \in Keys, v, w \in Workers : k \in wire[v] /\ k \in wire[w] => v = w

\* An UNKNOWN row that an operator has closed.
Recovered(k) == state[k] = "aborted" /\ k \in recovered

\* What the step a worker has reached, and the answer it holds, say of its key.
WorkerTrue(w) ==
  /\ pc[w] \notin {"idle", "reserve"} => key[w] \in reserved
  /\ pc[w] \in {"baseline", "pending"} =>
       state[key[w]] \in {"claimed", "aborted", "unknown"} /\ sends[key[w]] = 0
  /\ pc[w] \in {"pending", "transport"} => key[w] \in baseline
  /\ pc[w] \in {"transport", "await"} => state[key[w]] \in Ambiguous \/ Recovered(key[w])
  /\ pc[w] = "transport" => sends[key[w]] = 0
  /\ pc[w] = "await" => sends[key[w]] = 1
  /\ reply[w] # "none" => pc[w] = "await"
  /\ reply[w] = "order_id" => orders[key[w]] = 1
  /\ reply[w] = "rejected" => orders[key[w]] = 0 /\ ~InFlight(key[w])

\* What a row says of the transmissions, the requests and the orders of its key.
KeyTrue(k) ==
  /\ sends[k] <= 1 /\ orders[k] <= sends[k]
  /\ InFlight(k) => sends[k] = 1 /\ orders[k] = 0
  /\ state[k] # "none" => k \in reserved
  /\ sends[k] = 1 => k \in baseline
  /\ state[k] \in {"none", "prepared", "claimed"} => sends[k] = 0
  /\ state[k] = "submitted" => orders[k] = 1
  /\ state[k] = "aborted" => k \in recovered \/ (orders[k] = 0 /\ ~InFlight(k))
  /\ k \in recovered => state[k] = "aborted"

IInv ==
  /\ TypeOK /\ ExclusiveOwner /\ ExclusiveRequest
  /\ \A w \in Workers : WorkerTrue(w)
  /\ \A k \in Keys : KeyTrue(k)
=============================================================================
