--------------------- MODULE LiveExecutionJournalProofs ---------------------
(***************************************************************************)
(* The safety of the submission pipeline for any set of keys, any number   *)
(* of workers and any number of crashes.  IInv ties the step a worker has  *)
(* reached to the row it claimed, and the row to the transmissions and the *)
(* orders of its key; each step of the pipeline, the operator and the      *)
(* broker preserves it, and the properties the runs check follow from it.  *)
(***************************************************************************)
EXTENDS LiveExecutionJournal, TLAPS

\* The database is empty, no worker runs, and the broker knows nothing.
LEMMA InitIInv == Init => IInv
BY ConstantsAssumption
   DEF Init, IInv, TypeOK, ExclusiveOwner, ExclusiveRequest, WorkerTrue, KeyTrue,
       InFlight, Owning, Ambiguous, LiveExecutionState, Steps, Replies

\* Every step of the specification preserves IInv.
LEMMA NextIInv == IInv /\ [Next]_vars => IInv'
<1> SUFFICES ASSUME IInv, [Next]_vars PROVE IInv'
  OBVIOUS
<1> USE ConstantsAssumption
    DEF IInv, TypeOK, durable, broker, Goto, Leave, Transition
<1>1. ASSUME NEW w \in Workers, NEW k \in Keys, Submit(w,k) PROVE IInv'
  <2> USE <1>1 DEF Submit
  <2>1. TypeOK'
    BY DEF LiveExecutionState, Steps, Replies
  <2>2. ExclusiveOwner' /\ ExclusiveRequest'
    BY DEF ExclusiveOwner, ExclusiveRequest, Owning, WorkerTrue, KeyTrue, InFlight
  <2>3. ASSUME NEW x \in Workers PROVE WorkerTrue(x)'
    BY <2>1 DEF WorkerTrue, KeyTrue, ExclusiveOwner, ExclusiveRequest, InFlight, Owning, Ambiguous, Recovered
  <2>4. ASSUME NEW j \in Keys PROVE KeyTrue(j)'
    BY <2>1 DEF WorkerTrue, KeyTrue, ExclusiveRequest, InFlight, Owning, Ambiguous, Recovered
  <2>. QED
    BY <2>1, <2>2, <2>3, <2>4
<1>2. ASSUME NEW w \in Workers, EvaluateBlocked(w) PROVE IInv'
  <2> USE <1>2 DEF EvaluateBlocked
  <2>1. TypeOK'
    BY DEF LiveExecutionState, Steps, Replies
  <2>2. ExclusiveOwner' /\ ExclusiveRequest'
    BY DEF ExclusiveOwner, ExclusiveRequest, Owning, WorkerTrue, KeyTrue, InFlight
  <2>3. ASSUME NEW x \in Workers PROVE WorkerTrue(x)'
    BY <2>1 DEF WorkerTrue, KeyTrue, ExclusiveOwner, ExclusiveRequest, InFlight, Owning, Ambiguous, Recovered
  <2>4. ASSUME NEW j \in Keys PROVE KeyTrue(j)'
    BY <2>1 DEF WorkerTrue, KeyTrue, ExclusiveRequest, InFlight, Owning, Ambiguous, Recovered
  <2>. QED
    BY <2>1, <2>2, <2>3, <2>4
<1>3. ASSUME NEW w \in Workers, EvaluateReserve(w) PROVE IInv'
  <2> USE <1>3 DEF EvaluateReserve
  <2>1. TypeOK'
    BY DEF LiveExecutionState, Steps, Replies
  <2>2. ExclusiveOwner' /\ ExclusiveRequest'
    BY DEF ExclusiveOwner, ExclusiveRequest, Owning, WorkerTrue, KeyTrue, InFlight
  <2>3. ASSUME NEW x \in Workers PROVE WorkerTrue(x)'
    BY <2>1 DEF WorkerTrue, KeyTrue, ExclusiveOwner, ExclusiveRequest, InFlight, Owning, Ambiguous, Recovered
  <2>4. ASSUME NEW j \in Keys PROVE KeyTrue(j)'
    BY <2>1 DEF WorkerTrue, KeyTrue, ExclusiveRequest, InFlight, Owning, Ambiguous, Recovered
  <2>. QED
    BY <2>1, <2>2, <2>3, <2>4
<1>4. ASSUME NEW w \in Workers, Prepare(w) PROVE IInv'
  <2> USE <1>4 DEF Prepare
  <2>1. TypeOK'
    BY DEF LiveExecutionState, Steps, Replies
  <2>2. ExclusiveOwner' /\ ExclusiveRequest'
    BY DEF ExclusiveOwner, ExclusiveRequest, Owning, WorkerTrue, KeyTrue, InFlight
  <2>3. ASSUME NEW x \in Workers PROVE WorkerTrue(x)'
    BY <2>1 DEF WorkerTrue, KeyTrue, ExclusiveOwner, ExclusiveRequest, InFlight, Owning, Ambiguous, Recovered
  <2>4. ASSUME NEW j \in Keys PROVE KeyTrue(j)'
    BY <2>1 DEF WorkerTrue, KeyTrue, ExclusiveRequest, InFlight, Owning, Ambiguous, Recovered
  <2>. QED
    BY <2>1, <2>2, <2>3, <2>4
<1>5. ASSUME NEW w \in Workers, CheckPrepared(w) PROVE IInv'
  <2> USE <1>5 DEF CheckPrepared
  <2>1. TypeOK'
    BY DEF LiveExecutionState, Steps, Replies
  <2>2. ExclusiveOwner' /\ ExclusiveRequest'
    BY DEF ExclusiveOwner, ExclusiveRequest, Owning, WorkerTrue, KeyTrue, InFlight
  <2>3. ASSUME NEW x \in Workers PROVE WorkerTrue(x)'
    BY <2>1 DEF WorkerTrue, KeyTrue, ExclusiveOwner, ExclusiveRequest, InFlight, Owning, Ambiguous, Recovered
  <2>4. ASSUME NEW j \in Keys PROVE KeyTrue(j)'
    BY <2>1 DEF WorkerTrue, KeyTrue, ExclusiveRequest, InFlight, Owning, Ambiguous, Recovered
  <2>. QED
    BY <2>1, <2>2, <2>3, <2>4
<1>6. ASSUME NEW w \in Workers, ClaimGate(w) PROVE IInv'
  <2> USE <1>6 DEF ClaimGate
  <2>1. TypeOK'
    BY DEF LiveExecutionState, Steps, Replies
  <2>2. ExclusiveOwner' /\ ExclusiveRequest'
    BY DEF ExclusiveOwner, ExclusiveRequest, Owning, WorkerTrue, KeyTrue, InFlight
  <2>3. ASSUME NEW x \in Workers PROVE WorkerTrue(x)'
    BY <2>1 DEF WorkerTrue, KeyTrue, ExclusiveOwner, ExclusiveRequest, InFlight, Owning, Ambiguous, Recovered
  <2>4. ASSUME NEW j \in Keys PROVE KeyTrue(j)'
    BY <2>1 DEF WorkerTrue, KeyTrue, ExclusiveRequest, InFlight, Owning, Ambiguous, Recovered
  <2>. QED
    BY <2>1, <2>2, <2>3, <2>4
<1>7. ASSUME NEW w \in Workers, Claim(w) PROVE IInv'
  <2> USE <1>7 DEF Claim
  <2>1. TypeOK'
    BY DEF LiveExecutionState, Steps, Replies
  <2>2. ExclusiveOwner' /\ ExclusiveRequest'
    <3>1. \A v \in Workers : pc[v] \in Owning => state[key[v]] # "prepared"
      BY DEF WorkerTrue, Owning, Ambiguous, Recovered
    <3>2. \A v \in Workers \ {w} : pc'[v] = pc[v] /\ key'[v] = key[v]
      OBVIOUS
    <3>3. pc'[w] \in Owning => key'[w] = key[w] /\ state[key[w]] = "prepared"
      BY DEF Owning
    <3>4. UNCHANGED wire
      OBVIOUS
    <3> HIDE <1>7 DEF Claim, IInv, TypeOK, durable, broker, Goto, Leave, Transition
    <3>5. ExclusiveOwner /\ ExclusiveRequest
      BY DEF IInv
    <3>6. ExclusiveOwner'
      BY <3>1, <3>2, <3>3, <3>5 DEF ExclusiveOwner
    <3>7. ExclusiveRequest'
      BY <3>4, <3>5 DEF ExclusiveRequest
    <3>. QED
      BY <3>6, <3>7
  <2>3. ASSUME NEW x \in Workers PROVE WorkerTrue(x)'
    BY <2>1 DEF WorkerTrue, KeyTrue, ExclusiveOwner, ExclusiveRequest, InFlight, Owning, Ambiguous, Recovered
  <2>4. ASSUME NEW j \in Keys PROVE KeyTrue(j)'
    BY <2>1 DEF WorkerTrue, KeyTrue, ExclusiveRequest, InFlight, Owning, Ambiguous, Recovered
  <2>. QED
    BY <2>1, <2>2, <2>3, <2>4
<1>8. ASSUME NEW w \in Workers, SaveBaseline(w) PROVE IInv'
  <2> USE <1>8 DEF SaveBaseline
  <2>1. TypeOK'
    BY DEF LiveExecutionState, Steps, Replies
  <2>2. ExclusiveOwner' /\ ExclusiveRequest'
    BY DEF ExclusiveOwner, ExclusiveRequest, Owning, WorkerTrue, KeyTrue, InFlight
  <2>3. ASSUME NEW x \in Workers PROVE WorkerTrue(x)'
    BY <2>1 DEF WorkerTrue, KeyTrue, ExclusiveOwner, ExclusiveRequest, InFlight, Owning, Ambiguous, Recovered
  <2>4. ASSUME NEW j \in Keys PROVE KeyTrue(j)'
    BY <2>1 DEF WorkerTrue, KeyTrue, ExclusiveRequest, InFlight, Owning, Ambiguous, Recovered
  <2>. QED
    BY <2>1, <2>2, <2>3, <2>4
<1>9. ASSUME NEW w \in Workers, EnterSubmissionPending(w) PROVE IInv'
  <2> USE <1>9 DEF EnterSubmissionPending
  <2>1. TypeOK'
    BY DEF LiveExecutionState, Steps, Replies
  <2>2. ExclusiveOwner' /\ ExclusiveRequest'
    BY DEF ExclusiveOwner, ExclusiveRequest, Owning, WorkerTrue, KeyTrue, InFlight
  <2>3. ASSUME NEW x \in Workers PROVE WorkerTrue(x)'
    BY <2>1 DEF WorkerTrue, KeyTrue, ExclusiveOwner, ExclusiveRequest, InFlight, Owning, Ambiguous, Recovered
  <2>4. ASSUME NEW j \in Keys PROVE KeyTrue(j)'
    BY <2>1 DEF WorkerTrue, KeyTrue, ExclusiveRequest, InFlight, Owning, Ambiguous, Recovered
  <2>. QED
    BY <2>1, <2>2, <2>3, <2>4
<1>10. ASSUME NEW w \in Workers, TransportBlocked(w) PROVE IInv'
  <2> USE <1>10 DEF TransportBlocked
  <2>1. TypeOK'
    BY DEF LiveExecutionState, Steps, Replies
  <2>2. ExclusiveOwner' /\ ExclusiveRequest'
    BY DEF ExclusiveOwner, ExclusiveRequest, Owning, WorkerTrue, KeyTrue, InFlight
  <2>3. ASSUME NEW x \in Workers PROVE WorkerTrue(x)'
    BY <2>1 DEF WorkerTrue, KeyTrue, ExclusiveOwner, ExclusiveRequest, InFlight, Owning, Ambiguous, Recovered
  <2>4. ASSUME NEW j \in Keys PROVE KeyTrue(j)'
    BY <2>1 DEF WorkerTrue, KeyTrue, ExclusiveRequest, InFlight, Owning, Ambiguous, Recovered
  <2>. QED
    BY <2>1, <2>2, <2>3, <2>4
<1>11. ASSUME NEW w \in Workers, SendOnce(w) PROVE IInv'
  <2> USE <1>11 DEF SendOnce
  <2>1. TypeOK'
    BY DEF LiveExecutionState, Steps, Replies
  <2>2. ExclusiveOwner' /\ ExclusiveRequest'
    BY DEF ExclusiveOwner, ExclusiveRequest, Owning, WorkerTrue, KeyTrue, InFlight
  <2>3. ASSUME NEW x \in Workers PROVE WorkerTrue(x)'
    BY <2>1 DEF WorkerTrue, KeyTrue, ExclusiveOwner, ExclusiveRequest, InFlight, Owning, Ambiguous, Recovered
  <2>4. ASSUME NEW j \in Keys PROVE KeyTrue(j)'
    BY <2>1 DEF WorkerTrue, KeyTrue, ExclusiveRequest, InFlight, Owning, Ambiguous, Recovered
  <2>. QED
    BY <2>1, <2>2, <2>3, <2>4
<1>12. ASSUME NEW w \in Workers, MarkSubmitted(w) PROVE IInv'
  <2> USE <1>12 DEF MarkSubmitted
  <2>1. TypeOK'
    BY DEF LiveExecutionState, Steps, Replies
  <2>2. ExclusiveOwner' /\ ExclusiveRequest'
    BY DEF ExclusiveOwner, ExclusiveRequest, Owning, WorkerTrue, KeyTrue, InFlight
  <2>3. ASSUME NEW x \in Workers PROVE WorkerTrue(x)'
    BY <2>1 DEF WorkerTrue, KeyTrue, ExclusiveOwner, ExclusiveRequest, InFlight, Owning, Ambiguous, Recovered
  <2>4. ASSUME NEW j \in Keys PROVE KeyTrue(j)'
    BY <2>1 DEF WorkerTrue, KeyTrue, ExclusiveRequest, InFlight, Owning, Ambiguous, Recovered
  <2>. QED
    BY <2>1, <2>2, <2>3, <2>4
<1>13. ASSUME NEW w \in Workers, MarkBrokerRejected(w) PROVE IInv'
  <2> USE <1>13 DEF MarkBrokerRejected
  <2>1. TypeOK'
    BY DEF LiveExecutionState, Steps, Replies
  <2>2. ExclusiveOwner' /\ ExclusiveRequest'
    BY DEF ExclusiveOwner, ExclusiveRequest, Owning, WorkerTrue, KeyTrue, InFlight
  <2>3. ASSUME NEW x \in Workers PROVE WorkerTrue(x)'
    BY <2>1 DEF WorkerTrue, KeyTrue, ExclusiveOwner, ExclusiveRequest, InFlight, Owning, Ambiguous, Recovered
  <2>4. ASSUME NEW j \in Keys PROVE KeyTrue(j)'
    BY <2>1 DEF WorkerTrue, KeyTrue, ExclusiveRequest, InFlight, Owning, Ambiguous, Recovered
  <2>. QED
    BY <2>1, <2>2, <2>3, <2>4
<1>14. ASSUME NEW w \in Workers, FreezeUnknown(w) PROVE IInv'
  <2> USE <1>14 DEF FreezeUnknown
  <2>1. TypeOK'
    BY DEF LiveExecutionState, Steps, Replies
  <2>2. ExclusiveOwner' /\ ExclusiveRequest'
    BY DEF ExclusiveOwner, ExclusiveRequest, Owning, WorkerTrue, KeyTrue, InFlight
  <2>3. ASSUME NEW x \in Workers PROVE WorkerTrue(x)'
    BY <2>1 DEF WorkerTrue, KeyTrue, ExclusiveOwner, ExclusiveRequest, InFlight, Owning, Ambiguous, Recovered
  <2>4. ASSUME NEW j \in Keys PROVE KeyTrue(j)'
    BY <2>1 DEF WorkerTrue, KeyTrue, ExclusiveRequest, InFlight, Owning, Ambiguous, Recovered
  <2>. QED
    BY <2>1, <2>2, <2>3, <2>4
<1>15. ASSUME NEW w \in Workers, Crash(w) PROVE IInv'
  <2> USE <1>15 DEF Crash
  <2>1. TypeOK'
    BY DEF LiveExecutionState, Steps, Replies
  <2>2. ExclusiveOwner' /\ ExclusiveRequest'
    BY DEF ExclusiveOwner, ExclusiveRequest, Owning, WorkerTrue, KeyTrue, InFlight
  <2>3. ASSUME NEW x \in Workers PROVE WorkerTrue(x)'
    BY <2>1 DEF WorkerTrue, KeyTrue, ExclusiveOwner, ExclusiveRequest, InFlight, Owning, Ambiguous, Recovered
  <2>4. ASSUME NEW j \in Keys PROVE KeyTrue(j)'
    BY <2>1 DEF WorkerTrue, KeyTrue, ExclusiveRequest, InFlight, Owning, Ambiguous, Recovered
  <2>. QED
    BY <2>1, <2>2, <2>3, <2>4
<1>16. ASSUME NEW k \in Keys, MarkAborted(k) PROVE IInv'
  <2> USE <1>16 DEF MarkAborted
  <2>1. TypeOK'
    BY DEF LiveExecutionState, Steps, Replies
  <2>2. ExclusiveOwner' /\ ExclusiveRequest'
    BY DEF ExclusiveOwner, ExclusiveRequest, Owning, WorkerTrue, KeyTrue, InFlight
  <2>3. ASSUME NEW x \in Workers PROVE WorkerTrue(x)'
    BY <2>1 DEF WorkerTrue, KeyTrue, ExclusiveOwner, ExclusiveRequest, InFlight, Owning, Ambiguous, Recovered
  <2>4. ASSUME NEW j \in Keys PROVE KeyTrue(j)'
    BY <2>1 DEF WorkerTrue, KeyTrue, ExclusiveRequest, InFlight, Owning, Ambiguous, Recovered
  <2>. QED
    BY <2>1, <2>2, <2>3, <2>4
<1>17. ASSUME NEW k \in Keys, RecoverIfAmbiguous(k) PROVE IInv'
  <2> USE <1>17 DEF RecoverIfAmbiguous
  <2>1. TypeOK'
    BY DEF LiveExecutionState, Steps, Replies
  <2>2. ExclusiveOwner' /\ ExclusiveRequest'
    BY DEF ExclusiveOwner, ExclusiveRequest, Owning, WorkerTrue, KeyTrue, InFlight
  <2>3. ASSUME NEW x \in Workers PROVE WorkerTrue(x)'
    BY <2>1 DEF WorkerTrue, KeyTrue, ExclusiveOwner, ExclusiveRequest, InFlight, Owning, Ambiguous, Recovered
  <2>4. ASSUME NEW j \in Keys PROVE KeyTrue(j)'
    BY <2>1 DEF WorkerTrue, KeyTrue, ExclusiveRequest, InFlight, Owning, Ambiguous, Recovered
  <2>. QED
    BY <2>1, <2>2, <2>3, <2>4
<1>18. ASSUME NEW k \in Keys, RecoverUnknownBrokerRejection(k) PROVE IInv'
  <2> USE <1>18 DEF RecoverUnknownBrokerRejection
  <2>1. TypeOK'
    BY DEF LiveExecutionState, Steps, Replies
  <2>2. ExclusiveOwner' /\ ExclusiveRequest'
    BY DEF ExclusiveOwner, ExclusiveRequest, Owning, WorkerTrue, KeyTrue, InFlight
  <2>3. ASSUME NEW x \in Workers PROVE WorkerTrue(x)'
    BY <2>1 DEF WorkerTrue, KeyTrue, ExclusiveOwner, ExclusiveRequest, InFlight, Owning, Ambiguous, Recovered
  <2>4. ASSUME NEW j \in Keys PROVE KeyTrue(j)'
    BY <2>1 DEF WorkerTrue, KeyTrue, ExclusiveRequest, InFlight, Owning, Ambiguous, Recovered
  <2>. QED
    BY <2>1, <2>2, <2>3, <2>4
<1>22. ASSUME NEW k \in Keys, MarkUnknown(k) PROVE IInv'
  <2> USE <1>22 DEF MarkUnknown
  <2>1. TypeOK'
    BY DEF LiveExecutionState, Steps, Replies
  <2>2. ExclusiveOwner' /\ ExclusiveRequest'
    BY DEF ExclusiveOwner, ExclusiveRequest, Owning, WorkerTrue, KeyTrue, InFlight
  <2>3. ASSUME NEW x \in Workers PROVE WorkerTrue(x)'
    BY <2>1 DEF WorkerTrue, KeyTrue, ExclusiveOwner, ExclusiveRequest, InFlight, Owning, Ambiguous, Recovered
  <2>4. ASSUME NEW j \in Keys PROVE KeyTrue(j)'
    BY <2>1 DEF WorkerTrue, KeyTrue, ExclusiveRequest, InFlight, Owning, Ambiguous, Recovered
  <2>. QED
    BY <2>1, <2>2, <2>3, <2>4
<1>19. ASSUME NEW w \in Workers, NEW k \in Keys, BrokerAccept(w,k) PROVE IInv'
  <2> USE <1>19 DEF BrokerAccept, Answer
  <2>1. TypeOK'
    BY DEF LiveExecutionState, Steps, Replies
  <2>2. ExclusiveOwner' /\ ExclusiveRequest'
    BY DEF ExclusiveOwner, ExclusiveRequest, Owning, WorkerTrue, KeyTrue, InFlight
  <2>3. ASSUME NEW x \in Workers PROVE WorkerTrue(x)'
    BY <2>1 DEF WorkerTrue, KeyTrue, ExclusiveOwner, ExclusiveRequest, InFlight, Owning, Ambiguous, Recovered
  <2>4. ASSUME NEW j \in Keys PROVE KeyTrue(j)'
    BY <2>1 DEF WorkerTrue, KeyTrue, ExclusiveRequest, InFlight, Owning, Ambiguous, Recovered
  <2>. QED
    BY <2>1, <2>2, <2>3, <2>4
<1>20. ASSUME NEW w \in Workers, NEW k \in Keys, BrokerRefuse(w,k) PROVE IInv'
  <2> USE <1>20 DEF BrokerRefuse, Answer
  <2>1. TypeOK'
    BY DEF LiveExecutionState, Steps, Replies
  <2>2. ExclusiveOwner' /\ ExclusiveRequest'
    BY DEF ExclusiveOwner, ExclusiveRequest, Owning, WorkerTrue, KeyTrue, InFlight
  <2>3. ASSUME NEW x \in Workers PROVE WorkerTrue(x)'
    BY <2>1 DEF WorkerTrue, KeyTrue, ExclusiveOwner, ExclusiveRequest, InFlight, Owning, Ambiguous, Recovered
  <2>4. ASSUME NEW j \in Keys PROVE KeyTrue(j)'
    BY <2>1 DEF WorkerTrue, KeyTrue, ExclusiveRequest, InFlight, Owning, Ambiguous, Recovered
  <2>. QED
    BY <2>1, <2>2, <2>3, <2>4
<1>21. CASE UNCHANGED vars
  BY <1>21 DEF vars, LiveExecutionState, Steps, Replies, ExclusiveOwner,
     ExclusiveRequest, WorkerTrue, KeyTrue, InFlight, Owning, Ambiguous, Recovered
<1>. QED
  BY <1>1, <1>2, <1>3, <1>4, <1>5, <1>6, <1>7, <1>8, <1>9, <1>10, <1>11, <1>12,
     <1>13, <1>14, <1>15, <1>16, <1>17, <1>18, <1>19, <1>20, <1>21, <1>22
     DEF Next, WorkerStep, OperatorStep

-----------------------------------------------------------------------------

\* IInv holds in every reachable state.
THEOREM Invariance == Spec => []IInv
BY InitIInv, NextIInv, PTL DEF Spec

\* Rows, workers and broker keep to their types.
THEOREM TypeCorrect == Spec => []TypeOK
<1>1. IInv => TypeOK
  BY DEF IInv
<1>. QED
  BY <1>1, Invariance, PTL

\* No key is transmitted twice, whatever crashes, replays and second workers.
THEOREM TransmittedOnce == Spec => []AtMostOneTransmission
<1>1. IInv => AtMostOneTransmission
  BY DEF IInv, KeyTrue, AtMostOneTransmission
<1>. QED
  BY <1>1, Invariance, PTL

\* Row, reservation and baseline are durable before the broker can know.
THEOREM DurableFirst == Spec => []DurableBeforeTransmission
<1>1. IInv => DurableBeforeTransmission
  BY DEF IInv, KeyTrue, TypeOK, LiveExecutionState, DurableBeforeTransmission
<1>. QED
  BY <1>1, Invariance, PTL

\* ABORTED, unless an operator has recovered the row from UNKNOWN, means that no
\* order of the key exists or can still come to exist; SUBMITTED that one does.
THEOREM RowsTellTheTruth == Spec => []ClosedRowsTrue
<1>1. ASSUME IInv, NEW k \in Keys \ recovered, state[k] = "aborted"
      PROVE orders[k] = 0
            /\ \A w \in Workers : k \notin wire[w] /\ ~(pc[w] = "transport" /\ key[w] = k)
  <2>1. orders[k] = 0 /\ ~InFlight(k)
    BY <1>1 DEF IInv, KeyTrue
  <2>2. ASSUME NEW w \in Workers PROVE ~(pc[w] = "transport" /\ key[w] = k)
    BY <1>1 DEF IInv, WorkerTrue, Ambiguous, Recovered
  <2>. QED
    BY <2>1, <2>2 DEF InFlight
<1>2. IInv => AbortedHasNoOrder
  BY <1>1 DEF AbortedHasNoOrder
<1>3. IInv => SubmittedIsAtBroker
  BY DEF IInv, KeyTrue, SubmittedIsAtBroker
<1>4. IInv => ClosedRowsTrue
  BY <1>2, <1>3 DEF ClosedRowsTrue
<1>. QED
  BY <1>4, Invariance, PTL

-----------------------------------------------------------------------------
(* The pipeline implements AtMostOnceSubmission.                           *)

\* A database without rows is a set of open keys.
LEMMA InitPromise == Init => Promise!Init
<1> SUFFICES ASSUME Init PROVE Promise!Init
  OBVIOUS
<1>1. ASSUME NEW k \in Keys PROVE Outcome(k) = "open" /\ ~InFlight(k)
  <2>1. state[k] = "none" /\ sends[k] = 0 /\ (\A w \in Workers : wire[w] = {})
    BY DEF Init
  <2>. QED
    BY <2>1 DEF Outcome, InFlight
<1>2. [k \in Keys |-> Outcome(k)] = [k \in Keys |-> "open"]
  BY <1>1
<1>3. {k \in Keys : InFlight(k)} = {}
  BY <1>1
<1>4. orders = [k \in Keys |-> 0]
  BY DEF Init
<1>. QED
  BY <1>2, <1>3, <1>4 DEF Promise!Init

\* Every step is a step of the promise or leaves its variables alone.
LEMMA NextPromise == IInv /\ IInv' /\ [Next]_vars => [Promise!Next]_(Promise!vars)
<1> SUFFICES ASSUME IInv, IInv', [Next]_vars PROVE [Promise!Next]_(Promise!vars)
  OBVIOUS
<1>0. ASSUME NEW k \in Keys, Outcome(k) = "open", Outcome(k)' = "sent",
             \A j \in Keys \ {k} : Outcome(j)' = Outcome(j),
             \A j \in Keys : InFlight(j)' <=> (j = k \/ InFlight(j)),
             UNCHANGED orders
      PROVE Promise!Transmit(k)
  <2>1. [j \in Keys |-> Outcome(j)]' = [[j \in Keys |-> Outcome(j)] EXCEPT ![k] = "sent"]
    BY <1>0
  <2>2. {j \in Keys : InFlight(j)}' = {j \in Keys : InFlight(j)} \cup {k}
    BY <1>0
  <2>3. [j \in Keys |-> Outcome(j)][k] = "open"
    BY <1>0
  <2>. QED
    BY <1>0, <2>1, <2>2, <2>3 DEF Promise!Transmit
<1> USE DEF IInv, TypeOK, durable, broker, Goto, Leave, Transition
<1>1. ASSUME NEW w \in Workers, SendOnce(w) PROVE Promise!Transmit(key[w])
  <2> USE <1>1 DEF SendOnce
  <2>1. /\ sends[key[w]] = 0 /\ key[w] \in Keys
        /\ state[key[w]] \in Ambiguous \/ Recovered(key[w])
    BY DEF WorkerTrue
  <2>2. PICK k \in Keys : k = key[w]
    BY <2>1
  <2>3. Outcome(k) = "open" /\ Outcome(k)' = "sent"
    BY <2>1, <2>2 DEF Outcome, Ambiguous, Recovered
  <2>4. \A j \in Keys \ {k} : Outcome(j)' = Outcome(j)
    BY <2>1, <2>2 DEF Outcome
  <2>5. \A j \in Keys : InFlight(j)' <=> (j = k \/ InFlight(j))
    BY <2>1, <2>2 DEF InFlight
  <2>6. UNCHANGED orders
    OBVIOUS
  <2> HIDE <1>1 DEF SendOnce, IInv, TypeOK, durable, broker, Goto, Leave, Transition
  <2>7. Promise!Transmit(k)
    BY <2>3, <2>4, <2>5, <2>6, <1>0
  <2>. QED
    BY <2>2, <2>7
<1>2. ASSUME NEW w \in Workers, NEW k \in Keys, BrokerAccept(w, k)
      PROVE Promise!Accept(k)
  <2> USE <1>2 DEF BrokerAccept
  <2>1. InFlight(k) /\ (\A j \in Keys : InFlight(j)' <=> (j # k /\ InFlight(j)))
    BY DEF InFlight, ExclusiveRequest
  <2>2. \A j \in Keys : Outcome(j)' = Outcome(j)
    BY DEF Outcome
  <2>3. [j \in Keys |-> Outcome(j)]' = [j \in Keys |-> Outcome(j)]
    BY <2>2
  <2>4. {j \in Keys : InFlight(j)}' = {j \in Keys : InFlight(j)} \ {k}
    BY <2>1
  <2>5. k \in {j \in Keys : InFlight(j)}
    BY <2>1
  <2>6. orders' = [orders EXCEPT ![k] = @ + 1]
    OBVIOUS
  <2>. QED
    BY <2>3, <2>4, <2>5, <2>6 DEF Promise!Accept
<1>3. ASSUME NEW w \in Workers, NEW k \in Keys, BrokerRefuse(w, k)
      PROVE Promise!Drop(k)
  <2> USE <1>3 DEF BrokerRefuse
  <2>1. InFlight(k) /\ (\A j \in Keys : InFlight(j)' <=> (j # k /\ InFlight(j)))
    BY DEF InFlight, ExclusiveRequest
  <2>2. \A j \in Keys : Outcome(j)' = Outcome(j)
    BY DEF Outcome
  <2>3. [j \in Keys |-> Outcome(j)]' = [j \in Keys |-> Outcome(j)]
    BY <2>2
  <2>4. {j \in Keys : InFlight(j)}' = {j \in Keys : InFlight(j)} \ {k}
    BY <2>1
  <2>5. k \in {j \in Keys : InFlight(j)}
    BY <2>1
  <2>6. UNCHANGED orders
    OBVIOUS
  <2>. QED
    BY <2>3, <2>4, <2>5, <2>6 DEF Promise!Drop
<1>4. ASSUME NEW k \in Keys, state' = [state EXCEPT ![k] = "submitted"],
             state[k] = "submission_pending", sends[k] = 1, UNCHANGED <<broker, recovered>>
      PROVE Promise!Confirm(k)
  <2>1. Outcome(k) = "sent" /\ Outcome(k)' = "confirmed" /\ orders[k] = 1
    BY <1>4 DEF Outcome, KeyTrue
  <2>2. \A j \in Keys \ {k} : Outcome(j)' = Outcome(j)
    BY <1>4 DEF Outcome
  <2>3. \A j \in Keys : InFlight(j)' <=> InFlight(j)
    BY <1>4 DEF InFlight
  <2>4. UNCHANGED {j \in Keys : InFlight(j)}
    BY <2>3
  <2>5. [j \in Keys |-> Outcome(j)]' = [[j \in Keys |-> Outcome(j)] EXCEPT ![k] = "confirmed"]
    BY <2>1, <2>2
  <2>6. UNCHANGED orders
    BY <1>4
  <2>. QED
    BY <2>1, <2>4, <2>5, <2>6 DEF Promise!Confirm
<1>5. ASSUME NEW k \in Keys, state' = [state EXCEPT ![k] = "aborted"],
             state[k] \notin {"submitted", "aborted"}, UNCHANGED <<broker, recovered>>
      PROVE Promise!Close(k)
  <2>0. k \notin recovered
    BY <1>5 DEF KeyTrue
  <2>1. Outcome(k) \in {"open", "sent"} /\ Outcome(k)' = "closed"
    BY <1>5, <2>0 DEF Outcome
  <2>2. \A j \in Keys \ {k} : Outcome(j)' = Outcome(j)
    BY <1>5 DEF Outcome
  <2>3. \A j \in Keys : InFlight(j)' <=> InFlight(j)
    BY <1>5 DEF InFlight
  <2>4. orders[k] = 0 /\ ~InFlight(k)
    <3>1. state'[k] = "aborted"
      BY <1>5
    <3>2. orders'[k] = 0 /\ ~InFlight(k)'
      BY <1>5, <2>0, <3>1 DEF KeyTrue
    <3>. QED
      BY <1>5, <2>3, <3>2
  <2>5. UNCHANGED {j \in Keys : InFlight(j)}
    BY <2>3
  <2>6. [j \in Keys |-> Outcome(j)]' = [[j \in Keys |-> Outcome(j)] EXCEPT ![k] = "closed"]
    BY <2>1, <2>2
  <2>7. UNCHANGED orders
    BY <1>5
  <2>. QED
    BY <2>1, <2>4, <2>5, <2>6, <2>7 DEF Promise!Close
<1>6. ASSUME UNCHANGED <<broker, recovered>>,
             \A k \in Keys : state'[k] = state[k]
               \/ {state[k], state'[k]} \cap {"submitted", "aborted"} = {}
      PROVE UNCHANGED (Promise!vars)
  <2>1. \A j \in Keys : Outcome(j)' = Outcome(j) /\ (InFlight(j)' <=> InFlight(j))
    BY <1>6 DEF Outcome, InFlight
  <2>. QED
    BY <1>6, <2>1 DEF Promise!vars
<1>7. ASSUME NEW w \in Workers, WorkerStep(w), ~SendOnce(w)
      PROVE [Promise!Next]_(Promise!vars)
  <2>1. CASE MarkSubmitted(w) /\ state[key[w]] = "submission_pending"
    BY <2>1, <1>4 DEF MarkSubmitted, WorkerTrue, Promise!Next
  <2>2. CASE MarkBrokerRejected(w) /\ state[key[w]] = "submission_pending"
    BY <2>2, <1>5 DEF MarkBrokerRejected, Promise!Next
  <2>3. CASE ~(MarkSubmitted(w) /\ state[key[w]] = "submission_pending")
             /\ ~(MarkBrokerRejected(w) /\ state[key[w]] = "submission_pending")
    BY <1>7, <2>3, <1>6 DEF WorkerStep, EvaluateBlocked, EvaluateReserve, Prepare,
       CheckPrepared, ClaimGate, Claim, SaveBaseline, EnterSubmissionPending,
       TransportBlocked, MarkSubmitted, MarkBrokerRejected, FreezeUnknown
  <2>. QED
    BY <2>1, <2>2, <2>3
<1>8. ASSUME NEW k \in Keys, OperatorStep(k) PROVE [Promise!Next]_(Promise!vars)
  <2>1. CASE RecoverIfAmbiguous(k) \/ MarkUnknown(k)
    BY <2>1, <1>6 DEF RecoverIfAmbiguous, MarkUnknown
  <2>2. CASE MarkAborted(k)
    BY <2>2, <1>5 DEF MarkAborted, Promise!Next
  <2>3. CASE RecoverUnknownBrokerRejection(k)
    <3> USE <2>3 DEF RecoverUnknownBrokerRejection
    <3>1. k \notin recovered /\ state[k] = "unknown" /\ state'[k] = "aborted"
          /\ k \in recovered' /\ sends' = sends
      BY DEF KeyTrue
    <3>2. Outcome(k)' = Outcome(k)
      BY <3>1 DEF Outcome
    <3>3. \A j \in Keys \ {k} : Outcome(j)' = Outcome(j)
      BY DEF Outcome
    <3>4. \A j \in Keys : InFlight(j)' <=> InFlight(j)
      BY DEF InFlight
    <3>5. UNCHANGED [j \in Keys |-> Outcome(j)] /\ UNCHANGED {j \in Keys : InFlight(j)}
      BY <3>2, <3>3, <3>4
    <3>. QED
      BY <3>5 DEF Promise!vars
  <2>. QED
    BY <1>8, <2>1, <2>2, <2>3 DEF OperatorStep
<1>9. ASSUME NEW w \in Workers, Crash(w) \/ \E k \in Keys : Submit(w, k)
      PROVE UNCHANGED (Promise!vars)
  BY <1>9, <1>6 DEF Submit, Crash
<1>10. CASE UNCHANGED vars
  BY <1>10, <1>6 DEF vars
<1>11. ASSUME NEW w \in Workers, WorkerStep(w) PROVE [Promise!Next]_(Promise!vars)
  <2>1. CASE SendOnce(w)
    <3>1. key[w] \in Keys
      BY <2>1 DEF SendOnce
    <3>. QED
      BY <2>1, <3>1, <1>1 DEF Promise!Next
  <2>. QED
    BY <1>11, <2>1, <1>7
<1>12. ASSUME NEW w \in Workers, NEW k \in Keys, BrokerAccept(w, k) \/ BrokerRefuse(w, k)
      PROVE Promise!Next
  BY <1>12, <1>2, <1>3 DEF Promise!Next
<1>. QED
  BY <1>8, <1>9, <1>10, <1>11, <1>12 DEF Next

\* The pipeline implements the at-most-once promise.
THEOREM Refinement == Spec => AtMostOnce
BY InitPromise, NextPromise, InitIInv, NextIInv, Invariance, PTL
   DEF Spec, AtMostOnce, Promise!Spec
=============================================================================
