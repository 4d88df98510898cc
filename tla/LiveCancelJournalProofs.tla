----------------------- MODULE LiveCancelJournalProofs -----------------------
(***************************************************************************)
(* For any set of orders and of workers, and any number of crashes: one    *)
(* cancelorder request per order, and CANCELLED is written and answered of *)
(* ended orders only; the journal implements AtMostOnceCancellation.       *)
(***************************************************************************)
EXTENDS LiveCancelJournal, TLAPS

\* An empty table and an idle program satisfy the invariant.
LEMMA InitCancelInv == Init => CancelInv
<1> SUFFICES ASSUME Init PROVE CancelInv
  OBVIOUS
<1>1. TypeOK
  BY CancelAssumption DEF Init, TypeOK, Steps, LiveCancelJournalState
<1>2. CancelSentOnce /\ CancelledHasEnded /\ AnswerIsDurable /\ ExclusiveCreator
  BY DEF Init, CancelSentOnce, CancelledHasEnded, AnswerIsDurable, ExclusiveCreator, Creating
<1>3. \A w \in Workers : CreatorTrue(w)
  BY DEF Init, CreatorTrue, Creating
<1>. QED
  BY <1>1, <1>2, <1>3 DEF CancelInv, Init

\* Every step keeps it.
LEMMA NextCancelInv == CancelInv /\ [Next]_vars => CancelInv'
<1> SUFFICES ASSUME CancelInv, [Next]_vars PROVE CancelInv'
  OBVIOUS
<1> USE CancelAssumption DEF CancelInv, TypeOK, CancelSentOnce, CancelledHasEnded,
    AnswerIsDurable, ExclusiveCreator, CreatorTrue, Creating, Steps,
    LiveCancelJournalState, Goto, Leave, ReturnCancelled, ReturnBlocked
<1>1. ASSUME NEW w \in Workers, NEW o \in Orders, CancelAndReconcile(w, o)
      PROVE CancelInv'
  BY <1>1 DEF CancelAndReconcile
<1>2. ASSUME NEW w \in Workers, BeginOnce(w) PROVE CancelInv'
  BY <1>2 DEF BeginOnce
<1>3. ASSUME NEW w \in Workers, CancelOrder(w) PROVE CancelInv'
  BY <1>3 DEF CancelOrder
<1>4. ASSUME NEW w \in Workers, ReadAfterCancel(w) PROVE CancelInv'
  BY <1>4 DEF ReadAfterCancel
<1>5. ASSUME NEW w \in Workers, MarkUnknown(w) PROVE CancelInv'
  BY <1>5 DEF MarkUnknown
<1>6. ASSUME NEW w \in Workers, MarkCancelled(w) PROVE CancelInv'
  BY <1>6 DEF MarkCancelled
<1>7. ASSUME NEW w \in Workers, ReconcileExistingAttempt(w) PROVE CancelInv'
  BY <1>7 DEF ReconcileExistingAttempt
<1>8. ASSUME NEW w \in Workers, RecoverCancelled(w) PROVE CancelInv'
  BY <1>8 DEF RecoverCancelled
<1>9. ASSUME NEW w \in Workers, Crash(w) PROVE CancelInv'
  BY <1>9 DEF Crash
<1>10. ASSUME NEW w \in Workers, NEW o \in Orders, BrokerCancel(w, o) PROVE CancelInv'
  BY <1>10 DEF BrokerCancel
<1>11. ASSUME NEW o \in Orders, BrokerEnd(o) PROVE CancelInv'
  BY <1>11 DEF BrokerEnd
<1>12. CASE UNCHANGED vars
  BY <1>12 DEF vars
<1>. QED
  BY <1>1, <1>2, <1>3, <1>4, <1>5, <1>6, <1>7, <1>8, <1>9, <1>10, <1>11, <1>12
     DEF Next, WorkerStep

\* The conjunction of all named parts is an invariant.
THEOREM CancelInvariance == Spec => []CancelInv
BY InitCancelInv, NextCancelInv, PTL DEF Spec

\* Types hold for every value of the constants.
THEOREM CancelTypeCorrect == Spec => []TypeOK
<1>1. CancelInv => TypeOK
  BY DEF CancelInv
<1>. QED
  BY <1>1, CancelInvariance, PTL

\* No restart and no lost answer leads to a second cancelorder.
THEOREM CancelledOnce == Spec => []CancelSentOnce
<1>1. CancelInv => CancelSentOnce
  BY DEF CancelInv
<1>. QED
  BY <1>1, CancelInvariance, PTL

\* A CANCELLED row is the row of an order that has ended.
THEOREM CancelAnswersTrue == Spec => []CancelledHasEnded
<1>1. CancelInv => CancelledHasEnded
  BY DEF CancelInv
<1>. QED
  BY <1>1, CancelInvariance, PTL

\* The answer CANCELLED is given only of a row that says so, whatever dies next.
THEOREM CancelAnswersDurable == Spec => []AnswerIsDurable
<1>1. CancelInv => AnswerIsDurable
  BY DEF CancelInv
<1>. QED
  BY <1>1, CancelInvariance, PTL

\* What a step leaves alone of the promise.
LEMMA CancellationStutters ==
  ASSUME UNCHANGED <<row, answered, ended, sends>>
  PROVE  [Cancellation!Next]_(Cancellation!vars)
BY DEF Cancellation!vars

\* A caller is told of an order whose row already says CANCELLED.
LEMMA CancellationAnswers ==
  ASSUME NEW o \in Orders, row[o] = "cancelled", UNCHANGED <<row, ended, sends>>,
         answered' = answered \union {o}
  PROVE  [Cancellation!Next]_(Cancellation!vars)
BY DEF Cancellation!Next, Cancellation!Answer

\* The row of an ended order says CANCELLED, and the caller is told.
LEMMA CancellationConfirms ==
  ASSUME CancelInv, NEW o \in Orders, o \in ended, UNCHANGED <<ended, sends>>,
         row' = [row EXCEPT ![o] = "cancelled"], answered' = answered \union {o}
  PROVE  [Cancellation!Next]_(Cancellation!vars)
<1>1. {p \in Orders : row'[p] = "cancelled"} = {p \in Orders : row[p] = "cancelled"} \union {o}
  BY DEF CancelInv, TypeOK
<1> QED
  BY <1>1 DEF Cancellation!Next, Cancellation!Confirm

\* A row that is not CANCELLED, and is not written so, is no step of the promise.
LEMMA CancellationIgnores ==
  ASSUME CancelInv, NEW o \in Orders, row[o] # "cancelled", NEW v, v # "cancelled",
         row' = [row EXCEPT ![o] = v], UNCHANGED <<answered, ended, sends>>
  PROVE  [Cancellation!Next]_(Cancellation!vars)
<1>1. {p \in Orders : row'[p] = "cancelled"} = {p \in Orders : row[p] = "cancelled"}
  BY DEF CancelInv, TypeOK
<1> QED
  BY <1>1 DEF Cancellation!vars

\* Every step of a caller and of the broker is a step of AtMostOnceCancellation, or
\* changes nothing of it.
LEMMA CancellationStep ==
  ASSUME CancelInv, [Next]_vars
  PROVE  [Cancellation!Next]_(Cancellation!vars)
<1> USE DEF Goto, Leave, ReturnCancelled, ReturnBlocked
<1>t. /\ row \in [Orders -> LiveCancelJournalState \union {"none"}]
      /\ sends \in [Orders -> Nat]
      /\ \A w \in Workers : pc[w] # "idle" => oid[w] \in Orders
  BY DEF CancelInv, TypeOK
<1>1. CASE UNCHANGED vars
  BY <1>1, CancellationStutters DEF vars
<1>2. ASSUME NEW w \in Workers, NEW o \in Orders, CancelAndReconcile(w, o)
      PROVE  [Cancellation!Next]_(Cancellation!vars)
  BY <1>2, CancellationStutters DEF CancelAndReconcile
<1>3. ASSUME NEW w \in Workers, BeginOnce(w) PROVE [Cancellation!Next]_(Cancellation!vars)
  <2>1. PICK o \in Orders : o = oid[w]
    BY <1>t, <1>3 DEF BeginOnce
  <2>2. CASE row[o] = "none" /\ row' = [row EXCEPT ![o] = "cancel_pending"] /\ UNCHANGED answered
    BY <1>3, <2>2, CancellationIgnores DEF BeginOnce
  <2>3. CASE row[o] = "cancelled" /\ UNCHANGED row /\ answered' = answered \union {o}
    BY <1>3, <2>3, CancellationAnswers DEF BeginOnce
  <2>4. CASE UNCHANGED <<row, answered>>
    BY <1>3, <2>4, CancellationStutters DEF BeginOnce
  <2> QED
    BY <1>3, <2>1, <2>2, <2>3, <2>4 DEF BeginOnce
<1>4. ASSUME NEW w \in Workers, CancelOrder(w) PROVE [Cancellation!Next]_(Cancellation!vars)
  <2>1. PICK o \in Orders : o = oid[w]
    BY <1>t, <1>4 DEF CancelOrder
  <2>a. sends[o] = 0
    BY <1>4, <2>1 DEF CancelOrder, CancelInv, CreatorTrue
  <2>b. sends' = [sends EXCEPT ![o] = sends[o] + 1] /\ UNCHANGED <<row, answered, ended>>
    BY <1>4, <2>1 DEF CancelOrder
  <2>2. sends[o] = 0 /\ sends' = [sends EXCEPT ![o] = 1] /\ UNCHANGED <<row, answered, ended>>
    BY <2>a, <2>b
  <2>3. Cancellation!Request(o)
    BY <2>2 DEF Cancellation!Request
  <2> QED
    BY <2>3 DEF Cancellation!Next
<1>5. ASSUME NEW w \in Workers, ReadAfterCancel(w) \/ ReconcileExistingAttempt(w) \/ Crash(w)
      PROVE  [Cancellation!Next]_(Cancellation!vars)
  BY <1>5, CancellationStutters DEF ReadAfterCancel, ReconcileExistingAttempt, Crash
<1>6. ASSUME NEW w \in Workers, MarkUnknown(w) PROVE [Cancellation!Next]_(Cancellation!vars)
  <2>1. PICK o \in Orders : o = oid[w]
    BY <1>t, <1>6 DEF MarkUnknown
  <2>2. CASE row[o] = "cancel_pending" /\ row' = [row EXCEPT ![o] = "unknown"]
    BY <1>6, <2>2, CancellationIgnores DEF MarkUnknown
  <2>3. CASE UNCHANGED row
    BY <1>6, <2>3, CancellationStutters DEF MarkUnknown
  <2> QED
    BY <1>6, <2>1, <2>2, <2>3 DEF MarkUnknown
<1>7. ASSUME NEW w \in Workers, MarkCancelled(w) \/ RecoverCancelled(w)
      PROVE  [Cancellation!Next]_(Cancellation!vars)
  <2>1. PICK o \in Orders : o = oid[w]
    BY <1>t, <1>7 DEF MarkCancelled, RecoverCancelled
  <2>2. o \in ended
    BY <1>7, <2>1 DEF MarkCancelled, RecoverCancelled, CancelInv, CreatorTrue
  <2>3. CASE row' = [row EXCEPT ![o] = "cancelled"] /\ answered' = answered \union {o}
    BY <1>7, <2>2, <2>3, CancellationConfirms DEF MarkCancelled, RecoverCancelled
  <2>4. CASE UNCHANGED <<row, answered>>
    BY <1>7, <2>4, CancellationStutters DEF MarkCancelled, RecoverCancelled
  <2> QED
    BY <1>7, <2>1, <2>3, <2>4 DEF MarkCancelled, RecoverCancelled
<1>8. ASSUME NEW o \in Orders, UNCHANGED <<row, answered, sends>>,
             ended' \in {ended, ended \union {o}}
      PROVE  [Cancellation!Next]_(Cancellation!vars)
  BY <1>8, CancellationStutters DEF Cancellation!Next, Cancellation!End
<1>9. ASSUME NEW w \in Workers, NEW o \in Orders, BrokerCancel(w, o)
      PROVE  [Cancellation!Next]_(Cancellation!vars)
  BY <1>8, <1>9 DEF BrokerCancel
<1>10. ASSUME NEW o \in Orders, BrokerEnd(o) PROVE [Cancellation!Next]_(Cancellation!vars)
  BY <1>8, <1>10 DEF BrokerEnd
<1> QED
  BY <1>1, <1>2, <1>3, <1>4, <1>5, <1>6, <1>7, <1>9, <1>10 DEF Next, WorkerStep

\* The cancellation journal implements AtMostOnceCancellation, for any orders, callers
\* and crashes.
THEOREM CancelRefinement == Spec => CancelledAtMostOnce
<1>1. Init => Cancellation!Init
  BY DEF Init, Cancellation!Init
<1>2. CancelInv /\ [Next]_vars => [Cancellation!Next]_(Cancellation!vars)
  BY CancellationStep
<1> QED
  BY <1>1, <1>2, CancelInvariance, PTL DEF Spec, CancelledAtMostOnce, Cancellation!Spec
=============================================================================
