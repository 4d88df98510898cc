-------------------- MODULE LiveEntryReconciliationProofs --------------------
(***************************************************************************)
(* For any BUYs, symbols and quantity, any number of failed reads, closes  *)
(* and restarts: EntryInv of LiveEntryReconciliation is inductive.  Each   *)
(* part of it has a lemma, with a step for every action; what a part needs *)
(* of the others is in the definitions the lemma opens.                    *)
(***************************************************************************)
EXTENDS LiveEntryReconciliation, FiniteSetTheorems, TLAPS

\* The constants are numbers, and each BUY has a symbol.
LEMMA EntryNumbers ==
  /\ CodeOf \in [Signals -> Codes] /\ NoSignal \notin Signals
  /\ Quantity \in Nat /\ Quantity > 0 /\ MaxEntries \in Nat
  /\ MaxFailures \in Nat /\ MaxCloses \in Nat /\ MaxRestarts \in Nat
  /\ LedgerSettings \subseteq BOOLEAN
BY EntryAssumption

\* What `seen` holds between two rows.
LEMMA NoOrderType == NoOrder \in [ended : BOOLEAN, cum : 0..Quantity]
<1>1. 0 \in 0..Quantity
  BY EntryNumbers
<1> QED
  BY <1>1, Zenon DEF NoOrder

\* The first start: empty tables, an idle process, no orders.
LEMMA EntryInit == ASSUME Init PROVE EntryInv
<1> USE EntryNumbers, NoOrderType DEF Init
<1>1. TablesTyped
  <2>1. NoStop \in [state : {"none", "active", "exit_pending", "retired"},
                    quantity : 0..Quantity]
    BY DEF NoStop
  <2> QED
    BY <2>1 DEF TablesTyped, JournalStates
<1>2. ProcessTyped
  <2>1. accepts \in BOOLEAN
    BY EntryNumbers, Zenon DEF Init
  <2> QED
    BY <2>1 DEF ProcessTyped, Steps
<1>3. FlagsTyped
  BY DEF FlagsTyped
<1>4. \A k \in Signals : ~Current(k)
  BY DEF Current, NoStop
<1>5. \A k \in Signals : stop[k].quantity = 0
  BY DEF NoStop
<1>6. RowInHand /\ Books /\ Trouble /\ OneDay
  BY <1>4, <1>5 DEF RowInHand, Books, Trouble, OneDay, Handling, Reconciling, Buying, SoldOrListed,
              Pending, NothingOld
<1> QED
  BY <1>1, <1>2, <1>3, <1>6 DEF EntryInv, TypeOK

\* What the evaluation of the signals leaves behind, whichever way it ends.
LEMMA EvaluateEffect ==
  ASSUME EntryInv, Evaluate
  PROVE  /\ \A k \in Signals : /\ Current(k)' <=> Current(k)
                               /\ stop'[k].quantity = stop[k].quantity
                               /\ stop'[k].state = "none" <=> stop[k].state = "none"
         /\ \A k \in Signals : order'[k] # order[k] =>
              order[k] = "working" /\ order'[k] = "ended"
         /\ UNCHANGED <<registry, journal, ledger, old, filled, position, sold, replayed>>
         /\ cache' \in {cache, Account}
         /\ pc = "signals"
         /\ Return \/ (pc' = "prebuy" /\ UNCHANGED mode)
<1>0. /\ stop \in [Signals -> [state : {"none", "active", "exit_pending", "retired"},
                               quantity : 0..Quantity]]
      /\ order \in [Signals -> {"none", "inflight", "working", "ended"}]
  BY DEF EntryInv, TypeOK, TablesTyped
<1>1. \/ stop' = stop
      \/ \E k \in Signals : /\ stop[k].state = "active"
                            /\ stop' = [stop EXCEPT ![k].state = "exit_pending"]
  BY DEF Evaluate, Owned
<1>2. \A k \in Signals : /\ Current(k)' <=> Current(k)
                         /\ stop'[k].quantity = stop[k].quantity
                         /\ stop'[k].state = "none" <=> stop[k].state = "none"
  BY <1>0, <1>1 DEF Current
<1>3. \A k \in Signals : order'[k] # order[k] =>
        order[k] = "working" /\ order'[k] = "ended"
  BY <1>0 DEF Evaluate, Working, CancelBuys
<1>4. /\ UNCHANGED <<registry, journal, ledger, old, filled, position, sold, replayed>>
      /\ cache' \in {cache, Account}
      /\ pc = "signals"
      /\ Return \/ (pc' = "prebuy" /\ UNCHANGED mode)
  BY DEF Evaluate, ReadAccount
<1> QED
  BY <1>2, <1>3, <1>4

\* The protective cycle writes the states of stops, and ends orders.
LEMMA StopsEffect ==
  ASSUME ProtectiveStops,
         stop \in [Signals -> [state : {"none", "active", "exit_pending", "retired"},
                               quantity : 0..Quantity]],
         order \in [Signals -> {"none", "inflight", "working", "ended"}]
  PROVE  /\ stop' \in [Signals -> [state : {"none", "active", "exit_pending", "retired"},
                                    quantity : 0..Quantity]]
         /\ order' \in [Signals -> {"none", "inflight", "working", "ended"}]
         /\ UNCHANGED <<registry, journal, ledger, old, emitted, filled, position, sold, replayed>>
BY DEF ProtectiveStops, CancelBuys

\* Tables and broker keep their types.
LEMMA TablesTypedStep == ASSUME EntryInv, [Next]_vars PROVE TablesTyped'
<1> USE EntryNumbers, NoOrderType DEF EntryInv, TypeOK
<1> USE DEF TablesTyped, ProcessTyped, FlagsTyped, RowInHand, Handling, JournalStates,
           NoStop
<1> USE DEF Pending, Current, Owned, Working, CancelBuys, Account, ReadAccount, Fails,
           NextRow, Goto, Return, Raise, Forget, durable, work, broker, bounds
<1>1. ASSUME NEW kind \in {"strategy", "protective"}, BeginCycle(kind) PROVE TablesTyped'
  BY <1>1 DEF BeginCycle
<1>2. ASSUME NEW k \in Signals, Reconcile(k) PROVE TablesTyped'
  BY <1>2 DEF Reconcile
<1>3. ASSUME NEW k \in Signals, PrepareEntry(k) PROVE TablesTyped'
  BY <1>3 DEF PrepareEntry
<1>4. CASE ReadOrder
  BY <1>4 DEF ReadOrder
<1>5. CASE VerifyPosition
  BY <1>5 DEF VerifyPosition, IsPriorDayExternalClose, LedgerTakesFills, BrokerState
<1>6. CASE RecordStop
  BY <1>6 DEF RecordStop, MayRecord, CurrentStops
<1>7. CASE CompleteEntry
  BY <1>7 DEF CompleteEntry
<1>8. CASE EndReconcile
  BY <1>8 DEF EndReconcile
<1>9. CASE RecoverCarryover
  BY <1>9 DEF RecoverCarryover, Carryover
<1>10. CASE ProtectPositions
  <2>1. stop' \in [Signals -> [state : {"none", "active", "exit_pending", "retired"},
                               quantity : 0..Quantity]]
    BY <1>10 DEF ProtectPositions, RetireFlat
  <2> QED
    BY <1>10, <2>1 DEF ProtectPositions
<1>11. CASE ProtectiveStops
  BY <1>11, StopsEffect
<1>12. CASE Evaluate
  BY <1>12 DEF Evaluate
<1>13. CASE Execute
  <2>1. \A o \in Outcomes : /\ o.journal \in JournalStates
                            /\ o.order \in {"none", "inflight", "working", "ended"}
    BY DEF Outcomes
  <2>2. journal' \in [Signals -> JournalStates]
    BY <1>13, <2>1 DEF Execute, NextIntent
  <2>3. order' \in [Signals -> {"none", "inflight", "working", "ended"}]
    BY <1>13, <2>1 DEF Execute, NextIntent
  <2>4. UNCHANGED <<registry, ledger, stop, filled, position, sold>>
    BY <1>13 DEF Execute
  <2> QED
    BY <2>2, <2>3, <2>4
<1>14. CASE EndSubmit
  BY <1>14 DEF EndSubmit
<1>15. CASE Crash
  BY <1>15 DEF Crash
<1>16. CASE Restart
  BY <1>16 DEF Restart, Start
<1>17. CASE NewDay
  BY <1>17 DEF NewDay, Start
<1>18. CASE Expire
  BY <1>18 DEF Expire, process
<1>19. ASSUME NEW k \in Signals, Arrive(k) PROVE TablesTyped'
  BY <1>19 DEF Arrive, BrokerOnly, process
<1>20. ASSUME NEW k \in Signals, NEW n \in 1..Quantity, Fill(k, n) PROVE TablesTyped'
  BY <1>20 DEF Fill, BrokerOnly, process
<1>21. ASSUME NEW k \in Signals, End(k) PROVE TablesTyped'
  BY <1>21 DEF End, BrokerOnly, process
<1>22. ASSUME NEW c \in Codes, Close(c) PROVE TablesTyped'
  BY <1>22 DEF Close, BrokerOnly, process
<1>23. CASE UNCHANGED vars
  BY <1>23 DEF vars
<1> HIDE DEF EntryInv, TablesTyped
<1> QED
  BY <1>1, <1>2, <1>3, <1>4, <1>5, <1>6, <1>7, <1>8, <1>9, <1>10, <1>11, <1>12, <1>13,
     <1>14, <1>15, <1>16, <1>17, <1>18, <1>19, <1>20, <1>21, <1>22, <1>23 DEF Next, ProcessStep

\* So does what the process keeps in memory.
LEMMA ProcessTypedStep == ASSUME EntryInv, [Next]_vars PROVE ProcessTyped'
<1> USE EntryNumbers, NoOrderType DEF EntryInv, TypeOK
<1> USE DEF TablesTyped, ProcessTyped, RowInHand, Handling, Steps
<1> USE DEF Pending, Current, Owned, Working, CancelBuys, Account, ReadAccount, Fails,
           NextRow, Goto, Return, Raise, Forget, durable, work, broker, bounds
<1>1. ASSUME NEW kind \in {"strategy", "protective"}, BeginCycle(kind) PROVE ProcessTyped'
  BY <1>1 DEF BeginCycle
<1>2. ASSUME NEW k \in Signals, Reconcile(k) PROVE ProcessTyped'
  BY <1>2 DEF Reconcile
<1>3. ASSUME NEW k \in Signals, PrepareEntry(k) PROVE ProcessTyped'
  BY <1>3 DEF PrepareEntry
<1>4. CASE ReadOrder
  BY <1>4 DEF ReadOrder
<1>5. CASE VerifyPosition
  BY <1>5 DEF VerifyPosition, IsPriorDayExternalClose, LedgerTakesFills, BrokerState
<1>6. CASE RecordStop
  BY <1>6 DEF RecordStop, MayRecord, CurrentStops
<1>7. CASE CompleteEntry
  BY <1>7 DEF CompleteEntry
<1>8. CASE EndReconcile
  BY <1>8 DEF EndReconcile
<1>9. CASE RecoverCarryover
  BY <1>9 DEF RecoverCarryover, Carryover
<1>10. CASE ProtectPositions
  BY <1>10 DEF ProtectPositions, RetireFlat
<1>11. CASE ProtectiveStops
  BY <1>11 DEF ProtectiveStops
<1>12. CASE Evaluate
  BY <1>12 DEF Evaluate
<1>13. CASE Execute
  BY <1>13 DEF Execute, NextIntent, Outcomes
<1>14. CASE EndSubmit
  BY <1>14 DEF EndSubmit
<1>15. CASE Crash
  BY <1>15 DEF Crash
<1>16. CASE Restart
  BY <1>16 DEF Restart, Start
<1>17. CASE NewDay
  BY <1>17 DEF NewDay, Start
<1>18. CASE Expire
  BY <1>18 DEF Expire, process
<1>19. ASSUME NEW k \in Signals, Arrive(k) PROVE ProcessTyped'
  BY <1>19 DEF Arrive, BrokerOnly, process
<1>20. ASSUME NEW k \in Signals, NEW n \in 1..Quantity, Fill(k, n) PROVE ProcessTyped'
  BY <1>20 DEF Fill, BrokerOnly, process
<1>21. ASSUME NEW k \in Signals, End(k) PROVE ProcessTyped'
  BY <1>21 DEF End, BrokerOnly, process
<1>22. ASSUME NEW c \in Codes, Close(c) PROVE ProcessTyped'
  BY <1>22 DEF Close, BrokerOnly, process
<1>23. CASE UNCHANGED vars
  BY <1>23 DEF vars
<1> HIDE DEF EntryInv, ProcessTyped
<1> QED
  BY <1>1, <1>2, <1>3, <1>4, <1>5, <1>6, <1>7, <1>8, <1>9, <1>10, <1>11, <1>12, <1>13,
     <1>14, <1>15, <1>16, <1>17, <1>18, <1>19, <1>20, <1>21, <1>22, <1>23 DEF Next, ProcessStep

\* So does what it knows of the row in hand.
LEMMA FlagsTypedStep == ASSUME EntryInv, [Next]_vars PROVE FlagsTyped'
<1> USE EntryNumbers, NoOrderType DEF EntryInv, TypeOK
<1> USE DEF TablesTyped, FlagsTyped, ProcessTyped, RowInHand, Handling
<1> USE DEF Pending, Current, Owned, Working, CancelBuys, Account, ReadAccount, Fails,
           NextRow, Goto, Return, Raise, Forget, durable, work, broker, bounds
<1>1. ASSUME NEW kind \in {"strategy", "protective"}, BeginCycle(kind) PROVE FlagsTyped'
  BY <1>1 DEF BeginCycle
<1>2. ASSUME NEW k \in Signals, Reconcile(k) PROVE FlagsTyped'
  BY <1>2 DEF Reconcile
<1>3. ASSUME NEW k \in Signals, PrepareEntry(k) PROVE FlagsTyped'
  BY <1>3 DEF PrepareEntry
<1>4. CASE ReadOrder
  <2>1. CASE NextRow(TRUE)
    BY <2>1
  <2>2. CASE pc' = "position"
    <3>1. (order[item] = "ended") \in BOOLEAN /\ filled[item] \in 0..Quantity
      BY <1>4 DEF ReadOrder
    <3>2. seen' = [ended |-> order[item] = "ended", cum |-> filled[item]]
          /\ UNCHANGED <<blocked, started>>
      BY <1>4, <2>2 DEF ReadOrder
    <3> HIDE DEF TablesTyped, ProcessTyped, RowInHand, Handling
    <3>3. seen' \in [ended : BOOLEAN, cum : 0..Quantity]
      BY Zenon, <3>1, <3>2
    <3> QED
      BY <3>2, <3>3
  <2> QED
    BY <1>4, <2>1, <2>2 DEF ReadOrder
<1>5. CASE VerifyPosition
  BY <1>5 DEF VerifyPosition, IsPriorDayExternalClose, LedgerTakesFills, BrokerState
<1>6. CASE RecordStop
  BY <1>6 DEF RecordStop, MayRecord, CurrentStops
<1>7. CASE CompleteEntry
  BY <1>7 DEF CompleteEntry
<1>8. CASE EndReconcile
  BY <1>8 DEF EndReconcile
<1>9. CASE RecoverCarryover
  BY <1>9 DEF RecoverCarryover, Carryover
<1>10. CASE ProtectPositions
  BY <1>10 DEF ProtectPositions, RetireFlat
<1>11. CASE ProtectiveStops
  <2>1. UNCHANGED <<seen, blocked, started>> \/ Forget
    BY <1>11 DEF ProtectiveStops
  <2> QED
    BY <2>1
<1>12. CASE Evaluate
  <2>1. UNCHANGED <<seen, blocked, started>> \/ Forget
    BY <1>12 DEF Evaluate
  <2> QED
    BY <2>1
<1>13. CASE Execute
  BY <1>13 DEF Execute, NextIntent, Outcomes
<1>14. CASE EndSubmit
  BY <1>14 DEF EndSubmit
<1>15. CASE Crash
  BY <1>15 DEF Crash
<1>16. CASE Restart
  BY <1>16 DEF Restart, Start
<1>17. CASE NewDay
  BY <1>17 DEF NewDay, Start
<1>18. CASE Expire
  BY <1>18 DEF Expire, process
<1>19. ASSUME NEW k \in Signals, Arrive(k) PROVE FlagsTyped'
  BY <1>19 DEF Arrive, BrokerOnly, process
<1>20. ASSUME NEW k \in Signals, NEW n \in 1..Quantity, Fill(k, n) PROVE FlagsTyped'
  BY <1>20 DEF Fill, BrokerOnly, process
<1>21. ASSUME NEW k \in Signals, End(k) PROVE FlagsTyped'
  BY <1>21 DEF End, BrokerOnly, process
<1>22. ASSUME NEW c \in Codes, Close(c) PROVE FlagsTyped'
  BY <1>22 DEF Close, BrokerOnly, process
<1>23. CASE UNCHANGED vars
  BY <1>23 DEF vars
<1> HIDE DEF EntryInv, FlagsTyped
<1> QED
  BY <1>1, <1>2, <1>3, <1>4, <1>5, <1>6, <1>7, <1>8, <1>9, <1>10, <1>11, <1>12, <1>13,
     <1>14, <1>15, <1>16, <1>17, <1>18, <1>19, <1>20, <1>21, <1>22, <1>23 DEF Next, ProcessStep

\* What a cycle knows of the row in hand survives whatever the broker does, and
\* the cycle's own steps.
LEMMA RowInHandStep == ASSUME EntryInv, [Next]_vars PROVE RowInHand'
<1> USE EntryNumbers, NoOrderType DEF EntryInv, TypeOK
<1> USE DEF TablesTyped, FlagsTyped, ProcessTyped, RowInHand, Books, SoldOrListed,
           Handling, Reconciling, Buying
<1> USE DEF Pending, Current, Owned, Working, CancelBuys, Account, ReadAccount, Fails,
           NextRow, Goto, Return, Raise, Forget, durable, work, broker, bounds
<1>1. ASSUME NEW kind \in {"strategy", "protective"}, BeginCycle(kind) PROVE RowInHand'
  BY <1>1 DEF BeginCycle
<1>2. ASSUME NEW k \in Signals, Reconcile(k) PROVE RowInHand'
  BY <1>2 DEF Reconcile
<1>3. ASSUME NEW k \in Signals, PrepareEntry(k) PROVE RowInHand'
  BY <1>3 DEF PrepareEntry
<1>4. CASE ReadOrder
  <2>1. CASE NextRow(TRUE)
    BY <1>4, <2>1 DEF ReadOrder
  <2>2. CASE pc' = "position"
    <3>1. seen'.ended = (order[item] = "ended") /\ seen'.cum = filled[item]
      BY <1>4, <2>2 DEF ReadOrder
    <3>2. filled[item] \in Nat /\ (item \in old => order[item] = "ended")
      BY <1>4 DEF ReadOrder
    <3>3. /\ pc = "order" /\ pc' = "position"
          /\ UNCHANGED <<registry, journal, order, filled, todo, item, old>>
      BY <1>4, <2>2 DEF ReadOrder
    <3> HIDE DEF TablesTyped, FlagsTyped, ProcessTyped, RowInHand, Books, SoldOrListed
    <3>4. (seen'.ended => order'[item'] = "ended") /\ (item' \in old' => seen'.ended)
      BY Zenon, <3>1, <3>2, <3>3
    <3>5. seen'.cum <= filled'[item'] /\ seen'.cum = filled'[item']
      BY <3>1, <3>2, <3>3
    <3> QED
      BY <3>3, <3>4, <3>5 DEF RowInHand
  <2> QED
    BY <1>4, <2>1, <2>2 DEF ReadOrder
<1>5. CASE VerifyPosition
  BY <1>5 DEF VerifyPosition, IsPriorDayExternalClose, LedgerTakesFills, BrokerState
<1>6. CASE RecordStop
  BY <1>6 DEF RecordStop, MayRecord, CurrentStops
<1>7. CASE CompleteEntry
  BY <1>7 DEF CompleteEntry
<1>8. CASE EndReconcile
  BY <1>8 DEF EndReconcile
<1>9. CASE RecoverCarryover
  BY <1>9 DEF RecoverCarryover, Carryover
<1>10. CASE ProtectPositions
  BY <1>10 DEF ProtectPositions, RetireFlat
<1>11. CASE ProtectiveStops
  BY <1>11 DEF ProtectiveStops
<1>12. CASE Evaluate
  BY <1>12 DEF Evaluate
<1>13. CASE Execute
  BY <1>13 DEF Execute, NextIntent, Outcomes
<1>14. CASE EndSubmit
  BY <1>14 DEF EndSubmit
<1>15. CASE Crash
  BY <1>15 DEF Crash
<1>16. CASE Restart
  BY <1>16 DEF Restart, Start
<1>17. CASE NewDay
  BY <1>17 DEF NewDay, Start
<1>18. CASE Expire
  BY <1>18 DEF Expire, process
<1>19. ASSUME NEW k \in Signals, Arrive(k) PROVE RowInHand'
  BY <1>19 DEF Arrive, BrokerOnly, process
<1>20. ASSUME NEW k \in Signals, NEW n \in 1..Quantity, Fill(k, n) PROVE RowInHand'
  BY <1>20 DEF Fill, BrokerOnly, process
<1>21. ASSUME NEW k \in Signals, End(k) PROVE RowInHand'
  BY <1>21 DEF End, BrokerOnly, process
<1>22. ASSUME NEW c \in Codes, Close(c) PROVE RowInHand'
  BY <1>22 DEF Close, BrokerOnly, process
<1>23. CASE UNCHANGED vars
  BY <1>23 DEF vars
<1> HIDE DEF EntryInv, RowInHand
<1> QED
  BY <1>1, <1>2, <1>3, <1>4, <1>5, <1>6, <1>7, <1>8, <1>9, <1>10, <1>11, <1>12, <1>13,
     <1>14, <1>15, <1>16, <1>17, <1>18, <1>19, <1>20, <1>21, <1>22, <1>23 DEF Next, ProcessStep

\* The books keep up with the broker: a row is given up only when another one, or
\* a stop, has the shares.
LEMMA BooksStep == ASSUME EntryInv, [Next]_vars PROVE Books'
<1> USE EntryNumbers, NoOrderType DEF EntryInv, TypeOK
<1> USE DEF TablesTyped, FlagsTyped, ProcessTyped, RowInHand, Books, SoldOrListed,
           Handling, Reconciling, Buying, NoStop
<1> USE DEF Pending, Current, Owned, Working, CancelBuys, Account, ReadAccount, Fails,
           NextRow, Goto, Return, Raise, Forget, durable, work, broker, bounds
<1>1. ASSUME NEW kind \in {"strategy", "protective"}, BeginCycle(kind) PROVE Books'
  BY <1>1 DEF BeginCycle
<1>2. ASSUME NEW k \in Signals, Reconcile(k) PROVE Books'
  BY <1>2 DEF Reconcile
<1>3. ASSUME NEW k \in Signals, PrepareEntry(k) PROVE Books'
  BY <1>3 DEF PrepareEntry
<1>4. CASE ReadOrder
  BY <1>4 DEF ReadOrder
<1>5. CASE VerifyPosition
  BY <1>5 DEF VerifyPosition, IsPriorDayExternalClose, LedgerTakesFills, BrokerState
<1>6. CASE RecordStop
  <2>1. CASE /\ MayRecord
             /\ stop' = [stop EXCEPT ![item] = [state |-> "active", quantity |-> seen.cum]]
    <3>1. /\ stop'[item].state = "active" /\ stop'[item].quantity = seen.cum
          /\ \A k \in Signals \ {item} : stop'[k] = stop[k]
      BY <1>6, <2>1 DEF RecordStop
    <3>2. \A k \in Signals : CodeOf[k] = CodeOf[item] /\ Current(k) => k = item
      BY <1>6, <2>1 DEF RecordStop, MayRecord, CurrentStops
    <3> QED
      BY <1>6, <2>1, <3>1, <3>2 DEF RecordStop
  <2>2. CASE UNCHANGED stop
    BY <1>6, <2>2 DEF RecordStop
  <2> QED
    BY <1>6, <2>1, <2>2 DEF RecordStop
<1>7. CASE CompleteEntry
  BY <1>7 DEF CompleteEntry
<1>8. CASE EndReconcile
  BY <1>8 DEF EndReconcile
<1>9. CASE RecoverCarryover
  BY <1>9 DEF RecoverCarryover, Carryover
<1>10. CASE ProtectPositions
  <2>1. CASE UNCHANGED <<stop, cache>>
    BY <1>10, <2>1 DEF ProtectPositions
  <2>2. CASE ReadAccount /\ RetireFlat
    <3>1. \A k \in Signals :
            \/ stop'[k] = stop[k]
            \/ /\ Account[CodeOf[k]] = 0 /\ stop'[k].state = "retired"
               /\ stop'[k].quantity = stop[k].quantity
      BY <2>2 DEF RetireFlat
    <3>2. /\ UNCHANGED <<registry, journal, old, order, filled, position, sold, replayed>>
          /\ cache' = Account
      BY <1>10, <2>2 DEF ProtectPositions
    <3>3. \A k \in Signals :
            /\ stop'[k].quantity <= filled[k]
            /\ stop'[k].state = "none" => stop'[k].quantity = 0
            /\ Current(k)' => Current(k) /\ stop'[k] = stop[k]
      BY <3>1
    <3>4. \A c \in Codes, k \in Signals : CodeOf[k] = c /\ cache'[c] = 0 =>
            SoldOrListed(k) /\ (Current(k) => stop[k].quantity <= sold[k])
      BY <3>2
    <3>5. \A k \in Signals : sold[k] < filled[k] =>
            registry[k] = "pending" \/ Current(k)' \/ k \in replayed
      BY <3>1, <3>4
    <3>6. \A j, k \in Signals : Current(j)' /\ Current(k)' /\ CodeOf[j] = CodeOf[k] => j = k
      BY <3>3
    <3> QED
      BY <3>2, <3>3, <3>4, <3>5, <3>6
  <2> QED
    BY <1>10, <2>1, <2>2 DEF ProtectPositions
<1>11. CASE ProtectiveStops
  BY <1>11 DEF ProtectiveStops
<1>12. CASE Evaluate
  <2>1. ASSUME NEW c \in Codes, NEW k \in Signals, CodeOf[k] = c, cache' # NoSnapshot,
               cache'[c] = 0
        PROVE  SoldOrListed(k) /\ (Current(k) => stop[k].quantity <= sold[k])
    <3>1. cache' = cache \/ cache' = position
      BY <1>12, EvaluateEffect
    <3> QED
      BY <2>1, <3>1
  <2>2. \A k \in Signals : /\ stop'[k].quantity = stop[k].quantity
                           /\ Current(k)' <=> Current(k)
                           /\ stop'[k].state = "none" <=> stop[k].state = "none"
    BY <1>12, EvaluateEffect
  <2>3. UNCHANGED <<registry, journal, old, filled, position, sold, replayed>>
    BY <1>12, EvaluateEffect
  <2>4. \A k \in Signals : order'[k] # order[k] =>
          order[k] = "working" /\ order'[k] = "ended"
    BY <1>12, EvaluateEffect
  <2> QED
    BY <2>1, <2>2, <2>3, <2>4
<1>13. CASE Execute
  BY <1>13 DEF Execute, NextIntent, Outcomes
<1>14. CASE EndSubmit
  BY <1>14 DEF EndSubmit
<1>15. CASE Crash
  BY <1>15 DEF Crash
<1>16. CASE Restart
  BY <1>16 DEF Restart, Start
<1>17. CASE NewDay
  BY <1>17 DEF NewDay, Start
<1>18. CASE Expire
  BY <1>18 DEF Expire, process
<1>19. ASSUME NEW k \in Signals, Arrive(k) PROVE Books'
  BY <1>19 DEF Arrive, BrokerOnly, process
<1>20. ASSUME NEW k \in Signals, NEW n \in 1..Quantity, Fill(k, n) PROVE Books'
  BY <1>20 DEF Fill, BrokerOnly, process
<1>21. ASSUME NEW k \in Signals, End(k) PROVE Books'
  BY <1>21 DEF End, BrokerOnly, process
<1>22. ASSUME NEW c \in Codes, Close(c) PROVE Books'
  BY <1>22 DEF Close, BrokerOnly, process
<1>23. CASE UNCHANGED vars
  BY <1>23 DEF vars
<1> HIDE DEF EntryInv, Books
<1> QED
  BY <1>1, <1>2, <1>3, <1>4, <1>5, <1>6, <1>7, <1>8, <1>9, <1>10, <1>11, <1>12, <1>13,
     <1>14, <1>15, <1>16, <1>17, <1>18, <1>19, <1>20, <1>21, <1>22, <1>23 DEF Next, ProcessStep

\* An unresolved row is carried along as `blocked` until the cycle ends.
LEMMA TroubleStep == ASSUME EntryInv, [Next]_vars PROVE Trouble'
<1> USE EntryNumbers, NoOrderType DEF EntryInv, TypeOK
<1> USE DEF TablesTyped, FlagsTyped, ProcessTyped, RowInHand, Trouble, Handling,
           Reconciling, Buying
<1> USE DEF Pending, Current, Owned, Working, CancelBuys, Account, ReadAccount, Fails,
           NextRow, Goto, Return, Raise, Forget, durable, work, broker, bounds
<1>1. ASSUME NEW kind \in {"strategy", "protective"}, BeginCycle(kind) PROVE Trouble'
  BY <1>1 DEF BeginCycle
<1>2. ASSUME NEW k \in Signals, Reconcile(k) PROVE Trouble'
  BY <1>2 DEF Reconcile
<1>3. ASSUME NEW k \in Signals, PrepareEntry(k) PROVE Trouble'
  BY <1>3 DEF PrepareEntry
<1>4. CASE ReadOrder
  BY <1>4 DEF ReadOrder
<1>5. CASE VerifyPosition
  BY <1>5 DEF VerifyPosition, IsPriorDayExternalClose, LedgerTakesFills, BrokerState
<1>6. CASE RecordStop
  BY <1>6 DEF RecordStop, MayRecord, CurrentStops
<1>7. CASE CompleteEntry
  BY <1>7 DEF CompleteEntry
<1>8. CASE EndReconcile
  BY <1>8 DEF EndReconcile
<1>9. CASE RecoverCarryover
  BY <1>9 DEF RecoverCarryover, Carryover
<1>10. CASE ProtectPositions
  BY <1>10 DEF ProtectPositions, RetireFlat
<1>11. CASE ProtectiveStops
  BY <1>11 DEF ProtectiveStops
<1>12. CASE Evaluate
  BY <1>12 DEF Evaluate
<1>13. CASE Execute
  BY <1>13 DEF Execute, NextIntent, Outcomes
<1>14. CASE EndSubmit
  BY <1>14 DEF EndSubmit
<1>15. CASE Crash
  BY <1>15 DEF Crash
<1>16. CASE Restart
  BY <1>16 DEF Restart, Start
<1>17. CASE NewDay
  BY <1>17 DEF NewDay, Start
<1>18. CASE Expire
  BY <1>18 DEF Expire, process
<1>19. ASSUME NEW k \in Signals, Arrive(k) PROVE Trouble'
  BY <1>19 DEF Arrive, BrokerOnly, process
<1>20. ASSUME NEW k \in Signals, NEW n \in 1..Quantity, Fill(k, n) PROVE Trouble'
  BY <1>20 DEF Fill, BrokerOnly, process
<1>21. ASSUME NEW k \in Signals, End(k) PROVE Trouble'
  BY <1>21 DEF End, BrokerOnly, process
<1>22. ASSUME NEW c \in Codes, Close(c) PROVE Trouble'
  BY <1>22 DEF Close, BrokerOnly, process
<1>23. CASE UNCHANGED vars
  BY <1>23 DEF vars
<1> HIDE DEF EntryInv, Trouble
<1> QED
  BY <1>1, <1>2, <1>3, <1>4, <1>5, <1>6, <1>7, <1>8, <1>9, <1>10, <1>11, <1>12, <1>13,
     <1>14, <1>15, <1>16, <1>17, <1>18, <1>19, <1>20, <1>21, <1>22, <1>23 DEF Next, ProcessStep

\* A BUY of today is registered only after the last row and stop of an earlier day
\* are gone.
LEMMA OneDayStep == ASSUME EntryInv, [Next]_vars PROVE OneDay'
<1> USE EntryNumbers, NoOrderType DEF EntryInv, TypeOK
<1> USE DEF TablesTyped, FlagsTyped, ProcessTyped, RowInHand, Books, OneDay, NothingOld, Handling,
           Reconciling, Buying
<1> USE DEF Pending, Current, Owned, Working, CancelBuys, Account, ReadAccount, Fails,
           NextRow, Goto, Return, Raise, Forget, durable, work, broker, bounds
<1>1. ASSUME NEW kind \in {"strategy", "protective"}, BeginCycle(kind) PROVE OneDay'
  BY <1>1 DEF BeginCycle
<1>2. ASSUME NEW k \in Signals, Reconcile(k) PROVE OneDay'
  BY <1>2 DEF Reconcile
<1>3. ASSUME NEW k \in Signals, PrepareEntry(k) PROVE OneDay'
  BY <1>3 DEF PrepareEntry
<1>4. CASE ReadOrder
  <2>1. CASE NextRow(TRUE)
    BY <1>4, <2>1 DEF ReadOrder
  <2>2. CASE pc' = "position"
    BY <1>4, <2>2 DEF ReadOrder
  <2> QED
    BY <1>4, <2>1, <2>2 DEF ReadOrder
<1>5. CASE VerifyPosition
  BY <1>5 DEF VerifyPosition, IsPriorDayExternalClose, LedgerTakesFills, BrokerState
<1>6. CASE RecordStop
  <2>1. CASE /\ MayRecord
             /\ stop' = [stop EXCEPT ![item] = [state |-> "active", quantity |-> seen.cum]]
    <3>1. \A k \in Signals \ {item} : stop'[k] = stop[k]
      BY <1>6, <2>1 DEF RecordStop
    <3> QED
      BY <1>6, <2>1, <3>1 DEF RecordStop
  <2>2. CASE UNCHANGED stop
    BY <1>6, <2>2 DEF RecordStop
  <2> QED
    BY <1>6, <2>1, <2>2 DEF RecordStop
<1>7. CASE CompleteEntry
  BY <1>7 DEF CompleteEntry
<1>8. CASE EndReconcile
  BY <1>8 DEF EndReconcile
<1>9. CASE RecoverCarryover
  BY <1>9 DEF RecoverCarryover, Carryover
<1>10. CASE ProtectPositions
  BY <1>10 DEF ProtectPositions, RetireFlat
<1>11. CASE ProtectiveStops
  <2>1. \A k \in Signals : Current(k)' => Current(k)
    BY <1>11 DEF ProtectiveStops
  <2>2. /\ pc \in {"stops", "prebuy"} /\ UNCHANGED <<registry, old>>
        /\ \/ Return
           \/ /\ mode # "protective" /\ UNCHANGED mode
              /\ pc' = IF pc = "stops" THEN "signals" ELSE "submit"
    BY <1>11 DEF ProtectiveStops
  <2>3. NothingOld => NothingOld'
    BY <2>1, <2>2
  <2>4. (\E k \in Signals \ old : registry[k] # "none") => NothingOld
    OBVIOUS
  <2>5. pc' \in {"signals"} \cup Buying => mode' = "strategy" /\ NothingOld'
    <3> HIDE DEF NothingOld
    <3> QED
      BY <2>2, <2>3
  <2>6. pc' \in {"idle", "signals", "submit"}
    BY <2>2
  <2> HIDE DEF NothingOld, EntryInv
  <2>7. ((\E k \in Signals \ old : registry[k] # "none") => NothingOld)'
    BY <2>2, <2>3, <2>4
  <2> QED
    BY <2>5, <2>6, <2>7
<1>12. CASE Evaluate
  <2>1. NothingOld /\ mode = "strategy"
    BY <1>12, EvaluateEffect
  <2>2. NothingOld'
    <3>1. \A k \in Signals : Current(k)' <=> Current(k)
      BY <1>12, EvaluateEffect
    <3>2. UNCHANGED <<registry, old>> /\ old \subseteq Signals
      BY <1>12, EvaluateEffect
    <3> HIDE DEF EntryInv
    <3> QED
      BY <2>1, <3>1, <3>2
  <2>3. pc' = "idle" \/ (pc' = "prebuy" /\ mode' = "strategy")
    BY <1>12, <2>1, EvaluateEffect
  <2> HIDE DEF NothingOld, EntryInv
  <2> QED
    BY <2>2, <2>3
<1>13. CASE Execute
  BY <1>13 DEF Execute, NextIntent, Outcomes
<1>14. CASE EndSubmit
  BY <1>14 DEF EndSubmit
<1>15. CASE Crash
  BY <1>15 DEF Crash
<1>16. CASE Restart
  BY <1>16 DEF Restart, Start
<1>17. CASE NewDay
  BY <1>17 DEF NewDay, Start
<1>18. CASE Expire
  BY <1>18 DEF Expire, process
<1>19. ASSUME NEW k \in Signals, Arrive(k) PROVE OneDay'
  BY <1>19 DEF Arrive, BrokerOnly, process
<1>20. ASSUME NEW k \in Signals, NEW n \in 1..Quantity, Fill(k, n) PROVE OneDay'
  BY <1>20 DEF Fill, BrokerOnly, process
<1>21. ASSUME NEW k \in Signals, End(k) PROVE OneDay'
  BY <1>21 DEF End, BrokerOnly, process
<1>22. ASSUME NEW c \in Codes, Close(c) PROVE OneDay'
  BY <1>22 DEF Close, BrokerOnly, process
<1>23. CASE UNCHANGED vars
  BY <1>23 DEF vars
<1> HIDE DEF EntryInv, OneDay
<1> QED
  BY <1>1, <1>2, <1>3, <1>4, <1>5, <1>6, <1>7, <1>8, <1>9, <1>10, <1>11, <1>12, <1>13,
     <1>14, <1>15, <1>16, <1>17, <1>18, <1>19, <1>20, <1>21, <1>22, <1>23 DEF Next, ProcessStep

\* Every step of the cycles, the broker and the clock.
LEMMA EntryStep == EntryInv /\ [Next]_vars => EntryInv'
BY TablesTypedStep, ProcessTypedStep, FlagsTypedStep, RowInHandStep, BooksStep,
   TroubleStep, OneDayStep DEF EntryInv, TypeOK

\* EntryInv holds throughout: the books and the account stay related across the
\* strategy and protective cycles, crashes, restarts and days.
THEOREM EntryInvariance == Spec => []EntryInv
<1>1. Init => EntryInv
  BY EntryInit
<1> QED
  BY <1>1, EntryStep, PTL DEF Spec

\* No share and no order of the system is ever out of its books, those BUYs aside
\* that left with a completed registry row.
THEOREM NothingUntracked == Spec => []NoUntrackedExposure
<1>1. EntryInv => NoUntrackedExposure
  BY DEF EntryInv, Books, NoUntrackedExposure, Current
<1> QED
  BY <1>1, EntryInvariance, PTL

\* A protective stop covers no more than its BUY has filled.
THEOREM StopsAreFilled == Spec => []StopWithinFill
<1>1. EntryInv => StopWithinFill
  BY DEF EntryInv, TypeOK, TablesTyped, Books, StopWithinFill
<1> QED
  BY <1>1, EntryInvariance, PTL

\* A symbol never has two current stops.
THEOREM OneOwner == Spec => []OneOwnerPerCode
<1>1. ASSUME EntryInv, NEW c \in Codes PROVE Cardinality(CurrentStops(c)) <= 1
  <2>1. CASE CurrentStops(c) = {}
    BY <2>1, FS_EmptySet
  <2>2. CASE CurrentStops(c) # {}
    <3>1. PICK k \in CurrentStops(c) : TRUE
      BY <2>2
    <3>2. CurrentStops(c) = {k}
      BY <1>1, <3>1 DEF EntryInv, Books, CurrentStops
    <3> QED
      BY <3>2, FS_Singleton
  <2> QED
    BY <2>1, <2>2
<1>2. EntryInv => OneOwnerPerCode
  BY <1>1 DEF OneOwnerPerCode
<1> QED
  BY <1>2, EntryInvariance, PTL

\* Ownership of an earlier day and of today never coexist.
THEOREM DaysApart == Spec => []OwnershipOfOneDay
<1>1. EntryInv => OwnershipOfOneDay
  BY DEF EntryInv, Books, OneDay, NothingOld, OwnershipOfOneDay, Carryover, Owned
<1> QED
  BY <1>1, EntryInvariance, PTL

\* Only the submission lets an order leave.
LEMMA OnlyExecuteSends ==
  ASSUME EntryInv, [Next]_vars, ~Execute, NEW k \in Signals, order[k] = "none"
  PROVE  order'[k] = "none"
<1> USE EntryNumbers DEF EntryInv, TypeOK, TablesTyped, durable, work, broker, bounds
<1>1. CASE RecoverCarryover
  BY <1>1 DEF RecoverCarryover, Working, CancelBuys
<1>2. CASE ProtectiveStops
  BY <1>2 DEF ProtectiveStops, Working, CancelBuys
<1>3. CASE Evaluate
  BY <1>3 DEF Evaluate, Working, CancelBuys
<1>4. CASE \E kind \in {"strategy", "protective"} : BeginCycle(kind)
  BY <1>4 DEF BeginCycle
<1>5. CASE \E j \in Signals : Reconcile(j) \/ PrepareEntry(j)
  BY <1>5 DEF Reconcile, PrepareEntry
<1>6. CASE ReadOrder \/ VerifyPosition \/ RecordStop \/ CompleteEntry \/ EndReconcile
           \/ ProtectPositions \/ EndSubmit
  BY <1>6 DEF ReadOrder, VerifyPosition, RecordStop, CompleteEntry, EndReconcile,
              ProtectPositions, EndSubmit
<1>7. CASE Crash \/ Restart \/ NewDay \/ Expire \/ UNCHANGED vars
  BY <1>7 DEF Crash, Restart, NewDay, Expire, vars
<1>8. CASE \E j \in Signals : Arrive(j) \/ End(j) \/ \E n \in 1..Quantity : Fill(j, n)
  BY <1>8 DEF Arrive, End, Fill
<1>9. CASE \E c \in Codes : Close(c)
  BY <1>9 DEF Close
<1> QED
  BY <1>1, <1>2, <1>3, <1>4, <1>5, <1>6, <1>7, <1>8, <1>9 DEF Next, ProcessStep

\* A BUY leaves only when what was pending before its cycle is SUBMITTED.
THEOREM TroubleBlocks == Spec => OldTroubleBlocks
<1>1. ASSUME EntryInv, [Next]_vars, NEW k \in Signals, order[k] = "none", order'[k] # "none",
             NEW j \in Signals \ intents, registry[j] = "pending"
      PROVE  journal[j] = "submitted"
  <2>1. Execute
    BY <1>1, OnlyExecuteSends
  <2> QED
    BY <1>1, <2>1 DEF Execute, EntryInv, Trouble, Buying, Pending
<1>2. EntryInv /\ [Next]_vars =>
        [\A k \in Signals : order[k] = "none" /\ order'[k] # "none"
           => \A j \in Signals \ intents : registry[j] = "pending" => journal[j] = "submitted"]_vars
  BY <1>1
<1> QED
  BY <1>2, EntryInvariance, PTL DEF Spec, OldTroubleBlocks

\* A part of a BUY that stays as it is makes the step of GuardedEntries for it.
LEMMA PartsOfStep ==
  ASSUME NEW k \in Signals
  PROVE  /\ registry'[k] = registry[k] => Guarded!List(k)
         /\ Life(k)' \in {Life(k), "over"} => Guarded!Send(k)
         /\ filled'[k] = filled[k] /\ sold'[k] \in sold[k]..filled'[k] => Guarded!Trade(k)
         /\ stop'[k].state = stop[k].state /\ stop'[k].quantity = stop[k].quantity
              => Guarded!Guard(k)
         /\ old' = old => Guarded!Pass(k) /\ (k \in old => k \in old')
BY DEF Guarded!List, Guarded!Send, Guarded!Trade, Guarded!Guard, Guarded!Pass

\* An account without the symbol, as it was read, means that the shares a current
\* stop is for have been sold.
LEMMA EmptyIsSold ==
  ASSUME EntryInv, NEW k \in Signals, Current(k), Account[CodeOf[k]] = 0
  PROVE  sold[k] >= stop[k].quantity
<1> USE EntryNumbers DEF EntryInv, TypeOK, TablesTyped
<1>1. CodeOf[k] \in Codes /\ {sold[k], filled[k], stop[k].quantity} \subseteq Nat
  OBVIOUS
<1>2. CASE cache = NoSnapshot
  <2>1. sold[k] = filled[k] /\ stop[k].quantity <= filled[k]
    BY <1>1, <1>2 DEF Account, Books
  <2> QED
    BY <1>1, <2>1
<1>3. CASE cache # NoSnapshot
  <2>1. stop[k].quantity <= sold[k]
    BY <1>1, <1>3 DEF Account, Books
  <2> QED
    BY <1>1, <2>1
<1> QED
  BY <1>2, <1>3

\* A stop that is current guards its symbol.
LEMMA GuardsAreStops ==
  ASSUME NEW c \in Codes
  PROVE  Guarded!Guards(c) = CurrentStops(c)
BY DEF Guarded!Guards, CurrentStops, Current

\* Shares are sold with the whole position of their symbol.
LEMMA SalesAreWhole ==
  ASSUME EntryInv, [Next]_vars, NEW k \in Signals
  PROVE  sold'[k] = sold[k] \/ sold'[k] = filled[k]
<1> USE DEF durable, work, broker, bounds
<1>1. ASSUME NEW c \in Codes, Close(c) PROVE sold'[k] = sold[k] \/ sold'[k] = filled[k]
  BY <1>1 DEF Close
<1>2. ASSUME NEW j \in Signals, NEW n \in 1..Quantity, Fill(j, n) PROVE sold' = sold
  BY <1>2 DEF Fill
<1>3. CASE ProcessStep
  BY <1>3 DEF ProcessStep, BeginCycle, Reconcile, PrepareEntry, ReadOrder, VerifyPosition,
     RecordStop, CompleteEntry, EndReconcile, RecoverCarryover, ProtectPositions,
     ProtectiveStops, Evaluate, Execute, EndSubmit
<1>4. CASE Crash \/ Restart \/ NewDay \/ Expire \/ UNCHANGED vars
  BY <1>4 DEF Crash, Restart, NewDay, Start, Expire, vars
<1>5. CASE \E j \in Signals : Arrive(j) \/ End(j)
  BY <1>5 DEF Arrive, End
<1> QED
  BY <1>1, <1>2, <1>3, <1>4, <1>5 DEF Next

\* Every step of the cycles, the broker and the clock is a step of GuardedEntries for
\* each BUY that did not leave with a completed row.
LEMMA EntriesRefined ==
  ASSUME EntryInv, EntryInv', [Next]_vars, NEW k \in Signals, k \notin replayed'
  PROVE  Guarded!Step(k)
<1> USE DEF durable, work, broker, bounds
<1>0. /\ registry \in [Signals -> {"none", "pending", "complete"}]
      /\ journal \in [Signals -> JournalStates]
      /\ stop \in [Signals -> [state : {"none", "active", "exit_pending", "retired"},
                               quantity : 0..Quantity]]
      /\ order \in [Signals -> {"none", "inflight", "working", "ended"}]
      /\ filled \in [Signals -> 0..Quantity] /\ position \in [Codes -> Nat]
      /\ CodeOf \in [Signals -> Codes] /\ Quantity \in Nat
  BY EntryNumbers DEF EntryInv, TypeOK, TablesTyped
<1> DEFINE Lists  == Guarded!List(k)
           Sends  == Guarded!Send(k)
           Trades == Guarded!Trade(k)
           Guards == Guarded!Guard(k)
           Passes == Guarded!Pass(k) /\ (k \in old => k \in old')
<1>s. ASSUME Lists, Sends, Trades, Guards, Passes PROVE Guarded!Step(k)
  BY <1>s DEF Guarded!Step
<1>p. /\ registry'[k] = registry[k] => Lists
      /\ Life(k)' \in {Life(k), "over"} => Sends
      /\ filled'[k] = filled[k] /\ sold'[k] \in sold[k]..filled'[k] => Trades
      /\ stop'[k].state = stop[k].state /\ stop'[k].quantity = stop[k].quantity => Guards
      /\ old' = old => Passes
  BY PartsOfStep
<1>b. sold'[k] \in sold[k]..filled'[k]
  <2>1. /\ sold[k] \in Nat /\ sold[k] <= filled[k] /\ filled[k] \in Nat
        /\ sold'[k] \in Nat /\ sold'[k] <= filled'[k] /\ filled'[k] \in Nat
    BY <1>0 DEF EntryInv, TypeOK, TablesTyped, Books
  <2>2. sold'[k] = sold[k] \/ sold'[k] = filled[k]
    BY SalesAreWhole
  <2> QED
    BY <2>1, <2>2
<1>q. ASSUME UNCHANGED journal, order'[k] \in {order[k], "ended"} PROVE Sends
  <2>1. Life(k)' \in {Life(k), "over"}
    BY <1>q DEF Life
  <2> QED
    BY <2>1, <1>p
<1>g. ASSUME Current(k), Account[CodeOf[k]] = 0, stop'[k].state = "retired",
             stop'[k].quantity = stop[k].quantity
      PROVE  Guards
  <2>1. sold[k] >= stop[k].quantity
    BY <1>g, EmptyIsSold
  <2>2. stop[k].state \in {"active", "exit_pending"}
    BY <1>g DEF Current
  <2> QED
    BY <1>g, <2>1, <2>2 DEF Guarded!Guard
<1>c. ASSUME stop[k].state = "active", stop'[k].state = "exit_pending",
             stop'[k].quantity = stop[k].quantity
      PROVE  Guards
  BY <1>c DEF Guarded!Guard
<1> HIDE DEF Lists, Sends, Trades, Guards, Passes
<1>1. CASE UNCHANGED <<durable, order, filled>>
  BY <1>1, <1>b, <1>p, <1>q, <1>s
<1>2. ASSUME NEW j \in Signals, Reconcile(j) PROVE Guarded!Step(k)
  <2>1. UNCHANGED <<journal, stop, old, order, filled>>
    BY <1>2 DEF Reconcile
  <2>2. CASE registry'[k] = registry[k]
    BY <1>b, <1>p, <1>q, <1>s, <2>1, <2>2
  <2>3. CASE registry'[k] # registry[k]
    <3>1. j = k /\ journal[k] \in {"none", "aborted"} /\ registry'[k] = "complete"
      BY <1>0, <1>2, <2>3 DEF Reconcile
    <3>2. registry[k] = "pending"
      BY <1>2, <3>1 DEF Reconcile, EntryInv, RowInHand, Reconciling, Pending
    <3>3. order[k] = "none" /\ filled[k] = 0 /\ stop[k].quantity = 0
      <4>1. /\ order[k] # "none" => journal[k] \in {"submitted", "unknown", "submission_pending"}
            /\ filled[k] > 0 => order[k] \in {"working", "ended"}
            /\ stop[k].quantity <= filled[k]
        BY DEF EntryInv, Books
      <4>2. filled[k] \in Nat /\ stop[k].quantity \in Nat
        BY <1>0
      <4> QED
        BY <3>1, <4>1, <4>2
    <3>4. Life(k) # "open"
      BY <3>1, <3>3 DEF Life
    <3>5. Lists
      BY <3>1, <3>2, <3>3, <3>4 DEF Lists, Guarded!List
    <3> QED
      BY <1>b, <1>p, <1>q, <1>s, <2>1, <3>5
  <2> QED
    BY <2>2, <2>3
<1>3. ASSUME NEW j \in Signals, PrepareEntry(j) PROVE Guarded!Step(k)
  <2>1. UNCHANGED <<journal, stop, old, order, filled>>
    BY <1>3 DEF PrepareEntry
  <2>2. registry'[k] = registry[k] \/ (registry[k] = "none" /\ registry'[k] = "pending")
    BY <1>0, <1>3 DEF PrepareEntry
  <2>3. Lists
    BY <1>b, <1>p, <2>2 DEF Lists, Guarded!List
  <2> QED
    BY <1>b, <1>p, <1>q, <1>s, <2>1, <2>3
<1>4. CASE VerifyPosition \/ ReadOrder \/ EndReconcile \/ EndSubmit
  <2>1. UNCHANGED <<registry, journal, stop, old, order, filled>>
    BY <1>4 DEF VerifyPosition, ReadOrder, EndReconcile, EndSubmit
  <2> QED
    BY <1>b, <1>p, <1>q, <1>s, <2>1
<1>5. CASE RecordStop
  <2>1. UNCHANGED <<registry, journal, old, order, filled>>
    BY <1>5 DEF RecordStop
  <2>2. CASE stop'[k] = stop[k]
    BY <1>b, <1>p, <1>q, <1>s, <2>1, <2>2
  <2>3. CASE stop'[k] # stop[k]
    <3>0. /\ MayRecord
          /\ stop' = [stop EXCEPT ![item] = [state |-> "active", quantity |-> seen.cum]]
      BY <1>5, <2>3, Zenon DEF RecordStop
    <3>1. item = k /\ MayRecord /\ stop'[k].state = "active" /\ stop'[k].quantity = seen.cum
      BY <1>0, <2>3, <3>0
    <3>2. registry[k] = "pending" /\ seen.cum <= filled[k]
      BY <1>5, <3>1 DEF RecordStop, EntryInv, RowInHand, Handling
    <3>3. seen.cum \in Nat
      BY <1>0 DEF EntryInv, TypeOK, FlagsTyped
    <3>4. stop[k].state = "none" => stop[k].quantity = 0
      BY DEF EntryInv, Books
    <3>5. stop[k].quantity <= seen.cum
      BY <1>0, <3>1, <3>3, <3>4 DEF MayRecord
    <3>6. /\ CodeOf[k] \in Codes
          /\ stop[k].state = "active" \/ (stop[k].state = "none" /\ CurrentStops(CodeOf[k]) = {})
      BY <1>0, <3>1, Zenon DEF MayRecord
    <3>7. stop[k].state = "active" \/ (stop[k].state = "none" /\ Guarded!Guards(CodeOf[k]) = {})
      BY <3>6, GuardsAreStops
    <3>8. seen.cum \in stop[k].quantity..filled[k]
      BY <1>0, <3>2, <3>3, <3>5
    <3>9. Guards
      BY <3>1, <3>2, <3>7, <3>8 DEF Guards, Guarded!Guard
    <3> QED
      BY <1>b, <1>p, <1>q, <1>s, <2>1, <3>9
  <2> QED
    BY <2>2, <2>3
<1>6. CASE CompleteEntry
  <2>1. UNCHANGED <<journal, stop, old, order, filled>>
    BY <1>6 DEF CompleteEntry
  <2>2. CASE registry'[k] = registry[k]
    BY <1>b, <1>p, <1>q, <1>s, <2>1, <2>2
  <2>3. CASE registry'[k] # registry[k]
    <3>1. item = k /\ registry'[k] = "complete" /\ pc = "complete"
      BY <1>0, <1>6, <2>3 DEF CompleteEntry
    <3>2. /\ registry[k] = "pending" /\ journal[k] = "submitted" /\ order[k] = "ended"
          /\ stop[k].quantity = filled[k] \/ (k \in old /\ sold[k] = filled[k])
      BY <3>1 DEF EntryInv, RowInHand, Handling
    <3>3. Life(k) # "open"
      BY <3>2 DEF Life
    <3>4. Lists
      BY <3>1, <3>2, <3>3 DEF Lists, Guarded!List
    <3> QED
      BY <1>b, <1>p, <1>q, <1>s, <2>1, <3>4
  <2> QED
    BY <2>2, <2>3
<1>7. CASE RecoverCarryover
  <2>1. UNCHANGED <<registry, journal, stop, old, filled>>
    BY <1>7 DEF RecoverCarryover
  <2>2. order'[k] \in {order[k], "ended"}
    BY <1>7 DEF RecoverCarryover, CancelBuys
  <2> QED
    BY <1>b, <1>p, <1>q, <1>s, <2>1, <2>2
<1>8. CASE ProtectPositions
  <2>1. UNCHANGED <<registry, journal, old, order, filled>>
    BY <1>8 DEF ProtectPositions
  <2>2. CASE stop'[k] = stop[k]
    BY <1>b, <1>p, <1>q, <1>s, <2>1, <2>2
  <2>3. CASE stop'[k] # stop[k]
    <3>1. /\ Current(k) /\ Account[CodeOf[k]] = 0 /\ stop'[k].state = "retired"
          /\ stop'[k].quantity = stop[k].quantity
      BY <1>0, <1>8, <2>3 DEF ProtectPositions, RetireFlat, Owned
    <3> QED
      BY <1>b, <1>g, <1>p, <1>q, <1>s, <2>1, <3>1
  <2> QED
    BY <2>2, <2>3
<1>9. CASE ProtectiveStops
  <2>1. UNCHANGED <<registry, journal, old, filled>>
    BY <1>9 DEF ProtectiveStops
  <2>2. order'[k] \in {order[k], "ended"}
    BY <1>9 DEF ProtectiveStops, CancelBuys
  <2>3. \/ stop'[k] = stop[k]
        \/ /\ stop'[k].quantity = stop[k].quantity
           /\ \/ stop[k].state = "active" /\ stop'[k].state = "exit_pending"
              \/ Current(k) /\ Account[CodeOf[k]] = 0 /\ stop'[k].state = "retired"
    BY <1>0, <1>9 DEF ProtectiveStops, Owned
  <2> QED
    BY <1>b, <1>c, <1>g, <1>p, <1>q, <1>s, <2>1, <2>2, <2>3
<1>10. CASE Evaluate
  <2>1. UNCHANGED <<registry, journal, old, filled>>
    BY <1>10 DEF Evaluate
  <2>2. order'[k] \in {order[k], "ended"}
    BY <1>10 DEF Evaluate, CancelBuys
  <2>3. \/ stop'[k] = stop[k]
        \/ /\ stop'[k].quantity = stop[k].quantity
           /\ stop[k].state = "active" /\ stop'[k].state = "exit_pending"
    BY <1>0, <1>10 DEF Evaluate
  <2> QED
    BY <1>b, <1>c, <1>p, <1>q, <1>s, <2>1, <2>2, <2>3
<1>11. CASE Execute
  <2>1. UNCHANGED <<registry, stop, old, filled>>
    BY <1>11 DEF Execute
  <2>2. CASE journal'[k] = journal[k] /\ order'[k] = order[k]
    <3>1. Life(k)' = Life(k)
      BY <2>2 DEF Life
    <3> QED
      BY <1>b, <1>p, <1>s, <2>1, <3>1
  <2>3. CASE ~(journal'[k] = journal[k] /\ order'[k] = order[k])
    <3>1. item = k /\ journal[k] = "none"
      BY <1>0, <1>11, <2>3 DEF Execute
    <3>2. Life(k) = "unsent"
      BY <3>1 DEF Life
    <3>3. order[k] = "none" /\ registry[k] # "none"
      BY <1>0, <1>11, <3>1 DEF Execute, EntryInv, Books, RowInHand
    <3>4. \/ journal'[k] \in {"prepared", "claimed"}
          \/ \E o \in Outcomes :
               /\ journal'[k] = o.journal /\ order'[k] = o.order
               /\ replayed' = IF registry[k] = "complete" /\ o.order # "none"
                              THEN replayed \cup {k} ELSE replayed
      BY <1>0, <1>11, <2>3, <3>1 DEF Execute
    <3>5. Life(k)' \in {"unsent", "over"} \/ (Life(k)' = "open" /\ registry[k] = "pending")
      BY <1>0, <3>3, <3>4 DEF Outcomes, Life
    <3>6. Sends
      BY <3>2, <3>5 DEF Sends, Guarded!Send
    <3> QED
      BY <1>b, <1>p, <1>s, <2>1, <3>6
  <2> QED
    BY <2>2, <2>3
<1>12. CASE Crash \/ Restart \/ Expire
  <2>1. UNCHANGED <<registry, journal, stop, old, order, filled>>
    BY <1>12 DEF Crash, Restart, Start, Expire
  <2> QED
    BY <1>b, <1>p, <1>q, <1>s, <2>1
<1>13. CASE NewDay
  <2>1. UNCHANGED <<registry, journal, stop, filled>>
    BY <1>13 DEF NewDay, Start
  <2>2. order'[k] \notin {"inflight", "working"}
    BY <1>0, <1>13 DEF NewDay
  <2>3. Life(k)' \in {Life(k), "over"} /\ Life(k)' # "open"
    BY <2>1, <2>2 DEF Life
  <2>4. k \in old => registry[k] # "none"
    BY DEF EntryInv, Books
  <2>5. Passes
    BY <1>13, <2>3, <2>4 DEF NewDay, Passes, Guarded!Pass
  <2> QED
    BY <1>b, <1>p, <1>s, <2>1, <2>3, <2>5
<1>14. ASSUME NEW j \in Signals, Arrive(j) PROVE Guarded!Step(k)
  <2>1. UNCHANGED <<registry, journal, stop, old, filled>>
    BY <1>14 DEF Arrive, BrokerOnly
  <2>2. order'[k] = order[k] \/ (order[k] = "inflight" /\ order'[k] = "working")
    BY <1>0, <1>14 DEF Arrive
  <2>3. Life(k)' = Life(k)
    BY <2>1, <2>2 DEF Life
  <2> QED
    BY <1>b, <1>p, <1>s, <2>1, <2>3
<1>15. ASSUME NEW j \in Signals, End(j) PROVE Guarded!Step(k)
  <2>1. UNCHANGED <<registry, journal, stop, old, filled>>
    BY <1>15 DEF End, BrokerOnly
  <2>2. order'[k] \in {order[k], "ended"}
    BY <1>0, <1>15 DEF End
  <2> QED
    BY <1>b, <1>p, <1>q, <1>s, <2>1, <2>2
<1>16. ASSUME NEW j \in Signals, NEW n \in 1..Quantity, Fill(j, n) PROVE Guarded!Step(k)
  <2>1. UNCHANGED <<registry, journal, stop, old, replayed>>
    BY <1>16 DEF Fill, BrokerOnly
  <2>2. order'[k] \in {order[k], "ended"}
    BY <1>0, <1>16 DEF Fill
  <2>3. CASE filled'[k] = filled[k]
    BY <1>b, <1>p, <1>q, <1>s, <2>1, <2>2, <2>3
  <2>4. CASE filled'[k] # filled[k]
    <3>1. j = k /\ filled'[k] > filled[k] /\ order[k] = "working"
      BY <1>0, <1>16, <2>4 DEF Fill
    <3>2. registry[k] = "pending" /\ journal[k] \notin {"none", "prepared", "claimed"}
      BY <2>1, <3>1 DEF EntryInv, Books
    <3>3. Life(k) = "open"
      BY <3>1, <3>2 DEF Life
    <3>4. Trades
      BY <1>b, <3>1, <3>2, <3>3 DEF Trades, Guarded!Trade
    <3> QED
      BY <1>b, <1>p, <1>q, <1>s, <2>1, <2>2, <3>4
  <2> QED
    BY <2>3, <2>4
<1>17. ASSUME NEW c \in Codes, Close(c) PROVE Guarded!Step(k)
  <2>1. UNCHANGED <<registry, journal, stop, old, order, filled>>
    BY <1>17 DEF Close, BrokerOnly
  <2> QED
    BY <1>b, <1>p, <1>q, <1>s, <2>1
<1>18. CASE (\E kind \in {"strategy", "protective"} : BeginCycle(kind)) \/ UNCHANGED vars
  <2>1. UNCHANGED <<registry, journal, stop, old, order, filled>>
    BY <1>18 DEF BeginCycle, vars
  <2> QED
    BY <1>b, <1>p, <1>q, <1>s, <2>1
<1> QED
  BY <1>2, <1>3, <1>4, <1>5, <1>6, <1>7, <1>8, <1>9, <1>10, <1>11, <1>12, <1>13, <1>14,
     <1>15, <1>16, <1>17, <1>18 DEF Next, ProcessStep

\* The entry books implement GuardedEntries, for any BUYs, symbols, days, restarts and
\* faults.
THEOREM BooksImplementGuards == Spec => EntriesGuarded
<1>1. Init => Guarded!Init
  <2> SUFFICES ASSUME Init PROVE Guarded!Init
    OBVIOUS
  <2>1. /\ [k \in Signals |-> stop[k].state] = [k \in Signals |-> "none"]
        /\ [k \in Signals |-> stop[k].quantity] = [k \in Signals |-> 0]
    BY DEF Init, NoStop
  <2>2. [k \in Signals |-> Life(k)] = [k \in Signals |-> "unsent"]
    BY DEF Init, Life
  <2> QED
    BY <2>1, <2>2 DEF Init, Guarded!Init
<1>2. EntryInv /\ EntryInv' /\ [Next]_vars => [GuardedNext]_(Guarded!vars)
  BY EntriesRefined DEF GuardedNext
<1> QED
  BY <1>1, <1>2, EntryInvariance, PTL DEF Spec, EntriesGuarded
=============================================================================
