-------------------------- MODULE PaperLedgerProofs --------------------------
(***************************************************************************)
(* For any signals, days, attempts and amounts of money: the types of the  *)
(* paper ledger, that every fill but one per death of a session is         *)
(* recorded, and - while no session dies - that the tables restore the     *)
(* broker, that a symbol is bought once at a time, and that the session    *)
(* implements AtomicLedger.                                                *)
(***************************************************************************)
EXTENDS PaperLedger, FiniteSetTheorems, TLAPS

\* Types and the signal in hand, together: the broker can be asked for nothing
\* but a signal.
Typed == TypeOK /\ (~Settled => signal \in Signals)

\* The signals of the liquidation are signals, and no strategy's.
LEMMA SignalKinds ==
  /\ \A d \in Days, k \in 1..MaxAttempts :
       <<d, k>> \in Signals /\ <<d, k>> \notin Entries /\ <<d, k>> \notin Exits
  /\ Entries \subseteq Signals /\ Exits \subseteq Signals
  /\ Lot \in Nat /\ Lot > 0 /\ InitialCash \in Nat /\ MaxAttempts \in Nat /\ MaxAttempts > 0
  /\ MaxDays \in Nat /\ MaxDays > 0 /\ MaxCrashes \in Nat /\ MaxFailures \in Nat
BY PaperAssumption DEF Signals, Liquidations, Days

\* The first session.
LEMMA PaperInit == ASSUME Init PROVE LedgerInv
<1>1. TypeOK
  BY SignalKinds DEF Init, TypeOK, Days
<1>2. Settled
  BY DEF Init, Settled
<1>3. OneEntryHeld /\ InHand
  BY SignalKinds DEF Init, OneEntryHeld, InHand, Unsent, Filled, Closing
<1>4. Difference
  BY DEF Init, Difference, Unsent, Filled
<1>5. Others
  BY SignalKinds DEF Init, Others
<1>6. FillsKept
  <2>1. Unrecorded = {} /\ Saving = {}
    BY DEF Init, Unrecorded, Saving
  <2> QED
    BY <2>1, FS_EmptySet, SignalKinds DEF FillsKept, Init
<1> QED
  BY <1>1, <1>2, <1>3, <1>4, <1>5, <1>6 DEF LedgerInv

\* Every step keeps the types.
LEMMA PaperTypes == ASSUME Typed, [Next]_vars PROVE Typed'
<1> USE SignalKinds DEF Typed, TypeOK, Settled
<1>1. CASE UNCHANGED vars
  BY <1>1 DEF vars, tables, order, broker, session
<1>2. CASE Gate
  BY <1>2 DEF Gate, Goto, tables, order, broker
<1>3. CASE Submit
  BY <1>3 DEF Submit, Goto, Raise, broker
<1>4. CASE Transmit
  BY <1>4 DEF Transmit, Fill, Available, Side, Goto, tables, order, broker
<1>5. CASE TransmitFails
  BY <1>5 DEF TransmitFails, Raise, Goto, broker
<1>6. CASE MarkSent \/ Refresh
  BY <1>6 DEF MarkSent, Refresh, Raise, Goto, broker
<1>7. CASE SaveNewFill
  BY <1>7 DEF SaveNewFill, Raise, Goto, order, broker
<1>8. CASE ApplyExecution
  BY <1>8 DEF ApplyExecution, Side, Raise, Goto, order, broker
<1>9. CASE CreateSnapshot
  BY <1>9 DEF CreateSnapshot, Raise, Done, Goto, order, broker
<1>10. CASE CloseAllPositions
  BY <1>10 DEF CloseAllPositions, CreateOrder, Goto, order, broker
<1>11. CASE MarketClose
  BY <1>11 DEF MarketClose, tables, order, broker
<1>12. CASE Crash
  BY <1>12 DEF Crash, Recover, tables, order, Days
<1>13. CASE NextSession \/ StopEarly
  BY <1>13 DEF NextSession, StopEarly, Goto, Recover, tables, order, broker, Days
<1>14. ASSUME NEW s \in Signals, Signal(s) PROVE Typed'
  BY <1>14 DEF Signal, CreateOrder, broker
<1>15. ASSUME NEW s \in Signals, UpdateMarketPrice(s) PROVE Typed'
  BY <1>15 DEF UpdateMarketPrice, Working, Fill, Available, Side, tables, order, session
<1> QED
  BY <1>1, <1>2, <1>3, <1>4, <1>5, <1>6, <1>7, <1>8, <1>9, <1>10, <1>11, <1>12, <1>13,
     <1>14, <1>15 DEF Next, Step

\* No step but Refresh adds a fill, and none but SaveNewFill and Crash leaves the
\* step that saves it.
LEMMA FillsOnlyGrowByRefresh ==
  ASSUME Typed, [Next]_vars
  PROVE  \/ Refresh \/ SaveNewFill \/ Crash
         \/ Unrecorded' \subseteq Unrecorded /\ Saving' = Saving /\ crashes' = crashes
<1> USE SignalKinds DEF Typed, TypeOK, Unrecorded, Saving
<1>1. CASE UNCHANGED vars
  BY <1>1 DEF vars, tables, order, broker, session
<1>2. CASE Gate
  BY <1>2 DEF Gate, Goto, tables, order, broker
<1>3. CASE Submit
  BY <1>3 DEF Submit, Goto, Raise, broker
<1>4. CASE Transmit
  BY <1>4 DEF Transmit, Goto, tables, order
<1>5. CASE TransmitFails \/ MarkSent
  BY <1>5 DEF TransmitFails, MarkSent, Raise, Goto
<1>6. CASE ApplyExecution \/ CreateSnapshot
  BY <1>6 DEF ApplyExecution, CreateSnapshot, Raise, Done, Goto, order
<1>7. CASE CloseAllPositions
  BY <1>7 DEF CloseAllPositions, CreateOrder, Goto, order
<1>8. CASE MarketClose \/ StopEarly \/ NextSession
  BY <1>8 DEF MarketClose, StopEarly, NextSession, Goto, Recover, tables, order
<1>9. ASSUME NEW s \in Signals, Signal(s)
      PROVE  Unrecorded' \subseteq Unrecorded /\ Saving' = Saving /\ crashes' = crashes
  BY <1>9 DEF Signal, CreateOrder
<1>10. ASSUME NEW s \in Signals, UpdateMarketPrice(s)
       PROVE  Unrecorded' \subseteq Unrecorded /\ Saving' = Saving /\ crashes' = crashes
  BY <1>10 DEF UpdateMarketPrice, tables, order, session
<1> QED
  BY <1>1, <1>2, <1>3, <1>4, <1>5, <1>6, <1>7, <1>8, <1>9, <1>10 DEF Next, Step

\* How large a set can be that another covers, up to one element.
LEMMA CoveredSet ==
  ASSUME NEW S, NEW T, NEW x, IsFiniteSet(S), T \subseteq S \union {x}
  PROVE  /\ IsFiniteSet(T) /\ Cardinality(T) \in Nat /\ Cardinality(S) \in Nat
         /\ Cardinality(T) <= Cardinality(S) + 1
         /\ T \subseteq S => Cardinality(T) <= Cardinality(S)
<1>1. IsFiniteSet(S \union {x}) /\ IsFiniteSet(T)
  BY FS_AddElement, FS_Subset
<1>2. Cardinality(S) \in Nat /\ Cardinality(S \union {x}) \in Nat /\ Cardinality(T) \in Nat
  BY <1>1, FS_CardinalityType
<1>3. Cardinality(S \union {x}) <= Cardinality(S) + 1
  <2>1. CASE x \in S
    <3>1. Cardinality(S \union {x}) = Cardinality(S)
      BY <2>1, FS_AddElement
    <3> QED
      BY <1>2, <3>1
  <2>2. CASE x \notin S
    <3>1. Cardinality(S \union {x}) = Cardinality(S) + 1
      BY <2>2, FS_AddElement
    <3> QED
      BY <1>2, <3>1
  <2> QED
    BY <2>1, <2>2
<1>4. Cardinality(T) <= Cardinality(S \union {x})
  <2> PICK U : U = S \union {x}
    OBVIOUS
  <2>1. IsFiniteSet(U) /\ T \in SUBSET U
    BY <1>1
  <2>2. Cardinality(T) <= Cardinality(U)
    BY <2>1, FS_Subset
  <2> QED
    BY <2>2
<1>5. T \subseteq S => Cardinality(T) <= Cardinality(S)
  BY FS_Subset
<1> QED
  BY <1>1, <1>2, <1>3, <1>4, <1>5

\* A fill is missing only while it is being saved, or because a session died then.
LEMMA PaperFills == ASSUME Typed, FillsKept, [Next]_vars PROVE FillsKept'
<1> DEFINE Missing == Unrecorded \ Saving
<1>1. /\ IsFiniteSet(Unrecorded) /\ IsFiniteSet(Missing)
      /\ Cardinality(Missing) \in Nat /\ Cardinality(Missing) <= crashes /\ crashes \in Nat
  BY FS_Subset, FS_CardinalityType, SignalKinds DEF FillsKept, Typed, TypeOK
<1>2. ASSUME Missing' \subseteq Missing, IsFiniteSet(Unrecorded'), crashes' = crashes
      PROVE  FillsKept'
  <2>1. Cardinality(Missing') \in Nat /\ Cardinality(Missing') <= Cardinality(Missing)
    BY <1>1, <1>2, CoveredSet
  <2> QED
    BY <1>1, <1>2, <2>1 DEF FillsKept
<1>3. CASE Unrecorded' \subseteq Unrecorded /\ Saving' = Saving /\ crashes' = crashes
  BY <1>1, <1>2, <1>3, FS_Subset
<1>4. CASE Refresh
  <2>1. /\ Saving = {} /\ crashes' = crashes
        /\ Unrecorded' \subseteq Unrecorded \union {signal}
        /\ Saving' = {signal} \/ (Saving' = {} /\ Unrecorded' = Unrecorded)
    BY <1>4 DEF Refresh, Raise, Goto, Saving, Unrecorded, Typed, TypeOK
  <2>2. IsFiniteSet(Unrecorded')
    BY <1>1, <2>1, FS_AddElement, FS_Subset
  <2> QED
    BY <1>2, <2>1, <2>2
<1>5. CASE SaveNewFill
  <2>1. /\ Saving = {signal} /\ Saving' = {} /\ crashes' = crashes
        /\ Unrecorded' = Unrecorded \ {signal}
    BY <1>5 DEF SaveNewFill, Raise, Goto, Saving, Unrecorded, order
  <2> QED
    BY <1>1, <1>2, <2>1
<1>6. CASE Crash
  <2>1. Unrecorded' = Unrecorded /\ Saving' = {} /\ crashes' = crashes + 1
    BY <1>6 DEF Crash, Recover, Saving, Unrecorded, tables, order
  <2>2. Unrecorded \subseteq Missing \union {signal}
    BY DEF Saving
  <2>3. Cardinality(Unrecorded) \in Nat /\ Cardinality(Unrecorded) <= Cardinality(Missing) + 1
    BY <1>1, <2>2, CoveredSet
  <2>4. Unrecorded' \ Saving' = Unrecorded
    BY <2>1
  <2> QED
    BY <1>1, <2>1, <2>3, <2>4 DEF FillsKept
<1> QED
  BY <1>3, <1>4, <1>5, <1>6, FillsOnlyGrowByRefresh

\* What no death disturbs.
Clear == OneEntryHeld /\ InHand /\ Difference /\ Others

\* Deaths are only counted up.
LEMMA CrashesGrow == ASSUME Typed, [Next]_vars, crashes' = 0 PROVE crashes = 0 /\ ~Crash
BY SignalKinds DEF Typed, TypeOK, Next, Step, vars, Gate, Submit, Transmit, TransmitFails,
   MarkSent, Refresh, SaveNewFill, ApplyExecution, CreateSnapshot, CloseAllPositions,
   MarketClose, StopEarly, Crash, NextSession, Signal, UpdateMarketPrice

\* Every step of a session that does not die keeps the tables and the broker in
\* step.
LEMMA PaperClear ==
  ASSUME Typed, Clear, [Next]_vars, crashes = 0, crashes' = 0
  PROVE  Clear'
<1> USE SignalKinds DEF Typed, TypeOK, Settled, Clear, OneEntryHeld, InHand, Difference,
        Others, Unsent, Filled, Closing
<1>1. CASE UNCHANGED vars
  BY <1>1 DEF vars, tables, order, broker, session
<1>2. CASE Gate
  <2>1. /\ pc = "gate" /\ pc' \in {"submit", "idle"}
        /\ pc' = "submit" => signal \in Exits \/ (signal \in Entries /\ shares = 0)
        /\ UNCHANGED <<signal, attempt, day, status, quantity, executed, position, balance,
                       cash, shares, book>>
    BY <1>2 DEF Gate, Goto, tables, order, broker
  <2>2. attempt = 0
    BY <1>2 DEF Gate
  <2> QED
    BY <2>1, <2>2, PaperAssumption
<1>3. CASE Submit
  BY <1>3 DEF Submit, Goto, Raise, broker
<1>4. CASE Transmit
  BY <1>4 DEF Transmit, Fill, Available, Side, Goto, tables, order, broker
<1>5. CASE TransmitFails
  BY <1>5 DEF TransmitFails, Raise, Goto, broker
<1>6. CASE MarkSent
  BY <1>6 DEF MarkSent, Goto, broker
<1>7. CASE Refresh
  BY <1>7 DEF Refresh, Raise, Goto, broker
<1>8. CASE SaveNewFill
  BY <1>8 DEF SaveNewFill, Raise, Goto, order, broker
<1>9. CASE ApplyExecution
  BY <1>9 DEF ApplyExecution, Side, Raise, Goto, order, broker
<1>10. CASE CreateSnapshot
  BY <1>10 DEF CreateSnapshot, Raise, Done, Goto, order, broker
<1>11. CASE CloseAllPositions
  <2>1. CASE shares = 0 \/ attempt = MaxAttempts
    BY <1>11, <2>1 DEF CloseAllPositions, Goto, order, broker
  <2>2. CASE shares > 0 /\ attempt < MaxAttempts
    <3>1. /\ pc = "liquidate" /\ pc' = "submit" /\ signal' = <<day, attempt + 1>>
          /\ attempt' = attempt + 1 /\ day' = day
          /\ UNCHANGED <<executed, position, balance, cash, shares, book>>
          /\ attempt + 1 \in 1..MaxAttempts /\ day \in Days
      BY <1>11, <2>2 DEF CloseAllPositions, broker
    <3>2. signal' \in Signals /\ signal' \notin Entries \union Exits /\ status[signal'] = "none"
      BY <3>1, SignalKinds DEF Others
    <3>3. /\ status' = [status EXCEPT ![signal'] = "new"]
          /\ quantity' = [quantity EXCEPT ![signal'] = shares]
      BY <1>11, <2>2, <3>1, <3>2 DEF CloseAllPositions, CreateOrder
    <3>4. OneEntryHeld' /\ Difference'
      BY <3>1, <3>2, <3>3
    <3>7. InHand'
      BY <2>2, <3>1, <3>2, <3>3
    <3>5. /\ executed' \subseteq {s \in Signals : status'[s] = "filled"}
          /\ \A s \in Signals : status'[s] # "none" /\ s \in Entries \union Exits => quantity'[s] = Lot
          /\ \A s \in Signals : s # signal' =>
               /\ status'[s] \in {"none", "new", "failed", "filled"}
               /\ book'[s] = IF status'[s] = "filled" THEN "filled" ELSE "none"
      BY <3>1, <3>2, <3>3
    <3>6. ASSUME NEW d \in Days, NEW k \in 1..MaxAttempts,
                 d > day' \/ (d = day' /\ k > attempt')
          PROVE  status'[<<d, k>>] = "none"
      <4>1. <<d, k>> # signal' /\ <<d, k>> \in Signals
        BY <3>1, <3>6, SignalKinds DEF Days
      <4>2. status[<<d, k>>] = "none"
        BY <3>1, <3>6, SignalKinds DEF Days
      <4> QED
        BY <4>1, <4>2, <3>3
    <3> QED
      BY <3>1, <3>4, <3>5, <3>6, <3>7
  <2> QED
    BY <1>11, <2>1, <2>2 DEF CloseAllPositions
<1>12. CASE MarketClose \/ StopEarly
  BY <1>12 DEF MarketClose, StopEarly, Goto, tables, order, broker
<1>13. CASE NextSession
  <2>1. /\ Settled /\ pc' = "idle" /\ attempt' = 0 /\ day \in Nat
        /\ day' = day + 1 \/ (day' = day /\ attempt = 0)
        /\ cash' = balance /\ shares' = position
        /\ book' = [s \in Signals |-> IF status[s] \in {"sent", "filled"} THEN status[s]
                                                                      ELSE "none"]
        /\ UNCHANGED <<status, quantity, executed, position, balance>>
    BY <1>13 DEF NextSession, Recover, tables, order, Days, Closing
  <2>2. OneEntryHeld' /\ InHand' /\ Difference'
    BY <2>1
  <2>3. ASSUME NEW d \in Days, NEW k \in 1..MaxAttempts,
               d > day' \/ (d = day' /\ k > attempt')
        PROVE  status'[<<d, k>>] = "none"
    BY <2>1, <2>3 DEF Days
  <2>4. ASSUME NEW s \in Signals
        PROVE  /\ status'[s] \in {"none", "new", "failed", "filled"}
               /\ book'[s] = IF status'[s] = "filled" THEN "filled" ELSE "none"
    BY <2>1
  <2> QED
    BY <2>1, <2>2, <2>3, <2>4
<1>14. ASSUME NEW s \in Signals, Signal(s) PROVE Clear'
  BY <1>14 DEF Signal, CreateOrder, broker
<1>15. ASSUME NEW s \in Signals, UpdateMarketPrice(s) PROVE Clear'
  BY <1>15 DEF UpdateMarketPrice, Working
<1> QED
  BY CrashesGrow, <1>1, <1>2, <1>3, <1>4, <1>5, <1>6, <1>7, <1>8, <1>9, <1>10, <1>11, <1>12, <1>13, <1>14, <1>15 DEF Next, Step

\* The invariant of every reachable state, crashes of the session included.
THEOREM PaperInvariance == Spec => []LedgerInv
<1>1. Init => LedgerInv
  BY PaperInit
<1>2. LedgerInv /\ [Next]_vars => LedgerInv'
  <2> SUFFICES ASSUME LedgerInv, [Next]_vars PROVE LedgerInv'
    OBVIOUS
  <2>1. Typed /\ Typed' /\ FillsKept'
    BY PaperTypes, PaperFills DEF LedgerInv, Typed
  <2>2. CASE crashes' = 0
    <3>1. crashes = 0 /\ Clear
      BY <2>1, <2>2, CrashesGrow DEF LedgerInv, Clear
    <3>2. Clear'
      BY <2>1, <2>2, <3>1, PaperClear
    <3> QED
      BY <2>1, <3>2 DEF LedgerInv, Typed, Clear
  <2>3. CASE crashes' # 0
    BY <2>1, <2>3 DEF LedgerInv, Typed
  <2> QED
    BY <2>2, <2>3
<1> QED
  BY <1>1, <1>2, PTL DEF Spec

\* Until a session dies at work, the broker a session would rebuild from the
\* tables between two signals is the broker that stopped.
THEOREM PaperRestorable == Spec => []Restorable
<1>1. LedgerInv => Restorable
  BY DEF LedgerInv, Restorable, Difference, Others, Settled
<1> QED
  BY <1>1, PaperInvariance, PTL

\* Until a session dies, one signal's shares of the symbol are the most it holds.
THEOREM PaperOneEntry == Spec => []OneEntryHeld
<1>1. LedgerInv => OneEntryHeld
  BY DEF LedgerInv, OneEntryHeld
<1> QED
  BY <1>1, PaperInvariance, PTL

\* However the sessions die, trade_executions lacks at most one fill for each
\* death, and the one that is being saved.
THEOREM PaperFillsRecorded == Spec => []FillsRecorded
<1>1. ASSUME LedgerInv PROVE FillsRecorded
  <2>1. IsFiniteSet(Unrecorded) /\ crashes \in Nat /\ Cardinality(Unrecorded \ Saving) <= crashes
    BY <1>1, SignalKinds DEF LedgerInv, TypeOK, FillsKept
  <2>2. CASE pc = "save"
    <3>1. Saving = {signal} /\ ~Settled
      BY <2>2 DEF Saving, Settled
    <3>2. IsFiniteSet(Unrecorded \ {signal})
      BY <2>1, FS_Subset
    <3>3. /\ Cardinality(Unrecorded \ {signal}) \in Nat /\ Cardinality(Unrecorded) \in Nat
          /\ Cardinality(Unrecorded) <= Cardinality(Unrecorded \ {signal}) + 1
      <4>1. Unrecorded \subseteq (Unrecorded \ {signal}) \union {signal}
        OBVIOUS
      <4> QED
        BY <3>2, <4>1, CoveredSet
    <3> QED
      BY <2>1, <3>1, <3>3 DEF FillsRecorded
  <2>3. CASE pc # "save"
    <3>1. Unrecorded \ Saving = Unrecorded /\ Cardinality(Unrecorded) \in Nat
      BY <2>1, <2>3, FS_CardinalityType DEF Saving
    <3> QED
      BY <2>1, <3>1 DEF FillsRecorded
  <2> QED
    BY <2>2, <2>3
<1> QED
  BY <1>1, PaperInvariance, PTL

\* Every step of a session that does not die is a step of AtomicLedger, or changes
\* nothing of it: the trade is the recording of its execution.
LEMMA LedgerRefined ==
  ASSUME Typed, Clear, [Next]_vars, crashes = 0, crashes' = 0
  PROVE  [Ledger!Next]_(Ledger!vars)
<1> USE SignalKinds DEF tables, order
<1>t. {position, balance, cash, shares} \subseteq Nat /\ quantity \in [Signals -> Nat]
      /\ status \in [Signals -> {"none", "new", "queued", "sent", "filled", "failed"}]
  BY DEF Typed, TypeOK
<1>1. ASSUME UNCHANGED <<executed, position, balance>>,
             pc \notin {"apply", "snapshot"}, pc' \notin {"apply", "snapshot"}
      PROVE  [Ledger!Next]_(Ledger!vars)
  BY <1>1 DEF Ledger!vars
<1>2. CASE UNCHANGED vars
  BY <1>2 DEF vars, broker, session, Ledger!vars
<1>3. CASE Gate \/ Submit \/ Transmit \/ TransmitFails \/ MarkSent \/ Refresh
  BY <1>1, <1>3 DEF Gate, Submit, Transmit, TransmitFails, MarkSent, Refresh, Raise, Goto
<1>4. CASE CloseAllPositions \/ MarketClose \/ StopEarly \/ NextSession
  BY <1>1, <1>4 DEF CloseAllPositions, MarketClose, StopEarly, NextSession, Recover, Goto
<1>5. CASE SaveNewFill
  <2>1. /\ pc = "save" /\ signal \in Signals /\ signal \notin executed
        /\ executed' = executed \union {signal} /\ pc' = "apply"
        /\ UNCHANGED <<position, balance, cash, shares>>
    BY <1>5 DEF SaveNewFill, Goto, broker, Clear, InHand, Typed, Settled
  <2>2. CASE signal \in Entries
    <3>1. shares = position + Lot /\ balance = cash + Lot
      BY <2>1, <2>2 DEF Clear, Difference, InHand, Others, Filled
    <3>2. position = 0 /\ shares = Lot /\ balance >= Lot /\ cash = balance - Lot
      BY <1>t, <3>1 DEF Clear, OneEntryHeld
    <3>3. Ledger!Buy(signal)
      BY <2>1, <3>2 DEF Ledger!Buy
    <3> QED
      BY <2>2, <3>3 DEF Ledger!Next
  <2>3. CASE signal \notin Entries
    <3>1. /\ position = shares + quantity[signal] /\ cash = balance + quantity[signal]
          /\ shares = 0 /\ quantity[signal] > 0
      BY <2>1, <2>3 DEF Clear, Difference, InHand, Filled
    <3>2. position > 0 /\ cash = balance + position
      BY <1>t, <2>1, <3>1
    <3>3. Ledger!Sell(signal)
      BY <2>1, <3>1, <3>2 DEF Ledger!Sell
    <3> QED
      BY <2>1, <2>3, <3>3 DEF Ledger!Next, Signals
  <2> QED
    BY <2>2, <2>3
<1>6. CASE ApplyExecution
  <2>1. pc = "apply" /\ UNCHANGED <<executed, balance, cash, shares>>
        /\ pc' = "snapshot" /\ position' = shares
    <3>1. CASE signal \in Entries
      BY <1>6, <3>1 DEF ApplyExecution, Side, Goto, broker, Clear, Difference, Filled
    <3>2. CASE signal \notin Entries
      <4>1. /\ pc = "apply" /\ signal \in Signals
            /\ position = shares + quantity[signal] /\ shares = 0
        BY <1>6, <3>2 DEF ApplyExecution, Clear, Difference, InHand, Filled, Typed, Settled
      <4>2. position >= quantity[signal] /\ position - quantity[signal] = shares
        BY <1>t, <4>1
      <4> QED
        BY <1>t, <1>6, <3>2, <4>1, <4>2 DEF ApplyExecution, Side, Goto, broker
    <3> QED
      BY <3>1, <3>2
  <2> QED
    BY <2>1 DEF Ledger!vars
<1>7. CASE CreateSnapshot
  <2>1. /\ pc = "snapshot" /\ position = shares /\ balance' = cash
        /\ UNCHANGED <<executed, position, cash>> /\ pc' \notin {"apply", "snapshot"}
    BY <1>7 DEF CreateSnapshot, Raise, Done, Goto, broker, Clear, Difference
  <2> QED
    BY <2>1 DEF Ledger!vars
<1>8. CASE Crash
  BY <1>8 DEF Crash
<1>9. ASSUME NEW s \in Signals, Signal(s) PROVE [Ledger!Next]_(Ledger!vars)
  BY <1>1, <1>9 DEF Signal
<1>10. ASSUME NEW s \in Signals, UpdateMarketPrice(s) PROVE [Ledger!Next]_(Ledger!vars)
  BY <1>1, <1>10 DEF UpdateMarketPrice, session
<1> QED
  BY <1>2, <1>3, <1>4, <1>5, <1>6, <1>7, <1>8, <1>9, <1>10 DEF Next, Step

\* Paper trading implements AtomicLedger until a session dies, for any signals, days,
\* attempts and money.
THEOREM LedgerRefinement == Spec => TradesAtomically
<1>1. Init => Ledger!Init
  BY DEF Init, Ledger!Init
<1>2. LedgerInv /\ [Next]_vars => [Ledger!Next \/ crashes' > 0]_(Ledger!vars)
  <2> SUFFICES ASSUME LedgerInv, [Next]_vars, ~(crashes' > 0)
               PROVE  [Ledger!Next]_(Ledger!vars)
    OBVIOUS
  <2>1. Typed /\ Typed'
    BY PaperTypes DEF LedgerInv, Typed
  <2>2. crashes' = 0
    BY <2>1, SignalKinds DEF Typed, TypeOK
  <2>3. crashes = 0 /\ Clear
    BY <2>1, <2>2, CrashesGrow DEF LedgerInv, Clear
  <2> QED
    BY <2>1, <2>2, <2>3, LedgerRefined
<1> QED
  BY <1>1, <1>2, PaperInvariance, PTL DEF Spec, TradesAtomically
=============================================================================
