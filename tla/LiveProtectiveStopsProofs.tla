---------------------- MODULE LiveProtectiveStopsProofs ----------------------
(***************************************************************************)
(* For any lot, unfinished rest of the entry and number of crashes, lost   *)
(* answers, refusals and trades of the owner: StopInv of                   *)
(* LiveProtectiveStops is inductive, so that a SELL excludes the BUY, no   *)
(* position loses its row, and the shares are never on sale twice; the     *)
(* cycle implements ExclusiveSale.                                         *)
(***************************************************************************)
EXTENDS LiveProtectiveStops, FiniteSetTheorems, WellFoundedInduction, TLAPS

\* The constants are numbers.
LEMMA StopNumbers ==
  /\ Lot \in Nat /\ Lot > 0 /\ Rest \in Nat /\ MaxManual \in Nat
  /\ MaxCrashes \in Nat /\ MaxFailures \in Nat /\ MaxLost \in Nat /\ MaxRefusals \in Nat
  /\ NoSnapshot \in Nat /\ NoSnapshot > 0
  /\ Entry \in Orders /\ Entry \notin Sells /\ Sells \subseteq Orders
BY StopAssumption DEF NoSnapshot, Entry, Orders, Sells

\* The recorded fill.
LEMMA CycleInit == ASSUME Init PROVE CycleInv
<1> USE StopNumbers DEF Init
<1>1. low \in BOOLEAN /\ caching \in BOOLEAN
  BY Zenon, StopAssumption
<1>2. TypeOK
  BY <1>1 DEF TypeOK, NoSnapshot
<1>3. Counts /\ Excluded /\ Flat
  BY DEF Counts, Excluded, ExitsExcludeEntry, Flat, Selling
<1> QED
  BY <1>2, <1>3 DEF CycleInv

\* A snapshot is a number of shares, and shows an empty symbol only if it is empty.
LEMMA SnapshotValues ==
  ASSUME CycleInv, NEW s \in Snapshots
  PROVE  /\ s \in 0..NoSnapshot
         /\ manual = 0 /\ s = 0 => position = 0
BY StopNumbers DEF CycleInv, TypeOK, Flat, Snapshots

\* The attempt that a submission starts.
LEMMA NextAttempt ==
  ASSUME CycleInv, pc = "submit"
  PROVE  /\ attempts \in Nat /\ crashes \in Nat /\ attempts <= crashes
         /\ attempts + 1 \in Sells /\ Sells \subseteq Nat
<1>1. attempts \in Nat /\ crashes \in 0..MaxCrashes /\ attempts <= crashes
  BY DEF CycleInv, TypeOK, Counts, Selling, Sells
<1> QED
  BY <1>1, StopNumbers DEF Sells

\* Every step of the cycle, and every step around it.
LEMMA CycleStep == ASSUME CycleInv, [Next]_vars PROVE CycleInv'
<1> USE StopNumbers DEF CycleInv, TypeOK, Counts, Excluded, ExitsExcludeEntry, Flat, Selling
<1> USE DEF row, account, broker, bounds
<1>1. CASE UNCHANGED vars
  BY <1>1 DEF vars, process
<1>2. CASE StartCycle
  BY <1>2 DEF StartCycle
<1>3. CASE ReadFails
  BY <1>3 DEF ReadFails, Fails, Conflicted, EndCycle, Goto
<1>4. CASE CheckConflicts
  BY <1>4 DEF CheckConflicts, EndCycle, Goto, Open, Unfinished
<1>5. CASE CancelOrder
  BY <1>5 DEF CancelOrder, Refused, Conflicted, EndCycle, Goto
<1>6. CASE AllCancelled
  BY <1>6 DEF AllCancelled, Goto
<1>7. CASE Recheck
  BY <1>7 DEF Recheck, Conflicted, EndCycle, Goto, Open, Unfinished
<1>8. CASE SubmitRefused
  <2>1. CASE UNCHANGED attempts
    BY <1>8, <2>1 DEF SubmitRefused, Refused, Started, EndCycle, Goto
  <2>2. CASE Started
    <3>1. attempts + 1 <= crashes' + 1 /\ attempts + 1 \in Sells
      BY <1>8, NextAttempt DEF SubmitRefused, Refused
    <3> QED
      BY <1>8, <2>2, <3>1 DEF SubmitRefused, Refused, Started, Goto
  <2> QED
    BY <1>8, <2>1, <2>2 DEF SubmitRefused
<1>9. CASE MarkExitPending
  BY <1>9 DEF MarkExitPending, EndCycle, Goto
<1>10. CASE StrategyExit
  BY <1>10 DEF StrategyExit, EndCycle, Goto
<1>11. ASSUME NEW o \in Orders, BeginCancel(o) \/ ReconcileCancel(o) PROVE CycleInv'
  BY <1>11 DEF BeginCancel, ReconcileCancel, Conflicted, EndCycle, Goto
<1>12. ASSUME NEW s \in Snapshots, ReconcileEntry(s) PROVE CycleInv'
  BY <1>12, SnapshotValues DEF ReconcileEntry, AccountRead, EndCycle, Goto
<1>13. ASSUME NEW s \in Snapshots, ProtectPosition(s) PROVE CycleInv'
  BY <1>13, SnapshotValues DEF ProtectPosition, Retire, AccountRead, EndCycle, Goto
<1>14. ASSUME NEW s \in Snapshots, EvaluateRow(s) PROVE CycleInv'
  BY <1>14, SnapshotValues DEF EvaluateRow, Retire, AccountRead, EndCycle, Goto
<1>15. ASSUME NEW s \in Snapshots, Replan(s) PROVE CycleInv'
  BY <1>15, SnapshotValues DEF Replan, PlanSell, Retire, AccountRead, EndCycle, Goto
<1>16. ASSUME NEW s \in Snapshots, SubmitPlan(s) PROVE CycleInv'
  <2>1. cache' \in 0..NoSnapshot /\ (manual = 0 /\ cache' = 0 => position = 0)
    BY <1>16, SnapshotValues DEF SubmitPlan
  <2>2. CASE UNCHANGED <<attempts, selling, transit, bounds>> /\ EndCycle
    BY <1>16, <2>1, <2>2 DEF SubmitPlan, EndCycle, Goto
  <2>3. CASE Started
    <3>1. attempts + 1 <= crashes + 1 /\ attempts + 1 \in Sells
      BY <1>16, NextAttempt DEF SubmitPlan
    <3> QED
      BY <1>16, <2>1, <2>3, <3>1 DEF SubmitPlan, Started, EndCycle, Goto
  <2> QED
    BY <1>16, <2>2, <2>3 DEF SubmitPlan
<1>17. CASE Crash
  BY <1>17 DEF Crash, EndCycle, Goto
<1>18. CASE PriceMoves
  BY <1>18 DEF PriceMoves, process
<1>19. CASE FillBuy
  BY <1>19 DEF FillBuy, process, NoSnapshot
<1>20. CASE ManualTrade
  BY <1>20 DEF ManualTrade, process, NoSnapshot
<1>21. ASSUME NEW n \in Sells, FillSell(n) PROVE CycleInv'
  BY <1>21 DEF FillSell, process
<1>22. ASSUME NEW n \in Sells, Arrive(n) PROVE CycleInv'
  BY <1>22 DEF Arrive, process
<1> QED
  BY <1>1, <1>2, <1>3, <1>4, <1>5, <1>6, <1>7, <1>8, <1>9, <1>10, <1>11, <1>12, <1>13, <1>14,
     <1>15, <1>16, <1>17, <1>18, <1>19, <1>20, <1>21, <1>22 DEF Next, ProcessStep

\* Nothing has been sold yet.
LEMMA SaleInit == ASSUME Init PROVE SaleInv
<1> USE StopNumbers DEF Init
<1>1. 1 \in Sells /\ Sells \subseteq Nat
  BY DEF Sells
<1>2. \A n \in Sells : selling[n] = 0 /\ transit[n] = 0
  OBVIOUS
<1>3. Sold(1)
  BY <1>1, <1>2 DEF Sold
<1> QED
  BY <1>1, <1>2, <1>3 DEF SaleInv, Ahead, Remembered, Seen, OneSale

\* A step that neither sends, fills nor delivers a SELL keeps the sale as it is.
LEMMA SaleKept ==
  ASSUME CycleInv, CycleInv', SaleInv,
         UNCHANGED <<attempts, transit, caching, lost>>,
         \A n \in Sells : selling'[n] = selling[n] \/ selling'[n] = 0,
         position' >= position \/ manual' > 0,
         manual' >= manual, crashes' >= crashes,
         pc' \in {"replan", "submit"} =>
           pc \in {"replan", "submit"} \/ \A n \in Sells : selling[n] = 0,
         ~caching => cache' = NoSnapshot,
         manual' = 0 /\ crashes' = 0 => cache' \in {cache, position, NoSnapshot}
  PROVE  SaleInv'
<1>t. /\ manual \in Nat /\ manual' \in Nat /\ crashes \in Nat /\ crashes' \in Nat
      /\ position \in Nat /\ position' \in Nat /\ transit' \in [Sells -> Nat]
      /\ selling \in [Sells -> Nat] /\ selling' \in [Sells -> Nat] /\ lost \in Nat
  BY StopNumbers DEF CycleInv, TypeOK
<1>1. Ahead'
  BY DEF SaleInv, Ahead
<1>2. Remembered'
  <2>1. SUFFICES ASSUME caching, manual' = 0, crashes' = 0, attempts = 0
                 PROVE  cache' = NoSnapshot \/ cache' <= position'
    BY DEF Remembered
  <2>2. manual = 0 /\ crashes = 0
    BY <1>t, <2>1
  <2>3. cache = NoSnapshot \/ cache <= position
    BY <2>1, <2>2 DEF SaleInv, Remembered
  <2>4. cache \in Nat /\ position' >= position /\ cache' \in {cache, position, NoSnapshot}
    BY <1>t, <2>1 DEF CycleInv, TypeOK
  <2> QED
    BY <1>t, <2>3, <2>4
<1>3. Seen'
  BY DEF SaleInv, Seen
<1>4. OneSale'
  <2>1. SUFFICES ASSUME Traced' PROVE \E n \in Sells : Sold(n)'
    BY DEF OneSale
  <2>0. Traced /\ manual' = 0
    BY <1>t, <2>1 DEF Traced
  <2>2. PICK n \in Sells : Sold(n)
    BY <2>0 DEF SaleInv, OneSale
  <2>3. position' >= position
    BY <1>t, <2>0
  <2>4. Sold(n)'
    BY <1>t, <2>2, <2>3 DEF Sold
  <2> QED
    BY <2>4
<1> QED
  BY <1>1, <1>2, <1>3, <1>4 DEF SaleInv

\* A refused submission may count as an attempt; no share is on sale by it.
LEMMA SaleRefused == ASSUME CycleInv, SaleInv, SubmitRefused PROVE SaleInv'
<1> USE StopNumbers DEF CycleInv, TypeOK
<1>1. /\ UNCHANGED <<selling, transit, position, cache, caching, crashes, lost, manual>>
      /\ attempts' \in {attempts, attempts + 1} /\ pc' \in {"wait", "mark"}
      /\ pc = "submit"
  BY DEF SubmitRefused, Refused, EndCycle, Goto, Started, account
<1>2. Sells \subseteq Nat /\ attempts \in Nat /\ manual \in Nat /\ crashes \in Nat
  BY <1>1, NextAttempt
<1>3. Ahead' /\ Seen'
  BY <1>1, <1>2 DEF SaleInv, Ahead, Seen
<1>5. Remembered'
  BY <1>1, <1>2 DEF SaleInv, Remembered
<1>4. OneSale'
  BY <1>1 DEF SaleInv, OneSale, Traced, Sold
<1> QED
  BY <1>3, <1>4, <1>5 DEF SaleInv

\* When the SELL leaves, nothing else is on sale, and the account has shown no
\* more than the symbol holds.
LEMMA NothingOnSale ==
  ASSUME CycleInv, SaleInv, NEW s \in Snapshots, SubmitPlan(s), Traced'
  PROVE  /\ Traced
         /\ \A n \in Sells : selling[n] = 0 /\ transit[n] = 0
         /\ s \in Nat /\ s <= position
<1> USE StopNumbers
<1>1. /\ UNCHANGED <<caching, crashes, manual>>
      /\ pc = "submit" /\ lost' \in {lost, lost + 1} /\ lost \in Nat
  BY DEF SubmitPlan, EndCycle, Goto, Started, bounds, CycleInv, TypeOK
<1>2. Sells \subseteq Nat /\ attempts \in Nat /\ crashes \in Nat /\ attempts <= crashes
  BY <1>1, NextAttempt
<1>3. Traced
  BY <1>1 DEF Traced
<1>4. \A n \in Sells : selling[n] = 0 /\ transit[n] = 0
  <2>1. CASE crashes = 0
    <3>1. \A n \in Sells : n > attempts
      BY <1>2, <2>1 DEF Sells
    <3> QED
      BY <3>1 DEF SaleInv, Ahead
  <2>2. CASE crashes > 0
    BY <1>1, <1>3, <2>2 DEF SaleInv, Seen, Traced, CycleInv, TypeOK
  <2> QED
    BY <1>2, <2>1, <2>2
<1>5. s \in Nat /\ s <= position
  BY <1>2, <1>3 DEF SaleInv, Remembered, Snapshots, Traced, CycleInv, TypeOK
<1> QED
  BY <1>3, <1>4, <1>5

\* The SELL: nothing else is on sale, and the plan is what the symbol holds.
LEMMA SaleSubmitted ==
  ASSUME CycleInv, SaleInv, NEW s \in Snapshots, SubmitPlan(s)
  PROVE  SaleInv'
<1> USE StopNumbers DEF CycleInv, TypeOK
<1>1. /\ UNCHANGED <<caching, position, crashes, manual>>
      /\ cache' = (IF caching THEN s ELSE NoSnapshot)
      /\ pc = "submit" /\ pc' \in {"wait", "mark"} /\ lost' \in {lost, lost + 1}
  BY DEF SubmitPlan, EndCycle, Goto, Started, bounds
<1>2. Sells \subseteq Nat /\ attempts \in Nat /\ crashes \in Nat /\ attempts <= crashes
  BY <1>1, NextAttempt
<1>3. s \in Nat /\ (manual = 0 /\ crashes = 0 => s <= position) /\ (~caching => s = position)
  BY <1>2 DEF SaleInv, Remembered, Snapshots
<1>4. CASE UNCHANGED <<attempts, selling, transit, bounds>>
  <2>1. Ahead' /\ Seen'
    BY <1>1, <1>4 DEF SaleInv, Ahead, Seen, bounds
  <2>2. Remembered'
    BY <1>1, <1>2, <1>3, <1>4 DEF SaleInv, Remembered, bounds
  <2>3. OneSale'
    BY <1>1, <1>4 DEF SaleInv, OneSale, Traced, Sold, bounds
  <2> QED
    BY <2>1, <2>2, <2>3 DEF SaleInv
<1>5. CASE /\ Started /\ s = planned
           /\ \/ selling' = [selling EXCEPT ![attempts + 1] = planned] /\ UNCHANGED <<transit, lost>>
              \/ transit' = [transit EXCEPT ![attempts + 1] = planned] /\ lost' = lost + 1
                 /\ UNCHANGED selling
  <2> PICK k \in Sells : k = attempts + 1
    BY <1>1, NextAttempt
  <2>1. attempts' = k /\ k > 0
    BY <1>2, <1>5 DEF Started
  <2>2. \A n \in Sells : n # k => selling'[n] = selling[n] /\ transit'[n] = transit[n]
    BY <1>5
  <2>3. Ahead'
    BY <1>2, <2>1, <2>2 DEF SaleInv, Ahead
  <2>4. Remembered'
    BY <1>1, <2>1 DEF SaleInv, Remembered
  <2>5. Seen'
    BY <1>1, <1>5 DEF SaleInv, Seen
  <2>6. OneSale'
    <3> SUFFICES ASSUME Traced' PROVE Sold(k)'
      BY <2>1 DEF OneSale
    <3>2. (\A n \in Sells : selling[n] = 0 /\ transit[n] = 0) /\ s <= position
      BY NothingOnSale
    <3>4. selling'[k] + transit'[k] = s /\ (selling'[k] = 0 \/ transit'[k] = 0)
      BY <1>5, <2>1, <3>2
    <3>5. \A m \in Sells \ {k} : selling'[m] = 0 /\ transit'[m] = 0
      BY <2>2, <3>2
    <3> QED
      BY <1>1, <3>2, <3>4, <3>5 DEF Sold
  <2> QED
    BY <2>3, <2>4, <2>5, <2>6 DEF SaleInv
<1> QED
  BY <1>4, <1>5 DEF SubmitPlan, bounds

\* A fill takes as many shares from the sale as from the position.
LEMMA SaleFills == ASSUME CycleInv, SaleInv, NEW k \in Sells, FillSell(k) PROVE SaleInv'
<1> USE StopNumbers DEF CycleInv, TypeOK
<1>1. /\ UNCHANGED <<attempts, transit, cache, caching, pc, crashes, lost, manual>>
      /\ selling' = [selling EXCEPT ![k] = selling[k] - 1] /\ position' = position - 1
      /\ selling[k] > 0 /\ position > 0
  BY DEF FillSell, process, account, bounds
<1>2. attempts > 0 /\ Ahead' /\ Remembered' /\ Seen'
  <2>1. attempts > 0
    BY <1>1 DEF SaleInv, Ahead, Sells
  <2> QED
    BY <1>1, <2>1 DEF SaleInv, Ahead, Remembered, Seen
<1>3. OneSale'
  <2>1. SUFFICES ASSUME Traced PROVE Sold(k)'
    BY <1>1 DEF OneSale, Traced
  <2>2. PICK n \in Sells : Sold(n)
    BY <2>1 DEF SaleInv, OneSale
  <2>3. n = k
    BY <1>1, <2>2 DEF Sold
  <2> QED
    BY <1>1, <2>2, <2>3 DEF Sold
<1> QED
  BY <1>2, <1>3 DEF SaleInv

\* A request that arrives is the same sale.
LEMMA SaleArrives == ASSUME CycleInv, SaleInv, NEW k \in Sells, Arrive(k) PROVE SaleInv'
<1> USE StopNumbers DEF CycleInv, TypeOK
<1>1. /\ UNCHANGED <<attempts, position, cache, caching, pc, crashes, lost, manual>>
      /\ transit' = [transit EXCEPT ![k] = 0] /\ transit[k] > 0
      /\ selling' \in {selling, [selling EXCEPT ![k] = transit[k]]}
  BY DEF Arrive, process, account, bounds
<1>2. lost > 0
  BY <1>1 DEF SaleInv, Seen
<1>3. Ahead' /\ Remembered' /\ Seen'
  BY <1>1, <1>2 DEF SaleInv, Ahead, Remembered, Seen
<1>4. OneSale'
  <2>1. SUFFICES ASSUME Traced PROVE Sold(k)'
    BY <1>1 DEF OneSale, Traced
  <2>2. PICK n \in Sells : Sold(n)
    BY <2>1 DEF SaleInv, OneSale
  <2>3. n = k
    BY <1>1, <2>2 DEF Sold
  <2> QED
    BY <1>1, <2>2, <2>3 DEF Sold
<1> QED
  BY <1>3, <1>4 DEF SaleInv

\* Every step keeps the shares on sale accounted for.
LEMMA SaleStep == ASSUME CycleInv, CycleInv', SaleInv, [Next]_vars PROVE SaleInv'
<1> USE StopNumbers DEF row, process, account, broker, bounds
<1>t. selling \in [Sells -> Nat] /\ position \in Nat /\ manual \in Nat /\ crashes \in Nat
  BY DEF CycleInv, TypeOK
<1>n. ~caching => cache = NoSnapshot
  BY DEF SaleInv, Remembered
<1>1. CASE UNCHANGED vars
  BY <1>1, <1>t, <1>n, SaleKept DEF vars
<1>2. CASE StartCycle
  BY <1>2, <1>t, <1>n, SaleKept DEF StartCycle
<1>3. CASE ReadFails
  BY <1>3, <1>t, <1>n, SaleKept DEF ReadFails, Fails, Conflicted, EndCycle, Goto
<1>o. Open = {} => \A n \in Sells : selling[n] = 0
  BY <1>t DEF Open, Unfinished
<1>4. CASE CheckConflicts
  BY <1>4, <1>o, <1>t, <1>n, SaleKept DEF CheckConflicts, EndCycle, Goto
<1>5. CASE CancelOrder
  <2>1. \A n \in Sells : selling'[n] = selling[n] \/ selling'[n] = 0
    BY <1>5, <1>t DEF CancelOrder, Entry
  <2> QED
    BY <1>5, <2>1, <1>t, <1>n, SaleKept DEF CancelOrder, Refused, Conflicted, EndCycle, Goto
<1>6. CASE AllCancelled
  BY <1>6, <1>t, <1>n, SaleKept DEF AllCancelled, Goto
<1>7. CASE Recheck
  BY <1>7, <1>o, <1>t, <1>n, SaleKept DEF Recheck, Conflicted, EndCycle, Goto
<1>9. CASE MarkExitPending
  BY <1>9, <1>t, <1>n, SaleKept DEF MarkExitPending, EndCycle, Goto
<1>10. CASE StrategyExit
  BY <1>10, <1>t, <1>n, SaleKept DEF StrategyExit, EndCycle, Goto
<1>11. ASSUME NEW o \in Orders, BeginCancel(o) \/ ReconcileCancel(o) PROVE SaleInv'
  BY <1>11, <1>t, <1>n, SaleKept DEF BeginCancel, ReconcileCancel, Conflicted, EndCycle, Goto
<1>12. ASSUME NEW s \in Snapshots, ReconcileEntry(s) PROVE SaleInv'
  BY <1>12, <1>t, <1>n, SaleKept DEF ReconcileEntry, AccountRead, EndCycle, Goto, Snapshots
<1>13. ASSUME NEW s \in Snapshots, ProtectPosition(s) PROVE SaleInv'
  BY <1>13, <1>t, <1>n, SaleKept DEF ProtectPosition, AccountRead, EndCycle, Goto, Snapshots
<1>14. ASSUME NEW s \in Snapshots, EvaluateRow(s) PROVE SaleInv'
  BY <1>14, <1>t, <1>n, SaleKept DEF EvaluateRow, AccountRead, EndCycle, Goto, Snapshots
<1>15. ASSUME NEW s \in Snapshots, Replan(s) PROVE SaleInv'
  BY <1>15, <1>t, <1>n, SaleKept DEF Replan, PlanSell, AccountRead, EndCycle, Goto, Snapshots
<1>17. CASE Crash
  BY <1>17, <1>t, <1>n, SaleKept DEF Crash, EndCycle, Goto
<1>18. CASE PriceMoves
  BY <1>18, <1>t, <1>n, SaleKept DEF PriceMoves
<1>19. CASE FillBuy
  BY <1>19, <1>t, <1>n, SaleKept DEF FillBuy
<1>20. CASE ManualTrade
  BY <1>20, <1>t, <1>n, SaleKept DEF ManualTrade
<1> QED
  BY <1>1, <1>2, <1>3, <1>4, <1>5, <1>6, <1>7, SaleRefused, <1>9, <1>10, <1>11, <1>12, <1>13,
     <1>14, <1>15, SaleSubmitted, <1>17, <1>18, <1>19, <1>20, SaleFills, SaleArrives
  DEF Next, ProcessStep

\* The sum of a function that is zero but at one place: SumFunction folds over
\* the subsets of its domain, and no smallest subset can have another sum.
LEMMA SumOfOne ==
  ASSUME NEW S, IsFiniteSet(S), NEW n \in S, NEW f \in [S -> Nat],
         \A m \in S \ {n} : f[m] = 0
  PROVE  SumFunction(f) = f[n]
<1> DEFINE x(s) == CHOOSE y \in s : TRUE
           Step(g) == [s \in SUBSET S |->
                        IF s = {} THEN 0 ELSE f[x(s)] + g[s \ {x(s)}]]
           sum == CHOOSE g : g = Step(g)
           total == [s \in SUBSET S |-> IF n \in s THEN f[n] ELSE 0]
<1>1. SumFunction(f) = sum[S]
  BY DEF SumFunction, SumFunctionOnSet, FoldFunctionOnSet, MapThenFoldSet
<1>2. \A s \in SUBSET S : s # {} => x(s) \in s
  OBVIOUS
<1> HIDE DEF x
<1>3. total = Step(total)
  <2>1. ASSUME NEW s \in SUBSET S, s # {}
        PROVE  total[s] = f[x(s)] + total[s \ {x(s)}]
    <3>1. CASE x(s) = n
      <4>1. n \notin s \ {x(s)} /\ f[n] \in Nat /\ n \in s
        BY <1>2, <2>1, <3>1
      <4> QED
        BY <3>1, <4>1
    <3>2. CASE x(s) # n
      <4>1. f[x(s)] = 0 /\ total[s \ {x(s)}] = total[s] /\ total[s] \in Nat
        BY <1>2, <2>1, <3>2
      <4> QED
        BY <4>1
    <3> QED
      BY <3>1, <3>2
  <2> QED
    BY <2>1
<1>4. sum = Step(sum)
  BY <1>3
<1>5. \A s \in FiniteSubsetsOf(S) : sum[s] = total[s]
  <2> DEFINE T == {s \in FiniteSubsetsOf(S) : sum[s] # total[s]}
  <2>1. SUFFICES ASSUME T # {} PROVE FALSE
    OBVIOUS
  <2>2. PICK s \in T : \A r \in T : <<r, s>> \notin StrictSubsetOrdering(S)
    BY <2>1, FS_StrictSubsetOrderingWellFounded, WFMin
  <2> DEFINE r == s \ {x(s)}
  <2>3. s # {}
    BY <1>4
  <2>4. r \in FiniteSubsetsOf(S) /\ <<r, s>> \in StrictSubsetOrdering(S)
    BY <1>2, <2>3, FS_Subset DEF FiniteSubsetsOf, StrictSubsetOrdering
  <2>5. sum[r] = total[r]
    BY <2>2, <2>4
  <2>6. sum[s] = f[x(s)] + sum[r] /\ total[s] = f[x(s)] + total[r]
    BY <1>3, <1>4, <2>3 DEF FiniteSubsetsOf
  <2> QED
    BY <2>5, <2>6
<1> QED
  BY <1>1, <1>5 DEF FiniteSubsetsOf

\* The same of the two functions whose sums are the shares on sale.
LEMMA SumsOfOne ==
  ASSUME NEW n \in Sells, NEW f \in [Sells -> Nat], NEW g \in [Sells -> Nat],
         \A m \in Sells \ {n} : f[m] = 0 /\ g[m] = 0
  PROVE  SumFunction(f) + SumFunction(g) = f[n] + g[n]
<1>1. IsFiniteSet(Sells)
  BY StopNumbers, FS_Interval DEF Sells
<1>2. SumFunction(f) = f[n] /\ SumFunction(g) = g[n]
  BY <1>1, SumOfOne
<1> QED
  BY <1>2

\* The invariant of every reachable state.
THEOREM StopInvariance == Spec => []StopInv
<1>1. Init => StopInv
  BY CycleInit, SaleInit DEF StopInv
<1>2. StopInv /\ [Next]_vars => StopInv'
  BY CycleStep, SaleStep DEF StopInv
<1> QED
  BY <1>1, <1>2, PTL DEF Spec

\* No SELL of the symbol is at the broker, or on its way, while its BUY can fill.
THEOREM Exclusion == Spec => []ExitsExcludeEntry
<1>1. StopInv => ExitsExcludeEntry
  BY DEF StopInv, CycleInv, Excluded
<1> QED
  BY <1>1, StopInvariance, PTL

\* Unless the owner trades, a row is given up only with the last share.
THEOREM Covered == Spec => []PositionCovered
<1>1. StopInv => PositionCovered
  BY StopNumbers DEF StopInv, CycleInv, TypeOK, Flat, PositionCovered
<1> QED
  BY <1>1, StopInvariance, PTL

\* However many attempts there were, the shares on sale are shares still held.
THEOREM NeverSoldTwice == Spec => []SoldOnce
<1>1. ASSUME StopInv PROVE SoldOnce
  <2>1. SUFFICES ASSUME Traced PROVE OnSale <= position
    BY DEF SoldOnce
  <2>2. PICK n \in Sells : Sold(n)
    BY <1>1, <2>1 DEF StopInv, SaleInv, OneSale
  <2>3. selling \in [Sells -> Nat] /\ transit \in [Sells -> Nat]
    BY <1>1, StopNumbers DEF StopInv, CycleInv, TypeOK
  <2>4. OnSale = selling[n] + transit[n]
    BY <2>2, <2>3, SumsOfOne DEF OnSale, Sold
  <2> QED
    BY <2>2, <2>4 DEF Sold
<1> QED
  BY <1>1, StopInvariance, PTL

\* The steps of ExclusiveSale in the numbers of this module.
LEMMA AbstractSteps ==
  ASSUME OnSale \in Nat, OnSale' \in Nat, position \in Nat, position' \in Nat,
         \/ /\ UNCHANGED state /\ OnSale = 0 /\ OnSale' = 0 /\ position' = position + 1
         \/ /\ UNCHANGED <<state, position>> /\ state # "retired" /\ OnSale = 0
            /\ OnSale' <= position
         \/ /\ UNCHANGED state /\ OnSale > 0 /\ position > 0
            /\ OnSale' = OnSale - 1 /\ position' = position - 1
         \/ /\ UNCHANGED <<state, position>> /\ OnSale' \in {0, OnSale}
         \/ /\ UNCHANGED <<position, OnSale>> /\ position = 0 /\ state' = "retired"
         \/ /\ UNCHANGED <<position, OnSale>> /\ state # "retired" /\ state' # "retired"
  PROVE  [Sale!Next]_(Sale!vars)
<1> DEFINE covered == IF state = "retired" THEN {} ELSE {"symbol"}
           held    == [c \in {"symbol"} |-> position]
           offered == [c \in {"symbol"} |-> OnSale]
<1>1. CASE UNCHANGED state /\ OnSale = 0 /\ OnSale' = 0 /\ position' = position + 1
  BY <1>1 DEF Sale!Next, Sale!Buy
<1>2. CASE /\ UNCHANGED <<state, position>> /\ state # "retired" /\ OnSale = 0
           /\ OnSale' <= position
  <2>1. CASE OnSale' = 0
    BY <1>2, <2>1 DEF Sale!vars
  <2>2. CASE OnSale' > 0
    <3>1. OnSale' \in 1..position
      BY <1>2, <2>2
    <3> QED
      BY <1>2, <3>1 DEF Sale!Next, Sale!Offer
  <2> QED
    BY <2>1, <2>2
<1>3. CASE /\ UNCHANGED state /\ OnSale > 0 /\ position > 0
           /\ OnSale' = OnSale - 1 /\ position' = position - 1
  BY <1>3 DEF Sale!Next, Sale!Sell
<1>4. CASE UNCHANGED <<state, position>> /\ OnSale' \in {0, OnSale}
  BY <1>4 DEF Sale!Next, Sale!Withdraw, Sale!vars
<1>5. CASE UNCHANGED <<position, OnSale>> /\ position = 0 /\ state' = "retired"
  BY <1>5 DEF Sale!Next, Sale!Release
<1>6. CASE UNCHANGED <<position, OnSale>> /\ state # "retired" /\ state' # "retired"
  BY <1>6 DEF Sale!vars
<1> QED
  BY <1>1, <1>2, <1>3, <1>4, <1>5, <1>6

\* What is left out stays left out.
LEMMA TracedBack == ASSUME StopInv, [Next]_vars, Traced' PROVE Traced
<1>1. /\ manual \in Nat /\ crashes \in Nat /\ lost \in Nat /\ crashes' \in Nat
      /\ manual' \in Nat /\ lost' \in Nat
      /\ caching' = caching /\ crashes' >= crashes /\ manual' >= manual /\ lost' >= lost
  <2> USE StopNumbers DEF StopInv, CycleInv, TypeOK, bounds, account, vars
  <2>1. CASE \E o \in Orders : BeginCancel(o) \/ ReconcileCancel(o)
    BY <2>1 DEF BeginCancel, ReconcileCancel, Conflicted
  <2>2. ASSUME NEW s \in Snapshots, \/ ReconcileEntry(s) \/ ProtectPosition(s)
                                    \/ EvaluateRow(s) \/ Replan(s)
        PROVE  UNCHANGED <<caching, bounds>>
    BY <2>2 DEF ReconcileEntry, ProtectPosition, EvaluateRow, Replan, AccountRead
  <2>3. ASSUME NEW s \in Snapshots, SubmitPlan(s)
        PROVE  UNCHANGED <<caching, crashes, manual>> /\ lost' \in {lost, lost + 1}
    BY <2>3 DEF SubmitPlan
  <2>4. CASE \/ StartCycle \/ ReadFails \/ CheckConflicts \/ CancelOrder \/ AllCancelled
             \/ Recheck \/ SubmitRefused \/ MarkExitPending \/ StrategyExit
    BY <2>4 DEF StartCycle, ReadFails, Fails, CheckConflicts, CancelOrder, Refused, AllCancelled,
                Recheck, SubmitRefused, MarkExitPending, StrategyExit, Conflicted
  <2>5. CASE Crash \/ PriceMoves \/ FillBuy \/ ManualTrade
    BY <2>5 DEF Crash, PriceMoves, FillBuy, ManualTrade
  <2>6. CASE \E n \in Sells : FillSell(n) \/ Arrive(n)
    BY <2>6 DEF FillSell, Arrive
  <2> QED
    BY <2>1, <2>2, <2>3, <2>4, <2>5, <2>6 DEF Next, ProcessStep
<1> QED
  BY <1>1 DEF Traced

\* The shares on sale are those of one attempt.
LEMMA OnSaleOfOne ==
  ASSUME StopInv, Traced
  PROVE  \E n \in Sells : Sold(n) /\ OnSale = selling[n] + transit[n] /\ OnSale \in Nat
<1>1. selling \in [Sells -> Nat] /\ transit \in [Sells -> Nat]
  BY StopNumbers DEF StopInv, CycleInv, TypeOK
<1>2. PICK n \in Sells : Sold(n)
  BY DEF StopInv, SaleInv, OneSale
<1>3. OnSale = selling[n] + transit[n]
  BY <1>1, <1>2, SumsOfOne DEF OnSale, Sold
<1> QED
  BY <1>1, <1>2, <1>3

\* Every step of the cycle, the broker and the market is a step of ExclusiveSale, or
\* changes nothing of it.
LEMMA SaleRefined ==
  ASSUME StopInv, StopInv', [Next]_vars, Traced'
  PROVE  [Sale!Next]_(Sale!vars)
<1>0. Traced /\ manual = 0
  BY TracedBack DEF Traced
<1>1. /\ position \in Nat /\ position' \in Nat /\ buying \in Nat
      /\ selling \in [Sells -> Nat] /\ transit \in [Sells -> Nat]
      /\ selling' \in [Sells -> Nat] /\ transit' \in [Sells -> Nat]
  BY StopNumbers DEF StopInv, CycleInv, TypeOK
<1>2. PICK n \in Sells : Sold(n) /\ OnSale = selling[n] + transit[n]
  BY <1>0, OnSaleOfOne
<1>3. OnSale \in Nat /\ OnSale' \in Nat
  <2>1. PICK k \in Sells : Sold(k)'
    BY DEF StopInv, SaleInv, OneSale
  <2>2. OnSale' = selling'[k] + transit'[k]
    BY <1>1, <2>1, SumsOfOne DEF OnSale, Sold
  <2> QED
    BY <1>0, <1>1, <2>2, OnSaleOfOne
<1>4. ASSUME \A m \in Sells \ {n} : selling'[m] = 0 /\ transit'[m] = 0
      PROVE  OnSale' = selling'[n] + transit'[n]
  BY <1>1, <1>4, SumsOfOne DEF OnSale
<1>5. ASSUME UNCHANGED <<selling, transit>> PROVE OnSale' = OnSale
  BY <1>5 DEF OnSale
<1>6. ASSUME UNCHANGED <<state, broker>> PROVE [Sale!Next]_(Sale!vars)
  BY <1>1, <1>3, <1>5, <1>6, AbstractSteps DEF broker
<1>7. ASSUME UNCHANGED broker, NEW s \in Snapshots, s = 0, Retire PROVE [Sale!Next]_(Sale!vars)
  <2>1. position = 0
    BY <1>0, <1>7, SnapshotValues DEF StopInv
  <2> QED
    BY <2>1, <1>1, <1>3, <1>5, <1>7, AbstractSteps DEF broker, Retire
<1> USE DEF row, Conflicted, EndCycle, Goto
<1>8. ASSUME UNCHANGED <<position, attempts, transit, state>>,
             \/ UNCHANGED selling
             \/ \E m \in Sells : selling' = [selling EXCEPT ![m] = 0]
      PROVE  [Sale!Next]_(Sale!vars)
  <2>1. CASE UNCHANGED selling
    BY <1>1, <1>3, <1>5, <1>8, <2>1, AbstractSteps
  <2>2. ASSUME NEW m \in Sells, selling' = [selling EXCEPT ![m] = 0]
        PROVE  [Sale!Next]_(Sale!vars)
    <3>1. OnSale' = selling'[n] + transit[n]
      BY <1>1, <1>2, <1>4, <1>8, <2>2 DEF Sold
    <3>2. OnSale' \in {0, OnSale}
      BY <1>1, <1>2, <2>2, <3>1 DEF Sold
    <3> QED
      BY <1>1, <1>3, <1>8, <3>2, AbstractSteps
  <2> QED
    BY <1>8, <2>1, <2>2
<1>10. CASE CancelOrder
  <2>1. /\ UNCHANGED <<position, attempts, transit, state>>
        /\ UNCHANGED selling \/ selling' = [selling EXCEPT ![order] = 0]
        /\ order = Entry => UNCHANGED selling
    BY <1>10 DEF CancelOrder
  <2>2. order \in Sells \/ order = Entry
    BY DEF StopInv, CycleInv, TypeOK, Orders
  <2> QED
    BY <1>8, <2>1, <2>2
<1>11. ASSUME NEW s \in Snapshots, ProtectPosition(s) \/ EvaluateRow(s) \/ Replan(s)
       PROVE  [Sale!Next]_(Sale!vars)
  BY <1>11, <1>6, <1>7 DEF ProtectPosition, EvaluateRow, Replan
<1>12. ASSUME NEW s \in Snapshots, SubmitPlan(s) PROVE [Sale!Next]_(Sale!vars)
  <2>1. /\ \A m \in Sells : selling[m] = 0 /\ transit[m] = 0
        /\ s \in Nat /\ s <= position
    BY <1>12, NothingOnSale DEF StopInv
  <2>2. OnSale = 0 /\ UNCHANGED <<position, state>> /\ state # "retired"
    BY <1>1, <1>2, <1>12, <2>1 DEF SubmitPlan, StopInv, CycleInv, Counts, Selling
  <2>3. CASE UNCHANGED <<selling, transit>>
    BY <1>1, <1>3, <1>5, <2>2, <2>3, AbstractSteps
  <2>4. CASE /\ s = planned
             /\ \/ selling' = [selling EXCEPT ![attempts + 1] = planned] /\ UNCHANGED transit
                \/ transit' = [transit EXCEPT ![attempts + 1] = planned] /\ UNCHANGED selling
    <3>1. PICK k \in Sells : k = attempts + 1
      BY <1>12, NextAttempt DEF SubmitPlan, StopInv
    <3>2. /\ \A m \in Sells \ {k} : selling'[m] = 0 /\ transit'[m] = 0
          /\ selling'[k] + transit'[k] = s
      BY <1>1, <2>1, <2>4, <3>1
    <3>3. OnSale' = s
      BY <1>1, <3>2, SumsOfOne DEF OnSale
    <3> QED
      BY <1>1, <1>3, <2>1, <2>2, <3>3, AbstractSteps
  <2> QED
    BY <1>12, <2>3, <2>4 DEF SubmitPlan
<1>13. CASE MarkExitPending
  <2>1. state # "retired" /\ state' # "retired" /\ UNCHANGED broker
    BY <1>13 DEF MarkExitPending, StopInv, CycleInv, Counts, Selling
  <2> QED
    BY <1>1, <1>3, <1>5, <2>1, AbstractSteps DEF broker
<1>14. CASE FillBuy
  <2>1. /\ \A m \in Sells : selling[m] = 0 /\ transit[m] = 0
        /\ UNCHANGED <<state, selling, transit>> /\ position' = position + 1
    BY <1>14 DEF FillBuy, StopInv, CycleInv, Excluded, ExitsExcludeEntry
  <2> QED
    BY <1>1, <1>2, <1>3, <1>5, <2>1, AbstractSteps
<1>15. ASSUME NEW m \in Sells, FillSell(m) PROVE [Sale!Next]_(Sale!vars)
  <2>0. /\ selling' = [selling EXCEPT ![m] = selling[m] - 1] /\ selling[m] > 0
        /\ position > 0 /\ position' = position - 1 /\ UNCHANGED <<state, transit>>
    BY <1>15 DEF FillSell
  <2>a. m = n
    BY <1>2, <2>0 DEF Sold
  <2>1. /\ selling' = [selling EXCEPT ![n] = selling[n] - 1] /\ selling[n] > 0
        /\ position > 0 /\ position' = position - 1 /\ UNCHANGED <<state, transit>>
    BY <2>0, <2>a
  <2>2. OnSale' = selling'[n] + transit[n] /\ selling'[n] = selling[n] - 1
    BY <1>1, <1>2, <1>4, <2>1 DEF Sold
  <2>3. OnSale' = OnSale - 1 /\ OnSale > 0
    BY <1>1, <1>2, <2>1, <2>2
  <2> QED
    BY <1>1, <1>3, <2>1, <2>3, AbstractSteps
<1>16. ASSUME NEW m \in Sells, Arrive(m) PROVE [Sale!Next]_(Sale!vars)
  <2>0. /\ transit' = [transit EXCEPT ![m] = 0] /\ transit[m] > 0
        /\ selling' \in {selling, [selling EXCEPT ![m] = transit[m]]}
        /\ UNCHANGED <<state, position>>
    BY <1>16 DEF Arrive
  <2>a. m = n /\ selling[n] = 0
    BY <1>2, <2>0 DEF Sold
  <2>1. /\ transit' = [transit EXCEPT ![n] = 0]
        /\ selling' \in {selling, [selling EXCEPT ![n] = transit[n]]}
    BY <2>0, <2>a
  <2>2. OnSale' = selling'[n] + transit'[n]
    BY <1>1, <1>2, <1>4, <2>1 DEF Sold
  <2>3. OnSale' \in {0, OnSale}
    BY <1>1, <1>2, <2>a, <2>1, <2>2
  <2> QED
    BY <1>1, <1>3, <2>0, <2>3, AbstractSteps
<1>17. CASE ManualTrade
  BY <1>0, <1>17 DEF ManualTrade, Traced
<1>18. CASE SubmitRefused \/ Crash
  BY <1>18, <1>1, <1>3, <1>5, AbstractSteps DEF SubmitRefused, Crash, broker
<1>19. CASE \/ StartCycle \/ ReadFails \/ CheckConflicts \/ AllCancelled \/ Recheck
            \/ StrategyExit \/ PriceMoves \/ UNCHANGED vars
  BY <1>19, <1>6 DEF StartCycle, ReadFails, CheckConflicts, AllCancelled, Recheck,
                     StrategyExit, PriceMoves, vars
<1>20. CASE \E o \in Orders : BeginCancel(o) \/ ReconcileCancel(o)
  BY <1>20, <1>6 DEF BeginCancel, ReconcileCancel
<1>21. ASSUME NEW s \in Snapshots, ReconcileEntry(s) PROVE [Sale!Next]_(Sale!vars)
  BY <1>21, <1>6 DEF ReconcileEntry
<1> QED
  BY <1>10, <1>11, <1>12, <1>13, <1>14, <1>15, <1>16, <1>17, <1>18, <1>19, <1>20, <1>21
  DEF Next, ProcessStep

\* The protective stop and the strategy exits implement ExclusiveSale, for any lot
\* and any number of faults, until the owner trades or a crash meets a snapshot or a
\* request that outlives it.
THEOREM ExitsImplementSale == Spec => SaleExclusive
<1>1. Init => Sale!Init
  <2> SUFFICES ASSUME Init PROVE Sale!Init
    OBVIOUS
  <2>1. OnSale = 0
    <3>1. 1 \in Sells
      BY StopNumbers DEF Sells
    <3>2. selling \in [Sells -> Nat] /\ transit \in [Sells -> Nat]
          /\ \A m \in Sells : selling[m] = 0 /\ transit[m] = 0
      BY DEF Init
    <3>3. OnSale = selling[1] + transit[1]
      BY <3>1, <3>2, SumsOfOne DEF OnSale
    <3> QED
      BY <3>1, <3>2, <3>3
  <2>2. state # "retired" /\ position \in Nat
    BY StopNumbers DEF Init
  <2> QED
    BY <2>1, <2>2 DEF Sale!Init
<1>2. StopInv /\ StopInv' /\ [Next]_vars => [Sale!Next \/ ~Traced']_(Sale!vars)
  BY SaleRefined
<1> QED
  BY <1>1, <1>2, StopInvariance, PTL DEF Spec, SaleExclusive
=============================================================================
