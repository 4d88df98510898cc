---------------------- MODULE LiveEodLiquidationProofs ----------------------
(***************************************************************************)
(* For any symbols, lot and number of passes, failures, lost answers,      *)
(* refusals and trades of the owner: EodInv of LiveEodLiquidation is       *)
(* inductive, so that no call sells what KATANA does not own, nor anything *)
(* twice, and none that could read the account leaves an owned position;   *)
(* the calls implement ExclusiveSale.                                      *)
(***************************************************************************)
EXTENDS LiveEodLiquidation, TLAPS

\* The constants are numbers.
LEMMA EodNumbers ==
  /\ Lot \in Nat /\ Lot > 0 /\ MaxPasses \in Nat /\ MaxPasses > 0
  /\ MaxFailures \in Nat /\ MaxLost \in Nat /\ MaxRefusals \in Nat /\ MaxManual \in Nat
  /\ NoCode \notin Codes
BY EodAssumption

\* The call at 15:20.
LEMMA EodInit == ASSUME Init PROVE EodInv
<1> USE EodNumbers DEF Init
<1>1. TypeOK
  BY DEF TypeOK, Running, Ended
<1>2. \A c \in Codes : transit[c] = 0 /\ selling[c] = 0 /\ owned[c] \in Nat /\ position[c] \in Nat
  OBVIOUS
<1>3. SoldOnce
  BY <1>2 DEF SoldOnce
<1> QED
  BY <1>1, <1>2, <1>3 DEF EodInv, InHand, Checked

\* A snapshot gives a number for every symbol; without a cache it is the account.
LEMMA SnapshotNumbers ==
  ASSUME EodInv, NEW s \in Snapshots
  PROVE  /\ s = NoSnapshot \/ s \in [Codes -> Nat]
         /\ cache = NoSnapshot => s = position
         /\ ~Cached => s = position
         /\ OpenBuys = {} /\ manual = 0 => \A c \in Codes : s[c] = 0 => position[c] = 0
BY DEF EodInv, TypeOK, Snapshots

\* Every step of the calls, of the broker and of the owner.
LEMMA EodStep == ASSUME EodInv, [Next]_vars PROVE EodInv'
<1> USE EodNumbers DEF EodInv, TypeOK, SoldOnce, Traced, InHand, Checked, Running, Ended
<1> USE DEF broker, bounds
<1>1. CASE UNCHANGED vars
  BY <1>1 DEF vars, process
<1>2. CASE SubmitAll
  BY <1>2 DEF SubmitAll
<1>3. CASE Deadline
  BY <1>3 DEF Deadline, Goto
<1>4. CASE PassUnreadable
  BY <1>4 DEF PassUnreadable, AccountFails, Fails, Complete, Goto
<1>5. CASE Candidate
  BY <1>5 DEF Candidate
<1>6. CASE CheckConflicts
  BY <1>6 DEF CheckConflicts, Fails, Blocked, Goto
<1>7. CASE CancelBuy
  BY <1>7 DEF CancelBuy, Blocked, Goto
<1>8. CASE Recheck
  BY <1>8 DEF Recheck, Fails, Blocked, Goto
<1>9. CASE ReplanUnreadable
  BY <1>9 DEF ReplanUnreadable, AccountFails, Fails, Raise, Goto
<1>10. CASE SubmitRefused
  BY <1>10 DEF SubmitRefused, AccountFails, Fails, Started, Blocked, Goto
<1>11. ASSUME NEW s \in Snapshots, Pass(s) PROVE EodInv'
  BY <1>11, SnapshotNumbers
     DEF Pass, AccountRead, Remember, Blocked, Complete, Goto, OwnedPlans
<1>12. ASSUME NEW s \in Snapshots, Replan(s) PROVE EodInv'
  BY <1>12, SnapshotNumbers
     DEF Replan, AccountRead, Remember, Blocked, Raise, PlanSell, Goto
<1>13. ASSUME NEW s \in Snapshots, SubmitPlan(s) PROVE EodInv'
  BY <1>13, SnapshotNumbers
     DEF SubmitPlan, Remember, Blocked, Started, Goto
<1>14. ASSUME NEW s \in Snapshots, FinalVerification(s) PROVE EodInv'
  BY <1>14, SnapshotNumbers
     DEF FinalVerification, AccountRead, Remember, Blocked, Complete, Goto
<1>15. ASSUME NEW c \in Codes, FillSell(c) PROVE EodInv'
  BY <1>15 DEF FillSell, process
<1>16. ASSUME NEW c \in Codes, FillBuy(c) PROVE EodInv'
  BY <1>16 DEF FillBuy, process
<1>17. ASSUME NEW c \in Codes, Arrive(c) PROVE EodInv'
  BY <1>17 DEF Arrive, process
<1>18. ASSUME NEW c \in Codes, ManualTrade(c) PROVE EodInv'
  BY <1>18 DEF ManualTrade, process
<1> QED
  BY <1>1, <1>2, <1>3, <1>4, <1>5, <1>6, <1>7, <1>8, <1>9, <1>10, <1>11, <1>12,
     <1>13, <1>14, <1>15, <1>16, <1>17, <1>18
     DEF Next, ProcessStep, BrokerStep

\* EodInv holds throughout: the invariant of the 15:20 liquidation loop.
THEOREM EodInvariance == Spec => []EodInv
<1>1. Init => EodInv
  BY EodInit
<1>2. EodInv /\ [Next]_vars => EodInv'
  BY EodStep
<1> QED
  BY <1>1, <1>2, PTL DEF Spec

\* Shares of the owner are never sold while every SELL is answered.
THEOREM OnlyOwned == Spec => []OnlyOwnedIsSold
<1>1. EodInv => OnlyOwnedIsSold
  <2> SUFFICES ASSUME EodInv, lost = 0, NEW c \in Codes
               PROVE  selling[c] + transit[c] <= owned[c]
    BY DEF OnlyOwnedIsSold
  <2> QED
    BY DEF EodInv, TypeOK
<1> QED
  BY <1>1, EodInvariance, PTL

\* The same shares are never on sale twice while every SELL is answered and every
\* snapshot is fresh.
THEOREM NeverSoldTwice == Spec => []SoldOnce
<1>1. EodInv => SoldOnce
  BY DEF EodInv
<1> QED
  BY <1>1, EodInvariance, PTL

\* One call: COMPLETE leaves an owned position only if the account could not be
\* read, or if shares were bought after the snapshot it reused.
LEMMA CompleteStep ==
  ASSUME EodInv, [Next]_vars, pc' = "exit_0", pc # "exit_0",
         failures' = failures, ~Cached \/ (OpenBuys = {} /\ manual = 0),
         NEW c \in Codes, owned[c] > 0
  PROVE  position[c] = 0
<1>1. PICK s \in Snapshots : Pass(s) \/ FinalVerification(s)
  BY DEF Next, ProcessStep, BrokerStep, SubmitAll, Deadline, PassUnreadable, AccountFails, Fails,
     Candidate, CheckConflicts, CancelBuy, Recheck, ReplanUnreadable, SubmitRefused, Started,
     Replan, PlanSell, SubmitPlan, FillSell, FillBuy, Arrive, ManualTrade, Goto, Blocked, Raise,
     vars, process, EodInv, TypeOK
<1>2. OwnedPlans(s) = {}
  BY <1>1 DEF Pass, FinalVerification, Blocked, Complete, Goto
<1>3. s = position \/ (s = cache /\ cache # NoSnapshot)
  BY DEF Snapshots
<1>4. s \in [Codes -> Nat] /\ s[c] = 0
  <2>1. s \in [Codes -> Nat]
    BY <1>3 DEF EodInv, TypeOK
  <2> QED
    BY <1>2, <2>1 DEF OwnedPlans
<1>5. CASE s = position
  BY <1>4, <1>5
<1>6. CASE s = cache /\ cache # NoSnapshot
  BY <1>4, <1>6 DEF EodInv
<1> QED
  BY <1>3, <1>5, <1>6

\* A call whose reads succeed is COMPLETE only with every owned position sold:
\* for any number of refusals, lost answers and symbols, with fresh reads, and
\* with reused ones if neither a BUY nor the owner can add shares meanwhile.
THEOREM CompleteIsFlat ==
  ASSUME MaxFailures = 0, ~Cached \/ (OpenBuys = {} /\ MaxManual = 0)
  PROVE  Spec => CompleteMeansFlat
<1>1. ASSUME EodInv, EodInv', [Next]_vars
      PROVE  [pc' = "exit_0" => pc = "exit_0"
                \/ \A c \in Codes : owned[c] > 0 => position[c] = 0]_vars
  <2>1. failures = 0 /\ failures' = 0
    BY <1>1 DEF EodInv, TypeOK
  <2>2. ~Cached \/ (OpenBuys = {} /\ manual = 0)
    BY <1>1 DEF EodInv, TypeOK
  <2> QED
    BY <1>1, <2>1, <2>2, CompleteStep
<1> QED
  BY <1>1, EodInvariance, PTL DEF Spec, CompleteMeansFlat

\* Whatever fails, COMPLETE over an owned position is the answer to a failed read,
\* or to a reused snapshot.
THEOREM OnlyUnreadIsLeft ==
  Spec => [][pc' = "exit_0" /\ pc # "exit_0" /\ failures' = failures /\ ~Cached
               => \A c \in Codes : owned[c] > 0 => position[c] = 0]_vars
<1>1. ASSUME EodInv, [Next]_vars
      PROVE  [pc' = "exit_0" /\ pc # "exit_0" /\ failures' = failures /\ ~Cached
               => \A c \in Codes : owned[c] > 0 => position[c] = 0]_vars
  BY <1>1, CompleteStep
<1> QED
  BY <1>1, EodInvariance, PTL DEF Spec

\* The steps of ExclusiveSale in the numbers of this module: one share more, an offer
\* of at most what is held, and a fill.
LEMMA AbstractSteps ==
  ASSUME NEW c \in Codes, owned' = owned,
         {position, selling, transit} \subseteq [Codes -> Nat],
         {position', selling', transit'} \subseteq [Codes -> Nat],
         \A d \in Codes \ {c} : /\ position'[d] = position[d]
                               /\ selling'[d] = selling[d] /\ transit'[d] = transit[d],
         transit'[c] = transit[c],
         \/ /\ selling[c] + transit[c] = 0 /\ selling'[c] = selling[c]
            /\ position'[c] = position[c] + 1
         \/ /\ selling[c] + transit[c] = 0 /\ owned[c] > 0
            /\ selling'[c] <= position[c] /\ position'[c] = position[c]
         \/ /\ selling[c] > 0 /\ position[c] > 0
            /\ selling'[c] = selling[c] - 1 /\ position'[c] = position[c] - 1
  PROVE  [Sale!Next]_(Sale!vars)
<1> DEFINE offered == [d \in Codes |-> selling[d] + transit[d]]
           offeredN == [d \in Codes |-> selling'[d] + transit'[d]]
           covered == {d \in Codes : owned[d] > 0}
<1>1. /\ offered \in [Codes -> Nat] /\ offeredN \in [Codes -> Nat]
      /\ position \in [Codes -> Nat] /\ position' \in [Codes -> Nat]
      /\ offered[c] = selling[c] + transit[c] /\ offeredN[c] = selling'[c] + transit[c]
      /\ selling[c] \in Nat /\ transit[c] \in Nat /\ selling'[c] \in Nat
  OBVIOUS
<1>2. \A d \in Codes \ {c} : offeredN[d] = offered[d] /\ position'[d] = position[d]
  OBVIOUS
<1>3. CASE offered[c] = 0 /\ offeredN[c] = 0 /\ position'[c] = position[c] + 1
  <2>1. offeredN = offered /\ position' = [position EXCEPT ![c] = position[c] + 1]
    BY <1>1, <1>2, <1>3
  <2> QED
    BY <1>3, <2>1 DEF Sale!Next, Sale!Buy
<1>4. CASE /\ offered[c] = 0 /\ owned[c] > 0 /\ offeredN[c] \in 0..position[c]
           /\ position'[c] = position[c]
  <2>0. offeredN = [offered EXCEPT ![c] = offeredN[c]]
    BY <1>1, <1>2
  <2>1. position' = position
    BY <1>1, <1>2, <1>4
  <2>2. CASE offeredN[c] = 0
    <3>1. offeredN = offered
      BY <1>1, <1>2, <1>4, <2>2
    <3> QED
      BY <2>1, <3>1 DEF Sale!vars
  <2>3. CASE offeredN[c] \in 1..position[c]
    BY <1>4, <2>0, <2>1, <2>3 DEF Sale!Next, Sale!Offer
  <2> QED
    BY <1>1, <1>4, <2>2, <2>3
<1>5. CASE /\ offered[c] > 0 /\ position[c] > 0
           /\ offeredN[c] = offered[c] - 1 /\ position'[c] = position[c] - 1
  <2>1. /\ offeredN = [offered EXCEPT ![c] = offered[c] - 1]
        /\ position' = [position EXCEPT ![c] = position[c] - 1]
    BY <1>1, <1>2, <1>5
  <2> QED
    BY <1>5, <2>1 DEF Sale!Next, Sale!Sell
<1> QED
  BY <1>1, <1>3, <1>4, <1>5

\* Every step of a call, of the broker and of the owner is a step of ExclusiveSale,
\* or changes nothing of it.
LEMMA SaleRefined ==
  ASSUME EodInv, EodInv', [Next]_vars, Traced'
  PROVE  [Sale!Next]_(Sale!vars)
<1> USE EodNumbers DEF broker, bounds
<1>0. /\ {position, selling, transit} \subseteq [Codes -> Nat]
      /\ {position', selling', transit'} \subseteq [Codes -> Nat]
      /\ manual \in Nat /\ lost \in Nat
  BY DEF EodInv, TypeOK
<1>1. ASSUME UNCHANGED <<owned, position, selling, transit>> PROVE [Sale!Next]_(Sale!vars)
  BY <1>1 DEF Sale!vars
<1>2. CASE \/ SubmitAll \/ Deadline \/ PassUnreadable \/ Candidate \/ CheckConflicts \/ CancelBuy
           \/ Recheck \/ ReplanUnreadable \/ SubmitRefused \/ UNCHANGED vars
  BY <1>1, <1>2 DEF SubmitAll, Deadline, PassUnreadable, Candidate, CheckConflicts, CancelBuy,
                    Recheck, ReplanUnreadable, SubmitRefused, vars
<1>3. ASSUME NEW s \in Snapshots, Pass(s) \/ Replan(s) \/ FinalVerification(s)
      PROVE  [Sale!Next]_(Sale!vars)
  BY <1>1, <1>3 DEF Pass, Replan, FinalVerification
<1>4. ASSUME NEW s \in Snapshots, SubmitPlan(s) PROVE [Sale!Next]_(Sale!vars)
  <2>1. CASE UNCHANGED <<selling, transit>>
    BY <1>1, <1>4, <2>1 DEF SubmitPlan
  <2>2. CASE lost' = lost + 1
    BY <1>0, <2>2 DEF Traced
  <2>3. CASE /\ s[code] = planned /\ UNCHANGED <<transit, bounds>>
             /\ selling' = [selling EXCEPT ![code] = selling[code] + planned]
    <3>1. PICK c \in Codes : c = code
      BY <1>4 DEF SubmitPlan, EodInv, InHand
    <3>2. lost = 0 /\ ~Cached
      BY <2>3 DEF Traced
    <3>3. /\ selling[c] = 0 /\ transit[c] = 0 /\ planned = owned[c] /\ planned = position[c]
      BY <1>4, <2>3, <3>1, <3>2, SnapshotNumbers DEF SubmitPlan, EodInv, Checked
    <3>4. owned[c] \in Nat /\ position[c] \in Nat /\ UNCHANGED <<owned, position>>
      BY <1>0, <1>4 DEF SubmitPlan, EodInv, TypeOK
    <3>5. selling'[c] = position[c]
          /\ \A d \in Codes \ {c} : selling'[d] = selling[d]
      BY <1>0, <2>3, <3>1, <3>3, <3>4
    <3>6. CASE owned[c] = 0
      <4>0. selling'[c] = selling[c]
        BY <3>3, <3>5, <3>6
      <4>1. selling' = selling
        BY <1>0, <3>5, <4>0
      <4> QED
        BY <1>1, <2>3, <3>4, <4>1
    <3>7. CASE owned[c] > 0
      <4>1. selling[c] + transit[c] = 0 /\ selling'[c] <= position[c] /\ UNCHANGED transit
        BY <2>3, <3>3, <3>4, <3>5
      <4> QED
        BY <1>0, <3>4, <3>5, <3>7, <4>1, AbstractSteps
    <3> QED
      BY <3>4, <3>6, <3>7
  <2> QED
    BY <1>4, <2>1, <2>2, <2>3 DEF SubmitPlan
<1>5. ASSUME NEW c \in Codes, FillSell(c) PROVE [Sale!Next]_(Sale!vars)
  <2>1. /\ selling' = [selling EXCEPT ![c] = selling[c] - 1] /\ selling[c] > 0
        /\ position' = [position EXCEPT ![c] = position[c] - 1] /\ position[c] > 0
        /\ UNCHANGED <<owned, transit>>
    BY <1>5 DEF FillSell
  <2>2. /\ selling'[c] = selling[c] - 1 /\ position'[c] = position[c] - 1
        /\ \A d \in Codes \ {c} : selling'[d] = selling[d] /\ position'[d] = position[d]
    BY <1>0, <2>1
  <2> QED
    BY <1>0, <2>1, <2>2, AbstractSteps
<1>6. ASSUME NEW c \in Codes, FillBuy(c) PROVE [Sale!Next]_(Sale!vars)
  <2>1. /\ position' = [position EXCEPT ![c] = position[c] + 1]
        /\ UNCHANGED <<owned, selling, transit>> /\ selling[c] = 0 /\ transit[c] = 0
    BY <1>6 DEF FillBuy, EodInv
  <2>2. /\ position'[c] = position[c] + 1
        /\ \A d \in Codes \ {c} : position'[d] = position[d]
    BY <1>0, <2>1
  <2> QED
    BY <1>0, <2>1, <2>2, AbstractSteps
<1>7. ASSUME NEW c \in Codes, Arrive(c) PROVE [Sale!Next]_(Sale!vars)
  BY <1>7 DEF Arrive, Traced, EodInv
<1>8. ASSUME NEW c \in Codes, ManualTrade(c) PROVE [Sale!Next]_(Sale!vars)
  BY <1>0, <1>8 DEF ManualTrade, Traced
<1> QED
  BY <1>2, <1>3, <1>4, <1>5, <1>6, <1>7, <1>8 DEF Next, ProcessStep, BrokerStep

\* The liquidation calls implement ExclusiveSale, for any symbols, passes, refusals and
\* failed reads, until the owner trades, an answer is lost or a snapshot is reused.
THEOREM CallsImplementSale == Spec => SaleExclusive
<1>1. Init => Sale!Init
  <2> SUFFICES ASSUME Init PROVE Sale!Init
    OBVIOUS
  <2>1. position \in [Codes -> Nat]
    BY EodNumbers DEF Init
  <2>2. [c \in Codes |-> selling[c] + transit[c]] = [c \in Codes |-> 0]
    BY DEF Init
  <2> QED
    BY <2>1, <2>2 DEF Sale!Init
<1>2. EodInv /\ EodInv' /\ [Next]_vars => [Sale!Next \/ ~Traced']_(Sale!vars)
  BY SaleRefined
<1> QED
  BY <1>1, <1>2, EodInvariance, PTL DEF Spec, SaleExclusive
=============================================================================
