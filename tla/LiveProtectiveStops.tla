-------------------------- MODULE LiveProtectiveStops --------------------------
(***************************************************************************)
(* Between 9:00 and 15:20 LiveProductionRunner runs one cycle every two    *)
(* seconds: reconcile the unfinished entries, compare the position with    *)
(* its stop row, evaluate the stop, and (in the full cycle) the exit       *)
(* signals of the strategy.  This module follows one symbol whose entry    *)
(* has filled, at least partly, and whose stop row is recorded.            *)
(*                                                                         *)
(* A SELL is sent after the unfinished orders of the symbol have been      *)
(* cancelled and the position has been read again; mark_exit_pending       *)
(* follows in a transaction of its own.  The pipeline that sends an order  *)
(* is LiveExecutionJournal and one cancellation is LiveCancelJournal; only *)
(* their outcomes appear here.                                             *)
(***************************************************************************)
EXTENDS Naturals, FiniteSets, Functions

CONSTANTS Lot,              \* shares of the recorded fill
          Rest,             \* shares of the entry that may still be unfilled
          CacheSettings,    \* cache_ttl_seconds > 0, for each deployment
          MaxCrashes,       \* bound: deaths of the process
          MaxFailures,      \* bound: account, order or price reads that fail
          MaxLost,          \* bound: SELL submissions whose answer is lost
          MaxRefusals,      \* bound: cancels and submissions that are refused
          MaxManual         \* bound: trades of the owner in the same account

ASSUME StopAssumption ==
  /\ Lot \in Nat \ {0} /\ Rest \in Nat /\ CacheSettings \subseteq BOOLEAN
  /\ {MaxCrashes, MaxFailures, MaxLost, MaxRefusals, MaxManual} \subseteq Nat

VARIABLES
  \* durable
  state, quantity,          \* of the stop row
  begun,                    \* orders with a row in the cancel journal
  entry,                    \* "open" while the registry still lists the entry
  \* the process
  pc,                       \* the next step of the cycle
  mode,                     \* whether "stop" or "strategy" wants to sell
  conflicts,                \* unfinished orders still to be cancelled
  order,                    \* the one whose cancel is under way
  planned,                  \* quantity of the SELL plan
  cache, caching,           \* the account snapshot, and whether it is kept
  \* the market and the broker
  low,                      \* the price is at or below the stop price
  position,                 \* shares held
  bought, buying,           \* filled and unfinished shares of the entry
  attempts,                 \* SELL orders sent so far
  selling,                  \* unfinished shares of each SELL order
  transit,                  \* shares of SELL requests the broker has not handled
  \* bounds
  crashes, failures, lost, refusals, manual

row     == <<state, quantity>>
process == <<pc, mode, conflicts, order, planned>>
account == <<cache, caching>>
broker  == <<position, bought, buying, attempts, selling, transit>>
bounds  == <<crashes, failures, lost, refusals, manual>>
vars    == <<row, begun, entry, process, account, low, broker, bounds>>

\* Every submission of a SELL is refused, ends in mark_exit_pending, or is cut
\* short by a crash.
Sells  == 1 .. (1 + MaxRefusals + MaxCrashes)
Entry  == 0                 \* the BUY order of the entry
Orders == {Entry} \union Sells

Unfinished(o) == IF o = Entry THEN buying ELSE selling[o]
Open          == {o \in Orders : Unfinished(o) > 0}

NoSnapshot == Lot + Rest + MaxManual + 1

Init ==
  /\ state = "active" /\ quantity = Lot /\ begun = {}
  /\ position = Lot /\ bought = Lot
  /\ \/ entry = "resolved" /\ buying = 0
     \/ entry = "open" /\ buying = Rest /\ Rest > 0
  /\ pc = "wait" /\ mode = "stop" /\ conflicts = {} /\ order = Entry /\ planned = 0
  /\ cache = NoSnapshot /\ caching \in CacheSettings /\ low = FALSE
  /\ attempts = 0
  /\ selling = [n \in Sells |-> 0] /\ transit = [n \in Sells |-> 0]
  /\ crashes = 0 /\ failures = 0 /\ lost = 0 /\ refusals = 0 /\ manual = 0

-----------------------------------------------------------------------------
(* Reads, and what a step leaves alone.                                    *)

\* refresh(): the cached snapshot, or a new one when the cache has expired.
Snapshots == IF cache = NoSnapshot THEN {position} ELSE {cache, position}

AccountRead(s) ==
  cache' = (IF caching THEN s ELSE NoSnapshot) /\ UNCHANGED <<caching, bounds>>

Fails ==
  /\ failures < MaxFailures /\ failures' = failures + 1
  /\ UNCHANGED <<crashes, lost, refusals, manual>>

Refused ==
  /\ refusals < MaxRefusals /\ refusals' = refusals + 1
  /\ UNCHANGED <<crashes, failures, lost, manual>>

Goto(step) == pc' = step /\ UNCHANGED <<mode, conflicts, order, planned>>

\* The cycle ends, blocked or not; the next one starts from the durable state.
EndCycle == Goto("wait")

\* The resolver has no plan.  submit_stop_loss is blocked, but evaluates the stop for
\* its answer, and that reads the account; a strategy exit does not.
Conflicted ==
  /\ EndCycle
  /\ cache' \in IF mode = "stop" /\ caching THEN {cache, position} ELSE {cache}
  /\ UNCHANGED caching

Retire == state' = "retired" /\ UNCHANGED quantity

-----------------------------------------------------------------------------
(* LiveProductionRunner: the steps before the stop is evaluated.           *)

StartCycle ==
  /\ pc = "wait"
  /\ pc' = "reconcile" /\ mode' = "stop" /\ conflicts' = {} /\ planned' = 0
  /\ UNCHANGED <<row, begun, entry, order, account, low, broker, bounds>>

\* A read of the cycle fails before anything was sent: the cycle is blocked.
ReadFails ==
  /\ pc \in {"reconcile", "protect", "stops", "check", "recheck", "replan", "submit"}
  /\ Fails
  /\ IF pc \in {"check", "recheck"} THEN Conflicted ELSE EndCycle /\ UNCHANGED account
  /\ UNCHANGED <<row, begun, entry, low, broker>>

\* An entry that is still listed passes only while its BUY is working, its
\* fills explain the position and its row is active, which then takes over the
\* cumulative quantity.  A BUY that ended after a partial fill was saved cannot
\* pass: the saved fill no longer equals the one the broker reports.
ReconcileEntry(s) ==
  /\ pc = "reconcile"
  /\ \/ /\ entry = "resolved" /\ s = position
        /\ Goto("protect") /\ UNCHANGED <<row, account, bounds>>
     \/ /\ entry = "open" /\ buying > 0 /\ s = bought /\ state = "active"
        /\ AccountRead(s)
        /\ quantity' = bought /\ UNCHANGED state
        /\ Goto("protect")
     \/ /\ entry = "open" /\ ~(buying > 0 /\ s = bought /\ state = "active")
        /\ AccountRead(s)
        /\ EndCycle /\ UNCHANGED row
  /\ UNCHANGED <<begun, entry, low, broker>>

\* LivePositionProtectionReconciliation: the rows of a flat symbol are retired;
\* a position needs one current row of its quantity, or the cycle is blocked.
ProtectPosition(s) ==
  /\ pc = "protect"
  /\ AccountRead(s)
  /\ \/ s = 0 /\ Retire /\ EndCycle
     \/ s > 0 /\ state # "retired" /\ quantity = s /\ Goto("stops") /\ UNCHANGED row
     \/ s > 0 /\ ~(state # "retired" /\ quantity = s) /\ EndCycle /\ UNCHANGED row
  /\ UNCHANGED <<begun, entry, low, broker>>

\* The row of a pending exit is retired once the symbol is flat; until then its
\* order is only observed, and no other exit may start.
EvaluateRow(s) ==
  /\ pc = "stops"
  /\ \/ /\ state = "exit_pending" /\ AccountRead(s) /\ EndCycle
        /\ IF s = 0 THEN Retire ELSE UNCHANGED row
     \/ state = "active" /\ s = position /\ Goto("check") /\ UNCHANGED <<row, account, bounds>>
  /\ UNCHANGED <<begun, entry, low, broker>>

-----------------------------------------------------------------------------
(* LiveProtectiveExitConflictResolver.                                     *)

\* Mutant: only the orders of the other side are in the way of a strategy exit.
CheckIgnoringSells ==
  /\ pc = "check"
  /\ IF Open \ Sells = {}
     THEN Goto("replan")
     ELSE pc' = "cancel" /\ conflicts' = Open \ Sells /\ UNCHANGED <<mode, order, planned>>
  /\ UNCHANGED <<row, begun, entry, account, low, broker, bounds>>

\* Mutant: a BUY is not in the way of a SELL.
CheckIgnoringBuys ==
  /\ pc = "check"
  /\ IF Open \intersect Sells = {}
     THEN Goto("replan")
     ELSE pc' = "cancel" /\ conflicts' = Open \intersect Sells
          /\ UNCHANGED <<mode, order, planned>>
  /\ UNCHANGED <<row, begun, entry, account, low, broker, bounds>>

\* The unfinished orders of the symbol.  For a stop all are cancelled, whether
\* or not the price has reached it; a strategy exit leaves a SELL alone.
CheckConflicts ==
  /\ pc = "check"
  /\ \/ Open = {} /\ Goto("replan")
     \/ mode = "strategy" /\ Open \intersect Sells # {} /\ EndCycle
     \/ /\ Open # {} /\ (mode = "stop" \/ Open \intersect Sells = {})
        /\ pc' = "cancel" /\ conflicts' = Open
        /\ UNCHANGED <<mode, order, planned>>
  /\ UNCHANGED <<row, begun, entry, account, low, broker, bounds>>

\* begin_once makes the attempt durable before the request is sent.
BeginCancel(o) ==
  /\ pc = "cancel" /\ o \in conflicts /\ o \notin begun
  /\ begun' = begun \union {o} /\ order' = o /\ pc' = "cancelling"
  /\ UNCHANGED <<row, entry, mode, conflicts, planned, account, low, broker, bounds>>

\* The broker ends the order and /orders shows it; or the request fails, is
\* refused or leaves the order working, and the cycle is blocked.
CancelOrder ==
  /\ pc = "cancelling"
  /\ \/ /\ IF order = Entry
           THEN buying' = 0 /\ UNCHANGED selling
           ELSE selling' = [selling EXCEPT ![order] = 0] /\ UNCHANGED buying
        /\ pc' = "cancel" /\ conflicts' = conflicts \ {order}
        /\ UNCHANGED <<mode, order, planned, account, bounds>>
     \/ Refused /\ Conflicted /\ UNCHANGED <<buying, selling>>
  /\ UNCHANGED <<row, begun, entry, low, position, bought, attempts, transit>>

\* An attempt an earlier cycle began is never sent again: only an order that
\* has ended counts as cancelled.
ReconcileCancel(o) ==
  /\ pc = "cancel" /\ o \in conflicts \intersect begun
  /\ IF Unfinished(o) = 0
     THEN conflicts' = conflicts \ {o} /\ UNCHANGED <<pc, mode, order, planned, account>>
     ELSE Conflicted
  /\ UNCHANGED <<row, begun, entry, low, broker, bounds>>

AllCancelled ==
  /\ pc = "cancel" /\ conflicts = {}
  /\ Goto("recheck")
  /\ UNCHANGED <<row, begun, entry, account, low, broker, bounds>>

Recheck ==
  /\ pc = "recheck"
  /\ IF Open = {} THEN Goto("replan") /\ UNCHANGED account ELSE Conflicted
  /\ UNCHANGED <<row, begun, entry, low, broker, bounds>>

PlanSell(s) == pc' = "submit" /\ planned' = s /\ UNCHANGED <<mode, conflicts, order>>

\* evaluate_stop_loss sells what the account shows once the price has reached
\* the stop; a strategy exit must find the quantity of its row.
Replan(s) ==
  /\ pc = "replan"
  /\ AccountRead(s)
  /\ \/ s = 0 /\ EndCycle /\ (IF mode = "stop" THEN Retire ELSE UNCHANGED row)
     \/ s > 0 /\ mode = "stop" /\ low /\ PlanSell(s) /\ UNCHANGED row
     \/ s > 0 /\ mode = "stop" /\ ~low /\ Goto("exits") /\ UNCHANGED row
     \/ s > 0 /\ mode = "strategy" /\ s = quantity /\ PlanSell(s) /\ UNCHANGED row
     \/ s > 0 /\ mode = "strategy" /\ s # quantity /\ EndCycle /\ UNCHANGED row
  /\ UNCHANGED <<begun, entry, low, broker>>

-----------------------------------------------------------------------------
(* Sending the SELL.                                                       *)

Started == attempts' = attempts + 1 /\ Goto("mark")

\* Nothing reaches the broker.  A stop counts a submission the transport blocked
\* as started; a strategy exit does not.
SubmitRefused ==
  /\ pc = "submit"
  /\ Refused
  /\ \/ EndCycle /\ UNCHANGED attempts
     \/ mode = "stop" /\ Started
  /\ UNCHANGED <<row, begun, entry, account, low, position, bought, buying,
                 selling, transit>>

\* The baseline must equal the plan; then the broker accepts the order, or its
\* answer is lost.
SubmitPlan(s) ==
  /\ pc = "submit"
  /\ cache' = (IF caching THEN s ELSE NoSnapshot) /\ UNCHANGED caching
  /\ \/ s # planned /\ EndCycle /\ UNCHANGED <<attempts, selling, transit, bounds>>
     \/ /\ s = planned /\ Started
        /\ selling' = [selling EXCEPT ![attempts + 1] = planned]
        /\ UNCHANGED <<transit, bounds>>
     \/ /\ s = planned /\ Started
        /\ lost < MaxLost /\ lost' = lost + 1
        /\ transit' = [transit EXCEPT ![attempts + 1] = planned]
        /\ UNCHANGED <<selling, crashes, failures, refusals, manual>>
  /\ UNCHANGED <<row, begun, entry, low, position, bought, buying>>

\* Mutant: the submission is not noted in the row.
MarkNothing ==
  /\ pc = "mark"
  /\ EndCycle
  /\ UNCHANGED <<row, begun, entry, account, low, broker, bounds>>

MarkExitPending ==
  /\ pc = "mark"
  /\ state' = "exit_pending" /\ UNCHANGED quantity
  /\ EndCycle
  /\ UNCHANGED <<begun, entry, account, low, broker, bounds>>

\* LiveStrategyExitCycle: the strategy has an exit signal, or the cycle ends.
StrategyExit ==
  /\ pc = "exits"
  /\ \/ EndCycle
     \/ pc' = "check" /\ mode' = "strategy" /\ UNCHANGED <<conflicts, order, planned>>
  /\ UNCHANGED <<row, begun, entry, account, low, broker, bounds>>

ProcessStep ==
  \/ StartCycle \/ ReadFails \/ CheckConflicts \/ CancelOrder \/ AllCancelled
  \/ Recheck \/ SubmitRefused \/ MarkExitPending \/ StrategyExit
  \/ \E o \in Orders : BeginCancel(o) \/ ReconcileCancel(o)
  \/ \E s \in Snapshots : ReconcileEntry(s) \/ ProtectPosition(s) \/ EvaluateRow(s)
                          \/ Replan(s) \/ SubmitPlan(s)

\* The process dies and is started again; its snapshot is gone.
Crash ==
  /\ pc # "wait" /\ crashes < MaxCrashes /\ crashes' = crashes + 1
  /\ EndCycle /\ cache' = NoSnapshot
  /\ UNCHANGED <<row, begun, entry, caching, low, broker, failures, lost, refusals, manual>>

-----------------------------------------------------------------------------
(* The market, the broker and the owner of the account.                    *)

PriceMoves ==
  /\ low' = ~low
  /\ UNCHANGED <<row, begun, entry, process, account, broker, bounds>>

FillBuy ==
  /\ buying > 0
  /\ buying' = buying - 1 /\ bought' = bought + 1 /\ position' = position + 1
  /\ UNCHANGED <<row, begun, entry, process, account, low, attempts, selling, transit, bounds>>

\* A SELL fills as far as the shares suffice.
FillSell(n) ==
  /\ selling[n] > 0 /\ position > 0
  /\ selling' = [selling EXCEPT ![n] = @ - 1] /\ position' = position - 1
  /\ UNCHANGED <<row, begun, entry, process, account, low, bought, buying,
                 attempts, transit, bounds>>

\* A request whose answer was lost reaches the broker after all, or never.
Arrive(n) ==
  /\ transit[n] > 0
  /\ transit' = [transit EXCEPT ![n] = 0]
  /\ selling' \in {selling, [selling EXCEPT ![n] = transit[n]]}
  /\ UNCHANGED <<row, begun, entry, process, account, low, position, bought, buying,
                 attempts, bounds>>

ManualTrade ==
  /\ manual < MaxManual /\ manual' = manual + 1
  /\ position' \in {position + 1, position - 1} \intersect Nat
  /\ UNCHANGED <<row, begun, entry, process, account, low, bought, buying, attempts,
                 selling, transit, crashes, failures, lost, refusals>>

-----------------------------------------------------------------------------

Next ==
  \/ ProcessStep \/ Crash \/ PriceMoves \/ FillBuy \/ ManualTrade
  \/ \E n \in Sells : FillSell(n) \/ Arrive(n)

\* The runner keeps cycling; an accepted market order fills.
Fairness ==
  /\ WF_vars(ProcessStep)
  /\ \A n \in Sells : WF_vars(FillSell(n))

Spec == Init /\ [][Next]_vars
FairSpec == Spec /\ Fairness

-----------------------------------------------------------------------------
(* Properties.                                                             *)

\* Shares on sale, at the broker or on their way to it.
OnSale == SumFunction(selling) + SumFunction(transit)

\* The row, the process and the broker hold values of their types; a plan and a
\* snapshot never exceed what the symbol can hold.
TypeOK ==
  /\ state \in {"active", "exit_pending", "retired"} /\ quantity \in Lot..(Lot + Rest)
  /\ begun \subseteq Orders /\ entry \in {"open", "resolved"}
  /\ pc \in {"wait", "reconcile", "protect", "stops", "check", "cancel", "cancelling",
             "recheck", "replan", "submit", "mark", "exits"}
  /\ mode \in {"stop", "strategy"} /\ conflicts \subseteq Orders /\ order \in Orders
  /\ {planned, cache, position} \subseteq 0..NoSnapshot
  /\ caching \in BOOLEAN /\ low \in BOOLEAN
  /\ bought \in Nat /\ buying \in Nat /\ bought + buying <= Lot + Rest
  /\ attempts \in {0} \union Sells
  /\ {selling, transit} \subseteq [Sells -> 0..NoSnapshot]
  /\ crashes \in 0..MaxCrashes /\ failures \in 0..MaxFailures /\ lost \in 0..MaxLost
  /\ refusals \in 0..MaxRefusals /\ manual \in 0..MaxManual

\* Left out of what follows are a trade of the owner, and a death of the process
\* with a snapshot that is reused after the restart or a request on its way.
Traced == manual = 0 /\ ~(crashes > 0 /\ (caching \/ lost > 0))

\* The shares are never on sale twice, though each submission uses a new
\* execution key ("duplicate-sell protection").
SoldOnce == Traced => OnSale <= position

\* The stop row and the SELLs seen from outside, as steps of ExclusiveSale.
Sale == INSTANCE ExclusiveSale WITH
          Symbols <- {"symbol"},
          covered <- IF state = "retired" THEN {} ELSE {"symbol"},
          held    <- [c \in {"symbol"} |-> position],
          offered <- [c \in {"symbol"} |-> OnSale]

\* As long as shares can be traced the stop and the exits of the strategy implement
\* ExclusiveSale: one offer at a time, of no more than is held, none while the BUY
\* fills, and the row stays until all is sold.
SaleExclusive == Sale!Init /\ [][Sale!Next \/ ~Traced']_(Sale!vars)

\* A row is given up only when KATANA holds nothing of the symbol any more, even
\* if its BUY was still filling when the position was read.
PositionCovered == manual = 0 /\ position > 0 => state # "retired"

\* The BUY of the entry can no longer fill once its shares are on sale: the
\* account is never on both sides of the market.
ExitsExcludeEntry == buying > 0 => \A n \in Sells : selling[n] = 0 /\ transit[n] = 0

\* The inductive form of PositionCovered and ExitsExcludeEntry.  A SELL is planned
\* only after no order of the symbol was open, and the BUY never comes back; an
\* empty position stays empty, whatever snapshot shows it.  Each cycle sends one
\* SELL, and the row stops the next one unless the process died in between.
Selling == {"check", "cancel", "cancelling", "recheck", "replan", "submit", "mark", "exits"}

Counts ==
  /\ Lot <= bought /\ position <= bought + manual
  /\ attempts <= crashes + (IF pc = "mark" \/ state # "active" THEN 1 ELSE 0)
  /\ pc \in Selling => state = "active"

Excluded == ExitsExcludeEntry /\ (pc \in {"replan", "submit"} => buying = 0)

Flat ==
  manual = 0 =>
    /\ position = 0 => buying = 0
    /\ cache = 0 => position = 0
    /\ state = "retired" => position = 0

\* The inductive form of SoldOnce.  Sold(n): no attempt but the n-th has shares on
\* sale, and that one at most what the symbol holds.  Up to the first attempt a
\* snapshot can only be too low; after a death of the process every order the
\* broker has is seen before the next plan, if none is still on its way.
Sold(n) ==
  /\ \A m \in Sells \ {n} : selling[m] = 0 /\ transit[m] = 0
  /\ selling[n] = 0 \/ transit[n] = 0
  /\ selling[n] + transit[n] <= position

Ahead == \A n \in Sells : n > attempts => selling[n] = 0 /\ transit[n] = 0

Remembered ==
  /\ ~caching => cache = NoSnapshot
  /\ manual = 0 /\ crashes = 0 /\ attempts = 0 => cache = NoSnapshot \/ cache <= position

Seen ==
  lost = 0 =>
    /\ \A n \in Sells : transit[n] = 0
    /\ pc \in {"replan", "submit"} => \A n \in Sells : selling[n] = 0

OneSale == Traced => \E n \in Sells : Sold(n)

CycleInv == TypeOK /\ Counts /\ Excluded /\ Flat
SaleInv  == Ahead /\ Remembered /\ Seen /\ OneSale
StopInv  == CycleInv /\ SaleInv

\* When the price stays at the stop, the position is sold, through failed reads
\* and a stale snapshot: with a resolved entry, if no submission is lost or
\* refused, the process does not die and the owner does not trade.
StopSells ==
  entry = "resolved" /\ <>[]low =>
    <>(position = 0 \/ lost + refusals + manual + crashes > 0)

\* The same across one death of the process ("Protective-stop persistence and
\* restart recovery"), with every read fresh and successful.
StopSurvivesRestart ==
  entry = "resolved" /\ ~caching /\ <>[]low =>
    <>(position = 0 \/ lost + refusals + manual + failures > 0 \/ crashes > 1)
=============================================================================
