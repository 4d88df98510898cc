----------------------------- MODULE PaperLedger -----------------------------
(***************************************************************************)
(* Paper trading of one symbol: a signal becomes an order, the order is    *)
(* gated by risk, filled by the PaperBroker in memory, and the fill is     *)
(* carried to the database in commits of their own - the order row, the    *)
(* execution, the position and the portfolio snapshot.  A session that is  *)
(* started again rebuilds its PaperBroker from those tables, whatever      *)
(* commit the last one reached.  At the close every position is sold.      *)
(*                                                                         *)
(* The price is 1 and there are no fees, so that a share and a unit of     *)
(* cash are the same value; every order is a MARKET order, as the service  *)
(* sends them.  At most one order is queued: whatever enqueues one takes   *)
(* it out again, executes it or ends the session.                          *)
(***************************************************************************)
EXTENDS Integers, FiniteSets

CONSTANTS Entries,          \* BUY signals of the strategies
          Exits,            \* EXIT signals of the strategies and the tick stop
          NoSignal,
          MaxDays,          \* bound: business days
          MaxAttempts,      \* limit of the liquidation loop (10000 in the code)
          Lot,              \* shares of a signal
          InitialCash,      \* PaperBrokerSettings.initial_cash
          MaxCrashes,       \* bound: deaths of the session
          MaxFailures       \* bound: prices the broker cannot get

ASSUME PaperAssumption ==
  /\ {MaxDays, MaxAttempts, Lot} \subseteq Nat \ {0}
  /\ {InitialCash, MaxCrashes, MaxFailures} \subseteq Nat
  /\ Entries \intersect Exits = {}
  /\ (Entries \union Exits) \intersect ((1..MaxDays) \X (1..MaxAttempts)) = {}

\* Liquidation signals are named by date and attempt.
Days         == 1..MaxDays
Liquidations == Days \X (1..MaxAttempts)
Signals      == Entries \union Exits \union Liquidations

VARIABLES
  \* durable
  status,                   \* of the order row of a signal; "none" without one
  quantity,                 \* its quantity
  executed,                 \* signals whose execution is in trade_executions
  position,                 \* local position
  balance,                  \* cash of the latest portfolio snapshot
  \* the PaperBroker, in memory
  cash, shares,
  book,                     \* its orders: "none", "sent" or "filled"
  \* the session
  pc,                       \* the next step
  signal,                   \* the one in hand
  attempt,                  \* 0 while trading, else of the liquidation loop
  day,
  \* bounds
  crashes, failures

order   == <<status, quantity>>
tables  == <<order, executed, position, balance>>
broker  == <<cash, shares, book>>
session == <<pc, signal, attempt, day>>
vars    == <<tables, broker, session, crashes, failures>>

Closing == attempt > 0

Init ==
  /\ status = [s \in Signals |-> "none"] /\ quantity = [s \in Signals |-> 0]
  /\ executed = {} /\ position = 0 /\ balance = InitialCash
  /\ cash = InitialCash /\ shares = 0 /\ book = [s \in Signals |-> "none"]
  /\ pc = "idle" /\ signal = NoSignal /\ attempt = 0 /\ day = 1
  /\ crashes = 0 /\ failures = 0

Goto(step) == pc' = step /\ UNCHANGED <<signal, attempt, day>>

\* The signal in hand is done with: the loop goes on.
Done == Goto(IF Closing THEN "liquidate" ELSE "idle")

\* An exception ends the cycle while trading; out of the liquidation it ends the
\* session.
Raise == Goto(IF Closing THEN "failed" ELSE "idle")

-----------------------------------------------------------------------------
(* From the signal to the order.                                           *)

\* enqueue_signal, for a signal without an order.
CreateOrder(s, shares_) ==
  /\ status[s] = "none"
  /\ status' = [status EXCEPT ![s] = "new"]
  /\ quantity' = [quantity EXCEPT ![s] = shares_]

\* Orders the PaperBroker has accepted and not filled: only a session that died
\* after SENT leaves one to the next.
Working == {s \in Signals : book[s] = "sent"}

\* A strategy or the tick stop signals.  Each does so after update_market_price has
\* been through the working orders: while one of them cannot be filled it raises
\* BrokerOrderRejectedError, and every cycle ends there.
Signal(s) ==
  /\ pc = "idle" /\ s \in Entries \union Exits /\ Working = {}
  /\ CreateOrder(s, Lot)
  /\ pc' = "gate" /\ signal' = s /\ UNCHANGED <<attempt, day>>
  /\ UNCHANGED <<executed, position, balance, broker, crashes, failures>>

\* Mutant: a symbol that is held may be bought again.
GateWithoutDuplicates ==
  /\ pc = "gate"
  /\ \/ signal \in Exits /\ Goto("submit")
     \/ signal \in Entries /\ cash >= Lot /\ Goto("submit")
     \/ signal \in Entries /\ Goto("idle")
  /\ UNCHANGED <<tables, broker, crashes, failures>>

\* An EXIT always passes.  A BUY passes only if the broker holds nothing of the
\* symbol and has the cash, and may be blocked by the other limits; a blocked
\* order leaves the queue and its row stays NEW.
Gate ==
  /\ pc = "gate"
  /\ \/ signal \in Exits /\ Goto("submit")
     \/ signal \in Entries /\ shares = 0 /\ cash >= Lot /\ Goto("submit")
     \/ signal \in Entries /\ Goto("idle")
  /\ UNCHANGED <<tables, broker, crashes, failures>>

\* OrderBrokerSyncService.submit: a new order is QUEUED first; a QUEUED one, left by
\* a session that died, is sent again; one with a broker id is refreshed, any other
\* refused.
Submit ==
  /\ pc = "submit"
  /\ \/ /\ status[signal] = "new"
        /\ status' = [status EXCEPT ![signal] = "queued"] /\ Goto("transmit")
     \/ status[signal] = "queued" /\ Goto("resend") /\ UNCHANGED status
     \/ status[signal] \in {"sent", "filled"} /\ Goto("refresh") /\ UNCHANGED status
     \/ status[signal] = "failed" /\ Raise /\ UNCHANGED status
  /\ UNCHANGED <<quantity, executed, position, balance, broker, crashes, failures>>

-----------------------------------------------------------------------------
(* The PaperBroker.                                                        *)

Side(s)      == IF s \in Entries THEN "buy" ELSE "sell"
Available(s) == IF Side(s) = "buy" THEN cash ELSE shares

\* _execute_fill moves shares against cash.
Fill(s) ==
  /\ book' = [book EXCEPT ![s] = "filled"]
  /\ IF Side(s) = "buy"
     THEN cash' = cash - quantity[s] /\ shares' = shares + quantity[s]
     ELSE cash' = cash + quantity[s] /\ shares' = shares - quantity[s]

\* submit_order: an order it knows is answered with its state; a new one fills at
\* once if cash or shares suffice.
Transmit ==
  /\ pc \in {"transmit", "resend"}
  /\ \/ book[signal] # "none" /\ UNCHANGED broker
     \/ book[signal] = "none" /\ Available(signal) >= quantity[signal] /\ Fill(signal)
  /\ Goto("sent")
  /\ UNCHANGED <<tables, crashes, failures>>

\* The order is rejected, or has no price: submit raises.  The row of a new order is
\* FAILED first; one that was sent again stays QUEUED.
TransmitFails ==
  /\ pc \in {"transmit", "resend"} /\ book[signal] = "none"
  /\ \/ Available(signal) < quantity[signal] /\ UNCHANGED failures
     \/ failures < MaxFailures /\ failures' = failures + 1
  /\ status' = IF pc = "transmit" THEN [status EXCEPT ![signal] = "failed"] ELSE status
  /\ Raise
  /\ UNCHANGED <<quantity, executed, position, balance, broker, crashes>>

\* update_market_price, at every bar and tick, fills a working order for which cash
\* or shares suffice; the order rows are not told.
UpdateMarketPrice(s) ==
  /\ pc = "idle" /\ s \in Working /\ Available(s) >= quantity[s]
  /\ Fill(s)
  /\ UNCHANGED <<tables, session, crashes, failures>>

-----------------------------------------------------------------------------
(* From the fill to the tables.                                            *)

\* _apply_snapshot: SENT with the broker's id, then FILLED.
MarkSent ==
  /\ pc = "sent"
  /\ status' = [status EXCEPT ![signal] = "sent"]
  /\ Goto("refresh")
  /\ UNCHANGED <<quantity, executed, position, balance, broker, crashes, failures>>

\* An order the broker has not filled is popped as active: no execution.
Refresh ==
  /\ pc = "refresh"
  /\ IF book[signal] = "filled"
     THEN status' = [status EXCEPT ![signal] = "filled"] /\ Goto("save")
     ELSE Raise /\ UNCHANGED status
  /\ UNCHANGED <<quantity, executed, position, balance, broker, crashes, failures>>

\* Mutant: the position is updated without the execution.
SaveNothing ==
  /\ pc = "save"
  /\ IF signal \in executed THEN Raise ELSE Goto("apply")
  /\ UNCHANGED <<tables, broker, crashes, failures>>

\* _save_new_fill returns no execution when all of the fill is recorded; the
\* liquidation takes that for a failure.
SaveNewFill ==
  /\ pc = "save"
  /\ IF signal \in executed
     THEN Raise /\ UNCHANGED executed
     ELSE executed' = executed \union {signal} /\ Goto("apply")
  /\ UNCHANGED <<order, position, balance, broker, crashes, failures>>

\* Mutant: a sale is not compared with the local position.
ApplyUnchecked ==
  /\ pc = "apply"
  /\ position' = IF Side(signal) = "buy" THEN position + quantity[signal]
                                         ELSE position - quantity[signal]
  /\ Goto("snapshot")
  /\ UNCHANGED <<order, executed, balance, broker, crashes, failures>>

\* PositionService.apply_execution refuses to sell more than the local position.
ApplyExecution ==
  /\ pc = "apply"
  /\ \/ /\ Side(signal) = "buy"
        /\ position' = position + quantity[signal] /\ Goto("snapshot")
     \/ /\ Side(signal) = "sell" /\ position >= quantity[signal]
        /\ position' = position - quantity[signal] /\ Goto("snapshot")
     \/ /\ Side(signal) = "sell" /\ position < quantity[signal]
        /\ Raise /\ UNCHANGED position
  /\ UNCHANGED <<order, executed, balance, broker, crashes, failures>>

\* Mutant: the snapshot is saved only when a position is left.
SnapshotOfPositions ==
  /\ pc = "snapshot"
  /\ \/ position > 0 /\ position # shares /\ Raise /\ UNCHANGED balance
     \/ position > 0 /\ position = shares /\ balance' = cash /\ Done
     \/ position = 0 /\ Done /\ UNCHANGED balance
  /\ UNCHANGED <<order, executed, position, broker, crashes, failures>>

\* create_snapshot compares each local position with the broker's, and saves the
\* broker's cash.
CreateSnapshot ==
  /\ pc = "snapshot"
  /\ IF position > 0 /\ position # shares
     THEN Raise /\ UNCHANGED balance
     ELSE balance' = cash /\ Done
  /\ UNCHANGED <<order, executed, position, broker, crashes, failures>>

-----------------------------------------------------------------------------
(* The close, and the next session.                                        *)

MarketClose ==
  /\ pc = "idle"
  /\ pc' = "liquidate" /\ UNCHANGED <<signal, attempt, day>>
  /\ UNCHANGED <<tables, broker, crashes, failures>>

\* Mutant: the signals of the liquidation are named by attempt, not by date.
CloseSameSignals ==
  /\ pc = "liquidate"
  /\ \/ shares = 0 /\ Goto("closed") /\ UNCHANGED order
     \/ shares > 0 /\ attempt = MaxAttempts /\ Goto("failed") /\ UNCHANGED order
     \/ /\ shares > 0 /\ attempt < MaxAttempts
        /\ attempt' = attempt + 1 /\ signal' = <<1, attempt'>> /\ pc' = "submit"
        /\ UNCHANGED day
        /\ IF status[signal'] = "none" THEN CreateOrder(signal', shares) ELSE UNCHANGED order
  /\ UNCHANGED <<executed, position, balance, broker, crashes, failures>>

\* close_all_positions sells what the broker holds until it holds nothing.  Its
\* signals skip the gate; one that already has an order keeps it.
CloseAllPositions ==
  /\ pc = "liquidate"
  /\ \/ shares = 0 /\ Goto("closed") /\ UNCHANGED order
     \/ shares > 0 /\ attempt = MaxAttempts /\ Goto("failed") /\ UNCHANGED order
     \/ /\ shares > 0 /\ attempt < MaxAttempts
        /\ attempt' = attempt + 1 /\ signal' = <<day, attempt'>> /\ pc' = "submit"
        /\ UNCHANGED day
        /\ IF status[signal'] = "none" THEN CreateOrder(signal', shares) ELSE UNCHANGED order
  /\ UNCHANGED <<executed, position, balance, broker, crashes, failures>>

\* PaperBrokerRecoveryService: cash of the latest snapshot, the local positions,
\* and the orders whose row has a broker id.
Recover ==
  /\ cash' = balance /\ shares' = position
  /\ book' = [s \in Signals |-> IF status[s] \in {"sent", "filled"} THEN status[s] ELSE "none"]
  /\ pc' = "idle" /\ signal' = NoSignal /\ attempt' = 0

\* The day ends before the close of the market - a stop request, the limit of cycles,
\* a critical resource, a failed cycle with --stop-on-cycle-failure - and nothing is
\* sold.
StopEarly ==
  /\ pc = "idle" /\ Goto("stopped")
  /\ UNCHANGED <<tables, broker, crashes, failures>>

\* The session dies and is started again, on the same day or the next.
Crash ==
  /\ pc \notin {"stopped", "closed", "failed"}
  /\ crashes < MaxCrashes /\ crashes' = crashes + 1
  /\ Recover /\ day' \in {day, day + 1} \intersect Days
  /\ UNCHANGED <<tables, failures>>

\* A session that was stopped is started again on the day or the next, one that
\* closed or failed on the next.
NextSession ==
  /\ \/ pc = "stopped" /\ day' \in {day, day + 1} \intersect Days
     \/ pc \in {"closed", "failed"} /\ day < MaxDays /\ day' = day + 1
  /\ Recover
  /\ UNCHANGED <<tables, crashes, failures>>

-----------------------------------------------------------------------------

Step ==
  \/ Gate \/ Submit \/ Transmit \/ TransmitFails \/ MarkSent \/ Refresh
  \/ SaveNewFill \/ ApplyExecution \/ CreateSnapshot \/ CloseAllPositions

Next ==
  \/ Step \/ MarketClose \/ StopEarly \/ Crash \/ NextSession
  \/ \E s \in Signals : Signal(s) \/ UpdateMarketPrice(s)

\* The session runs on, and the market closes.
Fairness == WF_vars(Step) /\ WF_vars(MarketClose)

Spec     == Init /\ [][Next]_vars
FairSpec == Spec /\ Fairness

-----------------------------------------------------------------------------
(* Properties.                                                             *)

\* The tables and the broker hold values of their types; nothing is oversold.
TypeOK ==
  /\ status \in [Signals -> {"none", "new", "queued", "sent", "filled", "failed"}]
  /\ quantity \in [Signals -> Nat]
  /\ executed \subseteq Signals
  /\ {position, balance, cash, shares} \subseteq Nat
  /\ book \in [Signals -> {"none", "sent", "filled"}]
  /\ pc \in {"idle", "gate", "submit", "transmit", "resend", "sent", "refresh", "save",
             "apply", "snapshot", "liquidate", "stopped", "closed", "failed"}
  /\ signal \in Signals \union {NoSignal} /\ attempt \in 0..MaxAttempts /\ day \in Days
  /\ crashes \in 0..MaxCrashes /\ failures \in 0..MaxFailures

Settled == pc \in {"idle", "liquidate", "stopped", "closed", "failed"}

\* Between two signals the tables say what the broker holds: a session started
\* from them ("restores the broker from the persisted orders, positions and
\* portfolio") is the one that stopped, unless it died at work.
Restorable ==
  Settled /\ crashes = 0 =>
    /\ position = shares /\ balance = cash
    /\ \A s \in Signals : book[s] # "none" => status[s] = book[s]

\* Every fill the order rows show is in trade_executions; a death of the session
\* costs the execution of at most one.
Unrecorded == {s \in Signals : status[s] = "filled"} \ executed

FillsRecorded == Cardinality(Unrecorded) <= crashes + (IF Settled THEN 0 ELSE 1)

\* A session that does not die never holds more of the symbol than one signal
\* buys ("duplicate_symbol_position").
OneEntryHeld == crashes = 0 => shares <= Lot /\ position <= Lot

\* The session seen from outside: a signal has traded once its execution is
\* recorded, and the position and the snapshot only follow.
Ledger == INSTANCE AtomicLedger WITH
            Buys   <- Entries,
            Sells  <- Exits \union Liquidations,
            traded <- executed,
            held   <- IF pc = "apply" THEN shares ELSE position,
            money  <- IF pc \in {"apply", "snapshot"} THEN cash ELSE balance

\* Until a session dies, the session, its broker and the tables implement
\* AtomicLedger: each signal trades in one step and once, a BUY from nothing and
\* with the money it costs, a SELL of everything held.
TradesAtomically == Ledger!Init /\ [][Ledger!Next \/ crashes' > 0]_(Ledger!vars)

\* Every session that reaches the close ends flat, in the broker and in the
\* tables, unless the broker has no price or a session died before.
ClosesFlat ==
  pc = "liquidate" ~>
    \/ pc = "closed" /\ shares = 0 /\ position = 0
    \/ crashes + failures > 0

\* The inductive form of Restorable, OneEntryHeld and TradesAtomically.  While no
\* session dies, the order of the signal in hand is new to the broker and to the
\* tables when it is sent, and its fill is the only difference between them.
Unsent == pc \in {"gate", "submit", "transmit"}
Filled == pc \in {"sent", "refresh", "save", "apply", "snapshot"}

InHand ==
  /\ pc # "resend" /\ (pc \in {"idle", "gate", "stopped"} => ~Closing)
  /\ pc = "gate" => signal \in Entries \union Exits
  /\ pc \in {"gate", "submit"} => status[signal] = "new"
  /\ pc \in {"transmit", "sent"} => status[signal] = "queued"
  /\ pc = "refresh" => status[signal] = "sent"
  /\ pc \in {"save", "apply", "snapshot"} => status[signal] = "filled"
  /\ Unsent => book[signal] = "none"
  /\ Filled => book[signal] = "filled"
  /\ pc \in {"submit", "transmit"} =>
       /\ signal \in Entries => shares = 0
       /\ signal \notin Entries \union Exits => shares > 0 /\ quantity[signal] = shares
  /\ Filled /\ signal \notin Entries => shares = 0 /\ quantity[signal] > 0
  /\ pc = "save" => signal \notin executed

Difference ==
  /\ Settled \/ Unsent => position = shares /\ balance = cash
  /\ Filled /\ pc # "snapshot" =>
       IF signal \in Entries THEN shares = position + quantity[signal]
                             ELSE position = shares + quantity[signal]
  /\ Filled => IF signal \in Entries THEN balance = cash + quantity[signal]
                                     ELSE cash = balance + quantity[signal]
  /\ pc = "snapshot" => position = shares

Others ==
  /\ executed \subseteq {s \in Signals : status[s] = "filled"}
  /\ \A s \in Signals : status[s] # "none" /\ s \in Entries \union Exits => quantity[s] = Lot
  /\ \A s \in Signals : Settled \/ s # signal =>
       /\ status[s] \in {"none", "new", "failed", "filled"}
       /\ book[s] = IF status[s] = "filled" THEN "filled" ELSE "none"
  /\ \A d \in Days, k \in 1..MaxAttempts :
       d > day \/ (d = day /\ k > attempt) => status[<<d, k>>] = "none"

\* The inductive form of FillsRecorded: only the step in between leaves a fill out.
Saving == IF pc = "save" THEN {signal} ELSE {}

FillsKept == IsFiniteSet(Unrecorded) /\ Cardinality(Unrecorded \ Saving) <= crashes

LedgerInv ==
  /\ TypeOK
  /\ FillsKept
  /\ ~Settled => signal \in Signals
  /\ crashes = 0 => OneEntryHeld /\ InHand /\ Difference /\ Others
=============================================================================
