# KATANA live trading: a TLA+ development

KATANA (`src/`) trades Japanese stocks through the broker's local gateway, kabu
Station. This directory specifies the part of it that can lose money when steps
interleave, fail or repeat: the live order path in `src/app/live`, the ledger of
paper trading, and the resident service that keeps the processes running. The
modules are translated from the Python source; TLC checks them on small
instances and TLAPS proves their safety for every instance.

## 1. Inventory

Components, the state they keep, what they do and what can go wrong. Paths are
under `src/app/live` unless they say otherwise. `PROJECT.json` lists every
component with its files and status.

| Component | State | Operations | Correct when |
|---|---|---|---|
| **Submission pipeline** (`live_prepared_execution_tracking_flow`, `live_order_adapter`, `live_execution_journal_repository`, `activated_live_submission_coordinator`, …) | SQLite: idempotency reservations, `live_execution_journal` (one row per execution key), position baselines | reserve, PREPARED, claim gate, CLAIMED, baseline, SUBMISSION_PENDING, one POST, SUBMITTED / ABORTED / UNKNOWN; operator's abort and recovery | an order leaves at most once; rows tell the truth about the broker |
| **Cancellation** (`live_protective_cancel_service`, `live_cancel_journal_repository`) | `live_cancel_journal` (one row per broker order) | insert once, one PUT, read `/orders`, complete, freeze, recover | one request an order; CANCELLED only of an order that has ended |
| **EOD liquidation** (`live_eod_liquidation_flow`, `live_protective_exit_service`, `…_conflict_resolver`, `live_exit_order_conflict_service`, `…_execution_flow`) | nothing durable of its own; reads stop rows as ownership | passes over owned positions: check orders, cancel BUYs, replan, SELL, verify | sells what is owned, once; COMPLETE only when flat; flat in the end |
| **Account cache** (`live_account_state_service`) | one snapshot, five seconds | `refresh` | readers survive a stale or failed read |
| **Entry reconciliation** (`live_entry_reconciliation_registry`, `…_cycle`, `live_confirmed_entry_stop_recorder`, `live_execution_tracking_flow`, `live_execution_position_consistency`) | registry row per BUY, ledger of fills (`trade_executions`) | register, list pending, ask the broker, compare with the account, save fills, record the stop, complete | no exposure outside the books; every fill gets its stop |
| **Protective stops** (`live_protective_stop_repository`, `live_position_protection_reconciliation`, `live_protective_stop_cycle`) | `live_protective_stops` | record, grow, exit pending, retire; check positions against stops; cancel, replan, SELL | at most one current stop a symbol, for what was bought; its shares are sold once, and are sold when the price stays at the stop |
| **Strategy exits** (`live_strategy_exit_flow`) | the stop row | sell on a strategy's signal | same |
| **Runner and session loop** (`live_production_runner`, `live_production_composition`) | memory: engine, bars, emitted signals | strategy cycle (30 s), protective cycle (2 s) in between, carryover, EOD 15:20-15:30 | trouble blocks new risk, and ends |
| **Paper ledger** (`app/trading/paper_broker`, `app/backtest/order_queue_service`, `queue_execution_service`, `app/trading/order_broker_sync_service`, `position_service`, `paper_broker_recovery_service`, `app/runtime/end_of_day_liquidation_service`) | memory: the PaperBroker; SQLite: orders, executions, positions, portfolio snapshots, each in its own commit | queue, gate, submit, fill, refresh, save, apply, snapshot, liquidate, restore | the tables restore the broker; no fill lost or applied twice; one entry held; flat at the close |
| **Resident service** (`app/runtime/katana_service_manager`, `scheduled_paper_trading`, `app/run_katana_service_watchdog`, `app/katana_service_autostart`) | per process: child, exit code, restart count, completed date; on disk: the manager's status file | start, poll, restart with a budget, stop; start and end the session; end the task, kill, start again | one session at a time; none after a completed one; one again in trading hours; none after `stop_at` |
| **History-update lock** (`app/market/process_lock`) | the lock file and the owner's `lock_id` | create, write, judge and remove a stale lock, release | one update at a time; a dead one blocks nobody for good |
| Gates: activation, arming, kill switch, Safe Stop, risk | files and tables | read before claim and transport | modelled as free choices of the pipeline |
| Fault-tolerance composition, shadow and dry-run trading, locked runtime | – | – | not on the order path |
| Market data, strategies, universe, watchlists, backtests, analytics, learning, dashboard, notifications, importers (`app/…`) | bars, scores, reports | numerical or presentational | not modelled: no interacting trading state |

How they interact: the live runner calls everything in one thread. The parts
share the database (each write is its own transaction), the account cache and
the broker. The broker changes between any two reads, its answers can be lost,
and the process can die between any two writes. A second process or an operator
may open the same database: the journal and the cancellation journal guard
against it, the rest is written for one process. The paper session has a broker
of its own in memory and shares the order and position tables with nobody. The
resident service starts that session: the task starts the manager, the manager
the scheduler, the scheduler the session, each as a process that may outlive the
one that started it; the watchdog knows the manager only by its status file.

The hard behaviours are listed, each at its line, under `hazards` in
`PROJECT.json`: lost and late answers, crashes between two tables, two reads
that describe different moments, stale snapshots, restarts that replay signals,
restarts of processes by several parties, and failures that travel as ordinary
values.

## 2. Modules

| Module | Models | Steps |
|---|---|---|
| `AtMostOnceSubmission` | what the pipeline promises for a key, seen from outside | transmit, accept, drop, confirm, close |
| `AtMostOnceCancellation` | what the cancellation of an order promises | request, end, confirm, answer |
| `ExclusiveSale` | what every way out of a position promises | buy, offer, sell, withdraw, release |
| `GuardedEntries` | what the entry books promise for each BUY | each part of a BUY (listed, life, bought, sold, guard, cover) goes forward, as the others allow |
| `AtomicLedger` | what paper trading of a symbol promises | buy, sell |
| `LiveExecutionJournal` | the pipeline, any number of workers, an operator, the network and the broker | one action per transaction, network call or gate |
| `LiveCancelJournal` | cancellation of broker orders | one action per transaction or request |
| `LiveEodLiquidation` | `submit_all` and the loop that repeats it | one action per read, cancel or SELL |
| `LiveEntryReconciliation` | both cycles of the runner, all symbols, restarts, days, crashes | one action per read or transaction; one for a pass of the protective-stop cycle and for a submission |
| `LiveProtectiveStops` | the two-second and the full cycle for one symbol with a stop row, read by read: entry, protection, stop, conflicts, replan, SELL, `mark_exit_pending`, strategy exits, restarts | one action per read, request or transaction |
| `PaperLedger` | one symbol of paper trading, from the signal to the close, with early ends, deaths and recovery | one action per commit, and per call of the broker |
| `KatanaService` | task, manager, scheduler, session, watchdog and the clock of a day | one action per poll, exit, kill or start |
| `ProcessLock` | the lock file, any number of processes | one action per call on the file |
| `LiveExecutionJournalProofs`, `LiveCancelJournalProofs`, `LiveEodLiquidationProofs`, `LiveEntryReconciliationProofs`, `LiveProtectiveStopsProofs`, `PaperLedgerProofs`, `KatanaServiceProofs`, `ProcessLockProofs` | theorems about each of these | |
| `MC…` | symmetry sets and constants for TLC | |

State and code correspond as follows.

* A table with one row per key is a function from keys; a missing row is
  `"none"`. A guarded `UPDATE … WHERE state = …` is a conjunct on the old state,
  with the refused transition as a disjunct.
* A call that makes several reads or writes is a program counter (`pc`) and one
  action per read or write, so that anything may happen in between. What the
  code holds in local variables is a variable (`key`, `planned`, `item`, `seen`).
* An exception is the early return the code makes of it: `Leave`, `Blocked`,
  `NextRow(TRUE)`, `Return`, or, where nothing catches it, `Raise` or a
  `"failed"` session.
* `refresh()` of the account state is `cache`: `LiveEodLiquidation` lets each
  read return either the cached snapshot or a new one; `LiveEntryReconciliation`
  and `LiveProtectiveStops` keep the snapshot until it expires.
* The broker's orders, positions and requests under way are variables that only
  broker actions and requests change. `PaperLedger` has the broker's memory
  (`book`, `shares`, `cash`) beside the tables (`status`, `executed`,
  `position`, `balance`); a death loses the one and keeps the other.
* In `KatanaService` a process is `"none"`, `"up"` or gone, with what it
  remembers: `component`, `handle`, `restarts` of the manager (`"orphan"` when its
  process outlives the task), `exit` and
  `completed` of a scheduler. `status` is the file the watchdog reads.
* The modules are layered by outcome and not composed in one state space:
  `Execute`, `SubmitPlan` and the SELL of `LiveProtectiveStops` use the outcomes
  `LiveExecutionJournal` allows, the cancels those of `LiveCancelJournal`,
  `RecoverCarryover` those of `LiveEodLiquidation`, and the pass over the stops
  in `LiveEntryReconciliation` those of `LiveProtectiveStops`. `PaperLedger` is
  one session; which sessions there are is the subject of `KatanaService`.

Five small modules state what a component promises in the terms of whoever
relies on it, and each detailed module has an INSTANCE of one, with the mapping
from its state, and a property that says it implements it:

| Abstract | Implemented by | Mapping |
|---|---|---|
| `AtMostOnceSubmission` | `LiveExecutionJournal` (`AtMostOnce`) | row states to outcomes, requests and orders of a key |
| `AtMostOnceCancellation` | `LiveCancelJournal` (`CancelledAtMostOnce`) | CANCELLED rows to confirmations; the answers given are a history |
| `ExclusiveSale` | `LiveProtectiveStops`, `LiveEodLiquidation` (`SaleExclusive` of both) | a current stop row to `covered`, the account to `held`, SELLs at the broker and under way to `offered` |
| `GuardedEntries` | `LiveEntryReconciliation` (`EntriesGuarded`) | registry row to `listed`, journal and order to `life`, stop row to `guard` and `cover`; which shares of the account were sold is a history (`sold`) |
| `AtomicLedger` | `PaperLedger` (`TradesAtomically`) | `trade_executions` to `traded`; position and cash of tables or broker, whichever the commit under way has reached |

`ExclusiveSale` is one specification with two implementations, because the stop
and the end of the day sell the same shares by different code and must not
differ in what they promise. `GuardedEntries` is written as a conjunction of
rules for each BUY, since one step of the code may cancel a BUY and begin the
exit of its stop, and the first start of a day moves all BUYs at once.

Abstractions: order details, log texts and parsing are left out; a failed or
malformed answer is a failed read. Gates may pass or block at any evaluation.
Cash, position sizing and the loss limits are choices of the gates; in
`PaperLedger`, where cash is part of the state, the price is 1 and there are no
fees. Day orders end before the next day's first start (`NewDay`). In
`LiveEodLiquidation` ownership does not change, since no entry cycle runs after
15:15. `LiveProtectiveStops` starts when the entry has filled at least partly
and its stop row is recorded; what leads there is `LiveEntryReconciliation`. In
`KatanaService` the components beside the trading scheduler are one Boolean
(`others`).

## 3. What is checked

| Run | Instance | Shows |
|---|---|---|
| `Journal` | 2 keys, 2 workers, 2 crashes, fairness | an order is transmitted at most once, only after everything recovery needs is durable; ABORTED (unless an operator recovered the row from UNKNOWN) and SUBMITTED are true; the pipeline implements `AtMostOnceSubmission`; a transmission settles unless a crash cuts it short; `IInv` |
| `Cancel` | 2 orders, 2 workers, 2 crashes | one cancelorder request an order; CANCELLED rows are true; the journal implements `AtMostOnceCancellation`; `CancelInv` |
| `EodSafety` | 2 symbols, open BUYs, 3 passes, a refusal, a trade of the owner; fresh, readable account | the calls implement `ExclusiveSale`: no share is on sale twice, nor while a BUY can fill; nothing of the owner's is sold, COMPLETE means flat |
| `EodFlat` | 2 symbols, cache, a lost answer, 2 refusals, 1 pass a call, fairness (and a failed read, which is exempt) | repeated calls sell every owned position in the end, unless one that turned flat in the middle of its candidate has stopped the process; `EodInv` |
| `EntrySafety` | 3 BUYs of a symbol, limit 2 a day, one restart or new day, one close, crashes anywhere; a ledger that takes fills, and one that refuses them | nothing that can fill or has filled is outside the books; one stop a symbol; the books implement `GuardedEntries`: stops only for confirmed shares, no BUY is given up before they cover it, no stop before the shares it covers are sold; an unresolved submission blocks the BUYs of later cycles; `EntryInv` |
| `EntryProtected` | 2 BUYs of two symbols, one failed read, one restart, fairness; a ledger that takes fills, and one that refuses them | a BUY filled in full gets a stop for all its shares or, where the ledger refuses its fill, no BUY is prepared any more; ownership of two days never mixes |
| `Stops` | 2 shares and 1 still to fill, with and without cache, one each of crash, failed read, lost answer, refusal and trade of the owner, fairness | the shares are on sale once at most; the cycle implements `ExclusiveSale`: one offer at a time and none while the BUY can fill; a row is given up only when nothing is held; the stop sells; `StopInv` |
| `StopRestart` (violation) | 2 shares, fresh reads, 1 crash | a death between the SELL and its row can leave the rest of the position unprotected for good |
| `EodUnreadable` (violation) | 1 share, 1 failed read | an unreadable account ends EOD liquidation with COMPLETE |
| `Paper` | 2 BUYs and an exit of lots of 2, cash 5, 2 days, 2 liquidation attempts, 1 crash, 1 missing price, fairness | between two signals the tables restore the broker; fills are recorded; the session implements `AtomicLedger`: each signal trades once, a symbol is bought once at a time; the close ends flat; `LedgerInv` |
| `Service` | 3 schedulers, 3 days of which 1 and 3 are business days, restart budget 1, 1 kill, 2 faults (a failing poll, a task that does not stop in time, a failing start), fairness | one session at a time, none on a completed day, one again in trading hours, none after `stop_at`; `ServiceInv` |
| `Lock` | 2 processes, 3 lock ids, 2 tries, 2 deaths, 1 failing write, no update outlives its lock, fairness | the lock excludes while no lock becomes stale; the lock of a dead process is removed; `LockInv` |

Each module's type invariant is the first conjunct of its inductive invariant,
so the runs that name `…Inv` check it.

**Bounds.** Two keys and two workers give every race on one key and its
independence from another; two crashes give a crash of each worker, or a crash
of the attempt that recovers from the first. Two symbols are needed in EOD for a
call that has sold one and fails on the other; three passes are the program's
own default, and one keeps `EodFlat` small: what a second pass would do, the next
call does. Lots of two shares give partial fills. A ledger that takes fills and one
that refuses them (`LedgerSettings`) are two sets of initial states. `EntrySafety`
has no failed read for its size (the theorems include any number);
`EntryProtected`, where one could delay the stop, has.
Three BUYs of a symbol with
a limit of two give a replay, a second order of the symbol and the limit in one
behaviour. One restart suffices for the replay and the change of day. Two paper
BUYs over two days give a duplicate entry, a re-entry after a close and a second
liquidation; cash 5 pays for two lots and not for three; two attempts give the
retry of the liquidation. Three schedulers are one that is given up, one that
the watchdog starts and one that is left over; the holiday between two business
days gives the carry of the completed date; a budget of one restart is used up
by two faults. Two updates with three lock ids are enough for a stale lock and a
new one of each. Failures, closes, restarts, deaths and refusals are bounded by
constants named `Max…` and may fall anywhere. Deadlock is checked for the two
journals and the lock, and not for the others, where the process really may stop
or the days run out.

**Fairness.** A submission is straight-line code with an HTTP time-out, so each
worker's step is weakly fair in `Journal`; nothing is assumed of the broker or
the operator. In EOD the application keeps calling (its loop has no exit but
COMPLETE and the deadline) and an accepted market SELL fills; in `Stops` the
runner keeps cycling and the same is assumed of its SELLs, not of the BUY. In
`EntryProtected` the run loop goes on and snapshots expire; no broker step, no
restart and no recovery from a stopped process is assumed, hence the escape
`<>[](pc = "down")`. In `Paper` the session runs on and the market closes. In
`Service` the poll loops of manager and schedulers and the watchdog's task run
on; nothing is assumed of the clock, of exits or of kills. In `Lock` time passes
and the update, which is scheduled daily, goes on; a writer need not fail.

**Escapes in the properties.** `TransmissionSettles` exempts crashes: a row left
SUBMISSION_PENDING waits for an operator by design. `EventuallyFlat` exempts
the deadline, because the question is whether retrying helps, failed reads,
which `EodUnreadable` shows to be fatal, and the one raise that ends the process
for good, on a position found flat in the middle of its candidate
(`StoppedByAFlatPosition`, a finding). `SaleExclusive` holds as long as shares
can be traced (`Traced`): in EOD for fresh reads, answers that arrive and an owner
who does not trade, in the stops as long as the owner does not trade and no death
meets a reused snapshot or a request on its way; the same condition is in
`SoldOnce` of both. `OnlyOwnedIsSold` holds for answers that arrive.
`ClosedRowsTrue` and `AtMostOnce` say nothing of a row that an operator has
turned from UNKNOWN into ABORTED (`recovered`): the code accepts any fragment of
the stored text as evidence, and what it is evidence of is the operator's affair
(a finding). Otherwise ABORTED rests on the broker: a coded HTTP 4xx is taken
for a refusal that left no order, as the coordinator takes it, while a coded 5xx
stays ambiguous. `NoUntrackedExposure` and `EntriesGuarded` set aside BUYs that
left with a completed row (`replayed`). `OldTroubleBlocks` is about the cycles
after the ambiguous one; in its own cycle the remaining intents still leave (a
finding). `ProtectedOrHalted` exempts a symbol traded by another order and a
replayed BUY; a BUY whose fills the ledger refuses (`Refused`: all of them, as
with the present schema, or the rest of one that was saved as partial) gets no
stop, and the property then demands that nothing is bought any more.
`StopSells` holds while no answer is lost or refused and nobody else trades or
dies. `Restorable`, `TradesAtomically` and `ClosesFlat` hold until a session dies;
`OneSession` and `ClosedDown` until a process is killed
from outside; `NoSameDayRestart` while nothing fails; `ExclusiveWhileFresh` while
no lock becomes stale. Each exempted case is a finding or a hazard with a note.

**What fails.** Each is a finding in `PROJECT.json` with the lines it quotes.
Two have a run of their own, `EodUnreadable` and `StopRestart`. The others show
when a constant or a condition of a checked module is changed:

| Finding | Change that shows it |
|---|---|
| the replan before a SELL may read the snapshot of the pass; a SELL that filled in between is sent again | `EodSafety` with `Codes = {c1}`, `Cached = TRUE`, and no `~Cached` in `Traced` |
| a position that turns flat between two reads raises out of the application | `EventuallyFlat` without `StoppedByAFlatPosition` |
| the ledger's foreign keys refuse live fills, and the stop is recorded after the ledger | `ProtectedOrHalted` without its disjunct `Refused`, with `LedgerSettings = {FALSE}`: no stop is ever recorded |
| an UNKNOWN row becomes ABORTED on any fragment of its text, a time-out's too | `ClosedRowsTrue` without `recovered` |
| after an intent has become UNKNOWN the others of its cycle still leave | `OldTroubleBlocks` for all pending `j \in Signals`, concluding `journal[j] # "unknown"` |
| a completed registry row is reused when a restart reproduces the signal | the invariant `replayed = {}` with one BUY and one restart |
| a scheduler started again before 15:30 runs another session on a completed day | `NoSameDayRestart` without its condition on faults |
| a session whose scheduler was killed trades on beside the new one | `OneSession` without its condition on deaths |
| a session that dies between two commits is restored with cash and shares that do not add up | `Restorable` without its condition on crashes |
| a process that judged a stale lock removes the lock of its successor | `MutualExclusion` in `Lock`, with one death |

Met while modelling and visible in the modules: a partial fill blocks its entry
for good; a broker's refusal raises `KeyError`; a BUY that ends unfilled is never
completed; a blocked claim is not retried; a blocked submission counts as the
start of the stop's exit; an old exit code counts as today's normal end; a
liquidation that is started again the same day fails on its own first order; a
restored SENT order that cannot fill raises in every cycle, today and on the days
that follow.

## 4. What is proved

Every theorem holds for all values of the constants: any set of keys, orders,
workers, symbols, signals, processes or schedulers, and any bounds. What is
assumed of them is the `…Assumption` of each module: idle values are no members
of their sets, bounds are natural numbers, lots are positive.

| Module | Theorems |
|---|---|
| `LiveExecutionJournalProofs` | `Invariance`, `TypeCorrect`, `TransmittedOnce`, `DurableFirst`, `RowsTellTheTruth`, and `Refinement`: the pipeline implements `AtMostOnceSubmission` |
| `LiveCancelJournalProofs` | `CancelInvariance`, `CancelTypeCorrect`, `CancelledOnce`, `CancelAnswersTrue`, `CancelAnswersDurable`, and `CancelRefinement`: it implements `AtMostOnceCancellation` |
| `LiveEodLiquidationProofs` | `EodInvariance`, `OnlyOwned`, `NeverSoldTwice`, `CompleteIsFlat`, `OnlyUnreadIsLeft`, and `CallsImplementSale`: with fresh reads, no lost answer and no trade of the owner, the calls implement `ExclusiveSale` |
| `LiveEntryReconciliationProofs` | `EntryInvariance`, `NothingUntracked`, `StopsAreFilled`, `OneOwner`, `DaysApart`, `TroubleBlocks`, and `BooksImplementGuards`: the books implement `GuardedEntries` |
| `LiveProtectiveStopsProofs` | `StopInvariance`, `Exclusion`, `Covered`, `NeverSoldTwice`, and `ExitsImplementSale`: the cycle implements `ExclusiveSale` |
| `PaperLedgerProofs` | `PaperInvariance`, `PaperRestorable`, `PaperFillsRecorded`, `PaperOneEntry`, and `LedgerRefinement`: the session implements `AtomicLedger` |
| `KatanaServiceProofs` | `ServiceInvariance`, `SessionsExclude`, `CompletedStaysClosed` |
| `ProcessLockProofs` | `LockInvariance`, `Exclusion` |

The proofs share one layout: the initial states satisfy the invariant; a lemma
for each of its parts says that every step keeps the part, with one step per
action; the properties follow from the invariant, the action properties from the
invariant and the one action that could break them.

**Submission.** "At most once" is not inductive: nothing in it keeps a second
worker from reaching the transport. `IInv` adds what makes it so. A row that has
been claimed belongs to one worker (`ExclusiveOwner`), because CLAIMED is
entered only from PREPARED and never returns to it. `WorkerTrue` says what a
worker at each step may rely on: at the transport the key has never been sent,
at `await` exactly once; an answer in hand fixes what the broker's book holds.
The row is not always what the worker wrote, since an operator may freeze or
abort it meanwhile, so the conjuncts give sets of states. `KeyTrue` relates a
row to the requests and orders of its key; only a row the operator recovered
(`recovered`) may be ABORTED beside an order. `ExclusiveRequest` lets the handling of one request say
that none is left. The refinement maps a row's state to an outcome; the step
that sends maps to `Transmit`, the broker's to `Accept` and `Drop`, those that
write SUBMITTED or ABORTED to `Confirm` and `Close`, everything else to a
stutter. `Close` requires that no order exists and none is under way: `IInv` is
used there. An operator's recovery is a stutter: it is no promise about the key.

**Cancellation.** Only the worker that inserted the row can be at the step that
sends (`ExclusiveCreator`), and the steps that write CANCELLED are reached only
after the order was seen to have ended. In the refinement the insert, the crashes
and the operator's freeze are stutters; the step that sends maps to `Request`,
which needs that nothing was sent before, the end of an order to `End`, and the
two writers of CANCELLED to `Confirm` or `Answer`.

**EOD.** `EodInv` says that from the check of its orders to its SELL the symbol
in hand has nothing on sale, unless an answer was lost, that from the replan on no
BUY of it is open, and that its plan is the stop row's quantity. The only step that
adds to what is on sale compares the plan with the account once more; a fresh read
is the position, so `OnlyOwnedIsSold`, `SoldOnce` and the step `Offer` of
`ExclusiveSale` follow for it. A SELL is never open beside a BUY of its symbol,
which is what `Buy` of `ExclusiveSale` needs of a fill.
What is proved of "never twice" excludes the five-second cache that production
uses (`Traced`), with which the code does sell twice; `OnlyOwned` and `EodInv`
include it. `CompleteIsFlat` is a theorem about runs whose reads succeed (`MaxFailures = 0`),
with fresh reads, or with reused ones when nothing can add shares: its two
hypotheses are what the finding of `EodUnreadable` and the cache take away.
`OnlyUnreadIsLeft` says it without a hypothesis on the constants: with fresh
reads, the call that answers COMPLETE over a position is the one whose read fails
in that very step.

**Entry books.** `EntryInv` has four parts beside the types. `RowInHand`: what
was read of the order in hand stays true of it, since fills only grow and an
order that ended stays ended, with the fills it had when it was read; a row is
completed only with a stop for all of them. `Books`: an order that can fill has a
pending row, stops cover confirmed shares, and a stale snapshot can hide only
shares whose BUY is still listed, and none a stop is for, which is why a stop may
be retired on the word of a snapshot. `Trouble`: a pending row that the cycle has passed is SUBMITTED,
from which `OldTroubleBlocks` follows for the step that lets a BUY leave.
`OneDay`: once a BUY of today is registered, nothing of an earlier day is pending
or owned. The refinement takes each action and shows for each BUY that its parts
moved as `GuardedEntries` allows: `CompleteEntry` needs the end of `RowInHand`,
`RecordStop` that no other stop of the symbol is current, the retirement of a stop
the last conjunct of `Books`.

**Stops.** `CycleInv`: a SELL is planned only after no order of the symbol was
open and the BUY never comes back (`Excluded`); an empty position stays empty
whatever snapshot shows it (`Flat`), so a row that is retired is retired rightly
(`Covered`; that row and position agree in quantity is not claimed);
`Counts` bounds the SELLs by the cycles that could have sent one, and supplies
that every SELL step belongs to an active row. `SaleInv` makes "never on sale
twice" inductive: of all attempts at most one has shares on sale, and no more
than are held (`OneSale`). It stays so because a new attempt needs an active row:
the one before it was then sent before a death of the process, all its orders are
at the broker (`Ahead`, `Remembered`), and the conflict check has seen them end
(`Seen`). The property adds the SELLs up; `SumsOfOne` says that a sum in which
only one summand is not zero is that summand: the sum folds over a set, and a
smallest set for which it differs cannot exist (`WFMin`), which takes the place of
an induction. The refinement maps each attempt to `Offer`, a fill to `Sell`, a cancel or
a refusal to `Withdraw`, the retirement of the row to `Release`.

**Paper ledger.** Between the transmission of an order and its snapshot the
tables lag the broker by exactly the fill of the signal in hand (`Difference`);
that order is new to the broker and the tables when it is sent (`InHand`), and
the other orders agree (`Others`). A session that ends early, without the close,
leaves its orders as they are, and the next one starts from them: `Settled`
includes it, and a row found SENT keeps every signal from starting (`Working`). When the session is settled nothing is in
hand, and the two are equal. `FillsKept` counts what deaths have cost: besides
the fill about to be saved at most one a death is missing, since a death leaves
at most one signal in hand. The refinement lets a signal trade at the commit of
its execution: there the broker has traded and the tables have not, and each of
the commits that follow brings one of them up to what the mapping already shows.

**Service.** While no process is killed, a session lives only under its
scheduler, and the only scheduler is the manager's, whether the manager is in its
task or has outlived it, or one the watchdog is about to kill (`Children`): hence at most one session. `CompletedStaysClosed` needs that no
one starts a second scheduler while nothing fails, and that the first remembers
the exit of its session (`Remembered`).

**Lock.** While no lock becomes stale, nobody reaches the step that removes a
foreign lock, and the file is that of the one process that created it (`Owned`).

**Only model-checked:** everything under fairness (`TransmissionSettles`,
`EventuallyFlat`, `ProtectedOrHalted`, `StopSells`, `ClosesFlat`, `TradesAgain`,
`ClosedDown`, `DeadLockRemoved`), which is out of the prover's reach like
`ENABLED`. Every invariant, action property and refinement of a passing run is a
theorem (`CompleteMeansFlat` under the hypotheses of `CompleteIsFlat`).

## 5. What is not modelled, and the plan

Not modelled, and why:

* The clock windows of the live session loop (lunch, the drain at 15:15): the
  cycles are modelled as called at any time, which covers every schedule.
* The contents of the gates (activation, arming, kill switch, Safe Stop, risk):
  every gate may answer either way at every evaluation. Their files hold single
  values that the gate reads again each time.
* Tracking of SELLs step by step: it appears by its effect, since nothing but
  the stop row depends on it.
* SQL, parsing and conversions of the repositories; prices, fees, LIMIT and STOP
  orders of the paper broker, and several symbols in one paper account.
* The other components of the service manager, adopted processes and the probe
  of kabu Station.
* Numerical code (strategies, risk arithmetic, screening, backtests, analytics,
  learning): functions over data without interacting state, for which tests are
  the better instrument. This is most of the repository's lines.
* Dashboard, notifications, imports, schema migration, command lines: pure I/O.

A SELL whose answer is lost and arrives after the next EOD call is modelled
(`Arrive`) but not claimed safe: the code has no defence against it.

What would come next:

1. One specification of a position's life that `GuardedEntries` and
   `ExclusiveSale` both implement: the guard of the one is the cover of the other,
   so that the books and the exits compose.
2. The dates and the ledger of the kill switch and the loss state, as data that
   an order is checked against and that may change before it leaves.
3. Several symbols in `PaperLedger`, which adds cash that two entries compete
   for.
4. An abstract session day for `KatanaService` (not started, trading, completed)
   and its refinement.
