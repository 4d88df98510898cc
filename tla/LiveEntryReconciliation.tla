------------------------ MODULE LiveEntryReconciliation ------------------------
(***************************************************************************)
(* The strategy cycle of the live process (LiveProductionRunner.run_cycle, *)
(* every 30 seconds) and the protective cycle between two of them          *)
(* (run_protective_cycle, every 2 seconds).  Every BUY is registered,      *)
(* submitted, and reconciled against /orders and the account until its     *)
(* fills are covered by a durable protective stop and its order has ended. *)
(* Whatever is unresolved ends the cycle before a new BUY.                 *)
(*                                                                         *)
(* One process, one step per read and per transaction; the broker moves    *)
(* between any two steps.  Account reads are cached for five seconds.      *)
(* LiveExecutionJournal has the steps inside one submission; the exits of  *)
(* a position appear here by their effect: it is closed.                   *)
(***************************************************************************)
EXTENDS Naturals, FiniteSets

CONSTANTS Signals,          \* BUY signals; signal_id is the execution key
          Codes, CodeOf,    \* symbols, and the symbol of each signal
          NoSignal,         \* no row is being handled
          Quantity,         \* shares of a BUY
          MaxEntries,       \* max_entries_per_day
          LedgerSettings,   \* whether trade_executions can take a row of a live fill
          MaxFailures,      \* bound: broker reads that fail
          MaxCloses,        \* bound: positions that are sold
          MaxRestarts       \* bound: starts after the first

ASSUME EntryAssumption ==
  /\ CodeOf \in [Signals -> Codes] /\ NoSignal \notin Signals
  /\ {Quantity, MaxEntries} \subseteq Nat \ {0}
  /\ LedgerSettings \subseteq BOOLEAN
  /\ {MaxFailures, MaxCloses, MaxRestarts} \subseteq Nat

VARIABLES
  \* durable, per signal
  registry,                 \* live_entry_reconciliation_registry.state
  journal,                  \* live_execution_journal.state
  ledger,                   \* broker_state saved with its fills
  stop,                     \* state and quantity of its live_protective_stops row
  old,                      \* rows with an earlier trading_date
  \* the process
  pc,                       \* the next step of the cycle
  mode,                     \* which cycle, and which part of it
  todo,                     \* rows or intents still to be handled
  item, seen,               \* the row in hand; its order as /orders showed it
  blocked,                  \* result.blocked > 0
  intents,                  \* the BUY intents of this cycle
  started,                  \* started > 0
  emitted,                  \* signals this start's engine has produced
  cache,                    \* the cached account snapshot
  \* the broker
  order, filled,            \* state of each BUY, and its cumulative quantity
  position,                 \* shares held of each symbol
  sold,                     \* history: shares of each BUY that have been sold
  replayed,                 \* history: BUYs that left with a completed row
  \* bounds, and what the schema of the database allows
  failures, closes, restarts,
  accepts                   \* trade_executions takes a row of a live fill

durable == <<registry, journal, ledger, stop, old>>
work    == <<todo, item, seen, blocked, intents, started>>
broker  == <<order, filled, position, sold, replayed>>
bounds  == <<failures, closes, restarts, accepts>>
vars    == <<durable, pc, mode, work, emitted, cache, broker, bounds>>

NoSnapshot == [c \in {} |-> 0]
NoOrder    == [ended |-> FALSE, cum |-> 0]
NoStop     == [state |-> "none", quantity |-> 0]

Steps == {"idle", "reconcile", "order", "position", "stop", "complete", "carryover",
          "protection", "stops", "signals", "prebuy", "submit", "execute", "down"}

Init ==
  /\ registry = [k \in Signals |-> "none"] /\ journal = [k \in Signals |-> "none"]
  /\ ledger = [k \in Signals |-> "none"] /\ stop = [k \in Signals |-> NoStop]
  /\ old = {} /\ emitted = {} /\ cache = NoSnapshot
  /\ pc = "idle" /\ mode = "strategy" /\ todo = {} /\ item = NoSignal
  /\ seen = NoOrder /\ blocked = FALSE /\ intents = {} /\ started = FALSE
  /\ order = [k \in Signals |-> "none"] /\ filled = [k \in Signals |-> 0]
  /\ position = [c \in Codes |-> 0] /\ sold = [k \in Signals |-> 0] /\ replayed = {}
  /\ failures = 0 /\ closes = 0 /\ restarts = 0 /\ accepts \in LedgerSettings

-----------------------------------------------------------------------------
(* Rows and reads.                                                         *)

Pending    == {k \in Signals : registry[k] = "pending"}
Current(k) == stop[k].state \in {"active", "exit_pending"}
CurrentStops(c) == {k \in Signals : CodeOf[k] = c /\ Current(k)}

\* refresh(): the snapshot in the cache, or the broker's.
Account == IF cache = NoSnapshot THEN position ELSE cache
ReadAccount == cache' = Account /\ UNCHANGED bounds
Fails == failures < MaxFailures /\ failures' = failures + 1
         /\ UNCHANGED <<closes, restarts, accepts>>

Goto(step) == pc' = step /\ UNCHANGED <<mode, work>>

\* The cycle returns; nothing of it but the engine and the cache survives.
Forget ==
  /\ mode' = "strategy" /\ todo' = {} /\ item' = NoSignal /\ seen' = NoOrder
  /\ blocked' = FALSE /\ intents' = {} /\ started' = FALSE
Return == pc' = "idle" /\ Forget

\* An exception that no handler catches ends the process.
Raise == pc' = "down" /\ Forget

-----------------------------------------------------------------------------
(* LiveEntryReconciliationCycle.                                           *)

\* Mutant: only the rows of today are listed.
BeginCycleToday(kind) ==
  /\ pc = "idle"
  /\ pc' = "reconcile" /\ mode' = kind /\ todo' = Pending \ old
  /\ UNCHANGED <<durable, item, seen, blocked, intents, started, emitted, cache,
                 broker, bounds>>

\* run_cycle or run_protective_cycle: list_pending is read once.
BeginCycle(kind) ==
  /\ pc = "idle"
  /\ pc' = "reconcile" /\ mode' = kind /\ todo' = Pending
  /\ UNCHANGED <<durable, item, seen, blocked, intents, started, emitted, cache,
                 broker, bounds>>

\* The row in hand is done, without or with an effect on result.blocked.
NextRow(isBlocked) ==
  /\ pc' = "reconcile" /\ item' = NoSignal /\ seen' = NoOrder
  /\ blocked' = (blocked \/ isBlocked)
  /\ UNCHANGED <<mode, todo, intents, started>>

\* Mutant: an ambiguous submission is completed like an aborted one.
ReconcileAmbiguous(k) ==
  /\ pc = "reconcile" /\ k \in todo
  /\ \/ /\ journal[k] \in {"none", "aborted", "unknown"}
        /\ registry' = [registry EXCEPT ![k] = "complete"]
        /\ todo' = todo \ {k}
        /\ UNCHANGED <<pc, mode, item, seen, blocked, intents, started>>
     \/ /\ journal[k] \in {"prepared", "claimed", "submission_pending"}
        /\ todo' = todo \ {k} /\ blocked' = TRUE
        /\ UNCHANGED <<registry, pc, mode, item, seen, intents, started>>
     \/ /\ journal[k] = "submitted"
        /\ pc' = "order" /\ item' = k /\ todo' = todo \ {k}
        /\ UNCHANGED <<registry, mode, seen, blocked, intents, started>>
  /\ UNCHANGED <<journal, ledger, stop, old, emitted, cache, broker, bounds>>

\* Never PREPARED, or refused by the broker: complete.  SUBMITTED: ask the
\* broker.  Any other state of the journal blocks.
Reconcile(k) ==
  /\ pc = "reconcile" /\ k \in todo
  /\ todo' = todo \ {k}
  /\ \/ /\ journal[k] \in {"none", "aborted"}
        /\ registry' = [registry EXCEPT ![k] = "complete"]
        /\ UNCHANGED <<pc, item, blocked>>
     \/ /\ journal[k] \in {"prepared", "claimed", "submission_pending", "unknown"}
        /\ blocked' = TRUE
        /\ UNCHANGED <<registry, pc, item>>
     \/ /\ journal[k] = "submitted"
        /\ pc' = "order" /\ item' = k
        /\ UNCHANGED <<registry, blocked>>
  /\ UNCHANGED <<journal, ledger, stop, old, mode, seen, intents, started, emitted,
                 cache, broker, bounds>>

\* GET /orders; a failed read makes the tracking UNKNOWN.
ReadOrder ==
  /\ pc = "order"
  /\ \/ Fails /\ NextRow(TRUE)
     \/ /\ pc' = "position"
        /\ seen' = [ended |-> order[item] = "ended", cum |-> filled[item]]
        /\ UNCHANGED <<mode, todo, item, blocked, intents, started, bounds>>
  /\ UNCHANGED <<durable, emitted, cache, broker>>

BrokerState == IF seen.cum = Quantity THEN "filled"
               ELSE IF seen.ended THEN "terminated_partial" ELSE "partially_filled"

\* _record_confirmed_fills: the row of an ExecutionID saved before must equal
\* the new one in everything, the broker's state included.
LedgerTakesFills == accepts /\ ledger[item] \in {"none", BrokerState}

\* An earlier day's BUY whose shares have left the account.
IsPriorDayExternalClose ==
  item \in old /\ seen.ended /\ seen.cum > 0 /\ Account[CodeOf[item]] = 0

\* verify(): the account against the order read before; the baseline of a BUY
\* is zero.
VerifyPosition ==
  /\ pc = "position"
  /\ \/ Fails /\ NextRow(TRUE) /\ UNCHANGED <<ledger, cache>>
     \/ /\ ReadAccount /\ Account[CodeOf[item]] # seen.cum
        /\ IF IsPriorDayExternalClose THEN Goto("complete") ELSE NextRow(TRUE)
        /\ UNCHANGED ledger
     \/ /\ ReadAccount /\ Account[CodeOf[item]] = seen.cum
        /\ \/ seen.cum = 0 /\ NextRow(seen.ended) /\ UNCHANGED ledger
           \/ /\ seen.cum > 0 /\ LedgerTakesFills
              /\ ledger' = [ledger EXCEPT ![item] = BrokerState] /\ Goto("stop")
           \/ seen.cum > 0 /\ ~LedgerTakesFills /\ NextRow(TRUE) /\ UNCHANGED ledger
  /\ UNCHANGED <<registry, journal, stop, old, emitted, broker>>

\* Mutant: the cumulative quantity is added to the stop's.
RecordStopAdding ==
  /\ pc = "stop"
  /\ stop[item].state = "active" \/ CurrentStops(CodeOf[item]) = {}
  /\ stop' = [stop EXCEPT ![item] = [state |-> "active", quantity |-> @.quantity + seen.cum]]
  /\ IF seen.ended THEN Goto("complete") ELSE NextRow(FALSE)
  /\ UNCHANGED <<registry, journal, ledger, old, emitted, cache, broker, bounds>>

\* Mutant: the INSERT without the query for another current stop.
RecordStopBeside ==
  /\ pc = "stop"
  /\ stop[item].state \in {"none", "active"}
  /\ stop' = [stop EXCEPT ![item] = [state |-> "active", quantity |-> seen.cum]]
  /\ IF seen.ended THEN Goto("complete") ELSE NextRow(FALSE)
  /\ UNCHANGED <<registry, journal, ledger, old, emitted, cache, broker, bounds>>

\* synchronize_confirmed_entry_fill: one current stop a symbol, its quantity
\* only grows, and a stop whose exit has begun is not rewritten.  A terminal
\* order goes on to be completed.
MayRecord ==
  \/ stop[item].state = "none" /\ CurrentStops(CodeOf[item]) = {}
  \/ stop[item].state = "active" /\ seen.cum >= stop[item].quantity
RecordStop ==
  /\ pc = "stop"
  /\ \/ /\ MayRecord
        /\ stop' = [stop EXCEPT ![item] = [state |-> "active", quantity |-> seen.cum]]
        /\ IF seen.ended THEN Goto("complete") ELSE NextRow(FALSE)
     \/ ~MayRecord /\ NextRow(TRUE) /\ UNCHANGED stop
  /\ UNCHANGED <<registry, journal, ledger, old, emitted, cache, broker, bounds>>

\* registry.complete(), an update of its own after the stop's.
CompleteEntry ==
  /\ pc = "complete"
  /\ registry' = [registry EXCEPT ![item] = "complete"]
  /\ NextRow(FALSE)
  /\ UNCHANGED <<journal, ledger, stop, old, emitted, cache, broker, bounds>>

\* Mutant: an unresolved entry does not end the cycle.
EndReconcileAnyway ==
  /\ pc = "reconcile" /\ todo = {}
  /\ \/ mode = "post" /\ Return
     \/ mode = "strategy" /\ Goto("carryover")
     \/ mode = "protective" /\ Goto("protection")
  /\ UNCHANGED <<durable, emitted, cache, broker, bounds>>

\* Every row is handled; any that is blocked ends the cycle.
EndReconcile ==
  /\ pc = "reconcile" /\ todo = {}
  /\ \/ (blocked \/ mode = "post") /\ Return
     \/ ~blocked /\ mode = "strategy" /\ Goto("carryover")
     \/ ~blocked /\ mode = "protective" /\ Goto("protection")
  /\ UNCHANGED <<durable, emitted, cache, broker, bounds>>

-----------------------------------------------------------------------------
(* Carryover, protection of positions, protective stops.                   *)

Owned     == {k \in Signals : Current(k)}
Carryover == Owned \cap old
Working(c) == {k \in Signals : CodeOf[k] = c /\ order[k] = "working"}
CancelBuys(ks) == order' = [k \in Signals |-> IF k \in ks THEN "ended" ELSE order[k]]

\* Mutant: ownership of an earlier day is not looked for.
RecoverCarryoverNever ==
  /\ pc = "carryover" /\ Goto("protection")
  /\ UNCHANGED <<durable, emitted, cache, broker, bounds>>

\* Positions owned since an earlier day are sold by LiveEodLiquidationFlow
\* before anything else.  Its submit_all is COMPLETE when it finds none left,
\* or cannot read the account; it cancels the symbol's BUYs.
RecoverCarryover ==
  /\ pc = "carryover"
  /\ \/ Carryover = {} /\ Goto("protection") /\ UNCHANGED <<cache, order, bounds>>
     \/ /\ Carryover # {} /\ Carryover = Owned
        /\ \/ Fails /\ UNCHANGED cache
           \/ ReadAccount /\ \A k \in Carryover : Account[CodeOf[k]] = 0
        /\ pc' = "protection" /\ mode' = "carryover" /\ UNCHANGED <<work, order>>
     \/ /\ Carryover # {}
        /\ Carryover # Owned \/ \E k \in Carryover : Account[CodeOf[k]] > 0
        /\ Return /\ ReadAccount
        /\ \E ks \in SUBSET UNION {Working(CodeOf[k]) : k \in Carryover} : CancelBuys(ks)
  /\ UNCHANGED <<durable, emitted, filled, position, sold, replayed>>

\* Each position has exactly one current stop, for its quantity.
IsProtected(c) ==
  \/ Account[c] = 0
  \/ \E k \in Signals : CurrentStops(c) = {k} /\ stop[k].quantity = Account[c]

\* Mutant: a stop whose SELL has begun is retired like one whose shares are gone.
RetireFlatOrSelling ==
  stop' = [k \in Signals |->
             IF k \in Owned /\ (Account[CodeOf[k]] = 0 \/ stop[k].state = "exit_pending")
             THEN [stop[k] EXCEPT !.state = "retired"] ELSE stop[k]]

RetireFlat ==
  stop' = [k \in Signals |-> IF k \in Owned /\ Account[CodeOf[k]] = 0
                             THEN [stop[k] EXCEPT !.state = "retired"] ELSE stop[k]]

\* LivePositionProtectionReconciliation: stops of flat symbols are retired,
\* even when an unprotected position then ends the cycle.
ProtectPositions ==
  /\ pc = "protection"
  /\ \/ Fails /\ Return /\ UNCHANGED <<stop, cache>>
     \/ /\ ReadAccount /\ RetireFlat
        /\ IF mode = "carryover" \/ \E c \in Codes : ~IsProtected(c)
           THEN Return ELSE Goto("stops")
  /\ UNCHANGED <<registry, journal, ledger, old, emitted, broker>>

\* LiveProtectiveStopCycle: each active stop first cancels the unfinished BUYs
\* of its symbol, then SELLs if its price is hit; those whose SELL began wait
\* for it.  A read, a cancel or a SELL that fails ends the cycle.
ProtectiveStops ==
  /\ pc \in {"stops", "prebuy"}
  /\ ReadAccount
  /\ LET active == {k \in Owned : stop[k].state = "active"}
         flat   == {k \in Owned : Account[CodeOf[k]] = 0}
         buys   == UNION {Working(CodeOf[k]) : k \in active}
     IN \E isResolved \in BOOLEAN, exits \in SUBSET (active \ flat),
           retired \in SUBSET flat, cancelled \in SUBSET buys :
          /\ isResolved => retired = flat /\ cancelled = buys
          /\ CancelBuys(cancelled)
          /\ stop' = [k \in Signals |->
               CASE k \in exits   -> [stop[k] EXCEPT !.state = "exit_pending"]
                 [] k \in retired -> [stop[k] EXCEPT !.state = "retired"]
                 [] OTHER         -> stop[k]]
          /\ IF ~isResolved \/ mode = "protective" THEN Return
             ELSE Goto(IF pc = "stops" THEN "signals" ELSE "submit")
  /\ UNCHANGED <<registry, journal, ledger, old, emitted, filled, position, sold, replayed>>

-----------------------------------------------------------------------------
(* Signals and submissions.                                                *)

\* The engine runs once.  A strategy exit that is blocked, or begins, drops the
\* BUY intents of the same evaluation; it may have cancelled the symbol's BUYs.
Evaluate ==
  /\ pc = "signals"
  /\ \E new \in SUBSET (Signals \ (emitted \cup old)) :
       /\ emitted' = emitted \cup new
       /\ \/ /\ new # {}
             /\ pc' = "prebuy" /\ intents' = new /\ todo' = new
             /\ UNCHANGED <<mode, item, seen, blocked, started, stop, order, cache>>
          \/ /\ \E ks \in SUBSET UNION {Working(CodeOf[k]) : k \in Owned} : CancelBuys(ks)
             /\ Return /\ cache' \in {cache, Account} /\ UNCHANGED stop
          \/ \E k \in Owned :
               /\ stop[k].state = "active" /\ Account[CodeOf[k]] = stop[k].quantity
               /\ CancelBuys(Working(CodeOf[k])) /\ ReadAccount
               /\ stop' = [stop EXCEPT ![k].state = "exit_pending"]
               /\ Return
  /\ UNCHANGED <<registry, journal, ledger, old, filled, position, sold, replayed,
                 bounds>>

Today == {k \in Signals \ old : registry[k] # "none"}

\* registry.prepare: an existing row is returned whatever its state; at the
\* limit of the day the exception stops the process.
PrepareEntry(k) ==
  /\ pc = "submit" /\ k \in todo
  /\ \/ /\ registry[k] = "none" /\ Cardinality(Today) >= MaxEntries
        /\ Raise /\ UNCHANGED registry
     \/ /\ registry[k] # "none" \/ Cardinality(Today) < MaxEntries
        /\ registry' = [registry EXCEPT ![k] = IF @ = "none" THEN "pending" ELSE @]
        /\ pc' = "execute" /\ item' = k /\ todo' = todo \ {k}
        /\ UNCHANGED <<mode, seen, blocked, intents, started>>
  /\ UNCHANGED <<journal, ledger, stop, old, emitted, cache, broker, bounds>>

NextIntent(isStarted) ==
  /\ pc' = "submit" /\ item' = NoSignal /\ started' = (started \/ isStarted)
  /\ UNCHANGED <<mode, todo, seen, blocked, intents>>

\* How LivePreparedExecutionTrackingFlow.submit can end, as the process sees
\* it: the journal's state, the order's, and how the cycle goes on.
Outcomes ==
  {[journal |-> "submitted",          order |-> "working",  raises |-> FALSE],
   [journal |-> "unknown",            order |-> "inflight", raises |-> FALSE],
   [journal |-> "submission_pending", order |-> "none",     raises |-> FALSE],
   [journal |-> "submission_pending", order |-> "inflight", raises |-> TRUE],
   [journal |-> "aborted",            order |-> "none",     raises |-> TRUE]}

\* A final risk rejection leaves the journal alone and only drops the intent.
\* A row that exists already, a baseline that is not zero, any other exception
\* and, after a refusal, the unmapped BROKER_REJECTED stop the process.
Execute ==
  /\ pc = "execute" /\ ReadAccount
  /\ \/ NextIntent(FALSE) /\ UNCHANGED <<journal, order, replayed>>
     \/ Raise /\ UNCHANGED <<journal, order, replayed>>
     \/ /\ journal[item] = "none"
        /\ \E s \in {"prepared", "claimed"} : journal' = [journal EXCEPT ![item] = s]
        /\ Raise /\ UNCHANGED <<order, replayed>>
     \/ /\ journal[item] = "none" /\ Account[CodeOf[item]] = 0
        /\ \E o \in Outcomes :
             /\ journal' = [journal EXCEPT ![item] = o.journal]
             /\ order' = [order EXCEPT ![item] = o.order]
             /\ replayed' = IF registry[item] = "complete" /\ o.order # "none"
                            THEN replayed \cup {item} ELSE replayed
             /\ IF o.raises THEN Raise ELSE NextIntent(TRUE)
  /\ UNCHANGED <<registry, ledger, stop, old, emitted, filled, position, sold>>

\* Every intent is handled; what was started is reconciled at once.
EndSubmit ==
  /\ pc = "submit" /\ todo = {}
  /\ IF started
     THEN /\ pc' = "reconcile" /\ mode' = "post" /\ todo' = Pending
          /\ UNCHANGED <<item, seen, blocked, intents, started>>
     ELSE Return
  /\ UNCHANGED <<durable, emitted, cache, broker, bounds>>

-----------------------------------------------------------------------------
(* Starts, the clock and the broker.                                       *)

process == <<pc, mode, work>>

\* The process dies between any two steps.
Crash ==
  /\ pc # "down" /\ Raise
  /\ UNCHANGED <<durable, emitted, cache, broker, bounds>>

\* The engine is new, and is given the bars of the day saved so far: it
\* produces the day's signals again, with the same keys.
Start ==
  /\ pc = "down" /\ restarts < MaxRestarts
  /\ restarts' = restarts + 1 /\ pc' = "idle" /\ cache' = NoSnapshot
  /\ emitted' = {}
  /\ UNCHANGED <<registry, journal, ledger, stop, mode, work, filled, position, sold, replayed,
                 failures, closes, accepts>>

Restart == Start /\ UNCHANGED <<old, order>>

\* The first start of a later day: orders of the day before have ended.
NewDay ==
  /\ Start
  /\ old' = {k \in Signals : registry[k] # "none"}
  /\ order' = [k \in Signals |->
       CASE order[k] = "working"  -> "ended"
         [] order[k] = "inflight" -> "none"
         [] OTHER                 -> order[k]]

\* Five seconds after the snapshot was read.
Expire ==
  /\ cache # NoSnapshot /\ cache' = NoSnapshot
  /\ UNCHANGED <<durable, process, emitted, broker, bounds>>

BrokerOnly ==
  UNCHANGED <<durable, process, emitted, cache, replayed, failures, restarts, accepts>>

\* A request whose answer was lost reaches the broker after all.
Arrive(k) ==
  /\ order[k] = "inflight" /\ order' = [order EXCEPT ![k] = "working"]
  /\ UNCHANGED <<filled, position, sold, closes>> /\ BrokerOnly

Fill(k, n) ==
  /\ order[k] = "working" /\ n \in 1..(Quantity - filled[k])
  /\ filled' = [filled EXCEPT ![k] = @ + n]
  /\ position' = [position EXCEPT ![CodeOf[k]] = @ + n]
  /\ order' = [order EXCEPT ![k] = IF filled[k] + n = Quantity THEN "ended" ELSE @]
  /\ UNCHANGED <<sold, closes>> /\ BrokerOnly

\* The order ends with shares unfilled.
End(k) ==
  /\ order[k] = "working" /\ order' = [order EXCEPT ![k] = "ended"]
  /\ UNCHANGED <<filled, position, sold, closes>> /\ BrokerOnly

\* A SELL of the process, or the account's owner, closes a position.
Close(c) ==
  /\ position[c] > 0 /\ closes < MaxCloses
  /\ closes' = closes + 1 /\ position' = [position EXCEPT ![c] = 0]
  /\ sold' = [k \in Signals |-> IF CodeOf[k] = c THEN filled[k] ELSE sold[k]]
  /\ UNCHANGED <<order, filled>> /\ BrokerOnly

ProcessStep ==
  \/ \E kind \in {"strategy", "protective"} : BeginCycle(kind)
  \/ \E k \in Signals : Reconcile(k) \/ PrepareEntry(k)
  \/ ReadOrder \/ VerifyPosition \/ RecordStop \/ CompleteEntry \/ EndReconcile
  \/ RecoverCarryover \/ ProtectPositions \/ ProtectiveStops \/ Evaluate
  \/ Execute \/ EndSubmit

Next ==
  \/ ProcessStep \/ Crash \/ Restart \/ NewDay \/ Expire
  \/ \E k \in Signals : Arrive(k) \/ End(k) \/ \E n \in 1..Quantity : Fill(k, n)
  \/ \E c \in Codes : Close(c)

Spec == Init /\ [][Next]_vars

\* The run loop calls its cycles until the session ends, and snapshots expire.
FairSpec == Spec /\ WF_vars(ProcessStep) /\ WF_vars(Expire)

-----------------------------------------------------------------------------
(* Properties.                                                             *)

\* The steps with a row in hand, those of the reconciliation, and those that buy.
Handling    == {"order", "position", "stop", "complete"}
Reconciling == Handling \cup {"reconcile"}
Buying      == {"prebuy", "submit", "execute"}

JournalStates ==
  {"none", "prepared", "claimed", "submission_pending", "submitted", "aborted", "unknown"}

TablesTyped ==
  /\ registry \in [Signals -> {"none", "pending", "complete"}]
  /\ journal \in [Signals -> JournalStates]
  /\ ledger \in [Signals -> {"none", "partially_filled", "filled", "terminated_partial"}]
  /\ stop \in [Signals -> [state : {"none", "active", "exit_pending", "retired"},
                           quantity : 0..Quantity]]
  /\ order \in [Signals -> {"none", "inflight", "working", "ended"}]
  /\ filled \in [Signals -> 0..Quantity] /\ position \in [Codes -> Nat]
  /\ sold \in [Signals -> 0..Quantity]

ProcessTyped ==
  /\ pc \in Steps /\ mode \in {"strategy", "protective", "post", "carryover"}
  /\ todo \subseteq Signals /\ item \in Signals \cup {NoSignal}
  /\ intents \subseteq Signals /\ emitted \subseteq Signals
  /\ cache = NoSnapshot \/ cache \in [Codes -> Nat]
  /\ old \subseteq Signals /\ replayed \subseteq Signals
  /\ failures \in 0..MaxFailures /\ closes \in 0..MaxCloses
  /\ restarts \in 0..MaxRestarts /\ accepts \in BOOLEAN

FlagsTyped ==
  /\ seen \in [ended : BOOLEAN, cum : 0..Quantity]
  /\ blocked \in BOOLEAN /\ started \in BOOLEAN

\* Every row, order and step is one the code knows.
TypeOK == TablesTyped /\ ProcessTyped /\ FlagsTyped

\* No share and no order of the system is out of its books: an order that can
\* still fill has a pending row, and a BUY whose shares are held has a pending
\* row or a current stop, whatever crashes and however reads and fills interleave.
\* BUYs that left with a completed row are set aside: no book lists them.
NoUntrackedExposure ==
  \A k \in Signals \ replayed :
    /\ order[k] \in {"inflight", "working"} => registry[k] = "pending"
    /\ sold[k] < filled[k] => registry[k] = "pending" \/ Current(k)

\* A protective SELL can never be for more shares than the entry bought:
\* stops come from confirmed fills only.
StopWithinFill == \A k \in Signals : Current(k) => stop[k].quantity \in 1..filled[k]

\* A symbol never has two current stops, which would sell its shares twice.
OneOwnerPerCode == \A c \in Codes : Cardinality(CurrentStops(c)) <= 1

\* Ownership of an earlier day and of today never coexist: the cycle's branch
\* for it, which nothing could leave but a flat account, is never taken.
OwnershipOfOneDay == Carryover # {} => Carryover = Owned

\* A BUY leaves only when every entry from before this cycle that is still pending
\* is SUBMITTED: an ambiguous submission stops the BUYs of all later cycles.  It
\* does not stop those of its own: once an intent has become UNKNOWN, the loop of
\* run_cycle still submits the next ones.
OldTroubleBlocks ==
  [][\A k \in Signals : order[k] = "none" /\ order'[k] # "none"
       => \A j \in Signals \ intents : registry[j] = "pending" => journal[j] = "submitted"]_vars

\* Left out of what follows: the symbol is traded by another order or its position
\* sold, or the BUY left with a completed row.
TradedBeside(k) ==
  closes > 0 \/ \E j \in Signals \ {k} : CodeOf[j] = CodeOf[k] /\ filled[j] > 0

\* The ledger takes no fills at all, or has saved a part of this BUY's, which the
\* rest cannot be reconciled with.
Refused(k) == ~accepts \/ ledger[k] = "partially_filled"

\* In the end a BUY that is filled in full has a stop for all its shares, across
\* failed reads, stale snapshots and restarts; and where the ledger refuses its fills,
\* so that it gets none, no BUY is prepared ever again ("Preserve fail-closed
\* behavior"), unless the process stays down.
ProtectedOrHalted ==
  \A k \in Signals :
    \/ <>[](pc = "down")
    \/ <>[](journal[k] = "submitted" /\ filled[k] = Quantity =>
              \/ stop[k].quantity = Quantity
              \/ TradedBeside(k) \/ k \in replayed
              \/ Refused(k) /\ pc \notin Buying)

\* The tables and the broker seen from outside: what has become of each BUY.
Life(k) ==
  IF journal[k] \in {"none", "prepared", "claimed"} THEN "unsent"
  ELSE IF order[k] \in {"inflight", "working"} THEN "open" ELSE "over"

Guarded == INSTANCE GuardedEntries WITH
             Entries <- Signals, Symbols <- Codes, SymbolOf <- CodeOf,
             listed  <- registry,
             life    <- [k \in Signals |-> Life(k)],
             bought  <- filled,
             sold    <- sold,
             guard   <- [k \in Signals |-> stop[k].state],
             cover   <- [k \in Signals |-> stop[k].quantity],
             past    <- old

\* The next-state relation of GuardedEntries, for the BUYs that did not leave with a
\* completed row.
GuardedNext == \A k \in Signals \ replayed' : Guarded!Step(k)

\* The cycles, restarts and days implement GuardedEntries: a BUY leaves once and only
\* when it is listed; it is given up only when it can fill no more and its stop covers
\* all its fills, or, the day after, when all of it is sold; a stop begins only where
\* the symbol has none, never shrinks, and ends only when the shares it is for are sold.
EntriesGuarded == Guarded!Init /\ [][GuardedNext]_(Guarded!vars)

\* The inductive form of the safety properties, in four parts.  First, the row in
\* hand: what was read of its order remains true of it, and a row is completed
\* only with its stop or when its shares are gone.
\* Nothing of the BUY is held, or it is a BUY of today that is still listed.
SoldOrListed(k) ==
  sold[k] = filled[k] \/ (k \notin old /\ (registry[k] = "pending" \/ k \in replayed))

RowInHand ==
  /\ pc \in Handling \cup {"execute"} => item \in Signals
  /\ pc \in Handling => registry[item] = "pending" /\ journal[item] = "submitted"
                        /\ item \notin todo
  /\ pc \in {"position", "stop", "complete"} =>
       /\ seen.cum <= filled[item]
       /\ seen.ended => order[item] = "ended" /\ seen.cum = filled[item]
       /\ item \in old => seen.ended
  /\ pc = "stop" => seen.cum > 0
  /\ pc = "stop" \/ (pc = "complete" /\ item \notin old) =>
       cache = NoSnapshot \/ cache[CodeOf[item]] > 0
  /\ pc = "complete" =>
       /\ seen.ended
       /\ \/ Current(item) /\ stop[item].quantity = filled[item]
          \/ item \in old /\ sold[item] = filled[item]
  /\ pc \in Reconciling => todo \subseteq Pending
  /\ pc \in Buying => todo \subseteq intents /\ intents \cap old = {}
  /\ pc = "execute" => item \in intents /\ registry[item] # "none"

\* Second, what the books say of the broker; a stale snapshot hides only shares
\* whose BUY is still listed, and never shares that a stop is for.
Books ==
  /\ \A k \in Signals :
       /\ order[k] # "none" => journal[k] \in {"submitted", "unknown", "submission_pending"}
       /\ journal[k] = "submitted" => order[k] \in {"working", "ended"}
       /\ filled[k] > 0 => order[k] \in {"working", "ended"}
       /\ order[k] \in {"inflight", "working"} =>
            k \notin old /\ (registry[k] = "pending" \/ k \in replayed)
       /\ stop[k].quantity <= filled[k] /\ (stop[k].state = "none" => stop[k].quantity = 0)
       /\ Current(k) => stop[k].quantity > 0
       /\ sold[k] <= filled[k]
       /\ sold[k] < filled[k] => registry[k] = "pending" \/ Current(k) \/ k \in replayed
       /\ Current(k) \/ k \in old => registry[k] # "none"
  /\ \A j, k \in Signals : Current(j) /\ Current(k) /\ CodeOf[j] = CodeOf[k] => j = k
  /\ \A c \in Codes, k \in Signals : CodeOf[k] = c =>
       /\ position[c] = 0 => sold[k] = filled[k]
       /\ cache # NoSnapshot /\ cache[c] = 0 =>
            SoldOrListed(k) /\ (Current(k) => stop[k].quantity <= sold[k])

\* Third, unresolved rows: what is handled and still pending blocks the cycle or
\* is SUBMITTED.
Trouble ==
  /\ pc \in Reconciling =>
       \A k \in Pending \ todo : blocked \/ journal[k] = "submitted"
  /\ pc \in {"carryover", "protection", "stops", "signals"} =>
       \A k \in Pending : journal[k] = "submitted"
  /\ pc \in Buying => \A k \in Pending \ intents : journal[k] = "submitted"

\* Fourth, days: nothing of an earlier day is listed or owned once a BUY of
\* today is registered.
NothingOld == \A k \in old : registry[k] # "pending" /\ ~Current(k)

OneDay ==
  /\ (\E k \in Signals \ old : registry[k] # "none") => NothingOld
  /\ pc \in Reconciling =>
       \A k \in (Pending \cap old) \ todo : blocked \/ (pc \in Handling /\ k = item)
  /\ pc = "carryover" => mode = "strategy" /\ \A k \in old : registry[k] # "pending"
  /\ pc = "protection" => mode # "post"
  /\ pc = "stops" => mode \in {"strategy", "protective"}
  /\ pc \in {"protection", "stops"} /\ mode = "strategy" => NothingOld
  /\ pc \in {"signals"} \cup Buying => mode = "strategy" /\ NothingOld

EntryInv == TypeOK /\ RowInHand /\ Books /\ Trouble /\ OneDay

=============================================================================
