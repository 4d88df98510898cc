-------------------------- MODULE LiveEodLiquidation --------------------------
(***************************************************************************)
(* From 15:20 to 15:30 the application calls LiveEodLiquidationFlow        *)
(* .submit_all again and again until it answers COMPLETE (exit code 0) or  *)
(* the deadline passes (exit code 1).  One call makes up to MaxPasses      *)
(* passes: read the account, keep the positions a durable stop row proves  *)
(* to be KATANA's, and sell each of them once; it reads, cancels and sends *)
(* in steps between which the broker, and the owner of the account, act.   *)
(*                                                                         *)
(* Account reads go through a cache of five seconds: the calls are farther *)
(* apart, the reads of one call need not be.  Cancelling a BUY is          *)
(* LiveCancelJournal and sending a SELL is LiveExecutionJournal; only      *)
(* their outcomes appear here.                                             *)
(***************************************************************************)
EXTENDS Naturals, FiniteSets

CONSTANTS Codes,            \* symbols
          NoCode,           \* no symbol is being handled
          Lot,              \* shares KATANA buys of a symbol
          OpenBuys,         \* symbols whose BUY may still be unfinished
          Cached,           \* cache_ttl_seconds > 0 (its default is 5)
          MaxPasses,        \* LiveEodLiquidationFlow.max_passes
          MaxFailures,      \* bound: account or order reads that fail
          MaxLost,          \* bound: SELL submissions whose answer is lost
          MaxRefusals,      \* bound: cancels and submissions that are refused
          MaxManual         \* bound: trades of the owner in the same account

ASSUME EodAssumption ==
  /\ NoCode \notin Codes /\ OpenBuys \subseteq Codes /\ Cached \in BOOLEAN
  /\ {Lot, MaxPasses} \subseteq Nat \ {0}
  /\ {MaxFailures, MaxLost, MaxRefusals, MaxManual} \subseteq Nat

VARIABLES
  owned,                    \* durable: quantity of the current stop row, 0 for none
  \* the process
  pc,                       \* the next step of submit_all
  pass,                     \* pass_number
  todo,                     \* owned_plans of this pass still to be sold
  code,                     \* the candidate in hand
  planned,                  \* quantity of its SELL plan
  submitted,                \* submitted_symbols
  cache,                    \* the account snapshot of this call, NoSnapshot if none
  \* the broker
  position,                 \* shares held, by KATANA and by the owner
  selling,                  \* shares in unfinished SELL orders
  buying,                   \* shares in unfinished BUY orders
  transit,                  \* shares in SELL requests the broker has not handled
  \* bounds
  failures, lost, refusals, manual

process == <<pc, pass, todo, code, planned, submitted>>
broker  == <<position, selling, buying, transit>>
bounds  == <<failures, lost, refusals, manual>>
vars    == <<owned, process, cache, broker, bounds>>

NoSnapshot == [c \in {} |-> 0]

\* Running steps of submit_all, and how the application has ended.
Running == {"wait", "pass", "candidate", "check", "cancel", "recheck", "replan",
            "submit", "verify"}
Ended   == {"exit_0", "exit_1", "stopped"}

\* Ownership and position agree when the call at 15:20 starts, except for
\* shares of the owner in a symbol KATANA does not own, and for a BUY that is
\* still open.
Init ==
  /\ owned \in [Codes -> {0, Lot}]
  /\ position \in [Codes -> {0, Lot}]
  /\ \A c \in Codes : owned[c] > 0 => position[c] = owned[c]
  /\ buying \in [Codes -> {0, 1}]
  /\ \A c \in Codes \ OpenBuys : buying[c] = 0
  /\ selling = [c \in Codes |-> 0]
  /\ transit = [c \in Codes |-> 0]
  /\ pc = "wait" /\ pass = 0 /\ todo = {} /\ submitted = {}
  /\ code = NoCode /\ planned = 0 /\ cache = NoSnapshot
  /\ failures = 0 /\ lost = 0 /\ refusals = 0 /\ manual = 0

-----------------------------------------------------------------------------
(* Reads.                                                                  *)

\* refresh(): the cached snapshot, or a new one when the cache has expired.
Snapshots == IF cache = NoSnapshot THEN {position} ELSE {cache, position}

Remember(s)    == cache' = IF Cached THEN s ELSE NoSnapshot
AccountRead(s) == Remember(s) /\ UNCHANGED bounds

Fails == failures < MaxFailures /\ failures' = failures + 1
         /\ UNCHANGED <<lost, refusals, manual>>
AccountFails == Fails /\ UNCHANGED cache

\* _owned_plans: positions a current stop row proves to be KATANA's.
OwnedPlans(s) == {c \in Codes : s[c] > 0 /\ owned[c] > 0}
QuantityMismatch(s) == \E c \in OwnedPlans(s) : s[c] # owned[c]

Goto(step) == pc' = step /\ UNCHANGED <<pass, todo, code, planned, submitted>>

\* submit_all returns COMPLETE and the application exits with 0; or it returns
\* BLOCKED and is called again; or it raises and the application stops.
Complete == Goto("exit_0")
Blocked  == Goto("wait")
Raise    == Goto("stopped")

-----------------------------------------------------------------------------
(* submit_all.                                                             *)

\* Mutant: submitted_symbols outlives the call.
SubmitAllRemembering ==
  /\ pc = "wait"
  /\ pc' = "pass" /\ pass' = 1 /\ todo' = {}
  /\ code' = NoCode /\ planned' = 0 /\ cache' = NoSnapshot
  /\ UNCHANGED <<owned, submitted, broker, bounds>>

\* The next call: the last snapshot is older than the cache allows.
SubmitAll ==
  /\ pc = "wait"
  /\ pc' = "pass" /\ pass' = 1 /\ todo' = {} /\ submitted' = {}
  /\ code' = NoCode /\ planned' = 0 /\ cache' = NoSnapshot
  /\ UNCHANGED <<owned, broker, bounds>>

\* now >= stop_at
Deadline ==
  /\ pc = "wait"
  /\ Goto("exit_1")
  /\ UNCHANGED <<owned, cache, broker, bounds>>

\* A failed read is answered with one plan without symbol or order, which no
\* stop row matches: no owned plan is left and the call is COMPLETE.
PassUnreadable ==
  /\ pc \in {"pass", "verify"}
  /\ AccountFails
  /\ Complete
  /\ UNCHANGED <<owned, broker>>

\* Mutant: a position whose quantity does not match is left out.
PassSkipsMismatch(s) ==
  /\ pc = "pass"
  /\ AccountRead(s)
  /\ LET plans == {c \in OwnedPlans(s) : s[c] = owned[c]} IN
     \/ plans \cap submitted # {} /\ Blocked
     \/ plans = {} /\ Complete
     \/ /\ plans \cap submitted = {} /\ plans # {}
        /\ pc' = "candidate" /\ todo' = plans
        /\ UNCHANGED <<pass, code, planned, submitted>>
  /\ UNCHANGED <<owned, broker>>

\* plan_end_of_day: one quantity that is not the stop row's, or a symbol sold in
\* an earlier pass that still shows a position, ends the call; nothing owned is
\* COMPLETE; otherwise each owned position is to be sold.
Pass(s) ==
  /\ pc = "pass"
  /\ AccountRead(s)
  /\ \/ (QuantityMismatch(s) \/ OwnedPlans(s) \cap submitted # {}) /\ Blocked
     \/ OwnedPlans(s) = {} /\ Complete
     \/ /\ ~QuantityMismatch(s) /\ OwnedPlans(s) \cap submitted = {} /\ OwnedPlans(s) # {}
        /\ pc' = "candidate" /\ todo' = OwnedPlans(s)
        /\ UNCHANGED <<pass, code, planned, submitted>>
  /\ UNCHANGED <<owned, broker>>

\* Mutant: one pass too many.
CandidatePassesOver ==
  /\ pc = "candidate"
  /\ \/ \E c \in todo :
          /\ code' = c /\ todo' = todo \ {c} /\ pc' = "check"
          /\ UNCHANGED <<pass, planned, submitted>>
     \/ /\ todo = {}
        /\ IF pass <= MaxPasses THEN pc' = "pass" /\ pass' = pass + 1
                                ELSE pc' = "verify" /\ pass' = pass
        /\ UNCHANGED <<todo, code, planned, submitted>>
  /\ UNCHANGED <<owned, cache, broker, bounds>>

\* The next plan, or the next pass.
Candidate ==
  /\ pc = "candidate"
  /\ \/ \E c \in todo :
          /\ code' = c /\ todo' = todo \ {c} /\ pc' = "check"
          /\ UNCHANGED <<pass, planned, submitted>>
     \/ /\ todo = {}
        /\ IF pass < MaxPasses THEN pc' = "pass" /\ pass' = pass + 1
                               ELSE pc' = "verify" /\ pass' = pass
        /\ UNCHANGED <<todo, code, planned, submitted>>
  /\ UNCHANGED <<owned, cache, broker, bounds>>

\* Mutant: an unfinished SELL is not a conflict.
CheckConflictsOfBuys ==
  /\ pc = "check"
  /\ \/ Fails /\ Blocked
     \/ /\ UNCHANGED bounds
        /\ IF buying[code] > 0 THEN Goto("cancel") ELSE Goto("replan")
  /\ UNCHANGED <<owned, cache, broker>>

\* resolve_eod: the unfinished orders of the symbol, read without a cache.
CheckConflicts ==
  /\ pc = "check"
  /\ \/ Fails /\ Blocked
     \/ /\ UNCHANGED bounds
        /\ \/ selling[code] > 0 /\ Blocked
           \/ selling[code] = 0 /\ buying[code] > 0 /\ Goto("cancel")
           \/ selling[code] = 0 /\ buying[code] = 0 /\ Goto("replan")
  /\ UNCHANGED <<owned, cache, broker>>

\* cancel_and_reconcile answers CANCELLED of an order that has ended, or BLOCKED.
CancelBuy ==
  /\ pc = "cancel"
  /\ \/ buying' = [buying EXCEPT ![code] = 0] /\ Goto("recheck") /\ UNCHANGED bounds
     \/ /\ refusals < MaxRefusals /\ refusals' = refusals + 1
        /\ Blocked /\ UNCHANGED <<buying, failures, lost, manual>>
  /\ UNCHANGED <<owned, cache, position, selling, transit>>

Recheck ==
  /\ pc = "recheck"
  /\ \/ Fails /\ Blocked
     \/ /\ UNCHANGED bounds
        /\ IF selling[code] = 0 /\ buying[code] = 0 THEN Goto("replan") ELSE Blocked
  /\ UNCHANGED <<owned, cache, broker>>

PlanSell(quantity) ==
  /\ pc' = "submit" /\ planned' = quantity
  /\ UNCHANGED <<pass, todo, code, submitted>>

\* A plan without an order makes _plan_quantity raise out of submit_all.
ReplanUnreadable ==
  /\ pc = "replan"
  /\ AccountFails
  /\ Raise
  /\ UNCHANGED <<owned, broker>>

\* Mutant: what the account shows is sold, whoever owns it.
ReplanUnowned(s) ==
  /\ pc = "replan"
  /\ AccountRead(s)
  /\ IF s[code] = 0 THEN Raise ELSE PlanSell(s[code])
  /\ UNCHANGED <<owned, broker>>

\* The position is read once more; one that is gone has no order either.
Replan(s) ==
  /\ pc = "replan"
  /\ AccountRead(s)
  /\ \/ s[code] = 0 /\ Raise
     \/ s[code] \notin {0, owned[code]} /\ Blocked
     \/ s[code] = owned[code] /\ PlanSell(s[code])
  /\ UNCHANGED <<owned, broker>>

\* SUBMISSION_STARTED: the symbol counts as submitted whatever became of it.
Started ==
  /\ pc' = "candidate" /\ submitted' = submitted \union {code}
  /\ code' = NoCode /\ planned' = 0
  /\ UNCHANGED <<pass, todo>>

\* _submit_plan raises before the transport (a failed read, a gate, a baseline
\* that differs from the plan) or on the broker's refusal, or the transport is
\* blocked: nothing is at the broker.
SubmitRefused ==
  /\ pc = "submit"
  /\ \/ AccountFails /\ Blocked
     \/ /\ refusals < MaxRefusals /\ refusals' = refusals + 1
        /\ Started \/ Blocked
        /\ UNCHANGED <<cache, failures, lost, manual>>
  /\ UNCHANGED <<owned, broker>>

\* Under a new execution key: the broker accepts, or the answer is lost.
SubmitPlan(s) ==
  /\ pc = "submit"
  /\ Remember(s)
  /\ \/ /\ s[code] # planned /\ Blocked
        /\ UNCHANGED <<selling, transit, bounds>>
     \/ /\ s[code] = planned /\ Started
        /\ selling' = [selling EXCEPT ![code] = @ + planned]
        /\ UNCHANGED <<transit, bounds>>
     \/ /\ s[code] = planned /\ Started
        /\ lost < MaxLost /\ lost' = lost + 1
        /\ transit' = [transit EXCEPT ![code] = @ + planned]
        /\ UNCHANGED <<selling, failures, refusals, manual>>
  /\ UNCHANGED <<owned, position, buying>>

\* The read after the last pass.
FinalVerification(s) ==
  /\ pc = "verify"
  /\ AccountRead(s)
  /\ IF OwnedPlans(s) = {} THEN Complete ELSE Blocked
  /\ UNCHANGED <<owned, broker>>

ProcessStep ==
  \/ SubmitAll \/ PassUnreadable \/ Candidate \/ CheckConflicts \/ CancelBuy
  \/ Recheck \/ ReplanUnreadable \/ SubmitRefused
  \/ \E s \in Snapshots : Pass(s) \/ Replan(s) \/ SubmitPlan(s) \/ FinalVerification(s)

-----------------------------------------------------------------------------
(* The broker and the owner of the account.                                *)

\* A SELL fills as far as the shares suffice.
FillSell(c) ==
  /\ selling[c] > 0 /\ position[c] > 0
  /\ selling' = [selling EXCEPT ![c] = @ - 1]
  /\ position' = [position EXCEPT ![c] = @ - 1]
  /\ UNCHANGED <<owned, process, cache, buying, transit, bounds>>

FillBuy(c) ==
  /\ buying[c] > 0
  /\ buying' = [buying EXCEPT ![c] = @ - 1]
  /\ position' = [position EXCEPT ![c] = @ + 1]
  /\ UNCHANGED <<owned, process, cache, selling, transit, bounds>>

\* A request whose answer was lost reaches the broker after all, or never.
Arrive(c) ==
  /\ transit[c] > 0
  /\ transit' = [transit EXCEPT ![c] = 0]
  /\ \/ selling' = [selling EXCEPT ![c] = @ + transit[c]]
     \/ UNCHANGED selling
  /\ UNCHANGED <<owned, process, cache, position, buying, bounds>>

\* The owner buys or sells shares of the same symbol.
ManualTrade(c) ==
  /\ manual < MaxManual /\ manual' = manual + 1
  /\ \/ position' = [position EXCEPT ![c] = @ + 1]
     \/ position[c] > 0 /\ position' = [position EXCEPT ![c] = @ - 1]
  /\ UNCHANGED <<owned, process, cache, selling, buying, transit,
                 failures, lost, refusals>>

BrokerStep(c) == FillSell(c) \/ FillBuy(c) \/ Arrive(c)

-----------------------------------------------------------------------------

Next ==
  \/ ProcessStep \/ Deadline
  \/ \E c \in Codes : BrokerStep(c) \/ ManualTrade(c)

\* The application keeps running; an accepted market order fills.
Fairness ==
  /\ WF_vars(ProcessStep)
  /\ \A c \in Codes : WF_vars(FillSell(c))

Spec == Init /\ [][Next]_vars
FairSpec == Spec /\ Fairness

-----------------------------------------------------------------------------
(* Properties.                                                             *)

\* The process and the broker hold values of their types; no more shares are
\* in flight than the bounds allow.
TypeOK ==
  /\ owned \in [Codes -> {0, Lot}]
  /\ pc \in Running \union Ended
  /\ pass \in 0..MaxPasses
  /\ todo \subseteq Codes /\ submitted \subseteq Codes
  /\ code \in Codes \union {NoCode} /\ planned \in Nat
  /\ cache = NoSnapshot \/ cache \in [Codes -> Nat]
  /\ {position, selling, buying, transit} \subseteq [Codes -> Nat]
  /\ failures \in 0..MaxFailures /\ lost \in 0..MaxLost
  /\ refusals \in 0..MaxRefusals /\ manual \in 0..MaxManual

\* "COMPLETE means a fresh authoritative read contains no remaining position
\* that matches a current KATANA ownership record."
CompleteMeansFlat ==
  [][pc' = "exit_0" => pc = "exit_0"
                       \/ \A c \in Codes : owned[c] > 0 => position[c] = 0]_vars

\* No more is on sale than the stop row says is KATANA's: shares of the owner
\* are never sold ("protection of manual and unmanaged brokerage positions"),
\* unless the answer to a SELL was lost.
OnlyOwnedIsSold == lost = 0 => \A c \in Codes : selling[c] + transit[c] <= owned[c]

\* Left out of what follows are a trade of the owner, a SELL whose answer was lost,
\* and snapshots that are reused: each can make a call sell what is sold already.
Traced == manual = 0 /\ lost = 0 /\ ~Cached

\* The same shares are never on sale twice, though every call uses a new
\* execution key ("duplicate-sell protection").
SoldOnce == Traced => \A c \in Codes : selling[c] + transit[c] <= position[c]

\* The calls seen from outside, as steps of ExclusiveSale.
Sale == INSTANCE ExclusiveSale WITH
          Symbols <- Codes,
          covered <- {c \in Codes : owned[c] > 0},
          held    <- position,
          offered <- [c \in Codes |-> selling[c] + transit[c]]

\* As long as shares can be traced the calls implement ExclusiveSale: one offer of
\* an owned symbol at a time, of no more than is held, and none while a BUY of it
\* fills ("duplicate-sell protection when an existing SELL is still working").
SaleExclusive == Sale!Init /\ [][Sale!Next \/ ~Traced']_(Sale!vars)

\* The inductive form of these: from the check of its orders to its SELL a
\* symbol is in hand and nothing of it is on sale, and the plan is the stop row's.
\* A snapshot that is reused shows no symbol as sold that is held, as long as
\* nothing is bought.
InHand  == {"check", "cancel", "recheck", "replan", "submit"}
Checked == {"cancel", "recheck", "replan", "submit"}

EodInv ==
  /\ TypeOK
  /\ pc \in InHand => code \in Codes
  /\ pc = "submit" => planned = owned[code]
  /\ lost = 0 =>
       /\ \A c \in Codes : transit[c] = 0 /\ selling[c] <= owned[c]
       /\ pc \in Checked => selling[code] = 0
  /\ ~Cached => cache = NoSnapshot
  /\ SoldOnce
  /\ pc \in {"replan", "submit"} => buying[code] = 0
  /\ \A c \in Codes : buying[c] > 0 => selling[c] = 0 /\ transit[c] = 0
  /\ OpenBuys = {} =>
       /\ \A c \in Codes : buying[c] = 0
       /\ manual = 0 /\ cache # NoSnapshot =>
            \A c \in Codes : cache[c] = 0 => position[c] = 0

\* A position that turned flat between the read of the pass and the read of its
\* plan makes submit_all raise, and the application stops with it.
StoppedByAFlatPosition == pc = "stopped" /\ position[code] = 0

\* With a readable account, left alone by its owner, and unless the deadline cuts
\* the calls short, every owned position of every symbol is sold in the end,
\* through refusals, blocked calls and lost answers ("15:20-15:30 reconcile and
\* retry EOD verification"), or the application was stopped by a flat position.
EventuallyFlat ==
  <>[](\/ \A c \in Codes : owned[c] > 0 => position[c] = 0
       \/ failures > 0 \/ pc = "exit_1" \/ StoppedByAFlatPosition)
=============================================================================
