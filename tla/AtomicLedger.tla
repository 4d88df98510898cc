---------------------------- MODULE AtomicLedger ----------------------------
(***************************************************************************)
(* What paper trading of a symbol promises, whichever order rows, broker   *)
(* states and commits lie behind it: a signal trades at most once, in one  *)
(* step; a BUY is paid for and starts from nothing, a SELL sells all there *)
(* is.  At a price of 1 money and shares are only exchanged.  PaperLedger  *)
(* implements this specification until a session dies.                     *)
(***************************************************************************)
EXTENDS Integers

CONSTANTS Buys, Sells,      \* signals
          Lot, InitialCash

VARIABLES traded,           \* signals that have traded
          held, money

vars == <<traded, held, money>>

Init == traded = {} /\ held = 0 /\ money = InitialCash

Buy(s) ==
  /\ s \notin traded /\ held = 0 /\ money >= Lot
  /\ traded' = traded \union {s}
  /\ held' = Lot /\ money' = money - Lot

Sell(s) ==
  /\ s \notin traded /\ held > 0
  /\ traded' = traded \union {s}
  /\ held' = 0 /\ money' = money + held

Next == (\E s \in Buys : Buy(s)) \/ (\E s \in Sells : Sell(s))

Spec == Init /\ [][Next]_vars
=============================================================================
