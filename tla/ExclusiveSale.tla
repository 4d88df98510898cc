--------------------------- MODULE ExclusiveSale ---------------------------
(***************************************************************************)
(* What a way out of a position promises, whichever conflict checks, plans *)
(* and retries lie behind it: a symbol is offered only while a stop row    *)
(* covers it, as one offer at a time and never more than is held; while it *)
(* is offered none of it is bought; and it stays covered as long as any of *)
(* it is held.  The protective stops (LiveProtectiveStops) and the end of  *)
(* the day (LiveEodLiquidation) both implement this specification.         *)
(***************************************************************************)
EXTENDS Naturals

CONSTANTS Symbols

VARIABLES covered,          \* symbols with a current stop row
          held,             \* shares of each symbol in the account
          offered           \* shares of each that are on sale

vars == <<covered, held, offered>>

Init ==
  /\ covered \in SUBSET Symbols
  /\ held \in [Symbols -> Nat]
  /\ offered = [c \in Symbols |-> 0]

\* A share of the entry arrives; nothing of the symbol is on sale.
Buy(c) ==
  /\ offered[c] = 0
  /\ held' = [held EXCEPT ![c] = @ + 1]
  /\ UNCHANGED <<covered, offered>>

Offer(c) ==
  /\ c \in covered /\ offered[c] = 0
  /\ \E q \in 1..held[c] : offered' = [offered EXCEPT ![c] = q]
  /\ UNCHANGED <<covered, held>>

Sell(c) ==
  /\ offered[c] > 0 /\ held[c] > 0
  /\ offered' = [offered EXCEPT ![c] = @ - 1]
  /\ held' = [held EXCEPT ![c] = @ - 1]
  /\ UNCHANGED covered

\* The offer ends as a whole: cancelled, or never accepted.
Withdraw(c) ==
  /\ offered' = [offered EXCEPT ![c] = 0]
  /\ UNCHANGED <<covered, held>>

Release(c) ==
  /\ held[c] = 0
  /\ covered' = covered \ {c}
  /\ UNCHANGED <<held, offered>>

Next == \E c \in Symbols : Buy(c) \/ Offer(c) \/ Sell(c) \/ Withdraw(c) \/ Release(c)

Spec == Init /\ [][Next]_vars
=============================================================================
