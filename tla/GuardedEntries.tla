--------------------------- MODULE GuardedEntries ---------------------------
(***************************************************************************)
(* What the books of a trading day promise for each BUY, whichever reads,  *)
(* retries, crashes and restarts lie behind it: it is listed before it     *)
(* leaves and leaves once; what it buys is covered by a guard of its own,  *)
(* never by more than it has bought, and a symbol has one guard at a time; *)
(* it leaves the list only when it can buy nothing more and the guard      *)
(* covers all it has bought, or, of an earlier day, all of it is sold; and *)
(* the guard goes only when the shares it is for are sold.  A BUY moves in *)
(* several ways at once, so that a step is a conjunction: each part goes   *)
(* forward, and only as the others allow.                                  *)
(* LiveEntryReconciliation implements this specification.                  *)
(***************************************************************************)
EXTENDS Integers

CONSTANTS Entries,          \* BUYs
          Symbols, SymbolOf

VARIABLES listed,           \* of each BUY: "none", "pending", "complete"
          life,             \* "unsent", "open", "over"
          bought,           \* shares it has bought
          sold,             \* shares of those that have left the account
          guard,            \* "none", "active", "exit_pending", "retired"
          cover,            \* shares its guard is for
          past              \* BUYs of earlier days

vars == <<listed, life, bought, sold, guard, cover, past>>

Init ==
  /\ listed = [k \in Entries |-> "none"] /\ life = [k \in Entries |-> "unsent"]
  /\ guard = [k \in Entries |-> "none"] /\ past = {}
  /\ bought = [k \in Entries |-> 0] /\ sold = [k \in Entries |-> 0]
  /\ cover = [k \in Entries |-> 0]

Guards(c) == {k \in Entries : SymbolOf[k] = c /\ guard[k] \in {"active", "exit_pending"}}

\* Listed once and given up once.
List(k) ==
  \/ listed'[k] = listed[k]
  \/ listed[k] = "none" /\ listed'[k] = "pending"
  \/ /\ listed[k] = "pending" /\ listed'[k] = "complete"
     /\ life[k] # "open"
     /\ cover[k] = bought[k] \/ (k \in past /\ sold[k] = bought[k])

\* Sent once, and over for good.
Send(k) ==
  \/ life'[k] = life[k]
  \/ life[k] = "unsent" /\ life'[k] = "open" /\ listed[k] = "pending"
  \/ life'[k] = "over"

\* Buys only what a book tells of; only what was bought is sold.
Trade(k) ==
  /\ \/ bought'[k] = bought[k]
     \/ life[k] = "open" /\ listed[k] = "pending" /\ bought'[k] > bought[k]
  /\ sold'[k] \in sold[k]..bought'[k]

\* Guards what was bought, alone for its symbol, until it is on sale and sold.
Guard(k) ==
  \/ guard'[k] = guard[k] /\ cover'[k] = cover[k]
  \/ /\ listed[k] = "pending"
     /\ guard[k] = "active" \/ (guard[k] = "none" /\ Guards(SymbolOf[k]) = {})
     /\ guard'[k] = "active" /\ cover'[k] \in cover[k]..bought[k]
  \/ guard[k] = "active" /\ guard'[k] = "exit_pending" /\ cover'[k] = cover[k]
  \/ /\ guard[k] \in {"active", "exit_pending"} /\ sold[k] >= cover[k]
     /\ guard'[k] = "retired" /\ cover'[k] = cover[k]

\* The day ends for the BUYs that are listed, and with it their orders.
Pass(k) == k \in past \/ (k \in past' => listed[k] # "none" /\ life'[k] # "open")

Step(k) ==
  List(k) /\ Send(k) /\ Trade(k) /\ Guard(k) /\ Pass(k) /\ (k \in past => k \in past')

Next == \A k \in Entries : Step(k)

Spec == Init /\ [][Next]_vars
=============================================================================
