--------------------------- MODULE PositionLedger ---------------------------
(***************************************************************************)
(* What CockpitService promises about positions, broker and prices aside.  *)
(* A symbol's ledger row is                                                *)
(*   stage   "none", "pending" (entry not filled), "open" or "closed"      *)
(*   held    the tranches still active                                     *)
(*   trade   the root order id, larger for a later trade                   *)
(* A trade starts whole, is filled or voided, gives up tranches and ends   *)
(* when the last one goes; only a new trade replaces it, and no more than  *)
(* max_open_positions symbols are pending or open when one starts.         *)
(***************************************************************************)
EXTENDS Integers, FiniteSets

CONSTANTS Symbols, TrancheIds, MaxOpenPositions
VARIABLE row

Committed == {s \in Symbols : row[s].stage \in {"pending", "open"}}

Init == row = [s \in Symbols |-> [stage |-> "none", held |-> {}, trade |-> 0]]

\* The row after its trade gives up all but the tranches h.
Left(r, h) == [stage |-> IF h = {} THEN "closed" ELSE "open", held |-> h, trade |-> r.trade]

\* What a row may become while its trade lasts.
Moves(r) == {r} \cup (IF r.stage = "pending" THEN {[r EXCEPT !.stage = "open"], Left(r, {})} ELSE {})
                \cup (IF r.stage = "open" THEN {Left(r, h) : h \in SUBSET r.held} ELSE {})

\* A request or a sweep moves trades on, several at a time in a sweep.
Progress == /\ DOMAIN row' = Symbols
            /\ \A s \in Symbols : row'[s] \in Moves(row[s])

\* enter_trade: whatever the row was, it holds a whole new trade.
Open(s) == /\ DOMAIN row' = Symbols
           /\ \A x \in Symbols \ {s} : row'[x] \in Moves(row[x])
           /\ row'[s].stage \in {"pending", "open"}
           /\ row'[s].held \in SUBSET TrancheIds /\ row'[s].held # {}
           /\ row'[s].trade > row[s].trade
           /\ Cardinality(Committed') =< MaxOpenPositions

Next == Progress \/ \E s \in Symbols : Open(s)
Spec == Init /\ [][Next]_row
=============================================================================
