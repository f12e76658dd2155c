----------------------------- MODULE TradeBook -----------------------------
(***************************************************************************)
(* What CockpitService keeps in the database for one symbol, and what each *)
(* of its handlers computes from it.  A "book" is the pair of the symbol's *)
(* row in `positions` and its rows in `orders`, in insertion order:        *)
(*                                                                         *)
(*   pos.phase   the trade phase, "none" when the symbol has no row        *)
(*   pos.side    entry side, "buy" or "sell"                               *)
(*   pos.entry   entry_price          pos.live   live_price                *)
(*   pos.root    root_order_id, as an index into ords                      *)
(*   pos.st      status of each tranche; tranche t is the code's "T<t>"    *)
(*   pos.qty     quantity of each tranche (allocationPct is any number, so *)
(*               a quantity may be zero or negative)                       *)
(*   pos.runner  tranches whose mode is "runner"                           *)
(*                                                                         *)
(*   o.root      parent_id (0: o is itself a root entry order)             *)
(*   o.type      "ENTRY" stands for whatever type the root has             *)
(*   o.covered   covered_tranches     o.tranche  tranche of the label (0:  *)
(*               the label is not a tranche id: "S1", or the symbol)       *)
(*   o.price     trigger price of a STOP or TRAIL, 0 for the others        *)
(*   o.bid       the row has a broker_order_id                             *)
(*                                                                         *)
(* Order ids "ORD-nnnn" are the indices of ords: only their uniqueness is  *)
(* used.  Nothing here is RECURSIVE, so the module can be proved about.    *)
(***************************************************************************)
EXTENDS Integers, Sequences, FiniteSets

Sides    == {"buy", "sell"}
Phases   == {"none", "entry_pending", "trade_entered", "protected",
             "P1_done", "P2_done", "runner_only", "closed"}
TrancheStatus == {"active", "sold", "canceled"}
OrderTypes    == {"ENTRY", "STOP", "TRAIL", "LMT", "MKT"}
OrderStatus   == {"PENDING", "ACTIVE", "MODIFIED", "FILLED", "CANCELED"}
                   \cup {"ACCEPTED", "PARTIALLY_FILLED", "PENDING_CANCEL"}    \* words of Alpaca's alone

Live      == {"ACTIVE", "MODIFIED"}
Unfilled  == {"PENDING", "ACCEPTED"}
Done      == {"FILLED", "CANCELED"}
ExitTypes == {"STOP", "TRAIL"}
TrancheIds == 1..3

NoPosition == [phase |-> "none", side |-> "buy", entry |-> 0, live |-> 0, root |-> 0,
               st |-> <<>>, qty |-> <<>>, runner |-> {}]
EmptyBook  == [pos |-> NoPosition, ords |-> <<>>]

Active(p) == {t \in DOMAIN p.st : p.st[t] = "active"}
IsOpen(p) == p.phase \notin {"none", "closed"}

\* _ensure_position_is_open, _require_position included: a row, not closed, with a tranche left.
Manageable(p) == IsOpen(p) /\ Active(p) # {}
\* ... and _ensure_position_filled.
Filled(p) == Manageable(p) /\ p.phase # "entry_pending"
ProfitActionable(p) == Filled(p) /\ p.phase \in {"protected", "P1_done", "P2_done", "runner_only"}

\* A set of tranche ids as the list the code loops over.
Listed(T) == LET one(t) == IF t \in T THEN <<t>> ELSE <<>>
             IN  one(1) \o one(2) \o one(3)
ActiveList(p) == Listed(Active(p))

\* Of the orders os, those with a status in S become CANCELED.
CanceledIf(o, S) == IF o.status \in S THEN [o EXCEPT !.status = "CANCELED"] ELSE o
CanceledIn(os, S) == [i \in DOMAIN os |-> CanceledIf(os[i], S)]

(***************************************************************************)
(* Reconciliation in paper mode.  The paper broker reports no order as     *)
(* filled, so only the live price fills exits: every live STOP or TRAIL    *)
(* whose price is crossed becomes FILLED, and what it covers and is still  *)
(* active is sold.  The loop over the orders reads neither a price nor a   *)
(* covered set that an earlier turn wrote, hence the closed form.          *)
(***************************************************************************)
Crossed(p, o) == IF p.side = "sell" THEN p.live >= o.price ELSE p.live =< o.price

Triggered(b) ==
    {i \in DOMAIN b.ords : /\ b.pos.phase # "entry_pending"
                           /\ b.ords[i].type \in ExitTypes
                           /\ b.ords[i].status \in Live
                           /\ Crossed(b.pos, b.ords[i])}

\* The tranches an exit order sells: what it covers, or else the tranche of its label.
Sells(o) == IF o.covered # {} THEN o.covered
            ELSE IF o.tranche # 0 THEN {o.tranche} ELSE {}

PhaseFromTranches(p) ==
    LET act  == Active(p)
        sold == Cardinality({t \in DOMAIN p.st : p.st[t] = "sold"})
    IN  IF act = {} THEN "closed"
        ELSE IF act \cap p.runner # {} /\ Cardinality(act) = 1 THEN "runner_only"
        ELSE IF sold >= 2 THEN "P2_done"
        ELSE IF sold >= 1 THEN "P1_done"
        ELSE "protected"

Marked(st, T, new) == [t \in DOMAIN st |-> IF t \in T THEN new ELSE st[t]]

\* A fill that leaves the phase alone (mutant).
SettledPhaseKept(p, T) == [p EXCEPT !.st = Marked(p.st, T, "sold")]

\* _apply_exit_fill on the position, for all the orders that fill in one pass.
Settled(p, T) ==
    LET q == [p EXCEPT !.st = Marked(p.st, T, "sold")]
    IN  IF T = {} THEN p ELSE [q EXCEPT !.phase = PhaseFromTranches(q)]

\* A fill that looks at the label only, or at one covered tranche only (mutants).
SoldByLabel(b, hit) == Active(b.pos) \cap {b.ords[i].tranche : i \in hit}
SoldFirst(b, hit) ==
    LET all == Active(b.pos) \cap UNION {Sells(b.ords[i]) : i \in hit}
    IN  {t \in all : \A u \in all : t =< u}

SoldBy(b, hit) == Active(b.pos) \cap UNION {Sells(b.ords[i]) : i \in hit}

\* A fill that is not written to the order's row (mutant).
RowsUnfilled(os, hit) == os

FilledRows(os, hit) ==
    [i \in DOMAIN os |-> IF i \in hit THEN [os[i] EXCEPT !.status = "FILLED"] ELSE os[i]]

Reconcile(b) == [pos  |-> Settled(b.pos, SoldBy(b, Triggered(b))),
                 ords |-> FilledRows(b.ords, Triggered(b))]

----------------------------------------------------------------------------
\* _cancel_stale_active_orders: live orders of a symbol with nothing left to protect.
StaleCanceled(b) ==
    IF Manageable(b.pos) THEN b.ords ELSE CanceledIn(b.ords, Live)

HasLive(os, types) == \E i \in DOMAIN os : os[i].type \in types /\ os[i].status \in Live

\* _next_order_id, and what it would be if it repeated the last id (mutant).
SameId(os) == IF os = <<>> THEN 1 ELSE Len(os)
NextId(os) == Len(os) + 1

(***************************************************************************)
(* enter_trade: e has the request's side and entry price and the symbol's  *)
(* last price; outcome is how the paper broker took the entry.             *)
(*   "filled"  a market order, or a marketable limit: filled, no broker id *)
(*   "stored"  kept by the broker, accepted and pending                    *)
(*   "queued"  filled by the broker, kept PENDING here (queue_for_open)    *)
(***************************************************************************)
Entered(b, e, split, runner, outcome) ==
    LET root == NextId(b.ords)
        n    == Len(split)
    IN  [pos  |-> [phase  |-> IF outcome = "filled" THEN "trade_entered" ELSE "entry_pending",
                   side   |-> e.side, entry |-> e.entry, live |-> e.live, root |-> root,
                   st     |-> [t \in 1..n |-> "active"],
                   qty    |-> split,
                   runner |-> runner],
         ords |-> Append(StaleCanceled(b),
                    [root |-> 0, type |-> "ENTRY", qty |-> 0, price |-> 0,
                     status |-> IF outcome = "filled" THEN "FILLED" ELSE "PENDING",
                     covered |-> {}, tranche |-> 0, bid |-> outcome = "stored"])]

\* _stop_groups: the active tranches all in one group, in two halves, or one by one.
StopGroups(p, mode) ==
    LET act == ActiveList(p)
        mid == IF Len(act) \div 2 > 1 THEN Len(act) \div 2 ELSE 1
    IN  IF mode = 1 THEN <<Active(p)>>
        ELSE IF mode = 2 THEN <<{act[k] : k \in {j \in DOMAIN act : j =< mid}},
                                {act[k] : k \in {j \in DOMAIN act : j > mid}}>>
        ELSE [k \in DOMAIN act |-> {act[k]}]

QtyOf(p, T) ==
    LET q(t) == IF t \in T THEN p.qty[t] ELSE 0
    IN  q(1) + q(2) + q(3)

\* apply_stops: one STOP for each group, at the price of that group.
StopsApplied(b, groups, price) ==
    [pos  |-> [b.pos EXCEPT !.phase = "protected"],
     ords |-> b.ords \o
               [k \in DOMAIN groups |->
                  [root |-> b.pos.root, type |-> "STOP", qty |-> QtyOf(b.pos, groups[k]),
                   price |-> price[k], status |-> "ACTIVE", covered |-> groups[k],
                   tranche |-> 0, bid |-> FALSE]]]

\* _reduce_stop_orders for one order and one sold tranche: every trade's STOPs, filled ones too.
Reduced(o, t, q) ==
    IF o.type # "STOP" \/ o.status = "CANCELED" \/ t \notin o.covered THEN o
    ELSE LET left == IF o.qty > q THEN o.qty - q ELSE 0
         IN  [o EXCEPT !.qty = left, !.covered = @ \ {t},
                       !.status = IF left = 0 THEN "CANCELED" ELSE "MODIFIED"]

\* ... and for the tranches the plan sells, in the order of the loop.
ReducedBy(p, sold, o) ==
    LET step(x, t) == IF t \in sold THEN Reduced(x, t, p.qty[t]) ELSE x
    IN  step(step(step(o, 1), 2), 3)

TrailStop(p, trail) == IF p.side = "sell" THEN p.live + trail ELSE p.live - trail

\* The order execute_profit_plan writes for one active tranche: a runner's TRAIL or a filled limit.
ExitOrder(p, keep, trail, t) ==
    [root |-> p.root, type |-> IF t \in keep THEN "TRAIL" ELSE "LMT", qty |-> p.qty[t],
     price |-> IF t \in keep THEN TrailStop(p, trail) ELSE 0,
     status |-> IF t \in keep THEN "ACTIVE" ELSE "FILLED",
     covered |-> IF t \in keep THEN {t} ELSE {}, tranche |-> t, bid |-> FALSE]

\* The phase after the plan: that of the last tranche the loop processed, or closed.
PlanPhase(p, keep) ==
    LET last == ActiveList(p)[Len(ActiveList(p))]
    IN  IF keep = {} THEN "closed"
        ELSE IF last \in keep THEN "runner_only"
        ELSE IF last = 1 THEN "P1_done" ELSE "P2_done"

\* _cancel_broker_exit_orders for the STOPs, then _reduce_stop_orders for what the plan sells.
PlanOrder(p, sold, o) == ReducedBy(p, sold, IF o.type = "STOP" THEN CanceledIf(o, Live) ELSE o)

\* execute_profit_plan: active tranches in keep become runners, the other active ones are sold.
PlanExecuted(b, keep, trail) ==
    LET p    == b.pos
        sold == Active(p) \ keep
    IN  [pos  |-> [p EXCEPT !.st = Marked(p.st, sold, "sold"),
                            !.runner = @ \cup keep,
                            !.phase = PlanPhase(p, keep)],
         ords |-> [i \in DOMAIN b.ords |-> PlanOrder(p, sold, b.ords[i])] \o
                    [k \in DOMAIN ActiveList(p) |-> ExitOrder(p, keep, trail, ActiveList(p)[k])]]

\* A duplicate check that knows the stops only (mutant).
HasStop(os, t) == \E i \in DOMAIN os : os[i].type = "STOP" /\ os[i].status \in Live /\ t \in os[i].covered

\* _reject_duplicate_active_order for a runner.
HasTrail(os, t) ==
    \E i \in DOMAIN os : /\ os[i].type = "TRAIL" /\ os[i].status \in Live
                         /\ t \in os[i].covered \/ os[i].tranche = t

\* Every STOP of the symbol, whatever its status (mutant).
AllBrokenEven(b) ==
    [pos  |-> [b.pos EXCEPT !.phase = "protected"],
     ords |-> [i \in DOMAIN b.ords |->
                 IF b.ords[i].type = "STOP"
                 THEN [b.ords[i] EXCEPT !.price = b.pos.entry, !.status = "MODIFIED"]
                 ELSE b.ords[i]]]

\* move_to_be: every live STOP of the symbol goes to the entry price.
BrokenEven(b) ==
    [pos  |-> [b.pos EXCEPT !.phase = "protected"],
     ords |-> [i \in DOMAIN b.ords |->
                 IF b.ords[i].type = "STOP" /\ b.ords[i].status \in Live
                 THEN [b.ords[i] EXCEPT !.price = b.pos.entry, !.status = "MODIFIED"]
                 ELSE b.ords[i]]]

\* A canceled entry whose tranches are forgotten (mutant).
VoidedPhaseOnly(p) == [p EXCEPT !.phase = "closed"]

Voided(p) == [p EXCEPT !.st = [t \in DOMAIN p.st |-> "canceled"], !.phase = "closed"]

\* flatten before the entry is filled: the root and every open order of the symbol go.
EntryVoided(b) ==
    [pos  |-> Voided(b.pos),
     ords |-> [CanceledIn(b.ords, Live \cup {"PENDING"}) EXCEPT ![b.pos.root].status = "CANCELED"]]

\* flatten a filled position: live orders go, each active tranche is sold at market.
MarketExit(p, t) ==
    [root |-> p.root, type |-> "MKT", qty |-> p.qty[t], price |-> 0, status |-> "FILLED",
     covered |-> {}, tranche |-> t, bid |-> FALSE]
Flattened(b) ==
    LET p == b.pos
    IN  [pos  |-> [p EXCEPT !.st = Marked(p.st, Active(p), "sold"), !.phase = "closed"],
         ords |-> CanceledIn(b.ords, Live) \o
                    [k \in DOMAIN ActiveList(p) |-> MarketExit(p, ActiveList(p)[k])]]

\* A cancel that does not look for a position of the order (mutant).
RowCanceled(b, i) == [b EXCEPT !.ords = [b.ords EXCEPT ![i].status = "CANCELED"]]

\* cancel_recent_order: the row is canceled; a pending entry takes its position with it.
OrderCanceled(b, i) ==
    LET os == [b.ords EXCEPT ![i].status = "CANCELED"]
    IN  IF i = b.pos.root /\ b.pos.phase = "entry_pending"
        THEN [pos |-> Voided(b.pos), ords |-> CanceledIn(os, Live \cup {"PENDING"})]
        ELSE [b EXCEPT !.ords = os]

----------------------------------------------------------------------------
(* What a book contains.                                                   *)
Position == [phase : Phases, side : Sides, entry : Int, live : Int, root : Nat,
             st : Seq(TrancheStatus), qty : Seq(Int), runner : SUBSET TrancheIds]
Order == [root : Nat, type : OrderTypes, qty : Int, price : Int, status : OrderStatus,
          covered : SUBSET TrancheIds, tranche : 0..3, bid : BOOLEAN]
Roots(os) == {i \in DOMAIN os : os[i].type = "ENTRY"}

BookType(b) ==
    /\ b \in [pos : Position, ords : Seq(Order)]
    /\ Len(b.pos.st) =< 3 /\ Len(b.pos.qty) = Len(b.pos.st)
    /\ IF b.pos.phase = "none" THEN b.pos.root = 0 /\ b.pos.st = <<>> /\ b.ords = <<>>
       ELSE b.pos.root \in Roots(b.ords)
    /\ \A i \in DOMAIN b.ords : b.ords[i].root =< Len(b.ords)

Flat(b) == b.pos.phase # "none" => (b.pos.phase = "closed" <=> Active(b.pos) = {})

Quiet(b) == b.pos.phase = "entry_pending" =>
              /\ Active(b.pos) = DOMAIN b.pos.st
              /\ b.ords[b.pos.root].status \in Unfilled
              /\ ~ HasLive(b.ords, ExitTypes)

\* Exit orders the current trade of b ever placed, and the tranches a live one covers.
TradeExits(b) == {i \in DOMAIN b.ords : b.ords[i].type \in ExitTypes /\ b.ords[i].root = b.pos.root}
LiveCover(b)  == UNION {Sells(b.ords[i]) : i \in {j \in TradeExits(b) : b.ords[j].status \in Live}}
Covered(b)    == TradeExits(b) # {} => Active(b.pos) \subseteq LiveCover(b)

\* The filled rows of the current trade, and that what they sell is not held any more.
Fills(b)   == {i \in DOMAIN b.ords : b.ords[i].root = b.pos.root /\ b.ords[i].status = "FILLED"}
Applied(b) == \A i \in Fills(b) : Sells(b.ords[i]) \cap Active(b.pos) = {}

\* No two live exits of the current trade of one type sell the same tranche.
Apart(b) == \A i, j \in TradeExits(b) :
              LET a == b.ords[i]
                  c == b.ords[j]
              IN  i # j /\ a.type = c.type /\ a.status \in Live /\ c.status \in Live
                    => Sells(a) \cap Sells(c) = {}

\* From b to c no order of the trade in c comes back, and nothing is sold but by an order that
\* fills: one that is new in c, or a row that is not what it was in b.
Final(b, c) == \A i \in DOMAIN b.ords : b.ords[i].status \in Done /\ b.ords[i].root = c.pos.root
                 => c.ords[i].status = b.ords[i].status
FillsIn(b, c) == {i \in DOMAIN c.ords : /\ c.ords[i].status \in {"FILLED", "PARTIALLY_FILLED"}
                                        /\ i \in DOMAIN b.ords => c.ords[i] # b.ords[i]}
SoldByFill(b, c) == \A t \in Active(b.pos) : c.pos.root = b.pos.root /\ c.pos.st[t] = "sold"
                      => \E i \in FillsIn(b, c) : t \in Sells(c.ords[i])

\* q is a later state of the trade p.
Shrunk(p, q) ==
    /\ q.root = p.root /\ q.side = p.side /\ q.entry = p.entry /\ q.qty = p.qty
    /\ DOMAIN q.st = DOMAIN p.st
    /\ \A t \in DOMAIN p.st : p.st[t] # "active" => q.st[t] = p.st[t]
    /\ p.phase = "closed" => q.phase = "closed"

\* The row of PositionLedger that a book stands for.
Row(b) == [stage |-> IF b.pos.phase = "none" THEN "none"
                     ELSE IF b.pos.phase = "entry_pending" THEN "pending"
                     ELSE IF b.pos.phase = "closed" THEN "closed" ELSE "open",
           held  |-> Active(b.pos),
           trade |-> b.pos.root]
=============================================================================
