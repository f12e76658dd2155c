---------------------------- MODULE PaperCockpit ----------------------------
(***************************************************************************)
(* CockpitService over the PaperBrokerAdapter.  Every request handler runs *)
(* to its commit without an await, so a handler is one step here; each     *)
(* ends by reading the position back, which reconciles it, and that is     *)
(* part of the step.  A request the code rejects (ValueError) rolls back,  *)
(* so its action is not enabled.                                           *)
(*                                                                         *)
(*   book[s]    the symbol's position and orders, in the database          *)
(*   paper[s]   the entry orders the paper broker holds as "accepted", by  *)
(*              index in book[s].ords; process memory, lost by a restart   *)
(***************************************************************************)
EXTENDS TradeBook

CONSTANTS
    Symbols,
    Prices,             \* the prices that occur, in units of the smallest difference that matters
    Entries,            \* the entries requests ask for: side, entry price and last price
    Splits,             \* tranche quantities _split_shares yields, one sequence per plan
    Trails,             \* trail distances of runners
    MaxTick,            \* how far one price tick moves the live price
    MaxOpenPositions,   \* settings.max_open_positions
    MaxTrades           \* bound of the model: entries per symbol

ASSUME SymbolsAssumption == IsFiniteSet(Symbols)
ASSUME PricesAssumption  == /\ Prices \subseteq Int
                            /\ Entries \subseteq [side : Sides, entry : Int, live : Int]
ASSUME TrailsAssumption  == Trails \subseteq Int /\ MaxTick \in Nat
ASSUME SplitsAssumption  == \A q \in Splits : \E n \in TrancheIds : q \in [1..n -> Int]
ASSUME LimitsAssumption  == MaxOpenPositions \in Nat /\ MaxTrades \in Nat

VARIABLES book, paper
vars == <<book, paper>>

OpenSymbols == {s \in Symbols : IsOpen(book[s].pos)}

\* max_open_positions, of _enforce_risk_checks, and the test with =< for < (mutant).
RoomForOneMore(bk) == Cardinality({x \in Symbols : IsOpen(bk[x].pos)}) =< MaxOpenPositions
Room(bk) == Cardinality({x \in Symbols : IsOpen(bk[x].pos)}) < MaxOpenPositions

\* get_positions: every position is reconciled and the result committed.
Swept == [s \in Symbols |-> Reconcile(book[s])]

\* The prices _validate_stop accepts: on the losing side, within half of the entry.
StopPrices(p) ==
    {x \in Prices : /\ IF p.side = "sell" THEN x > p.entry ELSE x < p.entry
                    /\ 2 * (IF p.side = "sell" THEN x - p.entry ELSE p.entry - x) < p.entry}

\* A handler that does not read the position back (mutant).
CommitOnly(s, b) == book' = [book EXCEPT ![s] = b]

\* The end of a handler: commit the book, then read the position back.
Commit(s, b) == book' = [book EXCEPT ![s] = Reconcile(b)]
----------------------------------------------------------------------------
Init == /\ book = [s \in Symbols |-> EmptyBook]
        /\ paper = [s \in Symbols |-> {}]

\* enter_trade.  _enforce_risk_checks sweeps every position before it counts the open ones.
EnterTrade(s, e, split, runner, outcome) ==
    LET swept == Swept
        b     == swept[s]
    IN  /\ Cardinality(Roots(b.ords)) < MaxTrades
        /\ Room(swept)
        /\ ~ HasLive(StaleCanceled(b), OrderTypes)
        /\ book' = [swept EXCEPT ![s] = Reconcile(Entered(b, e, split, runner, outcome))]
        /\ paper' = IF outcome = "stored" THEN [paper EXCEPT ![s] = @ \cup {NextId(b.ords)}] ELSE paper

\* apply_stops.  Mode 2 on a single active tranche leaves a group empty and fails.
ApplyStops(s, mode, price) ==
    LET b == book[s]
        groups == StopGroups(b.pos, mode)
    IN  /\ Filled(b.pos)
        /\ ~ HasLive(StaleCanceled(b), {"STOP"})
        /\ \A k \in DOMAIN groups : groups[k] # {}
        /\ \A k \in DOMAIN groups : price[k] \in StopPrices(b.pos)
        /\ Commit(s, StopsApplied(b, groups, price))
        /\ UNCHANGED paper

\* execute_profit_plan.  A plan that sells nothing, or that would give a tranche a second TRAIL, fails.
ExecuteProfitPlan(s, keep, trail) ==
    LET b == book[s]
    IN  /\ ProfitActionable(b.pos)
        /\ keep \subseteq Active(b.pos) /\ keep # Active(b.pos)
        /\ \A t \in keep : ~ HasTrail(b.ords, t)
        /\ Commit(s, PlanExecuted(b, keep, trail))
        /\ UNCHANGED paper

MoveToBe(s) == /\ Filled(book[s].pos)
               /\ Commit(s, BrokenEven(book[s]))
               /\ UNCHANGED paper

\* flatten of an unfilled entry also cancels at the broker whatever it cancels in the book.
FlattenPending(s) ==
    LET b == book[s]
    IN  /\ Manageable(b.pos) /\ b.pos.phase = "entry_pending"
        /\ Commit(s, EntryVoided(b))
        /\ paper' = [paper EXCEPT ![s] = {i \in @ : b.ords[i].status # "PENDING" /\ i # b.pos.root}]

FlattenFilled(s) == /\ Filled(book[s].pos)
                    /\ Commit(s, Flattened(book[s]))
                    /\ UNCHANGED paper

\* cancel_recent_order: only what the broker still holds; the position is not read back.
CancelRecentOrder(s, i) ==
    /\ i \in paper[s]
    /\ book' = [book EXCEPT ![s] = OrderCanceled(@, i)]
    /\ paper' = [paper EXCEPT ![s] = @ \ {i}]

\* publish_price_tick
PriceTick(s, live) ==
    LET b == book[s]
    IN  /\ b.pos.phase # "none"
        /\ live - b.pos.live =< MaxTick /\ b.pos.live - live =< MaxTick
        /\ Commit(s, [b EXCEPT !.pos.live = live])
        /\ UNCHANGED paper

GetPositions == book' = Swept /\ UNCHANGED paper

\* The process restarts: the database stays, the paper broker's memory does not.
Restart == /\ paper' = [s \in Symbols |-> {}]
           /\ UNCHANGED book

Outcomes == {"filled", "stored", "queued"}
Enter(s) == \E e \in Entries, split \in Splits, outcome \in Outcomes :
              \E runner \in SUBSET DOMAIN split :
                EnterTrade(s, e, split, runner, outcome)
Protect(s) == \E mode \in 1..3 :
                \E price \in [DOMAIN StopGroups(book[s].pos, mode) -> Prices] :
                  ApplyStops(s, mode, price)
TakeProfit(s) == \E keep \in SUBSET Active(book[s].pos), trail \in Trails : ExecuteProfitPlan(s, keep, trail)
Cancel(s) == \E i \in paper[s] : CancelRecentOrder(s, i)
Tick(s) == \E live \in Prices : PriceTick(s, live)

Next == \/ \E s \in Symbols : \/ Enter(s) \/ Protect(s) \/ TakeProfit(s) \/ MoveToBe(s)
                              \/ FlattenPending(s) \/ FlattenFilled(s) \/ Cancel(s) \/ Tick(s)
        \/ GetPositions
        \/ Restart

Spec == Init /\ [][Next]_vars
----------------------------------------------------------------------------
\* The type invariant: every row is well formed, a position and its quantities have the same
\* tranches, and a position's root, and every id the paper broker holds, is a row of the symbol.
TypeOK == /\ book \in [Symbols -> [pos : Position, ords : Seq(Order)]]
          /\ paper \in [Symbols -> SUBSET Nat]
          /\ \A s \in Symbols : BookType(book[s]) /\ paper[s] \subseteq Roots(book[s].ords)

\* A position is closed exactly when nothing of it is active: each handler computes the phase on
\* its own (plan, flatten, exit fill, cancel) and the tranches on its own; they must agree.
ClosedIffFlat == \A s \in Symbols : Flat(book[s])

\* Until its entry fills a trade is untouched: all its tranches active, its root order pending, and
\* no exit order of the symbol live, not even one left by an earlier trade.
PendingIsQuiet == \A s \in Symbols : Quiet(book[s])

\* What a handler leaves in the database needs no reconciliation: no live stop or trail whose price
\* the live price has already crossed, whichever handler set either of the two prices.
AlwaysReconciled == \A s \in Symbols : Triggered(book[s]) = {}

\* max_open_positions bounds the symbols that are open at once, over any order of entries and closes.
OpenLimit == Cardinality(OpenSymbols) =< MaxOpenPositions

\* Once a trade has had a stop or a trail, each tranche it still holds is covered by a live one: the
\* plan may cancel the stops only because it sells or trails all that they covered.
StaysCovered == \A s \in Symbols : Covered(book[s])

\* Within one trade a tranche that was sold or canceled never changes again, no tranche appears or
\* disappears, and a closed trade stays closed; only a new entry (a new root) starts over.
Shrinks == \A s \in Symbols : LET p == book[s].pos
                                  q == book'[s].pos
                              IN  p.phase # "none" /\ q.root = p.root => Shrunk(p, q)
TradeOnlyShrinks == [][Shrinks]_vars

\* An order of the current trade that was filled or canceled is never live again.
OrdersFinal == \A s \in Symbols : Final(book[s], book'[s])
TradeOrdersFinal == [][OrdersFinal]_vars

\* The rows tell the same story as the tranches.  Every filled exit of the trade, stop, trail, limit
\* or market, has been applied: nothing it sells is still held.
FillsApplied == \A s \in Symbols : Applied(book[s])

\* ... and no tranche becomes sold without an order that sells it and fills in the same step, whether
\* the order is new, had been waiting, or is a stop of an earlier trade that a plan has brought back.
SalesFilled == \A s \in Symbols : SoldByFill(book[s], book'[s])
SoldOnlyByFill == [][SalesFilled]_vars

\* No tranche has two live stops or two live trails, however often stops and plans are applied.
NoTwins == \A s \in Symbols : Apart(book[s])

\* The promise of PositionLedger, read off the books.
Ledger == INSTANCE PositionLedger WITH row <- [s \in Symbols |-> Row(book[s])]
KeepsLedger == Ledger!Spec
=============================================================================
