--------------------------- MODULE AlpacaCockpit ---------------------------
(***************************************************************************)
(* CockpitService over the AlpacaBrokerAdapter, for one symbol and long    *)
(* trades, with credentials and without the mock fallback.  Orders live    *)
(* twice: as rows in the database and as orders at Alpaca, which fills and *)
(* cancels on its own.  A handler makes several broker calls; when one     *)
(* fails the database is rolled back and what Alpaca has already done      *)
(* stays done.  Reconciliation sees Alpaca through a listing of the 100    *)
(* newest orders of the account, which may be two seconds old or missing.  *)
(* It looks no order up by its id: one that is behind 100 newer ones, of   *)
(* whatever symbols, is in no later listing.                               *)
(*                                                                         *)
(*   book      the symbol's position and orders, in the database           *)
(*   ref[i]    broker_order_id of row i, as an index into alpaca           *)
(*   alpaca    the orders Alpaca has taken for the symbol; those of other  *)
(*             symbols only show in which of these are still "recent"      *)
(*   held      the shares of the symbol held at Alpaca                     *)
(*   cache     the orders in the last listing, by their statuses; <<>>     *)
(*             when it failed                                              *)
(*                                                                         *)
(* The status of an accepted entry row is "ACCEPTED", one of the words     *)
(* Alpaca uses; "PENDING" is the service's own word for an unfilled one.   *)
(***************************************************************************)
EXTENDS TradeBook

CONSTANTS
    Prices, Entries, Splits, Trails, MaxTick,    \* as in PaperCockpit
    MaxOpenPositions,                            \* settings.max_open_positions
    MaxTrades, MaxOrders,   \* bounds of the model: entries recorded, orders at Alpaca
    Lossy,                  \* whether requests to Alpaca may fail or lose their answer
    Busy                    \* whether the account sees so many orders that a listing leaves some out

ASSUME AlpacaAssumption ==
    /\ Prices \cup Trails \subseteq Int /\ {MaxTick, MaxOpenPositions, MaxTrades, MaxOrders} \subseteq Nat
    /\ {Lossy, Busy} \subseteq BOOLEAN
    /\ Entries \subseteq [side : {"buy"}, entry : Int, live : Int]
    /\ \A q \in Splits : \E n \in TrancheIds : q \in [1..n -> Nat \ {0}]

VARIABLES book, ref, alpaca, held, cache
vars == <<book, ref, alpaca, held, cache>>

BrokerStatus == {"open", "filled", "canceled"}

----------------------------------------------------------------------------
(* Alpaca.                                                                 *)

Request(kind, qty, price) == [kind |-> kind, qty |-> qty, price |-> price]
StopRequest(qty, price) == Request("STOP", qty, price)
CloseRequest == Request("CLOSE", held, 0)

\* POST /v2/orders for each request in turn.
Taken(a, requests) ==
    a \o [k \in DOMAIN requests |->
            [kind |-> requests[k].kind, qty |-> requests[k].qty, price |-> requests[k].price,
             done |-> 0, status |-> "open", recent |-> TRUE]]

\* DELETE /v2/orders/{id} for each id: an order that no longer works answers 422, which is no error.
Withdrawn(a, ids) ==
    [j \in DOMAIN a |-> IF j \in ids /\ a[j].status = "open" THEN [a[j] EXCEPT !.status = "canceled"] ELSE a[j]]

Filling(a, j, n) ==
    [a EXCEPT ![j].done = @ + n, ![j].status = IF a[j].done + n = a[j].qty THEN "filled" ELSE @]

\* The n oldest of the orders fall behind the newest 100 of the account, for good.
Outnumbered(a, n) == [j \in DOMAIN a |-> IF j =< n THEN [a[j] EXCEPT !.recent = FALSE] ELSE a[j]]

HeldAfter(o, n) == IF o.kind = "ENTRY" THEN held + n ELSE held - n

\* n more shares of order j can fill: what is sold is held.
CanFill(j, n) == /\ alpaca[j].status = "open"
                 /\ alpaca[j].done + n =< alpaca[j].qty
                 /\ HeldAfter(alpaca[j], n) >= 0

----------------------------------------------------------------------------
(* Reconciliation against a listing.                                       *)

\* The words of a listing, for the orders that are in it.
Listing(a) == [j \in {k \in DOMAIN a : a[k].recent} |->
                 IF a[j].status = "open" /\ a[j].done > 0 THEN "partial" ELSE a[j].status]

\* The listings a read may work from: the cached one, a new one, or none when the lookup fails.
Listings(seen, a) == {seen, Listing(a), <<>>}

Reported(i, r, seen) == IF r[i] \in DOMAIN seen THEN seen[r[i]] ELSE "unknown"

\* An entry that opens on a partial fill, or is looked for only while its row is PENDING (mutants).
EntryEarly(b, r, seen) ==
    IF b.pos.phase = "entry_pending" /\ Reported(b.pos.root, r, seen) \in {"filled", "partial"}
    THEN [b EXCEPT !.pos.phase = "trade_entered", !.ords[b.pos.root].status = "FILLED"]
    ELSE b
EntryIfPending(b, r, seen) ==
    IF b.pos.phase = "entry_pending" /\ Reported(b.pos.root, r, seen) = "filled"
       /\ b.ords[b.pos.root].status = "PENDING"
    THEN [b EXCEPT !.pos.phase = "trade_entered", !.ords[b.pos.root].status = "FILLED"]
    ELSE b

\* The entry, filled when the listing says so.
EntrySettled(b, r, seen) ==
    IF b.pos.phase = "entry_pending" /\ Reported(b.pos.root, r, seen) = "filled"
    THEN [b EXCEPT !.pos.phase = "trade_entered", !.ords[b.pos.root].status = "FILLED"]
    ELSE b

LiveExits(b) == {i \in DOMAIN b.ords : b.ords[i].type \in ExitTypes /\ b.ords[i].status \in Live}

\* A stop the price has crossed, whatever the listing says of it (mutant).
HitByPrice(b, r, seen) == {i \in LiveExits(b) : b.pos.phase # "entry_pending" /\ Crossed(b.pos, b.ords[i])}

\* Exits that fill: those the listing reports, and of those it does not know, the crossed ones.
Hit(b, r, seen) ==
    {i \in LiveExits(b) : \/ Reported(i, r, seen) \in {"filled", "partial"}
                          \/ Reported(i, r, seen) = "unknown" /\ b.pos.phase # "entry_pending"
                                                              /\ Crossed(b.pos, b.ords[i])}

\* A pass that leaves the rows alone (mutant).
ObservedTranches(b, r, seen) ==
    LET c == EntrySettled(b, r, seen) IN [c EXCEPT !.pos = Settled(c.pos, SoldBy(c, Hit(c, r, seen)))]

\* _reconcile_position in the session: the position and rows after one pass.
Observed(b, r, seen) ==
    LET c   == EntrySettled(b, r, seen)
        hit == Hit(c, r, seen)
        status(i) == IF i \in hit THEN IF Reported(i, r, seen) = "partial" THEN "PARTIALLY_FILLED" ELSE "FILLED"
                     ELSE IF i \in LiveExits(c) /\ Reported(i, r, seen) = "canceled" THEN "CANCELED"
                     ELSE c.ords[i].status
    IN  [pos  |-> Settled(c.pos, SoldBy(c, hit)),
         ords |-> [i \in DOMAIN c.ords |-> [c.ords[i] EXCEPT !.status = status(i)]]]

\* What a pass reports as a change; a row found canceled is not one.
Changed(b, r, seen) ==
    LET c == EntrySettled(b, r, seen) IN c # b \/ Hit(c, r, seen) # {}

\* A read commits only a change.
Read(b, r, seen) == IF Changed(b, r, seen) THEN Observed(b, r, seen) ELSE b

\* The end of a handler: b, r and a are committed or done, then the position is read back.
ReadBack(b, r, a, listed) ==
    /\ ref' = r /\ alpaca' = a
    /\ \E seen \in Listings(listed, a) : book' = Read(b, r, seen) /\ cache' = seen

----------------------------------------------------------------------------
Init == book = EmptyBook /\ ref = <<>> /\ alpaca = <<>> /\ held = 0 /\ cache = <<>>

\* The ids of the next n orders, and ids counted from one too far (mutant).
IdsAhead(n) == [k \in 1..n |-> Len(alpaca) + k + 1]
NewIds(n) == [k \in 1..n |-> Len(alpaca) + k]

\* wait_for_position: with n more shares those asked for are there, whichever order they came from.
Arrived(n, all) == held + n >= all

Total(split) == QtyOf([qty |-> split], DOMAIN split)

(***************************************************************************)
(* enter_trade.  The sweep of the risk check is a read of its own.  Then   *)
(*   "entered"   the order fills n shares at once, and with them the       *)
(*               shares held reach the quantity wait_for_position asks for *)
(*   "PENDING"   they do not within the five seconds, or the entry waits   *)
(*               for the next session                                      *)
(*   "ACCEPTED"  a limit order that Alpaca takes and does not fill         *)
(***************************************************************************)
EnterTrade(e, split, runner, listed) ==
    LET b     == Read(book, ref, listed)
        all   == Total(split)
        id    == NewIds(1)[1]
        a     == Taken(alpaca, <<Request("ENTRY", all, e.entry)>>)
        pending == Entered(b, e, split, runner, "queued")
    IN  /\ Cardinality(Roots(b.ords)) < MaxTrades /\ Len(alpaca) < MaxOrders
        /\ (IF IsOpen(b.pos) THEN 1 ELSE 0) < MaxOpenPositions
        /\ ~ HasLive(StaleCanceled(b), OrderTypes)
        /\ \/ \E n \in 0..all :
                /\ Arrived(n, all) /\ held' = held + n
                /\ ReadBack(Entered(b, e, split, runner, "filled"), Append(ref, id), Filling(a, id, n), listed)
           \/ \E status \in {"PENDING", "ACCEPTED"} :
                /\ ReadBack([pending EXCEPT !.ords[pending.pos.root].status = status], Append(ref, id), a, listed)
                /\ UNCHANGED held

\* The answer to the entry request is lost: the sweep stays committed, and Alpaca has the order.
EntryLost(e, split, listed) ==
    /\ Lossy /\ Len(alpaca) < MaxOrders
    /\ (IF IsOpen(Read(book, ref, listed).pos) THEN 1 ELSE 0) < MaxOpenPositions
    /\ ~ HasLive(StaleCanceled(Read(book, ref, listed)), OrderTypes)
    /\ book' = Read(book, ref, listed) /\ cache' = listed
    /\ alpaca' = Taken(alpaca, <<Request("ENTRY", Total(split), e.entry)>>)
    /\ UNCHANGED <<ref, held>>

\* A handler that fails: Alpaca did its requests so far, the database is rolled back.
Failed(a) == Lossy /\ alpaca' = a /\ UNCHANGED <<book, ref, held, cache>>

\* The first n of the rows in S, in the order of the table.
First(S, n) == {i \in S : Cardinality({j \in S : j =< i}) =< n}
BrokerIds(S) == {ref[i] : i \in S}

\* The prices _validate_stop accepts for a long trade.
StopPrices(p) == {x \in Prices : x < p.entry /\ 2 * (p.entry - x) < p.entry}

\* apply_stops places the first m stops; it succeeds when these are all.
ApplyStops(mode, price, m) ==
    LET groups == StopGroups(book.pos, mode)
        a == Taken(alpaca, [k \in 1..m |-> StopRequest(QtyOf(book.pos, groups[k]), price[k])])
    IN  /\ Filled(book.pos)
        /\ ~ HasLive(StaleCanceled(book), {"STOP"})
        /\ Len(a) =< MaxOrders
        /\ \A k \in 1..m : groups[k] # {} /\ price[k] \in StopPrices(book.pos)
        /\ \/ /\ m = Len(groups)
              /\ ReadBack(StopsApplied(book, groups, price), ref \o NewIds(m), a, cache)
              /\ UNCHANGED held
           \/ Failed(a)

\* What the plan sends for a tranche: a trailing stop for a runner, or else a limit order.
PlanRequest(keep, t) == Request(IF t \in keep THEN "TRAIL" ELSE "LMT", book.pos.qty[t], 0)

\* execute_profit_plan cancels n stops, then sends m orders; a second TRAIL for a tranche stops it.
ExecuteProfitPlan(keep, trail, n, m) ==
    LET act   == ActiveList(book.pos)
        stops == {i \in LiveExits(book) : book.ords[i].type = "STOP"}
        a == Taken(Withdrawn(alpaca, BrokerIds(First(stops, n))), [k \in 1..m |-> PlanRequest(keep, act[k])])
    IN  /\ ProfitActionable(book.pos) /\ keep \subseteq Active(book.pos)
        /\ n =< Cardinality(stops) /\ (m > 0 => n = Cardinality(stops))
        /\ Len(a) =< MaxOrders
        /\ \A k \in 1..m : act[k] \in keep => ~ HasTrail(book.ords, act[k])
        /\ \/ /\ m = Len(act) /\ keep # Active(book.pos)
              /\ ReadBack(PlanExecuted(book, keep, trail), ref \o NewIds(m), a, cache)
              /\ UNCHANGED held
           \/ Failed(a)

\* move_to_be sends nothing to the broker.
MoveToBe == /\ Filled(book.pos)
            /\ ReadBack(BrokenEven(book), ref, alpaca, cache)
            /\ UNCHANGED held

\* flatten of an unfilled entry: the root is canceled first, then n of the other open rows.
FlattenPending(n) ==
    LET open == {i \in DOMAIN book.ords \ {book.pos.root} : book.ords[i].status \in Live \cup {"PENDING"}}
        a == Withdrawn(alpaca, BrokerIds({book.pos.root} \cup First(open, n)))
    IN  /\ Manageable(book.pos) /\ book.pos.phase = "entry_pending"
        /\ n =< Cardinality(open)
        /\ \/ n = Cardinality(open) /\ ReadBack(EntryVoided(book), ref, a, cache) /\ UNCHANGED held
           \/ Failed(a)

\* flatten of a filled trade: Alpaca closes what it holds, then n live rows are canceled.
FlattenFilled(n) ==
    LET live == {i \in DOMAIN book.ords : book.ords[i].status \in Live}
        a == Withdrawn(Taken(alpaca, <<CloseRequest>>), BrokerIds(First(live, n)))
        sold == [k \in DOMAIN ActiveList(book.pos) |-> NewIds(1)[1]]
    IN  /\ Filled(book.pos) /\ held > 0
        /\ Len(a) =< MaxOrders /\ n =< Cardinality(live)
        /\ \/ n = Cardinality(live) /\ ReadBack(Flattened(book), ref \o sold, a, cache) /\ UNCHANGED held
           \/ Failed(a)

\* A cancel that voids a position whatever its phase (mutant).
CancelVoids(j, word) ==
    [pos  |-> IF book.pos.phase # "none" /\ ref[book.pos.root] = j THEN Voided(book.pos) ELSE book.pos,
     ords |-> [i \in DOMAIN book.ords |-> IF ref[i] = j THEN [book.ords[i] EXCEPT !.status = word] ELSE book.ords[i]]]

\* cancel_recent_order writes the broker's word to the rows of order j; a pending root voids its trade.
CancelRecorded(j, word) ==
    LET os == [i \in DOMAIN book.ords |->
                 IF ref[i] = j THEN [book.ords[i] EXCEPT !.status = word] ELSE book.ords[i]]
    IN  IF book.pos.phase = "entry_pending" /\ ref[book.pos.root] = j
        THEN [pos |-> Voided(book.pos), ords |-> CanceledIn(os, Live \cup {"PENDING", "ACCEPTED"})]
        ELSE [book EXCEPT !.ords = os]

\* cancel_recent_order: order j is canceled, or will be, or fills before the cancel reaches it.
CancelRecentOrder(j) ==
    LET rest == alpaca[j].qty - alpaca[j].done
    IN  /\ alpaca[j].status = "open"
        /\ \/ /\ alpaca' = Withdrawn(alpaca, {j}) /\ book' = CancelRecorded(j, "CANCELED")
              /\ UNCHANGED held
           \/ /\ book' = CancelRecorded(j, "PENDING_CANCEL")
              /\ UNCHANGED <<alpaca, held>>
           \/ /\ CanFill(j, rest)
              /\ alpaca' = Filling(alpaca, j, rest) /\ held' = HeldAfter(alpaca[j], rest)
              /\ book' = CancelRecorded(j, "FILLED")
        /\ UNCHANGED <<ref, cache>>

\* publish_price_tick commits what its pass observed, a change or not.
PriceTick(live, listed) ==
    /\ book.pos.phase # "none"
    /\ live - book.pos.live =< MaxTick /\ book.pos.live - live =< MaxTick
    /\ book' = Observed([book EXCEPT !.pos.live = live], ref, listed) /\ cache' = listed
    /\ UNCHANGED <<ref, alpaca, held>>

GetPositions(listed) == /\ book' = Read(book, ref, listed) /\ cache' = listed
                        /\ UNCHANGED <<ref, alpaca, held>>

\* Newer orders of the account, most of them of other symbols.
NewerOrders(n) == /\ Busy /\ alpaca[n].recent
                  /\ alpaca' = Outnumbered(alpaca, n)
                  /\ UNCHANGED <<book, ref, held, cache>>

AlpacaFills(j, n) == /\ CanFill(j, n)
                     /\ alpaca' = Filling(alpaca, j, n) /\ held' = HeldAfter(alpaca[j], n)
                     /\ UNCHANGED <<book, ref, cache>>

\* Alpaca cancels, rejects or expires an order.
AlpacaCancels(j) == /\ alpaca[j].status = "open"
                    /\ alpaca' = Withdrawn(alpaca, {j})
                    /\ UNCHANGED <<book, ref, held, cache>>

Enter(listed) == \E e \in Entries, split \in Splits :
                   \/ \E runner \in SUBSET DOMAIN split : EnterTrade(e, split, runner, listed)
                   \/ EntryLost(e, split, listed)
Protect == \E mode \in 1..3 :
             LET groups == DOMAIN StopGroups(book.pos, mode)
             IN  \E price \in [groups -> Prices], m \in groups : ApplyStops(mode, price, m)
TakeProfit == \E keep \in SUBSET Active(book.pos), trail \in Trails, n \in 0..Len(book.ords), m \in 0..3 :
                m =< Cardinality(Active(book.pos)) /\ ExecuteProfitPlan(keep, trail, n, m)
Flatten == \E n \in 0..Len(book.ords) : FlattenPending(n) \/ FlattenFilled(n)
Look == \E listed \in Listings(cache, alpaca) :
          Enter(listed) \/ GetPositions(listed) \/ \E live \in Prices : PriceTick(live, listed)
Alpaca == \E j \in DOMAIN alpaca :
            CancelRecentOrder(j) \/ AlpacaCancels(j) \/ NewerOrders(j) \/ \E n \in 1..alpaca[j].qty : AlpacaFills(j, n)

Next == Look \/ Protect \/ TakeProfit \/ MoveToBe \/ Flatten \/ Alpaca
Spec == Init /\ [][Next]_vars
----------------------------------------------------------------------------
Words == {"open", "partial", "filled", "canceled"}

\* The type invariant: each row has the id of one order Alpaca has taken, the position's root is a
\* row, Alpaca never fills more than was asked, and the last listing names orders that exist.
TypeOK ==
    /\ BookType(book)
    /\ ref \in Seq(DOMAIN alpaca) /\ Len(ref) = Len(book.ords)
    /\ alpaca \in Seq([kind : OrderTypes \cup {"CLOSE"}, qty : Nat, price : Int, done : Nat,
                      status : BrokerStatus, recent : BOOLEAN])
    /\ \A j \in DOMAIN alpaca : /\ alpaca[j].done =< alpaca[j].qty
                                /\ alpaca[j].status = "filled" <=> alpaca[j].done = alpaca[j].qty
    /\ held \in Nat
    /\ cache \in [DOMAIN cache -> Words] /\ DOMAIN cache \subseteq DOMAIN alpaca

\* A position is closed exactly when none of its tranches is active, whatever fails, gets lost or is
\* seen late: plan, flatten, exit fill and canceled root each compute the phase on their own.
ClosedIffFlat == Flat(book)

\* Within one trade a tranche that was sold or canceled stays so and a closed trade stays closed: no
\* late listing, late fill or cancel of an old order brings shares back or voids a filled trade.
Shrinks == book.pos.phase # "none" /\ book'.pos.root = book.pos.root => Shrunk(book.pos, book'.pos)
TradeOnlyShrinks == [][Shrinks]_vars

\* A pending trade opens only when its whole entry has filled at Alpaca, even when the listing that
\* shows the fill is old or the handler that reads it does something else.
Opens == /\ book.pos.phase = "entry_pending" /\ book'.pos.root = book.pos.root
         /\ book'.pos.phase \notin {"entry_pending", "closed"}
OpensOnFill == Opens => alpaca[ref[book.pos.root]].status = "filled"
PendingOpensOnFill == [][OpensOnFill]_vars

\* No tranche becomes sold without an order that sells it and whose row fills in the same step, wholly
\* or in part, whether the listing or the price has filled it or the handler writes it as filled.
SoldOnlyByFill == [][SoldByFill(book, book')]_vars

\* The promise of PositionLedger holds over Alpaca too: requests that fail half-way, fills and cancels
\* that arrive in any order and stale listings make no move that the ledger does not allow.
Ledger == INSTANCE PositionLedger WITH Symbols <- {1}, row <- [s \in {1} |-> Row(book)]
KeepsLedger == Ledger!Spec

\* Fairness: clients keep reading positions, and not every lookup fails or comes from the cache.  Nothing
\* is assumed of the limit: a listing shows what is still recent, and orders cease to be when they will.
FairSpec == Spec /\ WF_vars(GetPositions(Listing(alpaca)))

\* An entry that filled at Alpaca does not stay pending here while a listing shows it: it is opened, or
\* replaced by a new entry, or falls behind the 100 newest orders first and is then pending for good
\* (_reconcile_position, list_recent_orders).
Unopened == /\ book.pos.phase = "entry_pending"
            /\ alpaca[ref[book.pos.root]].status = "filled" /\ alpaca[ref[book.pos.root]].recent
EntrySeen == Unopened ~> ~ Unopened

\* A stop or trail whose order filled at Alpaca does not stay live here while a listing shows it; once
\* behind the 100 newest orders it fills when the live price crosses it, or not at all.
Unrecorded == \E i \in LiveExits(book) : alpaca[ref[i]].status = "filled" /\ alpaca[ref[i]].recent
ExitsSeen == Unrecorded ~> ~ Unrecorded
----------------------------------------------------------------------------
(* What the documentation says and the service over Alpaca does not do.    *)

\* "stale active orders for a closed symbol are auto-canceled": a trailing stop that is canceled here
\* works no more at Alpaca.
CanceledIsDone == \A i \in DOMAIN book.ords :
                    book.ords[i].type = "TRAIL" /\ book.ords[i].status = "CANCELED" => alpaca[ref[i]].status # "open"
=============================================================================
