------------------------- MODULE PaperCockpitProofs -------------------------
(***************************************************************************)
(* Theorems about PaperCockpit, for any symbols, prices, splits and bounds.*)
(* IInv is the inductive invariant.  StaysCovered, ClosedIffFlat and       *)
(* PendingIsQuiet need one another (a plan covers what it keeps because an *)
(* open trade holds something), and AlwaysReconciled makes the sweep of    *)
(* enter_trade idle, on which OpenLimit rests.                             *)
(***************************************************************************)
EXTENDS PaperCockpit, TradeBookProofs, FiniteSetTheorems

Good(b) == BookInv(b) /\ Triggered(b) = {} /\ Covered(b)

IInv == /\ book \in [Symbols -> [pos : Position, ords : Seq(Order)]]
        /\ paper \in [Symbols -> SUBSET Nat]
        /\ \A s \in Symbols : Good(book[s]) /\ paper[s] \subseteq Roots(book[s].ords)

\* Every trade goes on as it was or shrinks.
Later == \A s \in Symbols : Follows(book[s], book'[s])

\* Symbol s starts a new trade, within the limit; the others do not move.
Fresh(s) == /\ Cardinality(OpenSymbols) < MaxOpenPositions
            /\ book'[s].pos.root = Len(book[s].ords) + 1
            /\ IsOpen(book'[s].pos)
            /\ \A x \in Symbols \ {s} : book'[x] = book[x]

\* A book follows itself.
LEMMA FollowsSelf == ASSUME NEW b PROVE Follows(b, b)
BY DEF Follows, Shrunk

\* Reconciling a reconciled book changes nothing.
LEMMA ReconcileIdle ==
    ASSUME NEW b, BookType(b), Triggered(b) = {}
    PROVE  Reconcile(b) = b
<1>1. /\ b = [pos |-> b.pos, ords |-> b.ords] /\ b.pos \in Position /\ b.ords \in Seq(Order)
  BY BookParts
<1>2. SoldBy(b, {}) = {}
  BY DEF SoldBy
<1>3. Settled(b.pos, {}) = b.pos
  BY DEF Settled
<1>4. FilledRows(b.ords, {}) = b.ords
  BY <1>1 DEF FilledRows
<1>. QED BY <1>1, <1>2, <1>3, <1>4 DEF Reconcile

\* What a handler writes, then reads back.
LEMMA ReadBack ==
    ASSUME NEW b, NEW c, BookInv(c), Follows(b, c), Covered(c)
    PROVE  Good(Reconcile(c)) /\ Follows(b, Reconcile(c))
<1>1. BookInv(Reconcile(c)) /\ Triggered(Reconcile(c)) = {} /\ Covered(Reconcile(c))
  BY ReconcileOK
<1>2. Follows(c, Reconcile(c))
  BY ReconcileOK
<1>3. Follows(b, Reconcile(c))
  BY <1>2, FollowsTrans
<1>. QED BY <1>1, <1>3 DEF Good

\* A step that replaces one book by a good one that follows it keeps the invariant.
LEMMA OneBook ==
    ASSUME IInv, NEW s \in Symbols, NEW c, Good(c), Follows(book[s], c),
           book' = [book EXCEPT ![s] = c],
           paper' \in [Symbols -> SUBSET Nat], \A x \in Symbols : paper'[x] \subseteq paper[x]
    PROVE  IInv' /\ Later
<1>0. c \in [pos : Position, ords : Seq(Order)]
  BY DEF Good, BookInv, BookType
<1>1. /\ book' \in [Symbols -> [pos : Position, ords : Seq(Order)]]
      /\ book'[s] = c /\ \A x \in Symbols \ {s} : book'[x] = book[x]
  BY <1>0 DEF IInv
<1>2. \A x \in Symbols : Follows(book[x], book'[x]) /\ Good(book'[x])
  BY <1>1, FollowsSelf DEF IInv
<1>3. \A x \in Symbols : paper'[x] \subseteq Roots(book'[x].ords)
  BY <1>2 DEF IInv, Follows
<1>. QED BY <1>1, <1>2, <1>3 DEF IInv, Later

\* A step may leave the broker as it is.
LEMMA SamePaper ==
    ASSUME IInv, UNCHANGED paper
    PROVE  paper' \in [Symbols -> SUBSET Nat] /\ \A x \in Symbols : paper'[x] \subseteq paper[x]
BY DEF IInv

\* Every book is reconciled between two steps, so that a sweep changes none.
LEMMA SweptIdle == ASSUME IInv PROVE Swept = book
<1>1. \A s \in Symbols : Reconcile(book[s]) = book[s]
  BY ReconcileIdle DEF IInv, Good, BookInv
<1>2. book = [s \in Symbols |-> book[s]]
  BY DEF IInv
<1>. QED BY <1>1, <1>2 DEF Swept

\* The service starts without trades.
LEMMA InitIInv == Init => IInv
<1>. SUFFICES ASSUME Init PROVE IInv
  OBVIOUS
<1>1. BookInv(EmptyBook)
  BY EmptyOK
<1>2. Triggered(EmptyBook) = {} /\ TradeExits(EmptyBook) = {}
  BY DEF EmptyBook, Triggered, TradeExits
<1>3. Good(EmptyBook)
  BY <1>1, <1>2 DEF Good, Covered
<1>4. EmptyBook \in [pos : Position, ords : Seq(Order)]
  BY <1>1 DEF BookInv, BookType
<1>. QED BY <1>3, <1>4 DEF Init, IInv

\* enter_trade keeps the invariant.
LEMMA EnterStep ==
    ASSUME IInv, NEW s \in Symbols, Enter(s)
    PROVE  IInv' /\ Fresh(s)
<1>. PICK e \in Entries, split \in Splits, outcome \in Outcomes :
       \E runner \in SUBSET DOMAIN split : EnterTrade(s, e, split, runner, outcome)
  BY DEF Enter
<1>. PICK runner \in SUBSET DOMAIN split : EnterTrade(s, e, split, runner, outcome)
  OBVIOUS
<1> DEFINE b == book[s]
           c == Entered(b, e, split, runner, outcome)
           d == Reconcile(c)
<1>1. Swept = book /\ Swept[s] = b
  BY SweptIdle
<1>2. /\ Cardinality({x \in Symbols : IsOpen(book[x].pos)}) < MaxOpenPositions
      /\ ~ HasLive(StaleCanceled(b), OrderTypes)
      /\ book' = [book EXCEPT ![s] = d]
      /\ paper' = IF outcome = "stored" THEN [paper EXCEPT ![s] = @ \cup {Len(b.ords) + 1}] ELSE paper
  BY <1>1 DEF EnterTrade, Room, NextId
<1>3. PICK n \in TrancheIds : split \in [1..n -> Int]
  BY SplitsAssumption
<1>4. e \in [side : Sides, entry : Int, live : Int] /\ runner \in SUBSET (1..n)
  BY <1>3, PricesAssumption
<1>5. /\ BookInv(c) /\ Covered(c)
      /\ Roots(b.ords) \subseteq Roots(c.ords) /\ Len(b.ords) + 1 \in Roots(c.ords)
      /\ c.pos.root = Len(b.ords) + 1 /\ IsOpen(c.pos) /\ Triggered(c) = {}
  <2>1. BookInv(b)
    BY DEF IInv, Good
  <2>2. ~ HasLive(StaleCanceled(b), OrderTypes)
    BY <1>2
  <2>3. c = Entered(b, e, split, runner, outcome)
    OBVIOUS
  <2>4. Asks(e, split, runner)
    BY <1>3, <1>4 DEF Asks
  <2> HIDE DEF b, c
  <2>. QED BY <2>1, <2>2, <2>3, <2>4, EnteredOK
<1> HIDE DEF c
<1>6. BookInv(d) /\ Triggered(d) = {} /\ Follows(c, d) /\ Covered(d)
  BY <1>5, ReconcileOK
<1>d. d = c
  BY <1>5, ReconcileIdle DEF BookInv
<1> HIDE DEF d
<1>7. Good(d) /\ d.pos.root = Len(b.ords) + 1 /\ IsOpen(d.pos)
  BY <1>5, <1>6, <1>d DEF Good
<1>8. Roots(b.ords) \subseteq Roots(d.ords) /\ Len(b.ords) + 1 \in Roots(d.ords)
  BY <1>5, <1>6 DEF Follows
<1>9. /\ book' \in [Symbols -> [pos : Position, ords : Seq(Order)]]
      /\ book'[s] = d /\ \A x \in Symbols \ {s} : book'[x] = book[x]
  <2>1. d \in [pos : Position, ords : Seq(Order)]
    BY <1>6 DEF BookInv, BookType
  <2>. QED BY <1>2, <2>1 DEF IInv
<1>10. /\ paper' \in [Symbols -> SUBSET Nat] /\ paper'[s] \subseteq paper[s] \cup {Len(b.ords) + 1}
       /\ \A x \in Symbols \ {s} : paper'[x] = paper[x]
  <2>1. Len(b.ords) + 1 \in Nat
    BY BookParts DEF IInv, Good, BookInv
  <2> HIDE DEF b
  <2>. QED BY <1>2, <2>1 DEF IInv
<1>11. Fresh(s)
  BY <1>2, <1>7, <1>9 DEF Fresh, OpenSymbols
<1>12. \A x \in Symbols : Good(book'[x]) /\ paper'[x] \subseteq Roots(book'[x].ords)
  BY <1>7, <1>8, <1>9, <1>10 DEF IInv
<1>. QED BY <1>9, <1>10, <1>11, <1>12 DEF IInv

\* apply_stops keeps the invariant.
LEMMA ProtectStep ==
    ASSUME IInv, NEW s \in Symbols, Protect(s)
    PROVE  IInv' /\ Later
<1>. PICK mode \in 1..3 : \E price \in [DOMAIN StopGroups(book[s].pos, mode) -> Prices] :
                            ApplyStops(s, mode, price)
  BY DEF Protect
<1>. PICK price \in [DOMAIN StopGroups(book[s].pos, mode) -> Prices] : ApplyStops(s, mode, price)
  OBVIOUS
<1> DEFINE c == StopsApplied(book[s], StopGroups(book[s].pos, mode), price)
<1>1. BookInv(book[s]) /\ Filled(book[s].pos) /\ book' = [book EXCEPT ![s] = Reconcile(c)] /\ UNCHANGED paper
  BY DEF ApplyStops, IInv, Good, Commit
<1>2. \A k \in DOMAIN StopGroups(book[s].pos, mode) : price[k] \in Int
  BY PricesAssumption
<1>3. BookInv(c) /\ Follows(book[s], c) /\ Covered(c)
  BY <1>1, <1>2, StopsAppliedOK
<1> HIDE DEF c
<1>4. Good(Reconcile(c)) /\ Follows(book[s], Reconcile(c))
  BY <1>3, ReadBack
<1>. QED BY <1>1, <1>4, OneBook, SamePaper

\* execute_profit_plan keeps the invariant.
LEMMA TakeProfitStep ==
    ASSUME IInv, NEW s \in Symbols, TakeProfit(s)
    PROVE  IInv' /\ Later
<1>. PICK keep \in SUBSET Active(book[s].pos), trail \in Trails : ExecuteProfitPlan(s, keep, trail)
  BY DEF TakeProfit
<1> DEFINE c == PlanExecuted(book[s], keep, trail)
<1>1. BookInv(book[s]) /\ Filled(book[s].pos) /\ book' = [book EXCEPT ![s] = Reconcile(c)] /\ UNCHANGED paper
  BY DEF ExecuteProfitPlan, IInv, Good, Commit, ProfitActionable
<1>2. trail \in Int
  BY TrailsAssumption
<1>3. BookInv(c) /\ Follows(book[s], c) /\ Covered(c)
  BY <1>1, <1>2, PlanExecutedOK
<1> HIDE DEF c
<1>4. Good(Reconcile(c)) /\ Follows(book[s], Reconcile(c))
  BY <1>3, ReadBack
<1>. QED BY <1>1, <1>4, OneBook, SamePaper

\* move_to_be keeps the invariant.
LEMMA MoveToBeStep ==
    ASSUME IInv, NEW s \in Symbols, MoveToBe(s)
    PROVE  IInv' /\ Later
<1> DEFINE c == BrokenEven(book[s])
<1>1. BookInv(book[s]) /\ Covered(book[s]) /\ Filled(book[s].pos)
  BY DEF MoveToBe, IInv, Good
<1>2. book' = [book EXCEPT ![s] = Reconcile(c)] /\ UNCHANGED paper
  BY DEF MoveToBe, Commit
<1>3. BookInv(c) /\ Follows(book[s], c) /\ Covered(c)
  BY <1>1, BrokenEvenOK
<1> HIDE DEF c
<1>4. Good(Reconcile(c)) /\ Follows(book[s], Reconcile(c))
  BY <1>3, ReadBack
<1>. QED BY <1>2, <1>4, OneBook, SamePaper

\* flatten keeps the invariant, of a pending entry and of a position.
LEMMA FlattenStep ==
    ASSUME IInv, NEW s \in Symbols, FlattenPending(s) \/ FlattenFilled(s)
    PROVE  IInv' /\ Later
<1>1. CASE FlattenFilled(s)
  <2> DEFINE c == Flattened(book[s])
  <2>1. BookInv(book[s]) /\ Filled(book[s].pos) /\ book' = [book EXCEPT ![s] = Reconcile(c)] /\ UNCHANGED paper
    BY <1>1 DEF FlattenFilled, IInv, Good, Commit
  <2>2. BookInv(c) /\ Follows(book[s], c) /\ Covered(c)
    BY <2>1, FlattenedOK
  <2> HIDE DEF c
  <2>3. Good(Reconcile(c)) /\ Follows(book[s], Reconcile(c))
    BY <2>2, ReadBack
  <2>. QED BY <2>1, <2>3, OneBook, SamePaper
<1>2. CASE FlattenPending(s)
  <2> DEFINE c == EntryVoided(book[s])
  <2>1. /\ BookInv(book[s]) /\ book[s].pos.phase = "entry_pending"
        /\ book' = [book EXCEPT ![s] = Reconcile(c)]
    BY <1>2 DEF FlattenPending, IInv, Good, Commit
  <2>2. BookInv(c) /\ Follows(book[s], c) /\ Covered(c)
    BY <2>1, EntryVoidedOK
  <2> HIDE DEF c
  <2>3. Good(Reconcile(c)) /\ Follows(book[s], Reconcile(c))
    BY <2>2, ReadBack
  <2>4. paper' \in [Symbols -> SUBSET Nat] /\ \A x \in Symbols : paper'[x] \subseteq paper[x]
    BY <1>2 DEF FlattenPending, IInv
  <2>. QED BY <2>1, <2>3, <2>4, OneBook
<1>. QED BY <1>1, <1>2

\* cancel_recent_order keeps the invariant.
LEMMA CancelStep ==
    ASSUME IInv, NEW s \in Symbols, Cancel(s)
    PROVE  IInv' /\ Later
<1>. PICK i \in paper[s] : CancelRecentOrder(s, i)
  BY DEF Cancel
<1> DEFINE c == OrderCanceled(book[s], i)
<1>1. /\ BookInv(book[s]) /\ Triggered(book[s]) = {} /\ Covered(book[s]) /\ i \in Roots(book[s].ords)
  BY DEF IInv, Good
<1>2. book' = [book EXCEPT ![s] = c]
  BY DEF CancelRecentOrder
<1>3. Good(c) /\ Follows(book[s], c)
  BY <1>1, OrderCanceledOK DEF Good
<1> HIDE DEF c
<1>4. paper' \in [Symbols -> SUBSET Nat] /\ \A x \in Symbols : paper'[x] \subseteq paper[x]
  BY DEF CancelRecentOrder, IInv
<1>. QED BY <1>2, <1>3, <1>4, OneBook

\* publish_price_tick and the sweep that follows keep the invariant.
LEMMA TickStep ==
    ASSUME IInv, NEW s \in Symbols, Tick(s)
    PROVE  IInv' /\ Later
<1>. PICK live \in Prices : PriceTick(s, live)
  BY DEF Tick
<1> DEFINE c == [book[s] EXCEPT !.pos.live = live]
<1>1. BookInv(book[s]) /\ Covered(book[s]) /\ book[s].pos.phase # "none" /\ live \in Int
  BY PricesAssumption DEF PriceTick, IInv, Good
<1>2. book' = [book EXCEPT ![s] = Reconcile(c)] /\ UNCHANGED paper
  BY DEF PriceTick, Commit
<1>3. BookInv(c) /\ Follows(book[s], c) /\ Covered(c)
  BY <1>1, TickOK
<1> HIDE DEF c
<1>4. Good(Reconcile(c)) /\ Follows(book[s], Reconcile(c))
  BY <1>3, ReadBack
<1>. QED BY <1>2, <1>4, OneBook, SamePaper

\* The four steps that leave every book as it is.
LEMMA IdleStep ==
    ASSUME IInv, GetPositions \/ Restart \/ UNCHANGED vars
    PROVE  IInv' /\ Later
<1>1. book' = book
  BY SweptIdle DEF GetPositions, Restart, vars
<1>2. paper' \in [Symbols -> SUBSET Nat] /\ \A s \in Symbols : paper'[s] \subseteq paper[s]
  BY DEF GetPositions, Restart, vars, IInv
<1>. QED BY <1>1, <1>2, FollowsSelf DEF IInv, Later

\* Every step keeps the invariant, and follows every book or begins a trade.
LEMMA StepShape ==
    ASSUME IInv, [Next]_vars
    PROVE  IInv' /\ (Later \/ \E s \in Symbols : Fresh(s))
<1>1. CASE GetPositions \/ Restart \/ UNCHANGED vars
  BY <1>1, IdleStep
<1>2. ASSUME NEW s \in Symbols, Enter(s) PROVE IInv' /\ Fresh(s)
  BY <1>2, EnterStep
<1>3. ASSUME NEW s \in Symbols, Protect(s) PROVE IInv' /\ Later
  BY <1>3, ProtectStep
<1>4. ASSUME NEW s \in Symbols, TakeProfit(s) PROVE IInv' /\ Later
  BY <1>4, TakeProfitStep
<1>5. ASSUME NEW s \in Symbols, MoveToBe(s) PROVE IInv' /\ Later
  BY <1>5, MoveToBeStep
<1>6. ASSUME NEW s \in Symbols, FlattenPending(s) \/ FlattenFilled(s) PROVE IInv' /\ Later
  BY <1>6, FlattenStep
<1>7. ASSUME NEW s \in Symbols, Cancel(s) PROVE IInv' /\ Later
  BY <1>7, CancelStep
<1>8. ASSUME NEW s \in Symbols, Tick(s) PROVE IInv' /\ Later
  BY <1>8, TickStep
<1>. QED BY <1>1, <1>2, <1>3, <1>4, <1>5, <1>6, <1>7, <1>8 DEF Next

\* The invariant is inductive (cockpit.py with the paper broker).
THEOREM Inductive == Spec => []IInv
<1>1. IInv /\ [Next]_vars => IInv'
  BY StepShape
<1>. QED BY InitIInv, <1>1, PTL DEF Spec

\* Type correctness: rows stay well formed, and ids at the broker and root ids name rows.
THEOREM TypeCorrect == Spec => []TypeOK
<1>1. IInv => TypeOK
  BY DEF IInv, Good, BookInv, TypeOK
<1>. QED BY <1>1, Inductive, PTL

\* The phase says closed exactly when every tranche is gone, after any handler.
THEOREM ClosedWhenFlat == Spec => []ClosedIffFlat
<1>1. IInv => ClosedIffFlat
  BY DEF IInv, Good, BookInv, ClosedIffFlat
<1>. QED BY <1>1, Inductive, PTL

\* A trade whose entry has not filled has all its tranches and no live exit order.
THEOREM PendingQuiet == Spec => []PendingIsQuiet
<1>1. IInv => PendingIsQuiet
  BY DEF IInv, Good, BookInv, PendingIsQuiet
<1>. QED BY <1>1, Inductive, PTL

\* No committed state holds a live exit order whose price is already crossed.
THEOREM Reconciled == Spec => []AlwaysReconciled
<1>1. IInv => AlwaysReconciled
  BY DEF IInv, Good, AlwaysReconciled
<1>. QED BY <1>1, Inductive, PTL

\* Once a trade has been protected, what it holds stays under a live stop or trail.
THEOREM ProtectionLasts == Spec => []StaysCovered
<1>1. IInv => StaysCovered
  BY DEF IInv, Good, StaysCovered
<1>. QED BY <1>1, Inductive, PTL

\* Within a trade nothing sold comes back, nothing appears, and closed is final.
THEOREM TradesShrink == Spec => TradeOnlyShrinks
<1>1. IInv /\ [Next]_vars => [Shrinks]_vars
  <2>1. SUFFICES ASSUME IInv, [Next]_vars PROVE Shrinks
    OBVIOUS
  <2>2. CASE Later
    BY <2>2 DEF Later, Follows, Shrinks
  <2>3. ASSUME NEW s \in Symbols, Fresh(s) PROVE Shrinks
    <3>1. book[s].pos.phase # "none" => book'[s].pos.root # book[s].pos.root
      <4>1. BookType(book[s])
        BY <2>1 DEF IInv, Good, BookInv
      <4>2. book[s].pos.phase # "none" => book[s].pos.root \in DOMAIN book[s].ords
        BY <4>1 DEF BookType, Roots
      <4>3. Len(book[s].ords) \in Nat /\ DOMAIN book[s].ords = 1..Len(book[s].ords)
        BY <4>1, BookParts
      <4>4. book'[s].pos.root = Len(book[s].ords) + 1
        BY <2>3 DEF Fresh
      <4>. QED BY <4>2, <4>3, <4>4
    <3>2. \A x \in Symbols \ {s} : Shrunk(book[x].pos, book'[x].pos)
      BY <2>3, FollowsSelf DEF Fresh, Follows
    <3>. QED BY <3>1, <3>2 DEF Shrinks
  <2>. QED BY <2>1, <2>2, <2>3, StepShape
<1>. QED BY <1>1, Inductive, PTL DEF Spec, TradeOnlyShrinks

\* No sequence of entries and closes has more than max_open_positions symbols open.
THEOREM LimitHolds == Spec => []OpenLimit
<1>1. Init => OpenLimit
  <2>1. SUFFICES ASSUME Init PROVE OpenLimit
    OBVIOUS
  <2>2. OpenSymbols = {}
    BY <2>1 DEF Init, OpenSymbols, EmptyBook, NoPosition, IsOpen
  <2>. QED BY <2>2, FS_EmptySet, LimitsAssumption DEF OpenLimit
<1>2. IInv /\ OpenLimit /\ [Next]_vars => OpenLimit'
  <2>1. SUFFICES ASSUME IInv, OpenLimit, [Next]_vars PROVE OpenLimit'
    OBVIOUS
  <2>2. IsFiniteSet(OpenSymbols) /\ Cardinality(OpenSymbols) \in Nat
    <3>1. OpenSymbols \in SUBSET Symbols
      BY DEF OpenSymbols
    <3>2. IsFiniteSet(OpenSymbols)
      BY <3>1, SymbolsAssumption, FS_Subset
    <3>. QED BY <3>2, FS_CardinalityType
  <2>3. CASE Later
    <3>1. OpenSymbols' \in SUBSET OpenSymbols
      BY <2>3 DEF Later, Follows, OpenSymbols
    <3>2. IsFiniteSet(OpenSymbols') /\ Cardinality(OpenSymbols') =< Cardinality(OpenSymbols)
      BY <2>2, <3>1, FS_Subset
    <3>3. Cardinality(OpenSymbols') \in Nat
      BY <3>2, FS_CardinalityType
    <3>4. Cardinality(OpenSymbols) =< MaxOpenPositions
      BY <2>1 DEF OpenLimit
    <3>5. Cardinality(OpenSymbols') =< MaxOpenPositions
      BY <2>2, <3>2, <3>3, <3>4, LimitsAssumption
    <3>. QED BY <3>5 DEF OpenLimit
  <2>4. ASSUME NEW s \in Symbols, Fresh(s) PROVE OpenLimit'
    <3> DEFINE more == OpenSymbols \cup {s}
    <3>1. OpenSymbols' \in SUBSET more
      BY <2>4 DEF Fresh, OpenSymbols
    <3>2. IsFiniteSet(more) /\ Cardinality(more) =< Cardinality(OpenSymbols) + 1
      BY <2>2, FS_AddElement
    <3>3. Cardinality(more) \in Nat
      BY <3>2, FS_CardinalityType
    <3> HIDE DEF more
    <3>4. IsFiniteSet(OpenSymbols') /\ Cardinality(OpenSymbols') =< Cardinality(more)
      BY <3>1, <3>2, FS_Subset
    <3>5. Cardinality(OpenSymbols') \in Nat
      BY <3>4, FS_CardinalityType
    <3>6. Cardinality(OpenSymbols) < MaxOpenPositions
      BY <2>4 DEF Fresh
    <3>7. Cardinality(OpenSymbols') =< MaxOpenPositions
      BY <2>2, <3>2, <3>3, <3>4, <3>5, <3>6, LimitsAssumption
    <3>. QED BY <3>7 DEF OpenLimit
  <2>. QED BY <2>1, <2>3, <2>4, StepShape
<1>. QED BY <1>1, <1>2, Inductive, PTL DEF Spec

\* What a book becomes is a move of its ledger row.
LEMMA RowMoves ==
    ASSUME NEW b, NEW c, BookInv(b), BookInv(c), Follows(b, c)
    PROVE  Row(c) \in Ledger!Moves(Row(b))
BY RowGoes DEF Ledger!Moves, Ledger!Left

\* The handlers implement the ledger: each step of one or several trades is one it allows.
THEOREM LedgerKept == Spec => KeepsLedger
<1> DEFINE ledger == [s \in Symbols |-> Row(book[s])]
<1>1. Init => Ledger!Init
  <2>1. Row(EmptyBook) = [stage |-> "none", held |-> {}, trade |-> 0]
    <3>1. EmptyBook.pos = NoPosition
      BY DEF EmptyBook
    <3>2. NoPosition.phase = "none" /\ NoPosition.root = 0 /\ NoPosition.st = <<>>
      BY DEF NoPosition
    <3>3. Active(NoPosition) = {}
      BY <3>2 DEF Active
    <3>. QED BY <3>1, <3>2, <3>3 DEF Row
  <2>. QED BY <2>1 DEF Init, Ledger!Init
<1>2. IInv /\ IInv' /\ OpenLimit' /\ [Next]_vars => [Ledger!Next]_ledger
  <2>1. SUFFICES ASSUME IInv, IInv', OpenLimit', [Next]_vars PROVE Ledger!Next
    OBVIOUS
  <2>2. ASSUME NEW s \in Symbols PROVE BookInv(book[s]) /\ BookInv(book'[s])
    BY <2>1 DEF IInv, Good
  <2>3. CASE Later
    <3>1. ASSUME NEW s \in Symbols PROVE Row(book'[s]) \in Ledger!Moves(Row(book[s]))
      BY <2>2, <2>3, RowMoves DEF Later
    <3>2. Ledger!Progress
      BY <3>1 DEF Ledger!Progress
    <3>. QED BY <3>2 DEF Ledger!Next
  <2>4. ASSUME NEW s \in Symbols, Fresh(s) PROVE Ledger!Next
    <3>1. ASSUME NEW x \in Symbols \ {s} PROVE Row(book'[x]) \in Ledger!Moves(Row(book[x]))
      BY <2>2, <2>4, FollowsSelf, RowMoves DEF Fresh
    <3>2. Row(book'[s]).stage \in {"pending", "open"}
      BY <2>4 DEF Fresh, IsOpen, Row
    <3>3. Row(book'[s]).held \in SUBSET TrancheIds /\ Row(book'[s]).held # {}
      <4>1. Active(book'[s].pos) # {}
        BY <2>2, <2>4 DEF Fresh, IsOpen, BookInv, Flat
      <4>2. Active(book'[s].pos) \subseteq TrancheIds
        BY <2>2, BookParts DEF BookInv
      <4>. QED BY <4>1, <4>2 DEF Row
    <3>4. Row(book'[s]).trade > Row(book[s]).trade
      <4>1. BookType(book[s]) /\ book'[s].pos.root = Len(book[s].ords) + 1
        BY <2>2, <2>4 DEF BookInv, Fresh
      <4>2. Len(book[s].ords) \in Nat /\ DOMAIN book[s].ords = 1..Len(book[s].ords)
        BY <4>1, BookParts
      <4>3. book[s].pos.root \in 0..Len(book[s].ords)
        BY <4>1, <4>2 DEF BookType, Roots
      <4>. QED BY <4>1, <4>2, <4>3 DEF Row
    <3>5. Cardinality({x \in Symbols : Row(book'[x]).stage \in {"pending", "open"}}) =< MaxOpenPositions
      <4>1. {x \in Symbols : Row(book'[x]).stage \in {"pending", "open"}} = OpenSymbols'
        BY DEF OpenSymbols, IsOpen, Row
      <4>. QED BY <2>1, <4>1 DEF OpenLimit
    <3>6. Cardinality({x \in Symbols : ledger'[x].stage \in {"pending", "open"}}) =< MaxOpenPositions
      <4>1. \A x \in Symbols : ledger'[x] = Row(book'[x])
        OBVIOUS
      <4>. QED BY <3>5, <4>1
    <3>7. Ledger!Cardinality({x \in Symbols : ledger'[x].stage \in {"pending", "open"}}) =< MaxOpenPositions
      BY <3>6 DEF Cardinality, Ledger!Cardinality
    <3>8. Ledger!Open(s)
      BY <3>1, <3>2, <3>3, <3>4, <3>7 DEF Ledger!Open, Ledger!Committed
    <3>. QED BY <3>8 DEF Ledger!Next
  <2>. QED BY <2>1, <2>3, <2>4, StepShape
<1>. QED BY <1>1, <1>2, Inductive, LimitHolds, PTL DEF Spec, KeepsLedger, Ledger!Spec

----------------------------------------------------------------------------
(* The rows and the tranches.  Applied and Apart hold because of each      *)
(* other and of the rows being live or done: a plan would bring a stop of  *)
(* the trade back to life if it covered what the plan sells, and there is  *)
(* no such stop since every fill has been applied.                         *)
Tales == \A s \in Symbols : Tale(book[s])
Telling == OrdersFinal /\ SalesFilled

\* A step that replaces one book.
LEMMA OneTold ==
    ASSUME IInv, Tales, NEW s \in Symbols, NEW d, book' = [book EXCEPT ![s] = d],
           Tale(d), Final(book[s], d), SoldByFill(book[s], d)
    PROVE  Tales' /\ Telling
<1>1. book'[s] = d /\ \A x \in Symbols \ {s} : book'[x] = book[x]
  BY DEF IInv
<1>2. \A b : Final(b, b)
  BY DEF Final
<1>3. \A b : SoldByFill(b, b)
  BY DEF SoldByFill, Active
<1>. QED BY <1>1, <1>2, <1>3 DEF Tales, Telling, OrdersFinal, SalesFilled

\* What a handler writes and then reads back.
LEMMA HandlerTold ==
    ASSUME IInv, Tales, NEW s \in Symbols, NEW c, book' = [book EXCEPT ![s] = Reconcile(c)],
           BookInv(c), Follows(book[s], c),
           Tale(c) /\ Tells(book[s], c) /\ DOMAIN book[s].ords \subseteq DOMAIN c.ords
    PROVE  Tales' /\ Telling
<1>1. BookType(book[s]) /\ BookType(c) /\ DOMAIN book[s].pos.st = DOMAIN c.pos.st
  BY DEF IInv, Good, BookInv, Follows, Shrunk
<1>2. Tale(Reconcile(c)) /\ Final(book[s], Reconcile(c)) /\ SoldByFill(book[s], Reconcile(c))
  BY <1>1, ReadBackTold
<1>. QED BY <1>2, OneTold

\* enter_trade.
LEMMA EnterTold ==
    ASSUME IInv, Tales, NEW s \in Symbols, Enter(s)
    PROVE  Tales' /\ Telling
<1>. PICK e \in Entries, split \in Splits, outcome \in Outcomes :
       \E runner \in SUBSET DOMAIN split : EnterTrade(s, e, split, runner, outcome)
  BY DEF Enter
<1>. PICK runner \in SUBSET DOMAIN split : EnterTrade(s, e, split, runner, outcome)
  OBVIOUS
<1> DEFINE b == book[s]
           c == Entered(b, e, split, runner, outcome)
<1>1. BookInv(b) /\ Tale(b) /\ Swept = book
  BY SweptIdle DEF IInv, Good, Tales
<1>2. ~ HasLive(StaleCanceled(b), OrderTypes) /\ book' = [book EXCEPT ![s] = Reconcile(c)]
  BY <1>1 DEF EnterTrade
<1>3. PICK n \in TrancheIds : split \in [1..n -> Int]
  BY SplitsAssumption
<1>4. /\ e \in [side : Sides, entry : Int, live : Int] /\ runner \in SUBSET (1..n)
      /\ split \in Seq(Int)
  <2>1. n \in Nat
    BY DEF TrancheIds
  <2>. QED BY <1>3, <2>1, PricesAssumption, FunctionIsSeq
<1> HIDE DEF b
<1>5. BookInv(c) /\ Triggered(c) = {}
  <2>1. Asks(e, split, runner)
    BY <1>3, <1>4 DEF Asks
  <2>. QED BY <1>1, <1>2, <2>1, EnteredOK
<1>6. Tale(c) /\ Tells(b, c)
  BY <1>1, <1>4, EnteredTold
<1> HIDE DEF c
<1>7. Reconcile(c) = c
  BY <1>5, ReconcileIdle DEF BookInv
<1>. QED BY <1>2, <1>6, <1>7, OneTold DEF b, Tells

\* apply_stops.
LEMMA ProtectTold ==
    ASSUME IInv, Tales, NEW s \in Symbols, Protect(s)
    PROVE  Tales' /\ Telling
<1>. PICK mode \in 1..3 : \E price \in [DOMAIN StopGroups(book[s].pos, mode) -> Prices] :
                            ApplyStops(s, mode, price)
  BY DEF Protect
<1>. PICK price \in [DOMAIN StopGroups(book[s].pos, mode) -> Prices] : ApplyStops(s, mode, price)
  OBVIOUS
<1> DEFINE c == StopsApplied(book[s], StopGroups(book[s].pos, mode), price)
<1>1. /\ BookInv(book[s]) /\ Tale(book[s]) /\ Filled(book[s].pos)
      /\ ~ HasLive(StaleCanceled(book[s]), {"STOP"}) /\ book' = [book EXCEPT ![s] = Reconcile(c)]
  BY DEF ApplyStops, IInv, Good, Tales, Commit
<1>2. \A k \in DOMAIN StopGroups(book[s].pos, mode) : price[k] \in Int
  BY PricesAssumption
<1>3. BookInv(c) /\ Follows(book[s], c)
  BY <1>1, <1>2, StopsAppliedOK
<1>4. Tale(c) /\ Tells(book[s], c) /\ DOMAIN book[s].ords \subseteq DOMAIN c.ords
  BY <1>1, <1>2, StopsAppliedTold
<1> HIDE DEF c
<1>. QED BY <1>1, <1>3, <1>4, HandlerTold

\* execute_profit_plan.
LEMMA TakeProfitTold ==
    ASSUME IInv, Tales, NEW s \in Symbols, TakeProfit(s)
    PROVE  Tales' /\ Telling
<1>. PICK keep \in SUBSET Active(book[s].pos), trail \in Trails : ExecuteProfitPlan(s, keep, trail)
  BY DEF TakeProfit
<1> DEFINE c == PlanExecuted(book[s], keep, trail)
<1>1. /\ BookInv(book[s]) /\ Tale(book[s]) /\ Filled(book[s].pos)
      /\ \A t \in keep : ~ HasTrail(book[s].ords, t)
      /\ book' = [book EXCEPT ![s] = Reconcile(c)]
  BY DEF ExecuteProfitPlan, IInv, Good, Tales, Commit, ProfitActionable
<1>2. trail \in Int
  BY TrailsAssumption
<1>3. BookInv(c) /\ Follows(book[s], c)
  BY <1>1, <1>2, PlanExecutedOK
<1>4. Tale(c) /\ Tells(book[s], c) /\ DOMAIN book[s].ords \subseteq DOMAIN c.ords
  BY <1>1, <1>2, PlanExecutedTold
<1> HIDE DEF c
<1>. QED BY <1>1, <1>3, <1>4, HandlerTold

\* move_to_be.
LEMMA MoveToBeTold ==
    ASSUME IInv, Tales, NEW s \in Symbols, MoveToBe(s)
    PROVE  Tales' /\ Telling
<1> DEFINE c == BrokenEven(book[s])
<1>1. /\ BookInv(book[s]) /\ Tale(book[s]) /\ Filled(book[s].pos)
      /\ book' = [book EXCEPT ![s] = Reconcile(c)]
  BY DEF MoveToBe, IInv, Good, Tales, Commit
<1>2. BookInv(c) /\ Follows(book[s], c)
  BY <1>1, BrokenEvenOK
<1>3. Tale(c) /\ Tells(book[s], c) /\ DOMAIN book[s].ords \subseteq DOMAIN c.ords
  BY <1>1, BrokenEvenTold
<1> HIDE DEF c
<1>. QED BY <1>1, <1>2, <1>3, HandlerTold

\* flatten, of a pending entry and of a position.
LEMMA FlattenTold ==
    ASSUME IInv, Tales, NEW s \in Symbols, FlattenPending(s) \/ FlattenFilled(s)
    PROVE  Tales' /\ Telling
<1>0. BookInv(book[s]) /\ Tale(book[s])
  BY DEF IInv, Good, Tales
<1>1. CASE FlattenFilled(s)
  <2> DEFINE c == Flattened(book[s])
  <2>1. Filled(book[s].pos) /\ book' = [book EXCEPT ![s] = Reconcile(c)]
    BY <1>1 DEF FlattenFilled, Commit
  <2>2. BookInv(c) /\ Follows(book[s], c)
    BY <1>0, <2>1, FlattenedOK
  <2>3. Tale(c) /\ Tells(book[s], c) /\ DOMAIN book[s].ords \subseteq DOMAIN c.ords
    BY <1>0, <2>1, FlattenedTold
  <2> HIDE DEF c
  <2>. QED BY <2>1, <2>2, <2>3, HandlerTold
<1>2. CASE FlattenPending(s)
  <2> DEFINE c == EntryVoided(book[s])
  <2>1. book[s].pos.phase = "entry_pending" /\ book' = [book EXCEPT ![s] = Reconcile(c)]
    BY <1>2 DEF FlattenPending, Commit
  <2>2. BookInv(c) /\ Follows(book[s], c)
    BY <1>0, <2>1, EntryVoidedOK
  <2>3. Tale(c) /\ Tells(book[s], c) /\ DOMAIN book[s].ords \subseteq DOMAIN c.ords
    BY <1>0, <2>1, EntryVoidedTold
  <2> HIDE DEF c
  <2>. QED BY <2>1, <2>2, <2>3, HandlerTold
<1>. QED BY <1>1, <1>2

\* cancel_recent_order.
LEMMA CancelTold ==
    ASSUME IInv, Tales, NEW s \in Symbols, Cancel(s)
    PROVE  Tales' /\ Telling
<1>. PICK i \in paper[s] : CancelRecentOrder(s, i)
  BY DEF Cancel
<1> DEFINE c == OrderCanceled(book[s], i)
<1>1. BookInv(book[s]) /\ Tale(book[s]) /\ i \in Roots(book[s].ords)
  BY DEF IInv, Good, Tales
<1>2. Tale(c) /\ Tells(book[s], c)
  BY <1>1, OrderCanceledTold
<1>3. book' = [book EXCEPT ![s] = c]
  BY DEF CancelRecentOrder
<1> HIDE DEF c
<1>. QED BY <1>2, <1>3, OneTold DEF Tells

\* publish_price_tick.
LEMMA PriceTold ==
    ASSUME IInv, Tales, NEW s \in Symbols, Tick(s)
    PROVE  Tales' /\ Telling
<1>. PICK live \in Prices : PriceTick(s, live)
  BY DEF Tick
<1> DEFINE c == [book[s] EXCEPT !.pos.live = live]
<1>1. /\ BookInv(book[s]) /\ Tale(book[s]) /\ book[s].pos.phase # "none" /\ live \in Int
      /\ book' = [book EXCEPT ![s] = Reconcile(c)]
  BY PricesAssumption DEF PriceTick, IInv, Good, Tales, Commit
<1>2. BookInv(c) /\ Follows(book[s], c)
  BY <1>1, TickOK
<1>3. Tale(c) /\ Tells(book[s], c) /\ DOMAIN book[s].ords \subseteq DOMAIN c.ords
  BY <1>1, TickTold
<1> HIDE DEF c
<1>. QED BY <1>1, <1>2, <1>3, HandlerTold

\* The steps that leave every book as it is.
LEMMA IdleTold ==
    ASSUME IInv, Tales, GetPositions \/ Restart \/ UNCHANGED vars
    PROVE  Tales' /\ Telling
<1>1. book' = book
  BY SweptIdle DEF GetPositions, Restart, vars
<1>2. \A b : Final(b, b)
  BY DEF Final
<1>3. \A b : SoldByFill(b, b)
  BY DEF SoldByFill, Active
<1>. QED BY <1>1, <1>2, <1>3 DEF Tales, Telling, OrdersFinal, SalesFilled

\* Every step keeps the tales of all symbols, and its sales are told by the rows.
LEMMA StepTold ==
    ASSUME IInv, Tales, [Next]_vars
    PROVE  Tales' /\ Telling
<1>1. CASE GetPositions \/ Restart \/ UNCHANGED vars
  BY <1>1, IdleTold
<1>2. ASSUME NEW s \in Symbols, Enter(s) PROVE Tales' /\ Telling
  BY <1>2, EnterTold
<1>3. ASSUME NEW s \in Symbols, Protect(s) PROVE Tales' /\ Telling
  BY <1>3, ProtectTold
<1>4. ASSUME NEW s \in Symbols, TakeProfit(s) PROVE Tales' /\ Telling
  BY <1>4, TakeProfitTold
<1>5. ASSUME NEW s \in Symbols, MoveToBe(s) PROVE Tales' /\ Telling
  BY <1>5, MoveToBeTold
<1>6. ASSUME NEW s \in Symbols, FlattenPending(s) \/ FlattenFilled(s) PROVE Tales' /\ Telling
  BY <1>6, FlattenTold
<1>7. ASSUME NEW s \in Symbols, Cancel(s) PROVE Tales' /\ Telling
  BY <1>7, CancelTold
<1>8. ASSUME NEW s \in Symbols, Tick(s) PROVE Tales' /\ Telling
  BY <1>8, PriceTold
<1>. QED BY <1>1, <1>2, <1>3, <1>4, <1>5, <1>6, <1>7, <1>8 DEF Next

\* The rows tell the same story as the tranches, of every symbol (_apply_exit_fill and the handlers).
THEOREM TalesHold == Spec => []Tales
<1>1. Init => Tales
  BY DEF Init, Tales, EmptyBook, Tale, Applied, Fills, Apart, TradeExits
<1>2. IInv /\ Tales /\ [Next]_vars => Tales'
  BY StepTold
<1>. QED BY <1>1, <1>2, Inductive, PTL DEF Spec

\* Nothing that a filled order of the trade sells is still held.
THEOREM FillsAreApplied == Spec => []FillsApplied
<1>1. Tales => FillsApplied
  BY DEF Tales, Tale, FillsApplied
<1>. QED BY <1>1, TalesHold, PTL

\* No tranche is under two live stops, or two live trails.
THEOREM NoTwinsLive == Spec => []NoTwins
<1>1. Tales => NoTwins
  BY DEF Tales, Tale, NoTwins
<1>. QED BY <1>1, TalesHold, PTL

\* A filled or canceled order of the current trade stays so, whatever a plan does to the stops.
THEOREM DoneIsFinal == Spec => TradeOrdersFinal
<1>1. IInv /\ Tales /\ [Next]_vars => [OrdersFinal]_vars
  BY StepTold DEF Telling
<1>. QED BY <1>1, Inductive, TalesHold, PTL DEF Spec, TradeOrdersFinal

\* Every sale is the fill, in that step, of an order that sells the tranche.
THEOREM SalesAreFills == Spec => SoldOnlyByFill
<1>1. IInv /\ Tales /\ [Next]_vars => [SalesFilled]_vars
  BY StepTold DEF Telling
<1>. QED BY <1>1, Inductive, TalesHold, PTL DEF Spec, SoldOnlyByFill
=============================================================================
