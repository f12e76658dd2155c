-------------------------- MODULE TradeBookProofs --------------------------
(***************************************************************************)
(* Lemmas about what the handlers of TradeBook compute.  Each handler      *)
(* takes a book that satisfies BookInv to one that does, keeps the order   *)
(* rows it finds, and, but for enter_trade, only shrinks the trade.  The   *)
(* second half is about what the rows tell of the tranches (Tale, Tells).  *)
(***************************************************************************)
EXTENDS TradeBook, TLAPS

\* A function on 1..n is a sequence.
LEMMA FunctionIsSeq ==
    ASSUME NEW S, NEW n \in Nat, NEW f \in [1..n -> S]
    PROVE  f \in Seq(S) /\ Len(f) = n
OBVIOUS

\* One tranche or none, as a list.
LEMMA OneType ==
    ASSUME NEW T, NEW t
    PROVE (IF t \in T THEN <<t>> ELSE <<>>) \in Seq(T)
OBVIOUS

\* A listed set is a list of its members.
LEMMA ListedType ==
    ASSUME NEW T
    PROVE  Listed(T) \in Seq(T)
<1> DEFINE one(t) == IF t \in T THEN <<t>> ELSE <<>>
<1>1. one(1) \in Seq(T) /\ one(2) \in Seq(T) /\ one(3) \in Seq(T)
  BY OneType
<1>2. one(1) \o one(2) \in Seq(T)
  BY <1>1
<1>3. one(1) \o one(2) \o one(3) \in Seq(T)
  BY <1>1, <1>2
<1>. QED BY <1>3 DEF Listed

\* What the type of a book says of its parts.
LEMMA BookParts ==
    ASSUME NEW b, BookType(b)
    PROVE  /\ b.pos \in Position /\ b.ords \in Seq(Order)
           /\ b = [pos |-> b.pos, ords |-> b.ords]
           /\ Len(b.ords) \in Nat
           /\ DOMAIN b.ords = 1..Len(b.ords)
           /\ \A i \in DOMAIN b.ords : b.ords[i] \in Order
           /\ DOMAIN b.pos.st = 1..Len(b.pos.st) /\ DOMAIN b.pos.qty = DOMAIN b.pos.st
           /\ DOMAIN b.pos.st \subseteq TrancheIds
           /\ Active(b.pos) \subseteq DOMAIN b.pos.st
<1>1. /\ b.pos \in Position /\ b.ords \in Seq(Order)
      /\ b = [pos |-> b.pos, ords |-> b.ords]
  BY DEF BookType
<1>2. /\ Len(b.ords) \in Nat /\ DOMAIN b.ords = 1..Len(b.ords)
      /\ \A i \in DOMAIN b.ords : b.ords[i] \in Order
  BY <1>1
<1>3. b.pos.st \in Seq(TrancheStatus) /\ b.pos.qty \in Seq(Int)
  BY <1>1 DEF Position
<1>4. DOMAIN b.pos.st = 1..Len(b.pos.st) /\ DOMAIN b.pos.qty = DOMAIN b.pos.st
  BY <1>3 DEF BookType
<1>5. DOMAIN b.pos.st \subseteq TrancheIds
  BY <1>3, <1>4 DEF BookType, TrancheIds
<1>. QED BY <1>1, <1>2, <1>4, <1>5 DEF Active

\* Marking tranches changes those and no others.
LEMMA MarkedType ==
    ASSUME NEW st \in Seq(TrancheStatus), NEW T, NEW new \in TrancheStatus
    PROVE  /\ Marked(st, T, new) \in Seq(TrancheStatus)
           /\ Len(Marked(st, T, new)) = Len(st)
           /\ DOMAIN Marked(st, T, new) = DOMAIN st
           /\ \A t \in DOMAIN st : Marked(st, T, new)[t] = IF t \in T THEN new ELSE st[t]
<1>1. Marked(st, T, new) \in [1..Len(st) -> TrancheStatus]
  BY DEF Marked
<1>2. Len(st) \in Nat
  OBVIOUS
<1>. QED BY <1>1, <1>2, FunctionIsSeq DEF Marked

----------------------------------------------------------------------------
\* What a handler does to the rows: rewrites the old ones, each as the same order, and adds new ones.
SameOrder(o, q) == q \in Order /\ q.type = o.type /\ q.root = o.root

\* A new status leaves the rest of an order alone.
LEMMA StatusType ==
    ASSUME NEW o \in Order, NEW s \in OrderStatus
    PROVE  SameOrder(o, [o EXCEPT !.status = s]) /\ [o EXCEPT !.status = s].status = s
BY DEF Order, SameOrder

\* Changing orders in place keeps their number and their roots.
LEMMA RowsType ==
    ASSUME NEW os \in Seq(Order), NEW f, f = [i \in DOMAIN os |-> f[i]],
           \A i \in DOMAIN os : SameOrder(os[i], f[i])
    PROVE  f \in Seq(Order) /\ Len(f) = Len(os) /\ DOMAIN f = DOMAIN os /\ Roots(f) = Roots(os)
<1>1. Len(os) \in Nat /\ DOMAIN os = 1..Len(os)
  OBVIOUS
<1>2. f \in [1..Len(os) -> Order]
  BY <1>1 DEF SameOrder
<1>3. DOMAIN f = DOMAIN os
  BY <1>2, <1>1
<1>. QED BY <1>1, <1>2, <1>3, FunctionIsSeq DEF Roots, SameOrder

\* Appending orders keeps those there were, in their places.
LEMMA MoreRows ==
    ASSUME NEW f \in Seq(Order), NEW g \in Seq(Order)
    PROVE  /\ f \o g \in Seq(Order) /\ Len(f \o g) = Len(f) + Len(g)
           /\ DOMAIN f \subseteq DOMAIN (f \o g)
           /\ \A i \in DOMAIN f : (f \o g)[i] = f[i]
           /\ \A k \in DOMAIN g : Len(f) + k \in DOMAIN (f \o g) /\ (f \o g)[Len(f) + k] = g[k]
           /\ \A i \in DOMAIN (f \o g) : \/ i \in DOMAIN f
                                         \/ i - Len(f) \in DOMAIN g /\ (f \o g)[i] = g[i - Len(f)]
           /\ Roots(f) \subseteq Roots(f \o g)
<1>1. /\ f \o g \in Seq(Order) /\ Len(f \o g) = Len(f) + Len(g)
      /\ Len(f) \in Nat /\ Len(g) \in Nat
      /\ DOMAIN f = 1..Len(f) /\ DOMAIN g = 1..Len(g) /\ DOMAIN (f \o g) = 1..(Len(f) + Len(g))
      /\ \A i \in 1..(Len(f) + Len(g)) : (f \o g)[i] = IF i =< Len(f) THEN f[i] ELSE g[i - Len(f)]
  OBVIOUS
<1>. QED BY <1>1 DEF Roots

----------------------------------------------------------------------------
\* A phase computed from tranches is closed when none is active (_phase_from_tranches).
LEMMA PhaseType ==
    ASSUME NEW p
    PROVE  /\ PhaseFromTranches(p) \in Phases \ {"none", "entry_pending", "trade_entered"}
           /\ PhaseFromTranches(p) = "closed" <=> Active(p) = {}
BY DEF PhaseFromTranches, Phases

\* Settling sells the tranches named and no others.
LEMMA SettledType ==
    ASSUME NEW p \in Position, NEW T \in SUBSET Active(p)
    PROVE  /\ Settled(p, T) \in Position
           /\ Settled(p, T).side = p.side /\ Settled(p, T).entry = p.entry /\ Settled(p, T).live = p.live
           /\ Settled(p, T).root = p.root /\ Settled(p, T).qty = p.qty
           /\ Len(Settled(p, T).st) = Len(p.st) /\ DOMAIN Settled(p, T).st = DOMAIN p.st
           /\ \A t \in DOMAIN p.st : p.st[t] # "active" => Settled(p, T).st[t] = p.st[t]
           /\ Active(Settled(p, T)) = Active(p) \ T
           /\ T = {} => Settled(p, T) = p
           /\ T # {} => /\ Settled(p, T).phase \notin {"none", "entry_pending", "trade_entered"}
                        /\ Settled(p, T).phase = "closed" <=> Active(p) = T
<1> DEFINE m == Marked(p.st, T, "sold")
           q == [p EXCEPT !.st = m]
           r == [q EXCEPT !.phase = PhaseFromTranches(q)]
<1>0. "sold" \in TrancheStatus /\ p.st \in Seq(TrancheStatus)
  BY DEF TrancheStatus, Position
<1>a. /\ m \in Seq(TrancheStatus) /\ Len(m) = Len(p.st) /\ DOMAIN m = DOMAIN p.st
      /\ \A t \in DOMAIN p.st : m[t] = IF t \in T THEN "sold" ELSE p.st[t]
  BY <1>0, MarkedType
<1>s. Settled(p, T) = IF T = {} THEN p ELSE r
  BY DEF Settled
<1> HIDE DEF m
<1>1. /\ q \in Position /\ q.st = m /\ q.side = p.side /\ q.entry = p.entry /\ q.live = p.live
      /\ q.root = p.root /\ q.qty = p.qty /\ q.phase = p.phase
  BY <1>a DEF Position
<1> HIDE DEF q
<1>2. /\ PhaseFromTranches(q) \in Phases \ {"none", "entry_pending", "trade_entered"}
      /\ PhaseFromTranches(q) = "closed" <=> Active(q) = {}
  BY PhaseType
<1>3. /\ r \in Position /\ r.st = m /\ r.side = p.side /\ r.entry = p.entry /\ r.live = p.live
      /\ r.root = p.root /\ r.qty = p.qty /\ r.phase = PhaseFromTranches(q)
  BY <1>1, <1>2 DEF Position
<1> HIDE DEF r
<1>4. Active(q) = Active(p) \ T /\ Active(r) = Active(p) \ T
  BY <1>a, <1>1, <1>3 DEF Active
<1>5. PhaseFromTranches(q) = "closed" <=> Active(p) = T
  BY <1>4, <1>2
<1>6. \A t \in DOMAIN p.st : p.st[t] # "active" => m[t] = p.st[t]
  BY <1>a DEF Active
<1>7. CASE T = {}
  BY <1>s, <1>7
<1>8. CASE T # {}
  BY <1>s, <1>8, <1>2, <1>3, <1>4, <1>5, <1>6, <1>a
<1>. QED BY <1>7, <1>8

\* Filling orders fills those that were hit.
LEMMA FilledRowsType ==
    ASSUME NEW os \in Seq(Order), NEW hit
    PROVE  /\ FilledRows(os, hit) \in Seq(Order) /\ Len(FilledRows(os, hit)) = Len(os)
           /\ DOMAIN FilledRows(os, hit) = DOMAIN os /\ Roots(FilledRows(os, hit)) = Roots(os)
           /\ \A i \in DOMAIN os : /\ SameOrder(os[i], FilledRows(os, hit)[i])
                                   /\ i \in hit => FilledRows(os, hit)[i].status = "FILLED"
                                   /\ i \notin hit => FilledRows(os, hit)[i] = os[i]
<1> DEFINE f == FilledRows(os, hit)
<1>1. f = [i \in DOMAIN os |-> f[i]]
  BY DEF FilledRows
<1>2. ASSUME NEW i \in DOMAIN os
      PROVE  /\ SameOrder(os[i], f[i])
             /\ i \in hit => f[i].status = "FILLED"
             /\ i \notin hit => f[i] = os[i]
  <2>1. os[i] \in Order /\ "FILLED" \in OrderStatus
    BY DEF OrderStatus
  <2>2. f[i] = IF i \in hit THEN [os[i] EXCEPT !.status = "FILLED"] ELSE os[i]
    BY DEF FilledRows
  <2>. QED BY <2>1, <2>2, StatusType DEF SameOrder
<1> HIDE DEF f
<1>3. f \in Seq(Order) /\ Len(f) = Len(os) /\ DOMAIN f = DOMAIN os /\ Roots(f) = Roots(os)
  BY <1>1, <1>2, RowsType
<1>. QED BY <1>2, <1>3 DEF f
----------------------------------------------------------------------------
BookInv(b) == BookType(b) /\ Flat(b) /\ Quiet(b)

\* c comes from b by a step of the same trade that keeps the rows.
Follows(b, c) == /\ Shrunk(b.pos, c.pos)
                 /\ Roots(b.ords) \subseteq Roots(c.ords)
                 /\ IsOpen(c.pos) => IsOpen(b.pos)
                 /\ c.pos.phase = "none" <=> b.pos.phase = "none"
                 /\ c.pos.phase = "entry_pending" => b.pos.phase = "entry_pending"
                 /\ b.pos.phase = "entry_pending" => c.pos.phase \in {"entry_pending", "closed"}

\* Shrinking is transitive.
LEMMA ShrunkTrans ==
    ASSUME NEW p, NEW q, NEW r, Shrunk(p, q), Shrunk(q, r)
    PROVE  Shrunk(p, r)
BY DEF Shrunk

\* Following is transitive.
LEMMA FollowsTrans ==
    ASSUME NEW b, NEW c, NEW d, Follows(b, c), Follows(c, d)
    PROVE  Follows(b, d)
<1>1. Shrunk(b.pos, d.pos)
  BY ShrunkTrans DEF Follows
<1>. QED BY <1>1 DEF Follows, Shrunk

\* The book of a symbol that was never traded.
LEMMA EmptyOK == BookInv(EmptyBook)
<1>1. EmptyBook.pos = NoPosition /\ EmptyBook.ords = <<>> /\ EmptyBook = [pos |-> NoPosition, ords |-> <<>>]
  BY DEF EmptyBook
<1>2. NoPosition \in Position
  BY DEF NoPosition, Position, Phases, Sides
<1>3. BookType(EmptyBook)
  BY <1>1, <1>2 DEF BookType, NoPosition
<1>. QED BY <1>1, <1>3 DEF BookInv, Flat, Quiet, NoPosition

\* What a step of the same trade does to its row in the ledger: the row stays, loses tranches, or
\* is closed before it opened.
LEMMA RowGoes ==
    ASSUME NEW b, NEW c, BookInv(b), BookInv(c), Follows(b, c)
    PROVE  \/ Row(c) = Row(b)
           \/ /\ Row(b).stage = "pending"
              /\ Row(c) = [stage |-> "closed", held |-> {}, trade |-> Row(b).trade]
           \/ /\ Row(b).stage = "open" /\ Active(c.pos) \in SUBSET Row(b).held
              /\ Row(c) = [stage |-> IF Active(c.pos) = {} THEN "closed" ELSE "open",
                           held |-> Active(c.pos), trade |-> Row(b).trade]
<1>0. c.pos.root = b.pos.root
  BY DEF Follows, Shrunk
<1>1. Row(c).held \subseteq Row(b).held /\ Row(c).trade = Row(b).trade
  BY DEF Follows, Shrunk, Row, Active
<1>2. CASE b.pos.phase = "none"
  <2>1. Row(b) = [stage |-> "none", held |-> Active(b.pos), trade |-> b.pos.root]
    BY <1>2 DEF Row
  <2>2. Row(c) = [stage |-> "none", held |-> Active(c.pos), trade |-> c.pos.root]
    BY <1>2 DEF Row, Follows
  <2>3. Active(b.pos) = {}
    BY <1>2 DEF BookInv, BookType, Active
  <2>. QED BY <1>1, <2>1, <2>2, <2>3
<1>3. CASE b.pos.phase = "closed"
  <2>1. Row(b) = [stage |-> "closed", held |-> Active(b.pos), trade |-> b.pos.root]
    BY <1>3 DEF Row
  <2>2. Row(c) = [stage |-> "closed", held |-> Active(c.pos), trade |-> c.pos.root]
    BY <1>3 DEF Row, Follows, Shrunk
  <2>3. Active(b.pos) = {}
    BY <1>3 DEF BookInv, Flat
  <2>. QED BY <1>1, <2>1, <2>2, <2>3
<1>4. CASE b.pos.phase = "entry_pending" /\ c.pos.phase = "entry_pending"
  <2>1. Row(b) = [stage |-> "pending", held |-> Active(b.pos), trade |-> b.pos.root]
    BY <1>4 DEF Row
  <2>2. Row(c) = [stage |-> "pending", held |-> Active(c.pos), trade |-> c.pos.root]
    BY <1>4 DEF Row
  <2>3. Active(c.pos) = Active(b.pos)
    BY <1>4 DEF BookInv, Quiet, Follows, Shrunk
  <2>. QED BY <1>1, <2>1, <2>2, <2>3
<1>5. CASE b.pos.phase = "entry_pending" /\ c.pos.phase = "closed"
  <2>1. Row(b) = [stage |-> "pending", held |-> Active(b.pos), trade |-> b.pos.root]
    BY <1>5 DEF Row
  <2>2. Row(c) = [stage |-> "closed", held |-> Active(c.pos), trade |-> c.pos.root]
    BY <1>5 DEF Row
  <2>3. Active(c.pos) = {}
    BY <1>5 DEF BookInv, Flat
  <2>. QED BY <1>0, <2>1, <2>2, <2>3
<1>6. CASE b.pos.phase \notin {"none", "closed", "entry_pending"}
  <2>1. Row(b) = [stage |-> "open", held |-> Active(b.pos), trade |-> b.pos.root]
    BY <1>6 DEF Row
  <2>2. c.pos.phase # "none" /\ c.pos.phase # "entry_pending"
    BY <1>6 DEF Follows
  <2>3. Active(c.pos) = {} <=> c.pos.phase = "closed"
    BY <2>2 DEF BookInv, Flat
  <2>4. Row(c) = [stage |-> IF Active(c.pos) = {} THEN "closed" ELSE "open",
                  held |-> Active(c.pos), trade |-> c.pos.root]
    BY <2>2, <2>3 DEF Row
  <2>5. Active(c.pos) \in SUBSET Row(b).held
    BY <1>1, <2>4
  <2>. QED BY <1>0, <2>1, <2>4, <2>5
<1>. QED BY <1>2, <1>3, <1>4, <1>5, <1>6 DEF Follows

\* What reconciling makes of the parts of a book (_reconcile_position).
LEMMA ReconcileParts ==
    ASSUME NEW b, BookType(b)
    PROVE  /\ Reconcile(b).pos = Settled(b.pos, SoldBy(b, Triggered(b)))
           /\ Reconcile(b).ords = FilledRows(b.ords, Triggered(b))
           /\ SoldBy(b, Triggered(b)) \in SUBSET Active(b.pos)
           /\ b.pos \in Position /\ b.ords \in Seq(Order)
BY BookParts DEF Reconcile, SoldBy

\* Reconciling keeps the type.
LEMMA ReconcileType ==
    ASSUME NEW b, BookType(b)
    PROVE  BookType(Reconcile(b)) /\ Roots(Reconcile(b).ords) = Roots(b.ords)
<1> DEFINE T == SoldBy(b, Triggered(b))
           p == Settled(b.pos, T)
           os == FilledRows(b.ords, Triggered(b))
<1>1. Reconcile(b) = [pos |-> p, ords |-> os]
  BY DEF Reconcile
<1>2. T \in SUBSET Active(b.pos) /\ b.pos \in Position /\ b.ords \in Seq(Order)
  BY ReconcileParts
<1> HIDE DEF T
<1>3. /\ p \in Position /\ p.root = b.pos.root /\ p.qty = b.pos.qty /\ Len(p.st) = Len(b.pos.st)
      /\ T = {} => p = b.pos
      /\ T # {} => p.phase # "none"
  BY <1>2, SettledType
<1>4. /\ os \in Seq(Order) /\ Len(os) = Len(b.ords) /\ DOMAIN os = DOMAIN b.ords /\ Roots(os) = Roots(b.ords)
      /\ \A i \in DOMAIN os : os[i].root = b.ords[i].root
  BY <1>2, FilledRowsType DEF SameOrder
<1>5. b.pos.phase = "none" => T = {} /\ os = <<>>
  <2>1. SUFFICES ASSUME b.pos.phase = "none" PROVE T = {} /\ os = <<>>
    OBVIOUS
  <2>2. b.pos.st = <<>> /\ b.ords = <<>>
    BY <2>1 DEF BookType
  <2>3. Active(b.pos) = {}
    BY <2>2 DEF Active
  <2>4. Len(os) = 0
    BY <1>4, <2>2
  <2>. QED BY <2>3, <2>4, <1>2, <1>4
<1> HIDE DEF p, os
<1>6. IF p.phase = "none" THEN p.st = <<>> /\ os = <<>> ELSE p.root \in Roots(os)
  BY <1>3, <1>4, <1>5 DEF BookType
<1>7. Len(p.st) =< 3 /\ Len(p.qty) = Len(p.st)
  BY <1>3 DEF BookType
<1>8. \A i \in DOMAIN os : os[i].root =< Len(os)
  BY <1>4 DEF BookType
<1>9. BookType([pos |-> p, ords |-> os])
  BY <1>3, <1>4, <1>6, <1>7, <1>8 DEF BookType
<1>. QED BY <1>1, <1>4, <1>9

\* Reading a book back leaves nothing to trigger: prices stay, and what had triggered is filled.
LEMMA ReconcileSettles ==
    ASSUME NEW b, BookType(b)
    PROVE  Triggered(Reconcile(b)) = {}
<1> DEFINE T == SoldBy(b, Triggered(b))
           p == Settled(b.pos, T)
           os == FilledRows(b.ords, Triggered(b))
<1>1. Reconcile(b).pos = p /\ Reconcile(b).ords = os
  BY ReconcileParts
<1>2. T \in SUBSET Active(b.pos) /\ b.pos \in Position /\ b.ords \in Seq(Order)
  BY ReconcileParts
<1> HIDE DEF T
<1>3. /\ p.side = b.pos.side /\ p.live = b.pos.live
      /\ T = {} => p = b.pos
  BY <1>2, SettledType
<1>4. /\ DOMAIN os = DOMAIN b.ords
      /\ \A i \in DOMAIN os : /\ i \in Triggered(b) => os[i].status = "FILLED"
                              /\ i \notin Triggered(b) => os[i] = b.ords[i]
  BY <1>2, FilledRowsType
<1>5. b.pos.phase = "entry_pending" => T = {}
  BY DEF T, SoldBy, Triggered
<1> HIDE DEF p, os
<1>6. ASSUME NEW i \in Triggered(Reconcile(b)) PROVE FALSE
  <2>1. /\ i \in DOMAIN os /\ p.phase # "entry_pending" /\ os[i].type \in ExitTypes
        /\ os[i].status \in Live /\ Crossed(p, os[i])
    BY <1>1 DEF Triggered
  <2>2. i \notin Triggered(b)
    BY <2>1, <1>4 DEF Live
  <2>3. os[i] = b.ords[i] /\ i \in DOMAIN b.ords
    BY <2>1, <2>2, <1>4
  <2>4. Crossed(b.pos, b.ords[i])
    BY <2>1, <2>3, <1>3 DEF Crossed
  <2>5. b.pos.phase # "entry_pending"
    BY <2>1, <1>3, <1>5
  <2>. QED BY <2>1, <2>2, <2>3, <2>4, <2>5 DEF Triggered
<1>. QED BY <1>6

\* Reconciling keeps the invariant, and leaves nothing to reconcile.
LEMMA ReconcileOK ==
    ASSUME NEW b, BookInv(b)
    PROVE  /\ BookInv(Reconcile(b)) /\ Triggered(Reconcile(b)) = {}
           /\ Follows(b, Reconcile(b)) /\ (Covered(b) => Covered(Reconcile(b)))
<1> DEFINE T == SoldBy(b, Triggered(b))
           p == Settled(b.pos, T)
           os == FilledRows(b.ords, Triggered(b))
<1>0. BookType(b)
  BY DEF BookInv
<1>1. Reconcile(b).pos = p /\ Reconcile(b).ords = os
  BY <1>0, ReconcileParts
<1>2. T \in SUBSET Active(b.pos) /\ b.pos \in Position /\ b.ords \in Seq(Order)
  BY <1>0, ReconcileParts
<1>T. T = SoldBy(b, Triggered(b))
  OBVIOUS
<1> HIDE DEF T
<1>3. /\ p.side = b.pos.side /\ p.entry = b.pos.entry /\ p.qty = b.pos.qty /\ p.root = b.pos.root
      /\ DOMAIN p.st = DOMAIN b.pos.st
      /\ \A t \in DOMAIN b.pos.st : b.pos.st[t] # "active" => p.st[t] = b.pos.st[t]
      /\ Active(p) = Active(b.pos) \ T
      /\ T = {} => p = b.pos
      /\ T # {} => p.phase \notin {"none", "entry_pending", "trade_entered"}
      /\ T # {} => (p.phase = "closed" <=> Active(b.pos) = T)
  BY <1>2, SettledType
<1>4. /\ DOMAIN os = DOMAIN b.ords /\ Roots(os) = Roots(b.ords)
      /\ \A i \in DOMAIN b.ords : /\ os[i].type = b.ords[i].type /\ os[i].root = b.ords[i].root
                                  /\ i \in Triggered(b) => os[i].status = "FILLED"
                                  /\ i \notin Triggered(b) => os[i] = b.ords[i]
  BY <1>2, FilledRowsType DEF SameOrder
<1>5. b.pos.phase \in {"none", "entry_pending", "closed"} => T = {}
  <2>1. b.pos.phase = "entry_pending" => T = {}
    BY <1>T DEF SoldBy, Triggered
  <2>2. b.pos.phase = "none" => Active(b.pos) = {}
    BY <1>0 DEF BookType, Active
  <2>3. b.pos.phase = "closed" => Active(b.pos) = {}
    BY DEF BookInv, Flat
  <2>. QED BY <2>1, <2>2, <2>3, <1>2
<1>6. b.pos.phase = "entry_pending" => Triggered(b) = {}
  BY DEF Triggered
<1> HIDE DEF p, os
<1>7. Flat(Reconcile(b))
  BY <1>1, <1>2, <1>3, <1>5 DEF BookInv, Flat
<1>8. Quiet(Reconcile(b))
  <2>1. SUFFICES ASSUME p.phase = "entry_pending" PROVE Quiet(Reconcile(b))
    BY <1>1 DEF Quiet
  <2>2. p = b.pos /\ \A i \in DOMAIN b.ords : os[i] = b.ords[i]
    BY <2>1, <1>3, <1>4, <1>6
  <2>3. b.pos.root \in DOMAIN b.ords
    BY <2>1, <2>2, <1>0 DEF BookType, Roots
  <2>. QED BY <2>1, <2>2, <2>3, <1>1, <1>4 DEF BookInv, Quiet, HasLive
<1>9. Follows(b, Reconcile(b))
  BY <1>1, <1>3, <1>4, <1>5 DEF Follows, Shrunk, IsOpen
<1>10. ASSUME Covered(b) PROVE Covered(Reconcile(b))
  <2>1. TradeExits(Reconcile(b)) = TradeExits(b)
    BY <1>1, <1>3, <1>4 DEF TradeExits
  <2>2. SUFFICES ASSUME TradeExits(b) # {}, NEW t \in Active(p) PROVE t \in LiveCover(Reconcile(b))
    BY <2>1, <1>1 DEF Covered
  <2>3. PICK j \in TradeExits(b) : b.ords[j].status \in Live /\ t \in Sells(b.ords[j])
    BY <2>2, <1>10, <1>3 DEF Covered, LiveCover
  <2>4. j \notin Triggered(b)
    BY <2>2, <2>3, <1>3, <1>T DEF SoldBy
  <2>5. os[j] = b.ords[j]
    BY <2>3, <2>4, <1>4 DEF TradeExits
  <2>. QED BY <2>1, <2>3, <2>5, <1>1 DEF LiveCover
<1>. QED BY <1>0, <1>7, <1>8, <1>9, <1>10, ReconcileType, ReconcileSettles DEF BookInv

----------------------------------------------------------------------------
(* The lists the loops run over.                                           *)
Has(s, v) == \E k \in DOMAIN s : s[k] = v

\* What is in one of two lists is in their concatenation.
LEMMA ConcatHas ==
    ASSUME NEW S, NEW x \in Seq(S), NEW y \in Seq(S), NEW v, Has(x, v) \/ Has(y, v)
    PROVE  Has(x \o y, v)
<1>1. /\ Len(x) \in Nat /\ Len(y) \in Nat /\ Len(x \o y) = Len(x) + Len(y)
      /\ DOMAIN x = 1..Len(x) /\ DOMAIN y = 1..Len(y) /\ DOMAIN (x \o y) = 1..(Len(x) + Len(y))
      /\ \A i \in 1..(Len(x) + Len(y)) : (x \o y)[i] = IF i =< Len(x) THEN x[i] ELSE y[i - Len(x)]
  OBVIOUS
<1>2. CASE Has(x, v)
  BY <1>1, <1>2 DEF Has
<1>3. CASE Has(y, v)
  <2>1. PICK k \in DOMAIN y : y[k] = v
    BY <1>3 DEF Has
  <2>2. Len(x) + k \in DOMAIN (x \o y) /\ (x \o y)[Len(x) + k] = v
    BY <1>1, <2>1
  <2>. QED BY <2>2 DEF Has
<1>. QED BY <1>2, <1>3

\* Every tranche of a set is in its list.
LEMMA ListedHas ==
    ASSUME NEW T \in SUBSET TrancheIds, NEW t \in T
    PROVE  Has(Listed(T), t)
<1> DEFINE one(u) == IF u \in T THEN <<u>> ELSE <<>>
<1>1. one(1) \in Seq(T) /\ one(2) \in Seq(T) /\ one(3) \in Seq(T)
  BY OneType
<1>2. Has(one(t), t)
  BY DEF Has
<1>3. t = 1 \/ t = 2 \/ t = 3
  BY DEF TrancheIds
<1>4. Listed(T) = one(1) \o one(2) \o one(3)
  BY DEF Listed
<1> HIDE DEF one
<1>5. one(1) \o one(2) \in Seq(T)
  BY <1>1
<1>6. (t = 1 \/ t = 2) => Has(one(1) \o one(2), t)
  BY <1>1, <1>2, ConcatHas
<1>7. Has(one(1) \o one(2), t) \/ Has(one(3), t)
  BY <1>2, <1>3, <1>6
<1>8. Has((one(1) \o one(2)) \o one(3), t)
  BY <1>1, <1>5, <1>7, ConcatHas
<1>. QED BY <1>4, <1>8

\* The active tranches in order are the active tranches.
LEMMA ActiveListParts ==
    ASSUME NEW p \in Position, DOMAIN p.st \subseteq TrancheIds
    PROVE  /\ ActiveList(p) \in Seq(Active(p)) /\ Len(ActiveList(p)) \in Nat
           /\ DOMAIN ActiveList(p) = 1..Len(ActiveList(p))
           /\ \A k \in DOMAIN ActiveList(p) : ActiveList(p)[k] \in Active(p)
           /\ \A t \in Active(p) : Has(ActiveList(p), t)
           /\ Active(p) \in SUBSET TrancheIds
<1>1. Active(p) \in SUBSET TrancheIds
  BY DEF Active
<1>2. ActiveList(p) \in Seq(Active(p))
  BY ListedType DEF ActiveList
<1>. QED BY <1>1, <1>2, ListedHas DEF ActiveList

\* The stop groups of every mode hold every active tranche (_stop_groups).
LEMMA GroupsParts ==
    ASSUME NEW p \in Position, DOMAIN p.st \subseteq TrancheIds, NEW mode
    PROVE  /\ \E n \in Nat : StopGroups(p, mode) \in [1..n -> SUBSET Active(p)]
           /\ \A t \in Active(p) : \E k \in DOMAIN StopGroups(p, mode) : t \in StopGroups(p, mode)[k]
<1> DEFINE act == ActiveList(p)
           mid == IF Len(act) \div 2 > 1 THEN Len(act) \div 2 ELSE 1
           low == {act[k] : k \in {j \in DOMAIN act : j =< mid}}
           high == {act[k] : k \in {j \in DOMAIN act : j > mid}}
<1>1. /\ Len(act) \in Nat /\ DOMAIN act = 1..Len(act)
      /\ \A k \in DOMAIN act : act[k] \in Active(p)
      /\ \A t \in Active(p) : \E k \in DOMAIN act : act[k] = t
  BY ActiveListParts DEF Has
<1>2. StopGroups(p, mode) = IF mode = 1 THEN <<Active(p)>>
                            ELSE IF mode = 2 THEN <<low, high>> ELSE [k \in DOMAIN act |-> {act[k]}]
  BY DEF StopGroups
<1>3. mid \in Nat
  BY <1>1
<1> HIDE DEF act, mid
<1>4. low \in SUBSET Active(p) /\ high \in SUBSET Active(p)
  BY <1>1
<1>5. Active(p) \subseteq low \cup high
  BY <1>1, <1>3
<1> HIDE DEF low, high
<1>6. CASE mode = 1
  <2>1. StopGroups(p, mode) = <<Active(p)>>
    BY <1>2, <1>6
  <2>2. StopGroups(p, mode) \in [1..1 -> SUBSET Active(p)]
    BY <2>1
  <2>3. 1 \in DOMAIN StopGroups(p, mode) /\ StopGroups(p, mode)[1] = Active(p)
    BY <2>1
  <2>. QED BY <2>2, <2>3
<1>7. CASE mode # 1 /\ mode = 2
  <2>1. StopGroups(p, mode) = <<low, high>>
    BY <1>2, <1>7
  <2>2. StopGroups(p, mode) \in [1..2 -> SUBSET Active(p)]
    BY <2>1, <1>4
  <2>3. /\ 1 \in DOMAIN StopGroups(p, mode) /\ StopGroups(p, mode)[1] = low
        /\ 2 \in DOMAIN StopGroups(p, mode) /\ StopGroups(p, mode)[2] = high
    BY <2>1
  <2>. QED BY <2>2, <2>3, <1>5
<1>8. CASE mode # 1 /\ mode # 2
  <2>1. StopGroups(p, mode) = [k \in 1..Len(act) |-> {act[k]}]
    BY <1>1, <1>2, <1>8
  <2>2. StopGroups(p, mode) \in [1..Len(act) -> SUBSET Active(p)]
    BY <2>1, <1>1
  <2>. QED BY <2>1, <2>2, <1>1
<1>. QED BY <1>6, <1>7, <1>8

----------------------------------------------------------------------------
(* The handlers.                                                           *)
LEMMA MakeBook ==
    ASSUME NEW b, BookType(b), b.pos.phase # "none",
           NEW p \in Position, NEW os \in Seq(Order),
           p.phase # "none", p.root = b.pos.root, p.qty = b.pos.qty, Len(p.st) = Len(b.pos.st),
           Roots(b.ords) \subseteq Roots(os), Len(b.ords) =< Len(os),
           \A i \in DOMAIN os : os[i].root =< Len(b.ords)
    PROVE  BookType([pos |-> p, ords |-> os])
<1>1. Len(b.ords) \in Nat /\ Len(os) \in Nat
  BY BookParts
<1>a. \A i \in DOMAIN os : os[i] \in Order
  OBVIOUS
<1>2. \A i \in DOMAIN os : os[i].root \in Nat
  BY <1>a DEF Order
<1>3. \A i \in DOMAIN os : os[i].root =< Len(os)
  BY <1>1, <1>2
<1>4. p.root \in Roots(os)
  BY DEF BookType
<1>5. Len(p.st) =< 3 /\ Len(p.qty) = Len(p.st)
  BY DEF BookType
<1>. QED BY <1>3, <1>4, <1>5 DEF BookType

\* Canceling by status changes those of the statuses named.
LEMMA CanceledInType ==
    ASSUME NEW os \in Seq(Order), NEW S
    PROVE  /\ CanceledIn(os, S) \in Seq(Order) /\ Len(CanceledIn(os, S)) = Len(os)
           /\ DOMAIN CanceledIn(os, S) = DOMAIN os /\ Roots(CanceledIn(os, S)) = Roots(os)
           /\ \A i \in DOMAIN os : SameOrder(os[i], CanceledIn(os, S)[i])
           /\ \A i \in DOMAIN os : os[i].status \in S => CanceledIn(os, S)[i].status = "CANCELED"
           /\ \A i \in DOMAIN os : os[i].status \notin S => CanceledIn(os, S)[i] = os[i]
<1> DEFINE f == CanceledIn(os, S)
<1>1. f = [i \in DOMAIN os |-> f[i]]
  BY DEF CanceledIn
<1>2. ASSUME NEW i \in DOMAIN os
      PROVE  /\ SameOrder(os[i], f[i])
             /\ os[i].status \in S => f[i].status = "CANCELED"
             /\ os[i].status \notin S => f[i] = os[i]
  <2>1. os[i] \in Order /\ "CANCELED" \in OrderStatus
    BY DEF OrderStatus
  <2>2. f[i] = IF os[i].status \in S THEN [os[i] EXCEPT !.status = "CANCELED"] ELSE os[i]
    BY DEF CanceledIn, CanceledIf
  <2>. QED BY <2>1, <2>2, StatusType DEF SameOrder
<1> HIDE DEF f
<1>3. f \in Seq(Order) /\ Len(f) = Len(os) /\ DOMAIN f = DOMAIN os /\ Roots(f) = Roots(os)
  BY <1>1, <1>2, RowsType
<1>. QED BY <1>2, <1>3 DEF f

\* The quantity of a set of tranches is a number.
LEMMA QtyOfType ==
    ASSUME NEW p \in Position, NEW T \in SUBSET (DOMAIN p.qty)
    PROVE  QtyOf(p, T) \in Int
<1> DEFINE q(t) == IF t \in T THEN p.qty[t] ELSE 0
<1>1. q(1) \in Int /\ q(2) \in Int /\ q(3) \in Int
  BY DEF Position
<1>. QED BY <1>1 DEF QtyOf

\* apply_stops leaves every active tranche covered by a live stop of the trade.
LEMMA StopsAppliedOK ==
    ASSUME NEW b, BookInv(b), Filled(b.pos), NEW mode, NEW price,
           \A k \in DOMAIN StopGroups(b.pos, mode) : price[k] \in Int
    PROVE  LET c == StopsApplied(b, StopGroups(b.pos, mode), price)
           IN  BookInv(c) /\ Follows(b, c) /\ Covered(c)
<1> DEFINE groups == StopGroups(b.pos, mode)
           p == [b.pos EXCEPT !.phase = "protected"]
           row(k) == [root |-> b.pos.root, type |-> "STOP", qty |-> QtyOf(b.pos, groups[k]),
                      price |-> price[k], status |-> "ACTIVE", covered |-> groups[k],
                      tranche |-> 0, bid |-> FALSE]
           new == [k \in DOMAIN groups |-> row(k)]
           os == b.ords \o new
           c == StopsApplied(b, groups, price)
<1>1. c = [pos |-> p, ords |-> os]
  BY DEF StopsApplied
<1>2. /\ BookType(b) /\ b.pos \in Position /\ b.ords \in Seq(Order) /\ Len(b.ords) \in Nat
      /\ b.pos.phase # "none" /\ Active(b.pos) # {}
      /\ Active(b.pos) \subseteq DOMAIN b.pos.qty /\ DOMAIN b.pos.st \subseteq TrancheIds
  BY BookParts DEF BookInv, Filled, Manageable, IsOpen
<1>3. b.pos.root \in Nat /\ b.pos.root =< Len(b.ords)
  BY <1>2, BookParts DEF BookType, Roots
<1>4. PICK n \in Nat : groups \in [1..n -> SUBSET Active(b.pos)]
  BY <1>2, GroupsParts
<1>5. \A t \in Active(b.pos) : \E k \in DOMAIN groups : t \in groups[k]
  BY <1>2, GroupsParts
<1>6. \A k \in DOMAIN groups : price[k] \in Int
  OBVIOUS
<1> HIDE DEF groups
<1>7. ASSUME NEW k \in 1..n PROVE row(k) \in Order
  <2>1. groups[k] \in SUBSET Active(b.pos) /\ k \in DOMAIN groups
    BY <1>4
  <2>2. groups[k] \in SUBSET TrancheIds /\ groups[k] \in SUBSET DOMAIN b.pos.qty
    BY <2>1, <1>2, BookParts
  <2>3. QtyOf(b.pos, groups[k]) \in Int /\ price[k] \in Int
    BY <2>2, <2>1, <1>2, <1>6, QtyOfType
  <2>. QED BY <2>2, <2>3, <1>3 DEF Order, OrderTypes, OrderStatus
<1>8. new \in [1..n -> Order]
  BY <1>4, <1>7
<1>9. new \in Seq(Order) /\ Len(new) = n /\ DOMAIN new = 1..n
  BY <1>8, FunctionIsSeq
<1>10. \A k \in 1..n : /\ new[k].type = "STOP" /\ new[k].root = b.pos.root /\ new[k].status = "ACTIVE"
                       /\ new[k].covered = groups[k]
  BY <1>9, <1>4
<1> HIDE DEF new
<1>11. /\ os \in Seq(Order) /\ Len(os) = Len(b.ords) + n
       /\ \A i \in DOMAIN b.ords : os[i] = b.ords[i]
       /\ \A k \in 1..n : Len(b.ords) + k \in DOMAIN os /\ os[Len(b.ords) + k] = new[k]
       /\ \A i \in DOMAIN os : i \in DOMAIN b.ords \/ (i - Len(b.ords) \in 1..n /\ os[i] = new[i - Len(b.ords)])
       /\ Roots(b.ords) \subseteq Roots(os)
  <2>1. /\ os \in Seq(Order) /\ Len(os) = Len(b.ords) + Len(new)
        /\ \A i \in DOMAIN b.ords : os[i] = b.ords[i]
        /\ \A k \in DOMAIN new : Len(b.ords) + k \in DOMAIN os /\ os[Len(b.ords) + k] = new[k]
        /\ \A i \in DOMAIN os : \/ i \in DOMAIN b.ords
                                \/ i - Len(b.ords) \in DOMAIN new /\ os[i] = new[i - Len(b.ords)]
        /\ Roots(b.ords) \subseteq Roots(os)
    BY <1>2, <1>9, MoreRows
  <2>. QED BY <2>1, <1>9
<1>12. \A i \in DOMAIN os : os[i].root =< Len(b.ords)
  BY <1>11, <1>10, <1>3, <1>2 DEF BookType
<1> HIDE DEF os
<1>13. /\ p \in Position /\ p.phase = "protected" /\ p.root = b.pos.root /\ p.side = b.pos.side
       /\ p.entry = b.pos.entry /\ p.qty = b.pos.qty /\ p.st = b.pos.st
  BY <1>2 DEF Position, Phases
<1>14. Active(p) = Active(b.pos)
  BY <1>13 DEF Active
<1> HIDE DEF p
<1>15. BookType(c)
  <2>1. Len(b.ords) =< Len(os) /\ Len(p.st) = Len(b.pos.st) /\ p.phase # "none"
    BY <1>2, <1>11, <1>13
  <2>2. BookType([pos |-> p, ords |-> os])
    BY <2>1, <1>2, <1>11, <1>12, <1>13, MakeBook
  <2>. QED BY <2>2, <1>1
<1>16. Flat(c) /\ Quiet(c)
  BY <1>1, <1>2, <1>13, <1>14 DEF Flat, Quiet
<1>17. Follows(b, c)
  BY <1>1, <1>2, <1>11, <1>13 DEF Follows, Shrunk, IsOpen, Filled, Manageable
<1>18. Covered(c)
  <2>1. SUFFICES ASSUME NEW t \in Active(p) PROVE t \in LiveCover(c)
    BY <1>1 DEF Covered
  <2>2. PICK k \in 1..n : t \in groups[k]
    BY <1>5, <1>14, <1>4
  <2> DEFINE i == Len(b.ords) + k
             o == c.ords[i]
  <2>3. /\ i \in DOMAIN c.ords /\ o.type = "STOP" /\ o.root = c.pos.root /\ o.status = "ACTIVE"
        /\ o.covered = groups[k]
    <3>1. c.ords = os /\ c.pos.root = b.pos.root
      BY <1>1, <1>13
    <3>2. i \in DOMAIN os /\ os[i] = new[k]
      BY <1>11
    <3>. QED BY <3>1, <3>2, <1>10
  <2>4. i \in TradeExits(c) /\ o.status \in Live /\ t \in Sells(o)
    BY <2>2, <2>3 DEF TradeExits, ExitTypes, Live, Sells
  <2>. QED BY <2>4 DEF LiveCover
<1>. QED BY <1>15, <1>16, <1>17, <1>18 DEF BookInv, groups

\* The rows rewritten as the same orders, and none or more rows of the trade added.
LEMMA RewrittenBook ==
    ASSUME NEW b, BookType(b), b.pos.phase # "none",
           NEW p \in Position,
           p.phase # "none", p.root = b.pos.root, p.qty = b.pos.qty, Len(p.st) = Len(b.pos.st),
           NEW f \in Seq(Order), Len(f) = Len(b.ords),
           \A i \in DOMAIN b.ords : SameOrder(b.ords[i], f[i])
    PROVE  BookType([pos |-> p, ords |-> f]) /\ Roots(b.ords) = Roots(f) /\ DOMAIN f = DOMAIN b.ords
<1>1. Len(b.ords) \in Nat /\ DOMAIN b.ords = 1..Len(b.ords) /\ DOMAIN f = 1..Len(f)
  BY BookParts
<1>2. Roots(b.ords) = Roots(f) /\ DOMAIN f = DOMAIN b.ords
  BY <1>1 DEF Roots, SameOrder
<1>3. \A i \in DOMAIN f : f[i].root =< Len(b.ords)
  BY <1>2 DEF SameOrder, BookType
<1>4. Len(b.ords) =< Len(f)
  BY <1>1
<1>. QED BY <1>2, <1>3, <1>4, MakeBook

\* Orders changed in place and others appended make a book.
LEMMA ExtendedBook ==
    ASSUME NEW b, BookType(b), b.pos.phase # "none",
           NEW p \in Position,
           p.phase # "none", p.root = b.pos.root, p.qty = b.pos.qty, Len(p.st) = Len(b.pos.st),
           NEW f \in Seq(Order), Len(f) = Len(b.ords),
           \A i \in DOMAIN b.ords : SameOrder(b.ords[i], f[i]),
           NEW g \in Seq(Order), \A k \in DOMAIN g : g[k].root = b.pos.root
    PROVE  /\ BookType([pos |-> p, ords |-> f \o g]) /\ Roots(b.ords) \subseteq Roots(f \o g)
           /\ \A i \in DOMAIN b.ords : i \in DOMAIN (f \o g) /\ (f \o g)[i] = f[i]
           /\ \A k \in DOMAIN g : Len(b.ords) + k \in DOMAIN (f \o g) /\ (f \o g)[Len(b.ords) + k] = g[k]
<1> DEFINE os == f \o g
<1>1. Roots(b.ords) = Roots(f) /\ DOMAIN f = DOMAIN b.ords
  BY RewrittenBook
<1>2. /\ Len(b.ords) \in Nat /\ DOMAIN b.ords = 1..Len(b.ords) /\ Len(g) \in Nat
      /\ b.pos.root \in DOMAIN b.ords
  BY BookParts DEF BookType, Roots
<1>3. /\ os \in Seq(Order) /\ Len(os) = Len(f) + Len(g)
      /\ \A i \in DOMAIN f : os[i] = f[i]
      /\ DOMAIN f \subseteq DOMAIN os
      /\ \A k \in DOMAIN g : Len(f) + k \in DOMAIN os /\ os[Len(f) + k] = g[k]
      /\ \A i \in DOMAIN os : i \in DOMAIN f \/ (i - Len(f) \in DOMAIN g /\ os[i] = g[i - Len(f)])
      /\ Roots(f) \subseteq Roots(os)
  BY MoreRows
<1> HIDE DEF os
<1>4. \A i \in DOMAIN f : f[i].root =< Len(b.ords)
  BY <1>1 DEF SameOrder, BookType
<1>5. \A i \in DOMAIN os : os[i].root =< Len(b.ords)
  BY <1>1, <1>2, <1>3, <1>4
<1>6. Roots(b.ords) \subseteq Roots(os) /\ Len(b.ords) =< Len(os)
  BY <1>1, <1>2, <1>3
<1>7. BookType([pos |-> p, ords |-> os])
  BY <1>3, <1>5, <1>6, MakeBook
<1>. QED BY <1>1, <1>3, <1>6, <1>7 DEF os

\* What holds of a position that is filled.
LEMMA FilledParts ==
    ASSUME NEW b, BookInv(b), Filled(b.pos)
    PROVE  /\ BookType(b) /\ b.pos \in Position /\ b.ords \in Seq(Order) /\ Len(b.ords) \in Nat
           /\ b.pos.phase \notin {"none", "closed", "entry_pending"} /\ Active(b.pos) # {} /\ IsOpen(b.pos)
           /\ Active(b.pos) \subseteq DOMAIN b.pos.st /\ DOMAIN b.pos.qty = DOMAIN b.pos.st
           /\ DOMAIN b.pos.st \subseteq TrancheIds
           /\ b.pos.root \in Nat
           /\ \A t \in DOMAIN b.pos.st : b.pos.qty[t] \in Int
<1>1. b.pos.root \in Nat
  BY BookParts DEF BookInv, Position
<1>2. \A t \in DOMAIN b.pos.st : b.pos.qty[t] \in Int
  BY BookParts DEF BookInv, Position
<1>. QED BY <1>1, <1>2, BookParts DEF BookInv, Filled, Manageable, IsOpen

\* move_to_be keeps every live stop live, so what was covered stays covered.
LEMMA BrokenEvenOK ==
    ASSUME NEW b, BookInv(b), Filled(b.pos)
    PROVE  LET c == BrokenEven(b)
           IN  BookInv(c) /\ Follows(b, c) /\ (Covered(b) => Covered(c))
<1> DEFINE p == [b.pos EXCEPT !.phase = "protected"]
           f == [i \in DOMAIN b.ords |->
                   IF b.ords[i].type = "STOP" /\ b.ords[i].status \in Live
                   THEN [b.ords[i] EXCEPT !.price = b.pos.entry, !.status = "MODIFIED"]
                   ELSE b.ords[i]]
           c == BrokenEven(b)
<1>1. c = [pos |-> p, ords |-> f]
  BY DEF BrokenEven
<1>2. /\ BookType(b) /\ b.pos \in Position /\ b.ords \in Seq(Order)
      /\ b.pos.phase \notin {"none", "closed", "entry_pending"} /\ Active(b.pos) # {} /\ IsOpen(b.pos)
  BY FilledParts
<1>3. ASSUME NEW i \in DOMAIN b.ords
      PROVE  /\ SameOrder(b.ords[i], f[i]) /\ f[i].covered = b.ords[i].covered
             /\ f[i].tranche = b.ords[i].tranche
             /\ b.ords[i].status \in Live => f[i].status \in Live
  <2>1. b.ords[i] \in Order /\ b.pos.entry \in Int
    BY <1>2 DEF Position
  <2>. QED BY <2>1 DEF Order, SameOrder, OrderStatus, Live
<1>4. f = [i \in DOMAIN b.ords |-> f[i]]
  OBVIOUS
<1>5. /\ p \in Position /\ p.phase = "protected" /\ p.root = b.pos.root /\ p.side = b.pos.side
      /\ p.entry = b.pos.entry /\ p.qty = b.pos.qty /\ p.st = b.pos.st
  BY <1>2 DEF Position, Phases
<1> HIDE DEF f, p, c
<1>6. f \in Seq(Order) /\ Len(f) = Len(b.ords)
  BY <1>2, <1>3, <1>4, RowsType
<1>7. BookType(c) /\ Roots(b.ords) = Roots(f) /\ DOMAIN f = DOMAIN b.ords
  BY <1>1, <1>2, <1>3, <1>5, <1>6, RewrittenBook
<1>8. c.pos = p /\ c.ords = f
  BY <1>1
<1>9. Active(p) = Active(b.pos)
  BY <1>5 DEF Active
<1>10. Flat(c) /\ Quiet(c)
  BY <1>2, <1>5, <1>8, <1>9 DEF Flat, Quiet
<1>11. Follows(b, c)
  BY <1>2, <1>5, <1>7, <1>8 DEF Follows, Shrunk
<1>12. TradeExits(c) = TradeExits(b) /\ LiveCover(b) \subseteq LiveCover(c)
  <2>1. TradeExits(c) = TradeExits(b)
    BY <1>3, <1>5, <1>7, <1>8 DEF TradeExits, SameOrder
  <2>2. \A i \in DOMAIN b.ords : Sells(c.ords[i]) = Sells(b.ords[i])
    BY <1>3, <1>8 DEF Sells
  <2>3. \A i \in TradeExits(b) : i \in DOMAIN b.ords
    BY DEF TradeExits
  <2>. QED BY <2>1, <2>2, <2>3, <1>3, <1>8 DEF LiveCover
<1>. QED BY <1>7, <1>8, <1>9, <1>10, <1>11, <1>12 DEF BookInv, Covered, c

\* _reduce_stop_orders and the cancellation before it rewrite a row as the same order.
LEMMA ReducedType ==
    ASSUME NEW o \in Order, NEW t, NEW q \in Int
    PROVE  SameOrder(o, Reduced(o, t, q))
<1> DEFINE left == IF o.qty > q THEN o.qty - q ELSE 0
<1>1. left \in Int
  BY DEF Order
<1> HIDE DEF left
<1>2. [o EXCEPT !.qty = left, !.covered = @ \ {t}, !.status = IF left = 0 THEN "CANCELED" ELSE "MODIFIED"] \in Order
  BY <1>1 DEF Order, OrderStatus
<1>. QED BY <1>2 DEF Reduced, SameOrder, left, Order

\* Taking tranches out of a plan leaves the rest of an order alone.
LEMMA PlanOrderType ==
    ASSUME NEW p \in Position, NEW sold \in SUBSET (DOMAIN p.qty), NEW o \in Order
    PROVE  SameOrder(o, PlanOrder(p, sold, o))
<1> DEFINE step(x, t) == IF t \in sold THEN Reduced(x, t, p.qty[t]) ELSE x
           o0 == IF o.type = "STOP" THEN CanceledIf(o, Live) ELSE o
           o1 == step(o0, 1)
           o2 == step(o1, 2)
           o3 == step(o2, 3)
<1>1. SameOrder(o, o0)
  BY StatusType DEF CanceledIf, SameOrder, OrderStatus
<1>2. ASSUME NEW x \in Order, NEW t PROVE SameOrder(x, step(x, t))
  <2>1. t \in sold => p.qty[t] \in Int
    BY DEF Position
  <2>. QED BY <2>1, ReducedType DEF SameOrder
<1> HIDE DEF step, o0
<1>3. SameOrder(o0, o1)
  BY <1>1, <1>2 DEF SameOrder
<1> HIDE DEF o1
<1>4. SameOrder(o1, o2)
  BY <1>3, <1>2 DEF SameOrder
<1> HIDE DEF o2
<1>5. SameOrder(o2, o3)
  BY <1>4, <1>2 DEF SameOrder
<1> HIDE DEF o3
<1>6. PlanOrder(p, sold, o) = o3
  BY DEF PlanOrder, ReducedBy, o0, o1, o2, o3, step
<1>. QED BY <1>1, <1>3, <1>4, <1>5, <1>6 DEF SameOrder

\* The exit order of a tranche is an order of the trade.
LEMMA ExitOrderType ==
    ASSUME NEW p \in Position, NEW keep, NEW trail \in Int, NEW t \in TrancheIds, t \in DOMAIN p.qty
    PROVE  /\ ExitOrder(p, keep, trail, t) \in Order
           /\ ExitOrder(p, keep, trail, t).root = p.root
           /\ t \in keep => /\ ExitOrder(p, keep, trail, t).type = "TRAIL"
                            /\ ExitOrder(p, keep, trail, t).status = "ACTIVE"
                            /\ ExitOrder(p, keep, trail, t).covered = {t}
<1>1. TrailStop(p, trail) \in Int
  BY DEF TrailStop, Position
<1>2. p.root \in Nat /\ p.qty[t] \in Int /\ {t} \in SUBSET TrancheIds /\ t \in 0..3
  BY DEF Position, TrancheIds
<1>. QED BY <1>1, <1>2 DEF ExitOrder, Order, OrderTypes, OrderStatus

\* The plan leaves a trail for each tranche it keeps; nothing else of the trade stays active.
LEMMA PlanExecutedOK ==
    ASSUME NEW b, BookInv(b), Filled(b.pos), NEW keep \in SUBSET Active(b.pos), NEW trail \in Int
    PROVE  LET c == PlanExecuted(b, keep, trail)
           IN  BookInv(c) /\ Follows(b, c) /\ Covered(c) /\ Active(c.pos) = keep
<1> DEFINE sold == Active(b.pos) \ keep
           m == Marked(b.pos.st, sold, "sold")
           ph == PlanPhase(b.pos, keep)
           p == [b.pos EXCEPT !.st = m, !.runner = @ \cup keep, !.phase = ph]
           f == [i \in DOMAIN b.ords |-> PlanOrder(b.pos, sold, b.ords[i])]
           L == ActiveList(b.pos)
           g == [k \in DOMAIN L |-> ExitOrder(b.pos, keep, trail, L[k])]
           c == PlanExecuted(b, keep, trail)
<1>1. c = [pos |-> p, ords |-> f \o g]
  BY DEF PlanExecuted
<1>2. /\ BookType(b) /\ b.pos \in Position /\ b.ords \in Seq(Order)
      /\ b.pos.phase \notin {"none", "closed", "entry_pending"} /\ Active(b.pos) # {} /\ IsOpen(b.pos)
      /\ Active(b.pos) \subseteq DOMAIN b.pos.st /\ DOMAIN b.pos.qty = DOMAIN b.pos.st
      /\ DOMAIN b.pos.st \subseteq TrancheIds /\ b.pos.root \in Nat
  BY FilledParts
<1>3. /\ L \in Seq(Active(b.pos)) /\ Len(L) \in Nat /\ DOMAIN L = 1..Len(L)
      /\ \A k \in DOMAIN L : L[k] \in Active(b.pos)
      /\ \A t \in Active(b.pos) : Has(L, t)
  BY <1>2, ActiveListParts
<1>4. sold \in SUBSET (DOMAIN b.pos.qty) /\ keep \in SUBSET TrancheIds
  BY <1>2
<1>m. /\ m \in Seq(TrancheStatus) /\ Len(m) = Len(b.pos.st) /\ DOMAIN m = DOMAIN b.pos.st
      /\ \A t \in DOMAIN b.pos.st : m[t] = IF t \in sold THEN "sold" ELSE b.pos.st[t]
  <2>1. b.pos.st \in Seq(TrancheStatus) /\ "sold" \in TrancheStatus
    BY <1>2 DEF Position, TrancheStatus
  <2>. QED BY <2>1, MarkedType
<1>p. ph \in {"closed", "runner_only", "P1_done", "P2_done"} /\ (ph = "closed" <=> keep = {})
  BY DEF PlanPhase
<1>5. ASSUME NEW i \in DOMAIN b.ords PROVE SameOrder(b.ords[i], f[i])
  BY <1>2, <1>4, PlanOrderType
<1>6. f = [i \in DOMAIN b.ords |-> f[i]]
  OBVIOUS
<1>7. ASSUME NEW k \in DOMAIN L
      PROVE  /\ g[k] \in Order /\ g[k].root = b.pos.root
             /\ L[k] \in keep => g[k].type = "TRAIL" /\ g[k].status = "ACTIVE" /\ g[k].covered = {L[k]}
  <2>1. L[k] \in TrancheIds /\ L[k] \in DOMAIN b.pos.qty
    BY <1>2, <1>3
  <2>. QED BY <2>1, <1>2, ExitOrderType
<1>8. DOMAIN g = DOMAIN L /\ g = [k \in DOMAIN L |-> g[k]]
  OBVIOUS
<1> HIDE DEF f, g, L, m, ph, c
<1>9. g \in [1..Len(L) -> Order]
  BY <1>3, <1>7, <1>8
<1>10. g \in Seq(Order)
  BY <1>3, <1>9, FunctionIsSeq
<1>11. /\ p \in Position /\ p.phase = ph /\ p.root = b.pos.root /\ p.side = b.pos.side
       /\ p.entry = b.pos.entry /\ p.qty = b.pos.qty /\ p.st = m
  BY <1>2, <1>4, <1>m, <1>p DEF Position, Phases
<1> HIDE DEF p
<1>12. f \in Seq(Order) /\ Len(f) = Len(b.ords)
  BY <1>2, <1>5, <1>6, RowsType
<1>13. /\ BookType(c) /\ Roots(b.ords) \subseteq Roots(f \o g)
       /\ \A k \in DOMAIN g : Len(b.ords) + k \in DOMAIN (f \o g) /\ (f \o g)[Len(b.ords) + k] = g[k]
  <2>1. p.phase # "none" /\ p.root = b.pos.root /\ p.qty = b.pos.qty /\ Len(p.st) = Len(b.pos.st)
    BY <1>11, <1>m, <1>p
  <2>2. \A k \in DOMAIN g : g[k].root = b.pos.root
    BY <1>7, <1>8
  <2>3. \A i \in DOMAIN b.ords : SameOrder(b.ords[i], f[i])
    BY <1>5
  <2>4. p \in Position /\ BookType(b) /\ b.pos.phase # "none"
    BY <1>2, <1>11
  <2>5. BookType([pos |-> p, ords |-> f \o g])
    BY <2>1, <2>2, <2>3, <2>4, <1>10, <1>12, ExtendedBook
  <2>6. Roots(b.ords) \subseteq Roots(f \o g)
    BY <2>1, <2>2, <2>3, <2>4, <1>10, <1>12, ExtendedBook
  <2>7. \A k \in DOMAIN g : Len(b.ords) + k \in DOMAIN (f \o g) /\ (f \o g)[Len(b.ords) + k] = g[k]
    <3>1. \A k \in DOMAIN g : Len(f) + k \in DOMAIN (f \o g) /\ (f \o g)[Len(f) + k] = g[k]
      BY <1>10, <1>12, MoreRows
    <3>. QED BY <3>1, <1>12
  <2>. QED BY <2>5, <2>6, <2>7, <1>1
<1>14. Active(p) = keep
  BY <1>m, <1>11 DEF Active
<1>15. c.pos = p /\ c.ords = f \o g
  BY <1>1
<1>16. Flat(c) /\ Quiet(c)
  BY <1>11, <1>14, <1>15, <1>p DEF Flat, Quiet
<1>17. Follows(b, c)
  <2>1. Shrunk(b.pos, p)
    BY <1>2, <1>11, <1>m DEF Shrunk, Active
  <2>. QED BY <2>1, <1>2, <1>11, <1>13, <1>15, <1>p DEF Follows
<1>18. Covered(c)
  <2>1. SUFFICES ASSUME NEW t \in keep PROVE t \in LiveCover(c)
    BY <1>14, <1>15 DEF Covered
  <2>2. PICK k \in DOMAIN L : L[k] = t
    BY <1>3 DEF Has
  <2> DEFINE i == Len(b.ords) + k
  <2>3. i \in DOMAIN c.ords /\ c.ords[i] = g[k]
    BY <1>13, <1>15, <1>8
  <2>4. g[k].type = "TRAIL" /\ g[k].status = "ACTIVE" /\ g[k].covered = {t} /\ g[k].root = c.pos.root
    BY <1>7, <1>11, <1>15, <2>2
  <2>5. i \in TradeExits(c) /\ c.ords[i].status \in Live /\ t \in Sells(c.ords[i])
    BY <2>3, <2>4 DEF TradeExits, ExitTypes, Live, Sells
  <2>. QED BY <2>5 DEF LiveCover
<1>. QED BY <1>13, <1>14, <1>15, <1>16, <1>17, <1>18 DEF BookInv, c

\* flatten of a filled position sells all that is active; the plan's rows apart, it is the same step.
LEMMA FlattenedOK ==
    ASSUME NEW b, BookInv(b), Filled(b.pos)
    PROVE  LET c == Flattened(b)
           IN  BookInv(c) /\ Follows(b, c) /\ Covered(c) /\ ~ IsOpen(c.pos)
<1> DEFINE m == Marked(b.pos.st, Active(b.pos), "sold")
           p == [b.pos EXCEPT !.st = m, !.phase = "closed"]
           f == CanceledIn(b.ords, Live)
           L == ActiveList(b.pos)
           g == [k \in DOMAIN L |-> MarketExit(b.pos, L[k])]
           c == Flattened(b)
<1>1. c = [pos |-> p, ords |-> f \o g]
  BY DEF Flattened
<1>2. /\ BookType(b) /\ b.pos \in Position /\ b.ords \in Seq(Order)
      /\ b.pos.phase \notin {"none", "closed", "entry_pending"} /\ Active(b.pos) # {} /\ IsOpen(b.pos)
      /\ Active(b.pos) \subseteq DOMAIN b.pos.st /\ DOMAIN b.pos.qty = DOMAIN b.pos.st
      /\ DOMAIN b.pos.st \subseteq TrancheIds /\ b.pos.root \in Nat
      /\ \A t \in DOMAIN b.pos.st : b.pos.qty[t] \in Int
  BY FilledParts
<1>3. /\ L \in Seq(Active(b.pos)) /\ Len(L) \in Nat /\ DOMAIN L = 1..Len(L)
      /\ \A k \in DOMAIN L : L[k] \in Active(b.pos)
  BY <1>2, ActiveListParts
<1>m. /\ m \in Seq(TrancheStatus) /\ Len(m) = Len(b.pos.st) /\ DOMAIN m = DOMAIN b.pos.st
      /\ \A t \in DOMAIN b.pos.st : m[t] = IF t \in Active(b.pos) THEN "sold" ELSE b.pos.st[t]
  <2>1. b.pos.st \in Seq(TrancheStatus) /\ "sold" \in TrancheStatus
    BY <1>2 DEF Position, TrancheStatus
  <2>. QED BY <2>1, MarkedType
<1>5. /\ f \in Seq(Order) /\ Len(f) = Len(b.ords)
      /\ \A i \in DOMAIN b.ords : SameOrder(b.ords[i], f[i])
  BY <1>2, CanceledInType
<1>7. ASSUME NEW k \in DOMAIN L
      PROVE  g[k] \in Order /\ g[k].root = b.pos.root
  <2>1. L[k] \in TrancheIds /\ b.pos.qty[L[k]] \in Int /\ L[k] \in 0..3
    BY <1>2, <1>3 DEF TrancheIds
  <2>. QED BY <2>1, <1>2 DEF MarketExit, Order, OrderTypes, OrderStatus
<1>8. DOMAIN g = DOMAIN L /\ g = [k \in DOMAIN L |-> g[k]]
  OBVIOUS
<1> HIDE DEF f, g, L, m, c
<1>9. g \in [1..Len(L) -> Order]
  BY <1>3, <1>7, <1>8
<1>10. g \in Seq(Order)
  BY <1>3, <1>9, FunctionIsSeq
<1>11. /\ p \in Position /\ p.phase = "closed" /\ p.root = b.pos.root /\ p.side = b.pos.side
       /\ p.entry = b.pos.entry /\ p.qty = b.pos.qty /\ p.st = m
  BY <1>2, <1>m DEF Position, Phases
<1> HIDE DEF p
<1>13. BookType(c) /\ Roots(b.ords) \subseteq Roots(f \o g)
  <2>1. p.phase # "none" /\ p.root = b.pos.root /\ p.qty = b.pos.qty /\ Len(p.st) = Len(b.pos.st)
    BY <1>11, <1>m
  <2>2. \A k \in DOMAIN g : g[k].root = b.pos.root
    BY <1>7, <1>8
  <2>4. p \in Position /\ BookType(b) /\ b.pos.phase # "none"
    BY <1>2, <1>11
  <2>5. BookType([pos |-> p, ords |-> f \o g])
    BY <2>1, <2>2, <2>4, <1>5, <1>10, ExtendedBook
  <2>6. Roots(b.ords) \subseteq Roots(f \o g)
    BY <2>1, <2>2, <2>4, <1>5, <1>10, ExtendedBook
  <2>. QED BY <2>5, <2>6, <1>1
<1>14. Active(p) = {}
  BY <1>m, <1>11 DEF Active
<1>15. c.pos = p /\ c.ords = f \o g
  BY <1>1
<1>16. Flat(c) /\ Quiet(c) /\ Covered(c) /\ ~ IsOpen(c.pos)
  BY <1>11, <1>14, <1>15 DEF Flat, Quiet, Covered, IsOpen
<1>17. Follows(b, c)
  BY <1>2, <1>11, <1>13, <1>15, <1>m DEF Follows, Shrunk, Active, IsOpen
<1>. QED BY <1>13, <1>16, <1>17 DEF BookInv, c

\* A voided trade is closed and holds nothing.
LEMMA VoidedParts ==
    ASSUME NEW p \in Position
    PROVE  /\ Voided(p) \in Position /\ Voided(p).phase = "closed" /\ Voided(p).root = p.root
           /\ Voided(p).side = p.side /\ Voided(p).entry = p.entry /\ Voided(p).qty = p.qty
           /\ Len(Voided(p).st) = Len(p.st) /\ DOMAIN Voided(p).st = DOMAIN p.st
           /\ Active(Voided(p)) = {}
<1> DEFINE m == [t \in DOMAIN p.st |-> "canceled"]
<1>1. p.st \in Seq(TrancheStatus) /\ Len(p.st) \in Nat /\ DOMAIN p.st = 1..Len(p.st)
  BY DEF Position
<1>2. m \in [1..Len(p.st) -> TrancheStatus]
  BY <1>1 DEF TrancheStatus
<1>3. DOMAIN m = DOMAIN p.st /\ \A t \in DOMAIN m : m[t] = "canceled"
  OBVIOUS
<1> HIDE DEF m
<1>4. m \in Seq(TrancheStatus) /\ Len(m) = Len(p.st)
  BY <1>1, <1>2, FunctionIsSeq
<1>5. Voided(p) = [p EXCEPT !.st = m, !.phase = "closed"]
  BY DEF Voided, m
<1>. QED BY <1>3, <1>4, <1>5 DEF Position, Phases, Active

\* A pending trade voided, whatever happens to the statuses of the rows.
LEMMA VoidedBook ==
    ASSUME NEW b, BookInv(b), b.pos.phase = "entry_pending",
           NEW f \in Seq(Order), Len(f) = Len(b.ords),
           \A i \in DOMAIN b.ords : SameOrder(b.ords[i], f[i])
    PROVE  LET c == [pos |-> Voided(b.pos), ords |-> f]
           IN  BookInv(c) /\ Follows(b, c) /\ Covered(c) /\ ~ IsOpen(c.pos)
<1> DEFINE c == [pos |-> Voided(b.pos), ords |-> f]
           p == Voided(b.pos)
<1>1. BookType(b) /\ b.pos \in Position
  BY BookParts DEF BookInv
<1>2. /\ p \in Position /\ p.phase = "closed" /\ p.root = b.pos.root
      /\ p.side = b.pos.side /\ p.entry = b.pos.entry /\ p.qty = b.pos.qty
      /\ Len(p.st) = Len(b.pos.st) /\ DOMAIN p.st = DOMAIN b.pos.st
      /\ Active(p) = {}
  BY <1>1, VoidedParts
<1> HIDE DEF p
<1>3. BookType([pos |-> p, ords |-> f]) /\ Roots(b.ords) = Roots(f)
  BY <1>1, <1>2, RewrittenBook
<1>4. \A t \in DOMAIN b.pos.st : b.pos.st[t] = "active"
  BY DEF BookInv, Quiet, Active
<1>5. c.pos = p /\ c.ords = f /\ c = [pos |-> p, ords |-> f]
  BY DEF p
<1>6. Flat(c) /\ Quiet(c) /\ Covered(c) /\ ~ IsOpen(c.pos)
  BY <1>2, <1>5 DEF Flat, Quiet, Covered, IsOpen
<1>7. Follows(b, c)
  BY <1>2, <1>3, <1>4, <1>5 DEF Follows, Shrunk, IsOpen
<1>. QED BY <1>3, <1>5, <1>6, <1>7 DEF BookInv

\* One row set to CANCELED.
LEMMA OneCanceledType ==
    ASSUME NEW os \in Seq(Order), NEW i \in DOMAIN os
    PROVE  LET f == [os EXCEPT ![i].status = "CANCELED"]
           IN  /\ f \in Seq(Order) /\ Len(f) = Len(os) /\ DOMAIN f = DOMAIN os
               /\ \A j \in DOMAIN os : SameOrder(os[j], f[j])
               /\ \A j \in DOMAIN os : j # i => f[j] = os[j]
<1> DEFINE f == [os EXCEPT ![i].status = "CANCELED"]
<1>1. f = [j \in DOMAIN os |-> IF j = i THEN [os[i] EXCEPT !.status = "CANCELED"] ELSE os[j]]
  OBVIOUS
<1>2. \A j \in DOMAIN os : os[j] \in Order
  OBVIOUS
<1>3. "CANCELED" \in OrderStatus
  BY DEF OrderStatus
<1>4. SameOrder(os[i], [os[i] EXCEPT !.status = "CANCELED"])
  BY <1>2, <1>3, StatusType
<1> HIDE DEF f
<1>5. \A j \in DOMAIN os : SameOrder(os[j], f[j]) /\ (j # i => f[j] = os[j])
  BY <1>1, <1>2, <1>4 DEF SameOrder
<1>6. f = [j \in DOMAIN os |-> f[j]]
  BY <1>1
<1>7. f \in Seq(Order) /\ Len(f) = Len(os) /\ DOMAIN f = DOMAIN os
  BY <1>5, <1>6, RowsType
<1>. QED BY <1>5, <1>7 DEF f

\* Canceling a pending entry keeps the invariant and closes the trade.
LEMMA EntryVoidedOK ==
    ASSUME NEW b, BookInv(b), b.pos.phase = "entry_pending"
    PROVE  LET c == EntryVoided(b)
           IN  BookInv(c) /\ Follows(b, c) /\ Covered(c) /\ ~ IsOpen(c.pos)
<1> DEFINE S == Live \cup {"PENDING"}
           g == CanceledIn(b.ords, S)
           f == [g EXCEPT ![b.pos.root].status = "CANCELED"]
<1>1. BookType(b) /\ b.ords \in Seq(Order) /\ b.pos.root \in DOMAIN b.ords
  BY BookParts DEF BookInv, BookType, Roots
<1>2. /\ g \in Seq(Order) /\ Len(g) = Len(b.ords) /\ DOMAIN g = DOMAIN b.ords
      /\ \A i \in DOMAIN b.ords : SameOrder(b.ords[i], g[i])
  BY <1>1, CanceledInType
<1> HIDE DEF g
<1>3. /\ f \in Seq(Order) /\ Len(f) = Len(g) /\ \A j \in DOMAIN g : SameOrder(g[j], f[j])
  BY <1>1, <1>2, OneCanceledType
<1> HIDE DEF f
<1>4. \A i \in DOMAIN b.ords : SameOrder(b.ords[i], f[i])
  BY <1>2, <1>3 DEF SameOrder
<1>5. EntryVoided(b) = [pos |-> Voided(b.pos), ords |-> f]
  BY DEF EntryVoided, f, g
<1>. QED BY <1>2, <1>3, <1>4, <1>5, VoidedBook

\* cancel_recent_order does not read the position back, so it must leave nothing to reconcile.
LEMMA OrderCanceledOK ==
    ASSUME NEW b, BookInv(b), Triggered(b) = {}, NEW i \in Roots(b.ords)
    PROVE  LET c == OrderCanceled(b, i)
           IN  /\ BookInv(c) /\ Follows(b, c) /\ Triggered(c) = {}
               /\ Covered(b) => Covered(c)
<1> DEFINE S == Live \cup {"PENDING"}
           f == [b.ords EXCEPT ![i].status = "CANCELED"]
           g == CanceledIn(f, S)
           c == OrderCanceled(b, i)
           d == [pos |-> b.pos, ords |-> f]
<1>1. /\ BookType(b) /\ b.ords \in Seq(Order) /\ b.pos \in Position /\ i \in DOMAIN b.ords
      /\ DOMAIN b.ords = 1..Len(b.ords) /\ b = [pos |-> b.pos, ords |-> b.ords]
  BY BookParts DEF BookInv, Roots
<1>2. b.pos.phase # "none" /\ b.pos.root \in DOMAIN b.ords /\ b.ords[i].type = "ENTRY"
  BY <1>1 DEF BookInv, BookType, Roots
<1>3. f = [j \in DOMAIN b.ords |-> IF j = i THEN [b.ords[i] EXCEPT !.status = "CANCELED"] ELSE b.ords[j]]
  BY <1>1
<1>5. f[i].status = "CANCELED"
  <2>1. b.ords[i] \in Order
    BY <1>1
  <2>2. [b.ords[i] EXCEPT !.status = "CANCELED"].status = "CANCELED"
    BY <2>1 DEF Order
  <2>. QED BY <1>1, <1>3, <2>2
<1>6. /\ f \in Seq(Order) /\ Len(f) = Len(b.ords) /\ DOMAIN f = DOMAIN b.ords
      /\ \A j \in DOMAIN b.ords : SameOrder(b.ords[j], f[j])
      /\ \A j \in DOMAIN b.ords : j # i => f[j] = b.ords[j]
  BY <1>1, OneCanceledType
<1> HIDE DEF f
<1>4. [b EXCEPT !.ords = f] = d
  BY <1>1
<1>7. /\ g \in Seq(Order) /\ Len(g) = Len(f) /\ \A j \in DOMAIN f : SameOrder(f[j], g[j])
  BY <1>6, CanceledInType
<1>8. CASE i = b.pos.root /\ b.pos.phase = "entry_pending"
  <2>1. c = [pos |-> Voided(b.pos), ords |-> g]
    BY <1>8 DEF OrderCanceled, f, g
  <2>2. Len(g) = Len(b.ords) /\ \A j \in DOMAIN b.ords : SameOrder(b.ords[j], g[j])
    BY <1>6, <1>7 DEF SameOrder
  <2> HIDE DEF g
  <2>3. BookInv([pos |-> Voided(b.pos), ords |-> g]) /\ Follows(b, [pos |-> Voided(b.pos), ords |-> g])
        /\ Covered([pos |-> Voided(b.pos), ords |-> g])
    BY <1>7, <1>8, <2>2, VoidedBook
  <2>4. \A j \in DOMAIN f : g[j].status \notin Live
    <3>1. \A j \in DOMAIN f : f[j].status \in S => g[j].status = "CANCELED"
      BY <1>6, CanceledInType DEF g
    <3>2. \A j \in DOMAIN f : f[j].status \notin S => g[j] = f[j]
      BY <1>6, CanceledInType DEF g
    <3>. QED BY <3>1, <3>2 DEF Live
  <2>5. DOMAIN g = DOMAIN f
    BY <1>6, <1>7
  <2>6. Triggered([pos |-> Voided(b.pos), ords |-> g]) = {}
    BY <2>4, <2>5 DEF Triggered
  <2>. QED BY <2>1, <2>3, <2>6
<1>9. CASE ~ (i = b.pos.root /\ b.pos.phase = "entry_pending")
  <2>1. c = d
    BY <1>4, <1>9 DEF OrderCanceled, f
  <2>2. BookType(d) /\ Roots(b.ords) = Roots(f)
    <3>1. b.pos.phase # "none" /\ b.pos.root = b.pos.root /\ b.pos.qty = b.pos.qty
      BY <1>2
    <3>. QED BY <1>1, <1>6, <3>1, RewrittenBook
  <2>3. d.pos = b.pos /\ d.ords = f
    OBVIOUS
  <2> HIDE DEF d
  <2>4. Flat(d)
    BY <2>3 DEF BookInv, Flat
  <2>5. ~ HasLive(b.ords, ExitTypes) => ~ HasLive(f, ExitTypes)
    BY <1>5, <1>6 DEF HasLive, SameOrder, Live
  <2>6. Quiet(d)
    BY <1>2, <1>6, <1>9, <2>3, <2>5 DEF BookInv, Quiet
  <2>7. Follows(b, d)
    BY <2>2, <2>3 DEF Follows, Shrunk
  <2>8. Triggered(d) = {}
    <3>1. SUFFICES ASSUME NEW j \in Triggered(d) PROVE FALSE
      OBVIOUS
    <3>2. j \in DOMAIN f /\ f[j].status \in Live /\ j # i
      BY <1>5, <2>3 DEF Triggered, Live
    <3>3. f[j] = b.ords[j] /\ j \in DOMAIN b.ords
      BY <1>6, <3>2
    <3>4. j \in Triggered(b)
      BY <2>3, <3>3 DEF Triggered
    <3>. QED BY <3>4
  <2>9. Covered(b) => Covered(d)
    <3>1. \A j \in DOMAIN b.ords : b.ords[j].type \in ExitTypes => j # i
      BY <1>2 DEF ExitTypes
    <3>2. TradeExits(d) = TradeExits(b)
      BY <1>6, <2>3 DEF TradeExits, SameOrder
    <3>3. \A j \in TradeExits(b) : d.ords[j] = b.ords[j]
      BY <1>6, <2>3, <3>1 DEF TradeExits
    <3>4. {j \in TradeExits(d) : d.ords[j].status \in Live} = {j \in TradeExits(b) : b.ords[j].status \in Live}
      BY <3>2, <3>3
    <3>5. LiveCover(b) \subseteq LiveCover(d)
      <4>1. SUFFICES ASSUME NEW j \in TradeExits(b), b.ords[j].status \in Live, NEW t \in Sells(b.ords[j])
                     PROVE  t \in LiveCover(d)
        BY DEF LiveCover
      <4>2. j \in TradeExits(d) /\ d.ords[j].status \in Live /\ t \in Sells(d.ords[j])
        BY <3>2, <3>3, <4>1
      <4>. QED BY <4>2 DEF LiveCover
    <3>. QED BY <2>3, <3>2, <3>5 DEF Covered
  <2>. QED BY <2>1, <2>2, <2>4, <2>6, <2>7, <2>8, <2>9 DEF BookInv
<1>. QED BY <1>8, <1>9

\* A new price keeps the invariant.
LEMMA TickOK ==
    ASSUME NEW b, BookInv(b), b.pos.phase # "none", NEW live \in Int
    PROVE  LET c == [b EXCEPT !.pos.live = live]
           IN  BookInv(c) /\ Follows(b, c) /\ (Covered(b) => Covered(c))
<1> DEFINE p == [b.pos EXCEPT !.live = live]
           c == [b EXCEPT !.pos.live = live]
           d == [pos |-> p, ords |-> b.ords]
<1>1. /\ BookType(b) /\ b.ords \in Seq(Order) /\ b.pos \in Position
      /\ b = [pos |-> b.pos, ords |-> b.ords]
  BY BookParts DEF BookInv
<1>2. c = d
  BY <1>1
<1>3. /\ p \in Position /\ p.phase = b.pos.phase /\ p.root = b.pos.root /\ p.side = b.pos.side
      /\ p.entry = b.pos.entry /\ p.qty = b.pos.qty /\ p.st = b.pos.st
  BY <1>1 DEF Position
<1> HIDE DEF p
<1>4. BookType(d)
  <2>1. \A i \in DOMAIN b.ords : SameOrder(b.ords[i], b.ords[i])
    BY <1>1 DEF SameOrder
  <2>2. p.phase # "none" /\ p.root = b.pos.root /\ p.qty = b.pos.qty /\ Len(p.st) = Len(b.pos.st)
    BY <1>3
  <2>. QED BY <1>1, <1>3, <2>1, <2>2, RewrittenBook
<1>5. d.pos = p /\ d.ords = b.ords
  OBVIOUS
<1> HIDE DEF d
<1>6. Active(p) = Active(b.pos)
  BY <1>3 DEF Active
<1>7. Flat(d) /\ Quiet(d) /\ Follows(b, d)
  BY <1>3, <1>5, <1>6 DEF BookInv, Flat, Quiet, Follows, Shrunk, IsOpen
<1>8. Covered(b) => Covered(d)
  BY <1>3, <1>5, <1>6 DEF Covered, TradeExits, LiveCover
<1>. QED BY <1>2, <1>4, <1>7, <1>8 DEF BookInv, c

\* Canceling stale orders keeps their number and their types.
LEMMA StaleCanceledType ==
    ASSUME NEW b, BookType(b)
    PROVE  /\ StaleCanceled(b) \in Seq(Order) /\ Len(StaleCanceled(b)) = Len(b.ords)
           /\ DOMAIN StaleCanceled(b) = DOMAIN b.ords
           /\ \A i \in DOMAIN b.ords : SameOrder(b.ords[i], StaleCanceled(b)[i])
<1>1. b.ords \in Seq(Order) /\ \A i \in DOMAIN b.ords : b.ords[i] \in Order
  BY BookParts
<1>2. CASE Manageable(b.pos)
  BY <1>1, <1>2 DEF StaleCanceled, SameOrder
<1>3. CASE ~ Manageable(b.pos)
  BY <1>1, <1>3, CanceledInType DEF StaleCanceled
<1>. QED BY <1>2, <1>3

\* The parameters of an entry: at most three tranches, any quantities.
Asks(e, split, runner) == /\ e \in [side : Sides, entry : Int, live : Int]
                          /\ \E n \in TrancheIds : split \in [1..n -> Int] /\ runner \in SUBSET (1..n)

\* enter_trade starts a trade of its own: no row of the symbol yet belongs to its root.
LEMMA EnteredOK ==
    ASSUME NEW b, BookInv(b), ~ HasLive(StaleCanceled(b), OrderTypes),
           NEW e, NEW split, NEW runner, Asks(e, split, runner), NEW outcome,
           NEW c, c = Entered(b, e, split, runner, outcome)
    PROVE  /\ BookInv(c) /\ Covered(c)
           /\ Roots(b.ords) \subseteq Roots(c.ords) /\ Len(b.ords) + 1 \in Roots(c.ords)
           /\ c.pos.root = Len(b.ords) + 1 /\ IsOpen(c.pos) /\ Triggered(c) = {}
           /\ ~ HasLive(c.ords, ExitTypes) /\ c.pos.qty = split /\ Len(c.ords) = Len(b.ords) + 1
           /\ outcome = "filled" => c.pos.phase = "trade_entered"
           /\ outcome # "filled" => c.pos.phase = "entry_pending"
<1>0. PICK n \in TrancheIds : /\ e \in [side : Sides, entry : Int, live : Int]
                              /\ split \in [1..n -> Int] /\ runner \in SUBSET (1..n)
  BY DEF Asks
<1> DEFINE root == Len(b.ords) + 1
           os == StaleCanceled(b)
           o == [root |-> 0, type |-> "ENTRY", qty |-> 0, price |-> 0,
                 status |-> IF outcome = "filled" THEN "FILLED" ELSE "PENDING",
                 covered |-> {}, tranche |-> 0, bid |-> outcome = "stored"]
           st == [t \in 1..n |-> "active"]
           p == [phase |-> IF outcome = "filled" THEN "trade_entered" ELSE "entry_pending",
                 side |-> e.side, entry |-> e.entry, live |-> e.live, root |-> root,
                 st |-> st, qty |-> split, runner |-> runner]
           f == Append(os, o)
<1>1. /\ BookType(b) /\ b.ords \in Seq(Order) /\ Len(b.ords) \in Nat /\ DOMAIN b.ords = 1..Len(b.ords)
      /\ \A i \in DOMAIN b.ords : b.ords[i].root =< Len(b.ords) /\ b.ords[i].root \in Nat
  <2>1. BookType(b) /\ b.ords \in Seq(Order) /\ \A i \in DOMAIN b.ords : b.ords[i] \in Order
    BY BookParts DEF BookInv
  <2>2. Len(b.ords) \in Nat /\ DOMAIN b.ords = 1..Len(b.ords)
    BY BookParts DEF BookInv
  <2>. QED BY <2>1, <2>2 DEF BookType, Order
<1>2. /\ os \in Seq(Order) /\ Len(os) = Len(b.ords) /\ DOMAIN os = DOMAIN b.ords
      /\ \A i \in DOMAIN b.ords : SameOrder(b.ords[i], os[i])
  BY <1>1, StaleCanceledType
<1>3. n \in Nat /\ n =< 3 /\ 1..n \subseteq TrancheIds /\ 1..n # {}
  <2>1. n \in 1..3
    BY DEF TrancheIds
  <2>2. n \in Nat /\ 1 =< n /\ n =< 3
    BY <2>1
  <2>3. 1..n \subseteq 1..3
    BY <2>2
  <2>4. 1 \in 1..n
    BY <2>2
  <2>. QED BY <2>2, <2>3, <2>4 DEF TrancheIds
<1>4. split \in Seq(Int) /\ Len(split) = n /\ DOMAIN split = 1..n
  BY <1>0, <1>3
<1>5. st \in Seq(TrancheStatus) /\ Len(st) = n /\ DOMAIN st = 1..n /\ \A t \in 1..n : st[t] = "active"
  <2>1. st \in [1..n -> TrancheStatus]
    BY DEF TrancheStatus
  <2>2. DOMAIN st = 1..n /\ \A t \in 1..n : st[t] = "active"
    OBVIOUS
  <2> HIDE DEF st
  <2>. QED BY <1>3, <2>1, <2>2, FunctionIsSeq
<1>6. o \in Order /\ o.type = "ENTRY" /\ o.root = 0 /\ (outcome # "filled" => o.status = "PENDING")
  BY DEF Order, OrderTypes, OrderStatus
<1>7. c = [pos |-> p, ords |-> f]
  BY <1>4 DEF Entered, NextId
<1> HIDE DEF st, o, os
<1>8. p \in Position /\ p.root = root /\ p.st = st /\ p.qty = split /\ p.phase # "none" /\ p.phase # "closed"
      /\ p.phase = (IF outcome = "filled" THEN "trade_entered" ELSE "entry_pending")
  BY <1>0, <1>1, <1>3, <1>4, <1>5 DEF Position, Phases
<1> HIDE DEF p
<1>9. /\ f \in Seq(Order) /\ Len(f) = root /\ DOMAIN f = 1..root /\ f[root] = o
      /\ \A i \in DOMAIN b.ords : i \in DOMAIN f /\ f[i] = os[i]
      /\ \A i \in DOMAIN f : i \in DOMAIN b.ords \/ i = root
  BY <1>1, <1>2, <1>6
<1> HIDE DEF f
<1>10. root \in Roots(f) /\ Roots(b.ords) \subseteq Roots(f)
  BY <1>1, <1>2, <1>6, <1>9 DEF Roots, SameOrder
<1>11. \A i \in DOMAIN f : f[i].root =< Len(f) /\ (i \in DOMAIN b.ords => f[i].root # root)
  BY <1>1, <1>2, <1>6, <1>9 DEF SameOrder
<1>12. c.pos = p /\ c.ords = f
  BY <1>7
<1>13. BookType(c)
  <2>1. c \in [pos : Position, ords : Seq(Order)]
    BY <1>7, <1>8, <1>9
  <2>. QED BY <2>1, <1>3, <1>4, <1>5, <1>8, <1>10, <1>11, <1>12 DEF BookType
<1>14. Active(p) = DOMAIN p.st /\ Active(p) # {}
  BY <1>3, <1>5, <1>8 DEF Active
<1>15. Flat(c)
  BY <1>8, <1>12, <1>14 DEF Flat
<1>16. ~ HasLive(f, ExitTypes)
  BY <1>2, <1>6, <1>9 DEF HasLive, ExitTypes, OrderTypes, os
<1>17. Quiet(c)
  BY <1>6, <1>8, <1>9, <1>12, <1>14, <1>16 DEF Quiet, Unfilled
<1>18. TradeExits(c) = {}
  BY <1>6, <1>8, <1>9, <1>11, <1>12 DEF TradeExits, ExitTypes
<1>19. Triggered(c) = {}
  BY <1>12, <1>16 DEF Triggered, HasLive
<1>. QED BY <1>8, <1>9, <1>10, <1>12, <1>13, <1>15, <1>16, <1>17, <1>18, <1>19 DEF BookInv, Covered, IsOpen

----------------------------------------------------------------------------
(* What the rows of a book tell of its trade, and what they tell of a step *)
(* from one book to the next.                                              *)

\* Exit rows are live or done, filled ones of the trade are applied, live ones of a type are apart.
Tale(b) == /\ \A i \in DOMAIN b.ords : IF b.ords[i].type = "ENTRY" THEN b.ords[i].root = 0
                                       ELSE b.ords[i].status \in Live \cup Done
           /\ Applied(b) /\ Apart(b)

\* No row is brought back as it was: _reduce_stop_orders takes a tranche out of it.
Reworked(b, c) == \A i \in DOMAIN b.ords :
                    b.ords[i].status \notin Live /\ c.ords[i].status \in Live
                      => c.ords[i].covered # b.ords[i].covered

\* The rows of c account for every sale since b.
Tells(b, c) == Final(b, c) /\ SoldByFill(b, c) /\ Reworked(b, c)

\* A row o rewritten as q by a handler; more is kept of a row of the trade with root r.
Kept(r, o, q) ==
    /\ SameOrder(o, q)
    /\ q.status = o.status \/ q.status \in Live \cup Done
    /\ o.status \notin Live /\ q.status \in Live => q.covered # o.covered
    /\ o.root = r => /\ Sells(q) = Sells(o)
                     /\ o.status \in Done => q.status = o.status
                     /\ q.status = "FILLED" => o.status = "FILLED"
                     /\ q.status \in Live => o.status \in Live

\* Two rows that may not both be there.
Twins(o, q) == /\ o.type = q.type /\ o.status \in Live /\ q.status \in Live
               /\ Sells(o) \cap Sells(q) # {}

\* A row kept as it is.
LEMMA KeptSame == ASSUME NEW r, NEW o \in Order PROVE Kept(r, o, o)
BY DEF Kept, SameOrder, Live

\* A new status leaves what an order sells alone.
LEMMA StatusSells ==
    ASSUME NEW o \in Order, NEW s
    PROVE  /\ Sells([o EXCEPT !.status = s]) = Sells(o)
           /\ [o EXCEPT !.status = s].covered = o.covered
           /\ [o EXCEPT !.status = s].status = s
BY DEF Order, Sells

\* A row that is canceled, unless it is a done row of the trade.
LEMMA KeptCanceled ==
    ASSUME NEW r, NEW o \in Order, o.root = r => o.status \notin Done
    PROVE  Kept(r, o, [o EXCEPT !.status = "CANCELED"])
<1> DEFINE q == [o EXCEPT !.status = "CANCELED"]
<1>1. SameOrder(o, q) /\ q.status = "CANCELED"
  BY StatusType DEF OrderStatus
<1>2. Sells(q) = Sells(o) /\ q.covered = o.covered
  BY StatusSells
<1> HIDE DEF q
<1>3. Kept(r, o, q)
  BY <1>1, <1>2 DEF Kept, Live, Done
<1>. QED BY <1>3 DEF q

\* A handler that keeps the rows and adds rows of the trade keeps the tale, and tells its sales.
LEMMA Told ==
    ASSUME NEW b, BookType(b), Tale(b), b.pos.phase # "none",
           NEW c, c.pos.root = b.pos.root, Active(c.pos) \subseteq Active(b.pos),
           DOMAIN b.ords \subseteq DOMAIN c.ords,
           \A i \in DOMAIN b.ords : Kept(b.pos.root, b.ords[i], c.ords[i]),
           \A k \in DOMAIN c.ords \ DOMAIN b.ords :
             /\ c.ords[k].type # "ENTRY" /\ c.ords[k].status \in Live \cup Done
             /\ c.ords[k].status = "FILLED" => Sells(c.ords[k]) \cap Active(c.pos) = {}
             /\ \A i \in TradeExits(c) : i # k => ~ Twins(c.ords[k], c.ords[i]),
           \A t \in Active(b.pos) : c.pos.st[t] = "sold" =>
             \E k \in DOMAIN c.ords \ DOMAIN b.ords : c.ords[k].status = "FILLED" /\ t \in Sells(c.ords[k])
    PROVE  Tale(c) /\ Tells(b, c)
<1> DEFINE new == DOMAIN c.ords \ DOMAIN b.ords
<1>1. \A i \in DOMAIN c.ords : IF c.ords[i].type = "ENTRY" THEN c.ords[i].root = 0
                               ELSE c.ords[i].status \in Live \cup Done
  BY DEF Tale, Kept, SameOrder
<1>2. Applied(c)
  <2>1. SUFFICES ASSUME NEW i \in Fills(c) PROVE Sells(c.ords[i]) \cap Active(c.pos) = {}
    BY DEF Applied
  <2>2. CASE i \in DOMAIN b.ords
    <3>1. b.ords[i].root = b.pos.root /\ b.ords[i].status = "FILLED" /\ Sells(c.ords[i]) = Sells(b.ords[i])
      BY <2>1, <2>2 DEF Fills, Kept, SameOrder
    <3>2. Sells(b.ords[i]) \cap Active(b.pos) = {}
      BY <2>2, <3>1 DEF Tale, Applied, Fills
    <3>. QED BY <3>1, <3>2
  <2>3. CASE i \notin DOMAIN b.ords
    BY <2>1, <2>3 DEF Fills
  <2>. QED BY <2>2, <2>3
<1>3. Apart(c)
  <2>1. SUFFICES ASSUME NEW i \in TradeExits(c), NEW j \in TradeExits(c), i # j, Twins(c.ords[i], c.ords[j])
                 PROVE  FALSE
    BY DEF Apart, Twins
  <2>2. i \in DOMAIN c.ords /\ j \in DOMAIN c.ords
    BY DEF TradeExits
  <2>3. i \in DOMAIN b.ords /\ j \in DOMAIN b.ords
    BY <2>1, <2>2 DEF Twins
  <2>4. \A k \in {i, j} : /\ k \in TradeExits(b) /\ b.ords[k].type = c.ords[k].type
                          /\ b.ords[k].status \in Live /\ Sells(c.ords[k]) = Sells(b.ords[k])
    BY <2>1, <2>3 DEF TradeExits, Kept, SameOrder, Twins
  <2>. QED BY <2>1, <2>4 DEF Tale, Apart, Twins
<1>4. Final(b, c)
  BY DEF Final, Kept
<1>5. SoldByFill(b, c)
  BY DEF SoldByFill, FillsIn
<1>6. Reworked(b, c)
  BY DEF Reworked, Kept
<1>. QED BY <1>1, <1>2, <1>3, <1>4, <1>5, <1>6 DEF Tale, Tells

\* Reading a book back adds fills that are applied at once, and they are told.
LEMMA ReadBackTold ==
    ASSUME NEW b, BookType(b), NEW c, BookType(c), Tale(c), Tells(b, c), DOMAIN b.ords \subseteq DOMAIN c.ords,
           c.pos.root = b.pos.root => DOMAIN b.pos.st \subseteq DOMAIN c.pos.st
    PROVE  LET d == Reconcile(c) IN Tale(d) /\ Final(b, d) /\ SoldByFill(b, d)
<1> DEFINE hit == Triggered(c)
           T == SoldBy(c, hit)
           d == Reconcile(c)
<1>1. /\ d.pos = Settled(c.pos, T) /\ d.ords = FilledRows(c.ords, hit)
      /\ T \in SUBSET Active(c.pos) /\ c.pos \in Position /\ c.ords \in Seq(Order)
  BY ReconcileParts
<1>2. /\ d.pos.root = c.pos.root /\ Active(d.pos) = Active(c.pos) \ T
      /\ DOMAIN d.pos.st = DOMAIN c.pos.st
      /\ \A t \in DOMAIN c.pos.st : c.pos.st[t] # "active" => d.pos.st[t] = c.pos.st[t]
  BY <1>1, SettledType
<1>3. /\ DOMAIN d.ords = DOMAIN c.ords
      /\ \A i \in DOMAIN c.ords : /\ SameOrder(c.ords[i], d.ords[i])
                                  /\ i \in hit => d.ords[i].status = "FILLED"
                                  /\ i \notin hit => d.ords[i] = c.ords[i]
  BY <1>1, FilledRowsType
<1>4. \A i \in DOMAIN c.ords : Sells(d.ords[i]) = Sells(c.ords[i])
  <2>1. SUFFICES ASSUME NEW i \in DOMAIN c.ords PROVE Sells(d.ords[i]) = Sells(c.ords[i])
    OBVIOUS
  <2>2. c.ords[i] \in Order
    BY <1>1
  <2>3. d.ords[i] = IF i \in hit THEN [c.ords[i] EXCEPT !.status = "FILLED"] ELSE c.ords[i]
    BY <1>1 DEF FilledRows
  <2>. QED BY <2>2, <2>3, StatusSells
<1>5. hit \subseteq DOMAIN c.ords /\ \A i \in hit : c.ords[i].status \in Live /\ c.ords[i].type \in ExitTypes
  BY DEF Triggered
<1>6. \A i \in hit : Sells(c.ords[i]) \cap Active(c.pos) \subseteq T
  BY DEF SoldBy
<1>7. \A t \in T : \E i \in hit : t \in Sells(c.ords[i])
  BY DEF SoldBy
<1> HIDE DEF hit, T, d
<1>8. Tale(d)
  <2>1. \A i \in DOMAIN d.ords : IF d.ords[i].type = "ENTRY" THEN d.ords[i].root = 0
                                 ELSE d.ords[i].status \in Live \cup Done
    BY <1>3 DEF Tale, SameOrder, Done
  <2>2. Applied(d)
    <3>1. SUFFICES ASSUME NEW i \in Fills(d) PROVE Sells(d.ords[i]) \cap Active(d.pos) = {}
      BY DEF Applied
    <3>2. CASE i \in hit
      BY <1>2, <1>4, <1>5, <1>6, <3>2
    <3>3. CASE i \notin hit
      <4>1. i \in Fills(c) /\ d.ords[i] = c.ords[i]
        BY <1>2, <1>3, <3>1, <3>3 DEF Fills
      <4>. QED BY <1>2, <4>1 DEF Tale, Applied
    <3>. QED BY <3>2, <3>3
  <2>3. Apart(d)
    <3>1. SUFFICES ASSUME NEW i \in TradeExits(d), NEW j \in TradeExits(d), i # j, Twins(d.ords[i], d.ords[j])
                   PROVE  FALSE
      BY DEF Apart, Twins
    <3>2. i \notin hit /\ j \notin hit
      BY <1>3, <1>5, <3>1 DEF Twins, Live
    <3>3. i \in TradeExits(c) /\ j \in TradeExits(c) /\ d.ords[i] = c.ords[i] /\ d.ords[j] = c.ords[j]
      BY <1>2, <1>3, <3>2 DEF TradeExits
    <3>. QED BY <3>1, <3>3 DEF Tale, Apart, Twins
  <2>. QED BY <2>1, <2>2, <2>3 DEF Tale
<1>9. Final(b, d)
  <2>1. SUFFICES ASSUME NEW i \in DOMAIN b.ords, b.ords[i].status \in Done, b.ords[i].root = d.pos.root
                 PROVE  d.ords[i].status = b.ords[i].status
    BY DEF Final
  <2>2. i \in DOMAIN c.ords /\ c.ords[i].status = b.ords[i].status
    BY <1>2, <2>1 DEF Tells, Final
  <2>3. i \notin hit
    BY <1>5, <2>1, <2>2 DEF Live, Done
  <2>. QED BY <1>3, <2>2, <2>3
<1>10. SoldByFill(b, d)
  <2>1. SUFFICES ASSUME NEW t \in Active(b.pos), d.pos.root = b.pos.root, d.pos.st[t] = "sold"
                 PROVE  \E i \in FillsIn(b, d) : t \in Sells(d.ords[i])
    BY DEF SoldByFill
  <2>2. t \in DOMAIN c.pos.st
    BY <1>2, <2>1 DEF Active
  <2>3. CASE c.pos.st[t] = "active"
    <3>1. t \in T
      BY <1>2, <2>1, <2>2, <2>3 DEF Active
    <3>2. PICK i \in hit : t \in Sells(c.ords[i])
      BY <1>7, <3>1
    <3>3. d.ords[i].status = "FILLED" /\ t \in Sells(d.ords[i]) /\ i \in DOMAIN d.ords /\ c.ords[i].status \in Live
      BY <1>3, <1>4, <1>5, <3>2
    <3>4. i \in DOMAIN b.ords => d.ords[i] # b.ords[i]
      <4>1. SUFFICES ASSUME i \in DOMAIN b.ords, d.ords[i] = b.ords[i] PROVE FALSE
        OBVIOUS
      <4>2. c.ords[i].covered # b.ords[i].covered
        BY <3>3, <4>1 DEF Tells, Reworked, Live
      <4>3. d.ords[i].covered = c.ords[i].covered
        <5>1. c.ords[i] \in Order
          BY <1>1, <1>5
        <5>2. d.ords[i] = [c.ords[i] EXCEPT !.status = "FILLED"]
          BY <1>1, <1>5 DEF FilledRows
        <5>. QED BY <5>1, <5>2, StatusSells
      <4>. QED BY <4>1, <4>2, <4>3
    <3>. QED BY <3>3, <3>4 DEF FillsIn
  <2>4. CASE c.pos.st[t] # "active"
    <3>1. c.pos.st[t] = "sold" /\ c.pos.root = b.pos.root
      BY <1>2, <2>1, <2>2, <2>4
    <3>2. PICK i \in FillsIn(b, c) : t \in Sells(c.ords[i])
      BY <3>1 DEF Tells, SoldByFill
    <3>3. i \in DOMAIN c.ords /\ c.ords[i].status \in {"FILLED", "PARTIALLY_FILLED"}
      BY <3>2 DEF FillsIn
    <3>4. i \notin hit
      BY <1>5, <3>3 DEF Live
    <3>. QED BY <1>3, <3>2, <3>4 DEF FillsIn
  <2>. QED BY <2>3, <2>4
<1>. QED BY <1>8, <1>9, <1>10 DEF d

\* The rows that a handler rewrites, then those it adds.
LEMMA ToldMore ==
    ASSUME NEW b, BookType(b), Tale(b), b.pos.phase # "none",
           NEW p, p.root = b.pos.root, Active(p) \subseteq Active(b.pos),
           NEW f \in Seq(Order), DOMAIN f = DOMAIN b.ords,
           \A i \in DOMAIN b.ords : Kept(b.pos.root, b.ords[i], f[i]),
           NEW g \in Seq(Order),
           \A k \in DOMAIN g : /\ g[k].type # "ENTRY" /\ g[k].status \in Live \cup Done
                               /\ g[k].status = "FILLED" => Sells(g[k]) \cap Active(p) = {},
           \A j, k \in DOMAIN g : j # k => ~ Twins(g[k], g[j]),
           \A k \in DOMAIN g : \A i \in DOMAIN f : f[i].type \in ExitTypes /\ f[i].root = p.root => ~ Twins(g[k], f[i]),
           \A t \in Active(b.pos) : p.st[t] = "sold" =>
             \E k \in DOMAIN g : g[k].status = "FILLED" /\ t \in Sells(g[k])
    PROVE  LET c == [pos |-> p, ords |-> f \o g]
           IN  Tale(c) /\ Tells(b, c) /\ DOMAIN b.ords \subseteq DOMAIN c.ords
<1> DEFINE os == f \o g
           c == [pos |-> p, ords |-> os]
           n == Len(f)
<1>1. /\ n \in Nat /\ DOMAIN f = 1..n /\ DOMAIN g \subseteq Nat \ {0}
  OBVIOUS
<1>2. /\ DOMAIN f \subseteq DOMAIN os
      /\ \A i \in DOMAIN f : os[i] = f[i]
      /\ \A k \in DOMAIN g : n + k \in DOMAIN os /\ os[n + k] = g[k]
      /\ \A i \in DOMAIN os : \/ i \in DOMAIN f
                              \/ i - n \in DOMAIN g /\ os[i] = g[i - n]
      /\ DOMAIN os \subseteq Int
  BY MoreRows
<1>3. c.pos = p /\ c.ords = os
  OBVIOUS
<1> HIDE DEF os, n, c
<1>4. ASSUME NEW k \in DOMAIN os \ DOMAIN b.ords
      PROVE  /\ os[k].type # "ENTRY" /\ os[k].status \in Live \cup Done
             /\ os[k].status = "FILLED" => Sells(os[k]) \cap Active(p) = {}
             /\ \A i \in TradeExits(c) : i # k => ~ Twins(os[k], os[i])
  <2>1. k - n \in DOMAIN g /\ os[k] = g[k - n] /\ k \in Int
    BY <1>2, <1>4
  <2>2. ASSUME NEW i \in TradeExits(c), i # k PROVE ~ Twins(os[k], os[i])
    <3>1. i \in DOMAIN os /\ os[i].root = p.root /\ os[i].type \in ExitTypes
      BY <1>3, <2>2 DEF TradeExits
    <3>2. CASE i \in DOMAIN f
      BY <1>2, <2>1, <3>1, <3>2
    <3>3. CASE i \notin DOMAIN f
      <4>1. i - n \in DOMAIN g /\ os[i] = g[i - n] /\ i \in Int
        BY <1>2, <3>1, <3>3
      <4>2. i - n # k - n
        BY <1>1, <2>1, <2>2, <4>1
      <4>. QED BY <2>1, <4>1, <4>2
    <3>. QED BY <3>2, <3>3
  <2>. QED BY <2>1, <2>2
<1>5. ASSUME NEW t \in Active(b.pos), p.st[t] = "sold"
      PROVE  \E k \in DOMAIN os \ DOMAIN b.ords : os[k].status = "FILLED" /\ t \in Sells(os[k])
  <2>1. PICK k \in DOMAIN g : g[k].status = "FILLED" /\ t \in Sells(g[k])
    BY <1>5
  <2>2. n + k \in DOMAIN os /\ os[n + k] = g[k] /\ n + k \notin DOMAIN f
    BY <1>1, <1>2
  <2>. QED BY <2>1, <2>2
<1>6. \A i \in DOMAIN b.ords : Kept(b.pos.root, b.ords[i], os[i])
  BY <1>2
<1>7. DOMAIN b.ords \subseteq DOMAIN c.ords
  BY <1>2, <1>3
<1>8. Tale(c) /\ Tells(b, c)
  BY <1>3, <1>4, <1>5, <1>6, <1>7, Told
<1>. QED BY <1>7, <1>8 DEF c, os

\* The rows that a handler rewrites when it adds none.
LEMMA ToldSame ==
    ASSUME NEW b, BookType(b), Tale(b), b.pos.phase # "none",
           NEW p, p.root = b.pos.root, Active(p) \subseteq Active(b.pos),
           NEW f, DOMAIN f = DOMAIN b.ords,
           \A i \in DOMAIN b.ords : Kept(b.pos.root, b.ords[i], f[i]),
           \A t \in Active(b.pos) : p.st[t] # "sold"
    PROVE  LET c == [pos |-> p, ords |-> f]
           IN  Tale(c) /\ Tells(b, c) /\ DOMAIN b.ords \subseteq DOMAIN c.ords
<1> DEFINE c == [pos |-> p, ords |-> f]
<1>1. c.pos = p /\ c.ords = f
  OBVIOUS
<1> HIDE DEF c
<1>2. DOMAIN c.ords \ DOMAIN b.ords = {}
  BY <1>1
<1>3. Tale(c) /\ Tells(b, c)
  BY <1>1, <1>2, Told
<1>. QED BY <1>1, <1>3 DEF c

----------------------------------------------------------------------------
Once(s) == \A j, k \in DOMAIN s : s[j] = s[k] => j = k

\* Two lists without repetition that share nothing make one without repetition.
LEMMA ConcatOnce ==
    ASSUME NEW S, NEW x \in Seq(S), NEW R, NEW y \in Seq(R), Once(x), Once(y), S \cap R = {}
    PROVE  Once(x \o y) /\ x \o y \in Seq(S \cup R)
<1> DEFINE z == x \o y
<1>1. x \in Seq(S \cup R) /\ y \in Seq(S \cup R)
  OBVIOUS
<1>2. z \in Seq(S \cup R)
  BY <1>1
<1>3. /\ Len(x) \in Nat /\ Len(y) \in Nat
      /\ DOMAIN x = 1..Len(x) /\ DOMAIN y = 1..Len(y) /\ DOMAIN z = 1..(Len(x) + Len(y))
      /\ \A i \in 1..(Len(x) + Len(y)) : z[i] = IF i =< Len(x) THEN x[i] ELSE y[i - Len(x)]
  BY <1>1
<1>4. (\A i \in DOMAIN x : x[i] \in S) /\ (\A i \in DOMAIN y : y[i] \in R)
  OBVIOUS
<1> HIDE DEF z
<1>5. ASSUME NEW j \in DOMAIN z, NEW k \in DOMAIN z, z[j] = z[k] PROVE j = k
  <2>1. CASE j =< Len(x) /\ k =< Len(x)
    BY <1>3, <1>5, <2>1 DEF Once
  <2>2. CASE j > Len(x) /\ k > Len(x)
    <3>1. j - Len(x) \in DOMAIN y /\ k - Len(x) \in DOMAIN y /\ y[j - Len(x)] = y[k - Len(x)]
      BY <1>3, <1>5, <2>2
    <3>2. j - Len(x) = k - Len(x)
      BY <3>1 DEF Once
    <3>. QED BY <1>3, <3>2
  <2>3. CASE j =< Len(x) /\ k > Len(x)
    BY <1>3, <1>4, <1>5, <2>3
  <2>4. CASE j > Len(x) /\ k =< Len(x)
    BY <1>3, <1>4, <1>5, <2>4
  <2>. QED BY <1>3, <2>1, <2>2, <2>3, <2>4
<1>. QED BY <1>2, <1>5 DEF Once, z

\* One tranche or none is a list without repetition.
LEMMA OneOnce ==
    ASSUME NEW T, NEW t
    PROVE  LET s == IF t \in T THEN <<t>> ELSE <<>> IN s \in Seq({t}) /\ Once(s)
<1>1. <<t>> \in Seq({t}) /\ Once(<<t>>)
  BY DEF Once
<1>2. <<>> \in Seq({t}) /\ Once(<<>>)
  BY DEF Once
<1>. QED BY <1>1, <1>2

\* A listed set names each of its members once.
LEMMA ListedOnce == ASSUME NEW T PROVE Once(Listed(T))
<1> DEFINE one(t) == IF t \in T THEN <<t>> ELSE <<>>
<1>1. \A t \in TrancheIds : one(t) \in Seq({t}) /\ Once(one(t))
  BY OneOnce
<1> HIDE DEF one
<1>a. /\ one(1) \in Seq({1}) /\ one(2) \in Seq({2}) /\ one(3) \in Seq({3})
      /\ Once(one(1)) /\ Once(one(2)) /\ Once(one(3))
  BY <1>1 DEF TrancheIds
<1>2. Once(one(1) \o one(2)) /\ one(1) \o one(2) \in Seq({1} \cup {2})
  <2>1. {1} \cap {2} = {}
    OBVIOUS
  <2>. QED BY <1>a, <2>1, ConcatOnce
<1>3. Once((one(1) \o one(2)) \o one(3))
  <2>1. ({1} \cup {2}) \cap {3} = {}
    OBVIOUS
  <2>. QED BY <1>a, <1>2, <2>1, ConcatOnce
<1>. QED BY <1>3 DEF Listed, one

\* No tranche is in two stop groups (_stop_groups).
LEMMA GroupsApart ==
    ASSUME NEW p \in Position, DOMAIN p.st \subseteq TrancheIds, NEW mode,
           NEW j \in DOMAIN StopGroups(p, mode), NEW k \in DOMAIN StopGroups(p, mode), j # k
    PROVE  StopGroups(p, mode)[j] \cap StopGroups(p, mode)[k] = {}
<1> DEFINE act == ActiveList(p)
           mid == IF Len(act) \div 2 > 1 THEN Len(act) \div 2 ELSE 1
           low == {act[i] : i \in {x \in DOMAIN act : x =< mid}}
           high == {act[i] : i \in {x \in DOMAIN act : x > mid}}
<1>1. Len(act) \in Nat /\ DOMAIN act = 1..Len(act) /\ Once(act)
  BY ActiveListParts, ListedOnce DEF ActiveList
<1>2. StopGroups(p, mode) = IF mode = 1 THEN <<Active(p)>>
                            ELSE IF mode = 2 THEN <<low, high>> ELSE [i \in DOMAIN act |-> {act[i]}]
  BY DEF StopGroups
<1>3. mid \in Nat
  BY <1>1
<1> HIDE DEF act, mid
<1>4. low \cap high = {}
  BY <1>1, <1>3 DEF Once
<1> HIDE DEF low, high
<1>5. CASE mode = 1
  <2>1. StopGroups(p, mode) = <<Active(p)>>
    BY <1>2, <1>5
  <2>2. DOMAIN StopGroups(p, mode) = {1}
    BY <2>1
  <2>. QED BY <2>2
<1>6. CASE mode # 1 /\ mode = 2
  <2>1. StopGroups(p, mode) = <<low, high>>
    BY <1>2, <1>6
  <2>. QED BY <2>1, <1>4
<1>7. CASE mode # 1 /\ mode # 2
  <2>1. StopGroups(p, mode) = [i \in DOMAIN act |-> {act[i]}]
    BY <1>2, <1>7
  <2>. QED BY <2>1, <1>1 DEF Once
<1>. QED BY <1>5, <1>6, <1>7

----------------------------------------------------------------------------
\* apply_stops finds no live stop, and its groups share no tranche.
LEMMA StopsAppliedTold ==
    ASSUME NEW b, BookInv(b), Tale(b), Filled(b.pos), ~ HasLive(StaleCanceled(b), {"STOP"}),
           NEW mode, NEW price, \A k \in DOMAIN StopGroups(b.pos, mode) : price[k] \in Int
    PROVE  LET c == StopsApplied(b, StopGroups(b.pos, mode), price)
           IN  Tale(c) /\ Tells(b, c) /\ DOMAIN b.ords \subseteq DOMAIN c.ords
<1> DEFINE groups == StopGroups(b.pos, mode)
           p == [b.pos EXCEPT !.phase = "protected"]
           row(k) == [root |-> b.pos.root, type |-> "STOP", qty |-> QtyOf(b.pos, groups[k]),
                      price |-> price[k], status |-> "ACTIVE", covered |-> groups[k],
                      tranche |-> 0, bid |-> FALSE]
           new == [k \in DOMAIN groups |-> row(k)]
           c == StopsApplied(b, groups, price)
<1>1. c = [pos |-> p, ords |-> b.ords \o new]
  BY DEF StopsApplied
<1>2. /\ BookType(b) /\ b.pos \in Position /\ b.ords \in Seq(Order)
      /\ b.pos.phase \notin {"none", "closed", "entry_pending"} /\ b.pos.root \in Nat
      /\ Active(b.pos) \subseteq DOMAIN b.pos.st /\ DOMAIN b.pos.qty = DOMAIN b.pos.st
      /\ DOMAIN b.pos.st \subseteq TrancheIds
  BY FilledParts
<1>3. PICK n \in Nat : groups \in [1..n -> SUBSET Active(b.pos)]
  BY <1>2, GroupsParts
<1>4. \A j, k \in DOMAIN groups : j # k => groups[j] \cap groups[k] = {}
  BY <1>2, GroupsApart
<1>5. \A k \in DOMAIN groups : price[k] \in Int
  OBVIOUS
<1> HIDE DEF groups
<1>6. ASSUME NEW k \in 1..n PROVE row(k) \in Order
  <2>1. groups[k] \in SUBSET TrancheIds /\ groups[k] \in SUBSET DOMAIN b.pos.qty /\ k \in DOMAIN groups
    BY <1>2, <1>3
  <2>2. QtyOf(b.pos, groups[k]) \in Int /\ price[k] \in Int
    BY <2>1, <1>2, <1>5, QtyOfType
  <2>. QED BY <2>1, <2>2, <1>2 DEF Order, OrderTypes, OrderStatus
<1>7. new \in Seq(Order) /\ DOMAIN new = DOMAIN groups
  <2>1. new \in [1..n -> Order]
    BY <1>3, <1>6
  <2>. QED BY <2>1, <1>3, FunctionIsSeq
<1>8. \A k \in DOMAIN groups : /\ new[k].type = "STOP" /\ new[k].status = "ACTIVE"
                               /\ new[k].covered = groups[k] /\ new[k].tranche = 0
  OBVIOUS
<1> HIDE DEF new
<1>9. \A k \in DOMAIN groups : Sells(new[k]) \subseteq groups[k]
  BY <1>8 DEF Sells
<1>10. \A j, k \in DOMAIN new : j # k => ~ Twins(new[k], new[j])
  BY <1>4, <1>7, <1>9 DEF Twins
<1>11. \A i \in DOMAIN b.ords : ~ (b.ords[i].type = "STOP" /\ b.ords[i].status \in Live)
  BY DEF StaleCanceled, Filled, HasLive
<1>12. \A k \in DOMAIN new : \A i \in DOMAIN b.ords : ~ Twins(new[k], b.ords[i])
  BY <1>7, <1>8, <1>11 DEF Twins
<1>13. \A k \in DOMAIN new : new[k].type # "ENTRY" /\ new[k].status \in Live /\ new[k].status # "FILLED"
  BY <1>7, <1>8 DEF Live
<1>14. \A i \in DOMAIN b.ords : Kept(b.pos.root, b.ords[i], b.ords[i])
  BY <1>2, KeptSame
<1>15. p.root = b.pos.root /\ p.st = b.pos.st /\ Active(p) = Active(b.pos)
  BY <1>2 DEF Position, Active
<1> HIDE DEF p
<1>16. \A t \in Active(b.pos) : p.st[t] # "sold"
  BY <1>15 DEF Active
<1> DEFINE d == [pos |-> p, ords |-> b.ords \o new]
<1>17. Tale(d) /\ Tells(b, d) /\ DOMAIN b.ords \subseteq DOMAIN d.ords
  <2>1. \A k \in DOMAIN new : /\ new[k].type # "ENTRY" /\ new[k].status \in Live \cup Done
                              /\ new[k].status = "FILLED" => Sells(new[k]) \cap Active(p) = {}
    BY <1>13
  <2>2. b.pos.phase # "none" /\ p.root = b.pos.root /\ Active(p) \subseteq Active(b.pos)
    BY <1>2, <1>15
  <2>3. \A k \in DOMAIN new : \A i \in DOMAIN b.ords :
          b.ords[i].type \in ExitTypes /\ b.ords[i].root = p.root => ~ Twins(new[k], b.ords[i])
    BY <1>12
  <2>4. \A t \in Active(b.pos) : p.st[t] = "sold" =>
          \E k \in DOMAIN new : new[k].status = "FILLED" /\ t \in Sells(new[k])
    BY <1>16
  <2>. QED BY <1>2, <1>7, <1>10, <1>14, <2>1, <2>2, <2>3, <2>4, ToldMore
<1>. QED BY <1>1, <1>17 DEF groups

\* move_to_be moves the price of live stops and leaves the others alone.
LEMMA BrokenEvenTold ==
    ASSUME NEW b, BookInv(b), Tale(b), Filled(b.pos)
    PROVE  LET c == BrokenEven(b)
           IN  Tale(c) /\ Tells(b, c) /\ DOMAIN b.ords \subseteq DOMAIN c.ords
<1> DEFINE p == [b.pos EXCEPT !.phase = "protected"]
           f == [i \in DOMAIN b.ords |->
                   IF b.ords[i].type = "STOP" /\ b.ords[i].status \in Live
                   THEN [b.ords[i] EXCEPT !.price = b.pos.entry, !.status = "MODIFIED"]
                   ELSE b.ords[i]]
<1>1. BrokenEven(b) = [pos |-> p, ords |-> f]
  BY DEF BrokenEven
<1>2. BookType(b) /\ b.pos \in Position /\ b.ords \in Seq(Order) /\ b.pos.phase # "none"
  BY FilledParts
<1>3. ASSUME NEW i \in DOMAIN b.ords PROVE Kept(b.pos.root, b.ords[i], f[i])
  <2>1. b.ords[i] \in Order /\ b.pos.entry \in Int
    BY <1>2 DEF Position
  <2> DEFINE q == [b.ords[i] EXCEPT !.price = b.pos.entry, !.status = "MODIFIED"]
  <2>2. CASE b.ords[i].type = "STOP" /\ b.ords[i].status \in Live
    <3>1. f[i] = q
      BY <2>2
    <3>2. /\ SameOrder(b.ords[i], q) /\ q.status = "MODIFIED"
          /\ q.covered = b.ords[i].covered /\ q.tranche = b.ords[i].tranche
      BY <2>1 DEF Order, SameOrder, OrderStatus
    <3> HIDE DEF q, f
    <3>3. Sells(q) = Sells(b.ords[i])
      BY <3>2 DEF Sells
    <3>4. Kept(b.pos.root, b.ords[i], q)
      BY <2>2, <3>2, <3>3 DEF Kept, Live, Done
    <3>. QED BY <3>1, <3>4
  <2>3. CASE ~ (b.ords[i].type = "STOP" /\ b.ords[i].status \in Live)
    BY <2>1, <2>3, KeptSame
  <2>. QED BY <2>2, <2>3
<1>4. DOMAIN f = DOMAIN b.ords
  OBVIOUS
<1>5. p.root = b.pos.root /\ p.st = b.pos.st /\ Active(p) = Active(b.pos)
  BY <1>2 DEF Position, Active
<1> HIDE DEF p, f
<1>6. \A t \in Active(b.pos) : p.st[t] # "sold"
  BY <1>5 DEF Active
<1>. QED BY <1>1, <1>2, <1>3, <1>4, <1>5, <1>6, ToldSame

\* _reduce_stop_orders leaves a canceled order alone, one that is no stop, and one without the tranche.
LEMMA ReducedSame ==
    ASSUME NEW p, NEW sold, NEW o,
           o.type # "STOP" \/ o.status = "CANCELED" \/ o.covered \cap sold = {}
    PROVE  ReducedBy(p, sold, o) = o
<1> DEFINE step(x, t) == IF t \in sold THEN Reduced(x, t, p.qty[t]) ELSE x
<1>1. \A t : step(o, t) = o
  BY DEF Reduced
<1>2. ReducedBy(p, sold, o) = step(step(step(o, 1), 2), 3)
  BY DEF ReducedBy
<1> HIDE DEF step
<1>. QED BY <1>1, <1>2

\* A stop that _reduce_stop_orders changes is left canceled, or live and covering less.
LEMMA ReducedShape ==
    ASSUME NEW p \in Position, NEW sold \in SUBSET (DOMAIN p.qty), NEW o \in Order,
           NEW r, r = ReducedBy(p, sold, o)
    PROVE  \/ r = o \/ r.status = "CANCELED"
           \/ r.status = "MODIFIED" /\ r.covered # o.covered
<1> DEFINE step(x, t) == IF t \in sold THEN Reduced(x, t, p.qty[t]) ELSE x
           Less(x) == x = o \/ /\ x.covered \subseteq o.covered /\ x.covered # o.covered
                               /\ x.status \in {"CANCELED", "MODIFIED"}
<1>1. ASSUME NEW x \in Order, NEW t, Less(x) PROVE step(x, t) \in Order /\ Less(step(x, t))
  <2>1. CASE t \notin sold \/ x.type # "STOP" \/ x.status = "CANCELED" \/ t \notin x.covered
    BY <1>1, <2>1 DEF Reduced
  <2>2. CASE ~ (t \notin sold \/ x.type # "STOP" \/ x.status = "CANCELED" \/ t \notin x.covered)
    <3> DEFINE q == p.qty[t]
               left == IF x.qty > q THEN x.qty - q ELSE 0
               y == [x EXCEPT !.qty = left, !.covered = @ \ {t},
                              !.status = IF left = 0 THEN "CANCELED" ELSE "MODIFIED"]
    <3>1. q \in Int /\ left \in Int
      BY <2>2 DEF Position, Order
    <3>2. step(x, t) = y
      BY <2>2 DEF Reduced
    <3> HIDE DEF left, q, step
    <3>3. y \in Order /\ y.covered = x.covered \ {t} /\ y.status \in {"CANCELED", "MODIFIED"}
      BY <3>1 DEF Order, OrderStatus
    <3> HIDE DEF y
    <3>4. y.covered \subseteq o.covered /\ y.covered # o.covered
      BY <1>1, <2>2, <3>3
    <3>. QED BY <3>2, <3>3, <3>4
  <2>. QED BY <2>1, <2>2
<1>2. ReducedBy(p, sold, o) = step(step(step(o, 1), 2), 3)
  BY DEF ReducedBy
<1>3. Less(o)
  OBVIOUS
<1> HIDE DEF step, Less
<1>4. step(o, 1) \in Order /\ Less(step(o, 1))
  BY <1>1, <1>3
<1>5. step(step(o, 1), 2) \in Order /\ Less(step(step(o, 1), 2))
  BY <1>1, <1>4
<1>6. Less(step(step(step(o, 1), 2), 3))
  BY <1>1, <1>5
<1>. QED BY <1>2, <1>6 DEF Less

\* What a plan does to a row: a row of the trade is kept or canceled, another may be reworked.
LEMMA PlanOrderKept ==
    ASSUME NEW p \in Position, NEW sold \in SUBSET (DOMAIN p.qty), NEW o \in Order,
           o.type = "STOP" => o.status \in Live \cup Done,
           o.type = "STOP" /\ o.root = p.root /\ o.status = "FILLED" => Sells(o) \cap sold = {}
    PROVE  Kept(p.root, o, PlanOrder(p, sold, o))
<1> DEFINE q == PlanOrder(p, sold, o)
           o0 == IF o.type = "STOP" THEN CanceledIf(o, Live) ELSE o
<1>1. q = ReducedBy(p, sold, o0)
  BY DEF PlanOrder
<1>2. CASE o.type # "STOP"
  <2>1. q = o
    BY <1>1, <1>2, ReducedSame
  <2>. QED BY <2>1, KeptSame
<1>3. CASE o.type = "STOP" /\ o.status \in Live
  <2>1. o0 = [o EXCEPT !.status = "CANCELED"]
    BY <1>3 DEF CanceledIf
  <2>2. o0.status = "CANCELED"
    BY <2>1 DEF Order
  <2>3. q = o0
    <3> HIDE DEF o0
    <3>. QED BY <1>1, <2>2, ReducedSame
  <2>4. o.status \notin Done
    BY <1>3 DEF Live, Done
  <2>. QED BY <2>1, <2>3, <2>4, KeptCanceled
<1>4. CASE o.type = "STOP" /\ o.status = "CANCELED"
  <2>1. o0 = o
    BY <1>4 DEF CanceledIf, Live
  <2>2. q = o
    BY <1>1, <1>4, <2>1, ReducedSame
  <2>. QED BY <2>2, KeptSame
<1>5. CASE o.type = "STOP" /\ o.status = "FILLED"
  <2>1. o0 = o
    BY <1>5 DEF CanceledIf, Live
  <2>2. SameOrder(o, q)
    BY PlanOrderType
  <2>3. q = o \/ q.status = "CANCELED" \/ (q.status = "MODIFIED" /\ q.covered # o.covered)
    <3> HIDE DEF q
    <3>. QED BY <1>1, <2>1, ReducedShape
  <2>4. CASE o.root = p.root
    <3>1. o.covered \cap sold = {}
      BY <1>5, <2>4 DEF Sells
    <3>2. q = o
      BY <1>1, <2>1, <3>1, ReducedSame
    <3>. QED BY <3>2, KeptSame
  <2>5. CASE o.root # p.root
    <3> HIDE DEF q
    <3>1. Kept(p.root, o, q)
      BY <2>2, <2>3, <2>5, KeptSame DEF Kept, Live, Done
    <3>. QED BY <3>1 DEF q
  <2>. QED BY <2>4, <2>5
<1>. QED BY <1>2, <1>3, <1>4, <1>5 DEF Done

\* The rows a plan adds: a trail for each tranche it keeps, a filled limit for each it sells.
LEMMA PlanNewParts ==
    ASSUME NEW b, BookInv(b), Filled(b.pos), NEW keep \in SUBSET Active(b.pos), NEW trail \in Int
    PROVE  LET L == ActiveList(b.pos)
               g == [k \in DOMAIN L |-> ExitOrder(b.pos, keep, trail, L[k])]
           IN  /\ g \in Seq(Order) /\ DOMAIN g = DOMAIN L
               /\ \A k \in DOMAIN L : /\ Sells(g[k]) = {L[k]}
                                       /\ \/ L[k] \in keep /\ g[k].type = "TRAIL" /\ g[k].status = "ACTIVE"
                                          \/ L[k] \notin keep /\ g[k].type = "LMT" /\ g[k].status = "FILLED"
               /\ \A t \in Active(b.pos) \ keep : \E k \in DOMAIN g : g[k].status = "FILLED" /\ t \in Sells(g[k])
<1> DEFINE L == ActiveList(b.pos)
           g == [k \in DOMAIN L |-> ExitOrder(b.pos, keep, trail, L[k])]
<1>1. /\ b.pos \in Position /\ Active(b.pos) \subseteq DOMAIN b.pos.st /\ DOMAIN b.pos.qty = DOMAIN b.pos.st
      /\ DOMAIN b.pos.st \subseteq TrancheIds
  BY FilledParts
<1>2. /\ Len(L) \in Nat /\ DOMAIN L = 1..Len(L)
      /\ \A k \in DOMAIN L : L[k] \in Active(b.pos)
      /\ \A t \in Active(b.pos) : Has(L, t)
  BY <1>1, ActiveListParts
<1>3. ASSUME NEW k \in DOMAIN L
      PROVE  /\ g[k] \in Order /\ Sells(g[k]) = {L[k]}
             /\ \/ L[k] \in keep /\ g[k].type = "TRAIL" /\ g[k].status = "ACTIVE"
                \/ L[k] \notin keep /\ g[k].type = "LMT" /\ g[k].status = "FILLED"
  <2>1. L[k] \in TrancheIds /\ L[k] \in DOMAIN b.pos.qty /\ L[k] # 0
    BY <1>1, <1>2 DEF TrancheIds
  <2>2. g[k] = ExitOrder(b.pos, keep, trail, L[k])
    OBVIOUS
  <2> HIDE DEF g, L
  <2>3. g[k] \in Order
    BY <1>1, <2>1, <2>2, ExitOrderType
  <2>4. CASE L[k] \in keep
    <3>1. g[k].type = "TRAIL" /\ g[k].status = "ACTIVE" /\ g[k].covered = {L[k]}
      BY <1>1, <2>1, <2>2, <2>4, ExitOrderType
    <3>. QED BY <2>3, <2>4, <3>1 DEF Sells
  <2>5. CASE L[k] \notin keep
    <3>1. g[k].type = "LMT" /\ g[k].status = "FILLED" /\ g[k].covered = {} /\ g[k].tranche = L[k]
      BY <2>2, <2>5 DEF ExitOrder
    <3>. QED BY <2>1, <2>3, <2>5, <3>1 DEF Sells
  <2>. QED BY <2>4, <2>5
<1>4. DOMAIN g = DOMAIN L
  OBVIOUS
<1> HIDE DEF g, L
<1>5. g \in Seq(Order)
  <2>1. g \in [1..Len(L) -> Order]
    BY <1>2, <1>3, <1>4 DEF g
  <2>. QED BY <1>2, <2>1, FunctionIsSeq
<1>6. ASSUME NEW t \in Active(b.pos) \ keep
      PROVE  \E k \in DOMAIN g : g[k].status = "FILLED" /\ t \in Sells(g[k])
  <2>1. PICK k \in DOMAIN L : L[k] = t
    BY <1>2 DEF Has
  <2>. QED BY <1>3, <1>4, <2>1
<1>. QED BY <1>3, <1>4, <1>5, <1>6 DEF g, L

\* The rows flatten adds: a filled market order for each active tranche.
LEMMA MarketNewParts ==
    ASSUME NEW b, BookInv(b), Filled(b.pos)
    PROVE  LET L == ActiveList(b.pos)
               g == [k \in DOMAIN L |-> MarketExit(b.pos, L[k])]
           IN  /\ g \in Seq(Order)
               /\ \A k \in DOMAIN g : g[k].type = "MKT" /\ g[k].status = "FILLED"
               /\ \A t \in Active(b.pos) : \E k \in DOMAIN g : g[k].status = "FILLED" /\ t \in Sells(g[k])
<1> DEFINE L == ActiveList(b.pos)
           g == [k \in DOMAIN L |-> MarketExit(b.pos, L[k])]
<1>1. /\ b.pos \in Position /\ b.pos.root \in Nat
      /\ Active(b.pos) \subseteq DOMAIN b.pos.st /\ DOMAIN b.pos.st \subseteq TrancheIds
      /\ \A t \in DOMAIN b.pos.st : b.pos.qty[t] \in Int
  BY FilledParts
<1>2. /\ Len(L) \in Nat /\ DOMAIN L = 1..Len(L)
      /\ \A k \in DOMAIN L : L[k] \in Active(b.pos)
      /\ \A t \in Active(b.pos) : Has(L, t)
  BY <1>1, ActiveListParts
<1>3. ASSUME NEW k \in DOMAIN L
      PROVE  g[k] \in Order /\ Sells(g[k]) = {L[k]} /\ g[k].type = "MKT" /\ g[k].status = "FILLED"
  <2>1. L[k] \in TrancheIds /\ b.pos.qty[L[k]] \in Int /\ L[k] \in 0..3 /\ L[k] # 0
    BY <1>1, <1>2 DEF TrancheIds
  <2>2. g[k] = MarketExit(b.pos, L[k])
    OBVIOUS
  <2> HIDE DEF g, L
  <2>3. g[k] \in Order /\ g[k].type = "MKT" /\ g[k].status = "FILLED" /\ g[k].covered = {} /\ g[k].tranche = L[k]
    BY <2>1, <2>2, <1>1 DEF MarketExit, Order, OrderTypes, OrderStatus
  <2>. QED BY <2>1, <2>3 DEF Sells
<1>4. DOMAIN g = DOMAIN L
  OBVIOUS
<1> HIDE DEF g, L
<1>5. g \in Seq(Order)
  <2>1. g \in [1..Len(L) -> Order]
    BY <1>2, <1>3, <1>4 DEF g
  <2>. QED BY <1>2, <2>1, FunctionIsSeq
<1>6. \A t \in Active(b.pos) : \E k \in DOMAIN g : g[k].status = "FILLED" /\ t \in Sells(g[k])
  BY <1>2, <1>3, <1>4 DEF Has
<1>. QED BY <1>3, <1>4, <1>5, <1>6 DEF g, L

\* The plan sells by limits that are filled, and trails only tranches that no trail of the trade sells.
LEMMA PlanExecutedTold ==
    ASSUME NEW b, BookInv(b), Tale(b), Filled(b.pos), NEW keep \in SUBSET Active(b.pos), NEW trail \in Int,
           \A t \in keep : ~ HasTrail(b.ords, t)
    PROVE  LET c == PlanExecuted(b, keep, trail)
           IN  Tale(c) /\ Tells(b, c) /\ DOMAIN b.ords \subseteq DOMAIN c.ords
<1> DEFINE sold == Active(b.pos) \ keep
           m == Marked(b.pos.st, sold, "sold")
           p == [b.pos EXCEPT !.st = m, !.runner = @ \cup keep, !.phase = PlanPhase(b.pos, keep)]
           f == [i \in DOMAIN b.ords |-> PlanOrder(b.pos, sold, b.ords[i])]
           L == ActiveList(b.pos)
           g == [k \in DOMAIN L |-> ExitOrder(b.pos, keep, trail, L[k])]
           d == [pos |-> p, ords |-> f \o g]
<1>1. PlanExecuted(b, keep, trail) = d
  BY DEF PlanExecuted
<1>2. /\ BookType(b) /\ b.pos \in Position /\ b.ords \in Seq(Order)
      /\ b.pos.phase \notin {"none", "closed", "entry_pending"}
      /\ Active(b.pos) \subseteq DOMAIN b.pos.st /\ DOMAIN b.pos.qty = DOMAIN b.pos.st
      /\ DOMAIN b.pos.st \subseteq TrancheIds
  BY FilledParts
<1>3. Once(L)
  BY ListedOnce DEF ActiveList
<1>4. sold \in SUBSET (DOMAIN b.pos.qty)
  BY <1>2
<1>5. ASSUME NEW i \in DOMAIN b.ords PROVE Kept(b.pos.root, b.ords[i], f[i]) /\ f[i] \in Order
  <2>1. b.ords[i] \in Order
    BY <1>2
  <2>2. b.ords[i].type = "STOP" => b.ords[i].status \in Live \cup Done
    BY DEF Tale
  <2>3. b.ords[i].root = b.pos.root /\ b.ords[i].status = "FILLED" => Sells(b.ords[i]) \cap sold = {}
    BY DEF Tale, Applied, Fills
  <2>. QED BY <1>2, <1>4, <2>1, <2>2, <2>3, PlanOrderKept DEF Kept, SameOrder
<1>6. f \in Seq(Order) /\ DOMAIN f = DOMAIN b.ords
  <2>1. Len(b.ords) \in Nat /\ DOMAIN b.ords = 1..Len(b.ords)
    BY <1>2
  <2>2. DOMAIN f = 1..Len(b.ords) /\ f = [i \in DOMAIN f |-> f[i]]
    BY <2>1
  <2> HIDE DEF f
  <2>3. f \in [1..Len(b.ords) -> Order]
    BY <1>5, <2>1, <2>2
  <2>. QED BY <2>1, <2>3, FunctionIsSeq
<1>7. /\ g \in Seq(Order) /\ DOMAIN g = DOMAIN L
      /\ \A k \in DOMAIN L : /\ Sells(g[k]) = {L[k]}
                              /\ \/ L[k] \in keep /\ g[k].type = "TRAIL" /\ g[k].status = "ACTIVE"
                                 \/ L[k] \notin keep /\ g[k].type = "LMT" /\ g[k].status = "FILLED"
      /\ \A t \in sold : \E k \in DOMAIN g : g[k].status = "FILLED" /\ t \in Sells(g[k])
  BY PlanNewParts
<1>m. DOMAIN m = DOMAIN b.pos.st /\ \A t \in DOMAIN b.pos.st : m[t] = IF t \in sold THEN "sold" ELSE b.pos.st[t]
  BY <1>2, MarkedType DEF Position, TrancheStatus
<1> HIDE DEF f, g, L, m
<1>10. p.root = b.pos.root /\ p.st = m
  BY <1>2 DEF Position
<1> HIDE DEF p
<1>11. Active(p) = keep
  BY <1>m, <1>10 DEF Active
<1>12. \A k \in DOMAIN g : /\ g[k].type # "ENTRY" /\ g[k].status \in Live \cup Done
                           /\ g[k].status = "FILLED" => Sells(g[k]) \cap Active(p) = {}
  BY <1>7, <1>11 DEF Live, Done
<1>13. \A j, k \in DOMAIN g : j # k => ~ Twins(g[k], g[j])
  BY <1>3, <1>7 DEF Twins, Once
<1>14. ASSUME NEW k \in DOMAIN g, NEW i \in DOMAIN f, f[i].root = p.root, Twins(g[k], f[i]) PROVE FALSE
  <2>1. g[k].status \in Live
    BY <1>14 DEF Twins
  <2>2. L[k] \in keep /\ g[k].type = "TRAIL" /\ Sells(g[k]) = {L[k]}
    BY <1>7, <2>1 DEF Live
  <2>3. f[i].type = "TRAIL" /\ f[i].status \in Live /\ L[k] \in Sells(f[i])
    BY <1>14, <2>2 DEF Twins
  <2>4. b.ords[i].type = "TRAIL" /\ b.ords[i].status \in Live /\ L[k] \in Sells(b.ords[i]) /\ i \in DOMAIN b.ords
    BY <1>5, <1>6, <1>10, <1>14, <2>3 DEF Kept, SameOrder
  <2>5. L[k] \in b.ords[i].covered \/ b.ords[i].tranche = L[k]
    BY <2>4 DEF Sells
  <2>. QED BY <2>2, <2>4, <2>5 DEF HasTrail
<1>15. \A t \in Active(b.pos) : p.st[t] = "sold" =>
         \E k \in DOMAIN g : g[k].status = "FILLED" /\ t \in Sells(g[k])
  BY <1>7, <1>11 DEF Active
<1>16. b.pos.phase # "none" /\ Active(p) \subseteq Active(b.pos)
  BY <1>2, <1>11
<1>17. \A k \in DOMAIN g : \A i \in DOMAIN f : f[i].type \in ExitTypes /\ f[i].root = p.root => ~ Twins(g[k], f[i])
  BY <1>14
<1>18. Tale(d) /\ Tells(b, d) /\ DOMAIN b.ords \subseteq DOMAIN d.ords
  BY <1>2, <1>5, <1>6, <1>7, <1>10, <1>12, <1>13, <1>15, <1>16, <1>17, ToldMore
<1>. QED BY <1>1, <1>18

\* flatten sells each tranche by a market order that is filled.
LEMMA FlattenedTold ==
    ASSUME NEW b, BookInv(b), Tale(b), Filled(b.pos)
    PROVE  LET c == Flattened(b)
           IN  Tale(c) /\ Tells(b, c) /\ DOMAIN b.ords \subseteq DOMAIN c.ords
<1> DEFINE m == Marked(b.pos.st, Active(b.pos), "sold")
           p == [b.pos EXCEPT !.st = m, !.phase = "closed"]
           f == CanceledIn(b.ords, Live)
           L == ActiveList(b.pos)
           g == [k \in DOMAIN L |-> MarketExit(b.pos, L[k])]
           d == [pos |-> p, ords |-> f \o g]
<1>1. Flattened(b) = d
  BY DEF Flattened
<1>2. /\ BookType(b) /\ b.pos \in Position /\ b.ords \in Seq(Order)
      /\ b.pos.phase \notin {"none", "closed", "entry_pending"}
  BY FilledParts
<1>5. /\ f \in Seq(Order) /\ DOMAIN f = DOMAIN b.ords
      /\ \A i \in DOMAIN b.ords : Kept(b.pos.root, b.ords[i], f[i])
  <2>1. f \in Seq(Order) /\ DOMAIN f = DOMAIN b.ords
    BY <1>2, CanceledInType
  <2>2. ASSUME NEW i \in DOMAIN b.ords PROVE Kept(b.pos.root, b.ords[i], f[i])
    <3>1. b.ords[i] \in Order /\ f[i] = CanceledIf(b.ords[i], Live)
      BY <1>2 DEF CanceledIn
    <3>2. b.ords[i].status \in Live => b.ords[i].status \notin Done
      BY DEF Live, Done
    <3>. QED BY <3>1, <3>2, KeptSame, KeptCanceled DEF CanceledIf
  <2>. QED BY <2>1, <2>2
<1>7. /\ g \in Seq(Order)
      /\ \A k \in DOMAIN g : g[k].type = "MKT" /\ g[k].status = "FILLED"
      /\ \A t \in Active(b.pos) : \E k \in DOMAIN g : g[k].status = "FILLED" /\ t \in Sells(g[k])
  BY MarketNewParts
<1>m. DOMAIN m = DOMAIN b.pos.st
      /\ \A t \in DOMAIN b.pos.st : m[t] = IF t \in Active(b.pos) THEN "sold" ELSE b.pos.st[t]
  BY <1>2, MarkedType DEF Position, TrancheStatus
<1> HIDE DEF f, g, L, m
<1>10. p.root = b.pos.root /\ p.st = m
  BY <1>2 DEF Position
<1> HIDE DEF p
<1>11. Active(p) = {}
  BY <1>m, <1>10 DEF Active
<1>12. \A k \in DOMAIN g : /\ g[k].type # "ENTRY" /\ g[k].status \in Live \cup Done
                           /\ g[k].status = "FILLED" => Sells(g[k]) \cap Active(p) = {}
  BY <1>7, <1>11 DEF Done
<1>13. \A k \in DOMAIN g : \A o : ~ Twins(g[k], o)
  BY <1>7 DEF Twins, Live
<1>15. b.pos.phase # "none" /\ Active(p) \subseteq Active(b.pos)
  BY <1>2, <1>11
<1>16. Tale(d) /\ Tells(b, d) /\ DOMAIN b.ords \subseteq DOMAIN d.ords
  BY <1>2, <1>5, <1>7, <1>10, <1>12, <1>13, <1>15, ToldMore
<1>. QED BY <1>1, <1>16

\* A row that is the same or canceled, and canceled only if it was not done or is an entry.
Quashed(o, q) == \/ q = o
                 \/ /\ q = [o EXCEPT !.status = "CANCELED"]
                    /\ o.status \notin Done \/ o.type = "ENTRY"

\* A quashed row is the same order.
LEMMA QuashedSame ==
    ASSUME NEW o \in Order, NEW q, Quashed(o, q)
    PROVE  q.root = o.root /\ q.type = o.type /\ (q = o \/ q.status = "CANCELED")
BY DEF Quashed, Order

\* Canceling what is not done, and entries, tells nothing false of the trade.
LEMMA QuashedTold ==
    ASSUME NEW b, BookType(b), Tale(b), b.pos.phase # "none",
           NEW p, p.root = b.pos.root, Active(p) \subseteq Active(b.pos),
           NEW f, DOMAIN f = DOMAIN b.ords,
           \A i \in DOMAIN b.ords : Quashed(b.ords[i], f[i]),
           \A t \in Active(b.pos) : p.st[t] # "sold"
    PROVE  LET c == [pos |-> p, ords |-> f]
           IN  Tale(c) /\ Tells(b, c) /\ DOMAIN b.ords \subseteq DOMAIN c.ords
<1>1. ASSUME NEW i \in DOMAIN b.ords PROVE Kept(b.pos.root, b.ords[i], f[i])
  <2>1. b.ords[i] \in Order
    BY BookParts
  <2>2. b.ords[i].type = "ENTRY" => b.ords[i].root # b.pos.root
    BY BookParts DEF Tale, BookType, Roots
  <2>3. CASE f[i] = b.ords[i]
    BY <2>1, <2>3, KeptSame
  <2>4. CASE f[i] # b.ords[i]
    <3>1. /\ f[i] = [b.ords[i] EXCEPT !.status = "CANCELED"]
          /\ b.ords[i].root = b.pos.root => b.ords[i].status \notin Done
      BY <2>2, <2>4 DEF Quashed
    <3>. QED BY <2>1, <3>1, KeptCanceled
  <2>. QED BY <2>3, <2>4
<1>. QED BY <1>1, ToldSame

\* Canceling by status, of statuses that are not done.
LEMMA CanceledInQuashed ==
    ASSUME NEW os \in Seq(Order), NEW i \in DOMAIN os, NEW S, S \cap Done = {}
    PROVE  Quashed(os[i], CanceledIn(os, S)[i])
BY DEF CanceledIn, CanceledIf, Quashed

\* One entry canceled, and then what is not done.
LEMMA EntryQuashed ==
    ASSUME NEW os \in Seq(Order), NEW i \in Roots(os), NEW j \in DOMAIN os, NEW S, S \cap Done = {}
    PROVE  /\ Quashed(os[j], [os EXCEPT ![i].status = "CANCELED"][j])
           /\ Quashed(os[j], CanceledIn([os EXCEPT ![i].status = "CANCELED"], S)[j])
           /\ Quashed(os[j], [CanceledIn(os, S) EXCEPT ![i].status = "CANCELED"][j])
<1> DEFINE f == [os EXCEPT ![i].status = "CANCELED"]
           o == os[j]
           q == [o EXCEPT !.status = "CANCELED"]
<1>1. o \in Order /\ i \in DOMAIN os /\ os[i].type = "ENTRY" /\ DOMAIN f = DOMAIN os
  BY DEF Roots
<1>2. q.status = "CANCELED" /\ [q EXCEPT !.status = "CANCELED"] = q
  BY <1>1 DEF Order
<1>3. f[j] = IF j = i THEN q ELSE o
  BY <1>1
<1>4. Quashed(o, f[j])
  BY <1>1, <1>3 DEF Quashed
<1>5. CanceledIn(f, S)[j] \in {f[j], q} /\ (CanceledIn(f, S)[j] # f[j] => f[j].status \notin Done)
  <2>1. CanceledIn(f, S)[j] = CanceledIf(f[j], S)
    BY <1>1 DEF CanceledIn
  <2> HIDE DEF f
  <2>. QED BY <1>2, <1>3, <2>1 DEF CanceledIf
<1>6. Quashed(o, CanceledIn(f, S)[j])
  <2> HIDE DEF f
  <2>. QED BY <1>1, <1>2, <1>3, <1>5 DEF Quashed, Done
<1>7. [CanceledIn(os, S) EXCEPT ![i].status = "CANCELED"][j]
        = IF j = i THEN [CanceledIf(o, S) EXCEPT !.status = "CANCELED"] ELSE CanceledIf(o, S)
  BY <1>1 DEF CanceledIn
<1>8. CanceledIf(o, S) \in {o, q} /\ (CanceledIf(o, S) # o => o.status \notin Done)
  BY DEF CanceledIf
<1>9. [CanceledIf(o, S) EXCEPT !.status = "CANCELED"] = q
  BY <1>2, <1>8
<1>10. Quashed(o, [CanceledIn(os, S) EXCEPT ![i].status = "CANCELED"][j])
  BY <1>1, <1>7, <1>8, <1>9 DEF Quashed
<1>. QED BY <1>4, <1>6, <1>10

\* flatten of a pending entry.
LEMMA EntryVoidedTold ==
    ASSUME NEW b, BookInv(b), Tale(b), b.pos.phase = "entry_pending"
    PROVE  LET c == EntryVoided(b)
           IN  Tale(c) /\ Tells(b, c) /\ DOMAIN b.ords \subseteq DOMAIN c.ords
<1> DEFINE S == Live \cup {"PENDING"}
           f == [CanceledIn(b.ords, S) EXCEPT ![b.pos.root].status = "CANCELED"]
           p == Voided(b.pos)
<1>1. BookType(b) /\ b.ords \in Seq(Order) /\ b.pos \in Position /\ b.pos.root \in Roots(b.ords)
  BY BookParts DEF BookInv, BookType
<1>2. S \cap Done = {}
  BY DEF Live, Done
<1>3. DOMAIN f = DOMAIN b.ords
  BY DEF CanceledIn
<1> HIDE DEF S
<1>4. \A i \in DOMAIN b.ords : Quashed(b.ords[i], f[i])
  BY <1>1, <1>2, EntryQuashed
<1>5. p.root = b.pos.root /\ Active(p) = {} /\ DOMAIN p.st = DOMAIN b.pos.st
  BY <1>1, VoidedParts
<1>6. \A t \in Active(b.pos) : p.st[t] # "sold"
  BY <1>1 DEF Voided, Active, Position
<1>7. EntryVoided(b) = [pos |-> p, ords |-> f]
  BY DEF EntryVoided, S
<1> HIDE DEF f, p
<1>8. Active(p) \subseteq Active(b.pos)
  BY <1>5
<1>. QED BY <1>1, <1>3, <1>4, <1>5, <1>6, <1>7, <1>8, QuashedTold

\* cancel_recent_order, of a pending entry and of an entry whose trade has gone on or ended.
LEMMA OrderCanceledTold ==
    ASSUME NEW b, BookInv(b), Tale(b), NEW i \in Roots(b.ords)
    PROVE  LET c == OrderCanceled(b, i)
           IN  Tale(c) /\ Tells(b, c) /\ DOMAIN b.ords \subseteq DOMAIN c.ords
<1> DEFINE S == Live \cup {"PENDING"}
           f == [b.ords EXCEPT ![i].status = "CANCELED"]
           g == CanceledIn(f, S)
           p == Voided(b.pos)
<1>1. /\ BookType(b) /\ b.ords \in Seq(Order) /\ b.pos \in Position
      /\ b = [pos |-> b.pos, ords |-> b.ords]
  BY BookParts DEF BookInv
<1>n. b.pos.phase # "none"
  BY <1>1 DEF BookType, Roots
<1>2. S \cap Done = {}
  BY DEF Live, Done
<1>3. DOMAIN f = DOMAIN b.ords /\ DOMAIN g = DOMAIN b.ords
  BY DEF CanceledIn
<1> HIDE DEF S
<1>4. \A j \in DOMAIN b.ords : Quashed(b.ords[j], f[j]) /\ Quashed(b.ords[j], g[j])
  BY <1>1, <1>2, EntryQuashed
<1>5. p.root = b.pos.root /\ Active(p) = {} /\ DOMAIN p.st = DOMAIN b.pos.st
  BY <1>1, VoidedParts
<1>6. \A t \in Active(b.pos) : p.st[t] # "sold" /\ b.pos.st[t] # "sold"
  BY <1>1 DEF Voided, Active, Position
<1>7. OrderCanceled(b, i) = IF i = b.pos.root /\ b.pos.phase = "entry_pending"
                            THEN [pos |-> p, ords |-> g] ELSE [b EXCEPT !.ords = f]
  BY DEF OrderCanceled, S
<1>8. [b EXCEPT !.ords = f] = [pos |-> b.pos, ords |-> f]
  BY <1>1
<1> HIDE DEF f, g, p
<1>9. Active(p) \subseteq Active(b.pos)
  BY <1>5
<1>10. CASE i = b.pos.root /\ b.pos.phase = "entry_pending"
  BY <1>1, <1>n, <1>3, <1>4, <1>5, <1>6, <1>7, <1>9, <1>10, QuashedTold
<1>11. CASE ~ (i = b.pos.root /\ b.pos.phase = "entry_pending")
  BY <1>1, <1>n, <1>3, <1>4, <1>6, <1>7, <1>8, <1>11, QuashedTold
<1>. QED BY <1>10, <1>11

\* A new price.
LEMMA TickTold ==
    ASSUME NEW b, BookInv(b), Tale(b), b.pos.phase # "none", NEW live \in Int
    PROVE  LET c == [b EXCEPT !.pos.live = live]
           IN  Tale(c) /\ Tells(b, c) /\ DOMAIN b.ords \subseteq DOMAIN c.ords
<1> DEFINE p == [b.pos EXCEPT !.live = live]
<1>1. BookType(b) /\ b.pos \in Position /\ b = [pos |-> b.pos, ords |-> b.ords]
  BY BookParts DEF BookInv
<1>2. [b EXCEPT !.pos.live = live] = [pos |-> p, ords |-> b.ords]
  BY <1>1
<1>3. p.root = b.pos.root /\ p.st = b.pos.st /\ Active(p) = Active(b.pos)
  BY <1>1 DEF Position, Active
<1> HIDE DEF p
<1>4. \A t \in Active(b.pos) : p.st[t] # "sold"
  BY <1>3 DEF Active
<1>5. \A i \in DOMAIN b.ords : Quashed(b.ords[i], b.ords[i])
  BY DEF Quashed
<1>. QED BY <1>1, <1>2, <1>3, <1>4, <1>5, QuashedTold

\* A new trade has no rows yet but its entry, and the rows of the trades before it stay.
LEMMA EnteredTold ==
    ASSUME NEW b, BookInv(b), Tale(b), NEW e, NEW split \in Seq(Int), NEW runner, NEW outcome
    PROVE  LET c == Entered(b, e, split, runner, outcome) IN Tale(c) /\ Tells(b, c)
<1> DEFINE c == Entered(b, e, split, runner, outcome)
           root == Len(b.ords) + 1
           os == StaleCanceled(b)
           o == [root |-> 0, type |-> "ENTRY", qty |-> 0, price |-> 0,
                 status |-> IF outcome = "filled" THEN "FILLED" ELSE "PENDING",
                 covered |-> {}, tranche |-> 0, bid |-> outcome = "stored"]
<1>1. c.pos.root = root /\ c.ords = Append(os, o)
  BY DEF Entered, NextId
<1>2. /\ BookType(b) /\ b.ords \in Seq(Order) /\ Len(b.ords) \in Nat /\ DOMAIN b.ords = 1..Len(b.ords)
      /\ \A i \in DOMAIN b.ords : b.ords[i] \in Order /\ b.ords[i].root \in Nat /\ b.ords[i].root # root
  <2>1. BookType(b) /\ b.ords \in Seq(Order) /\ Len(b.ords) \in Nat /\ DOMAIN b.ords = 1..Len(b.ords)
    BY BookParts DEF BookInv
  <2>2. \A i \in DOMAIN b.ords : b.ords[i] \in Order
    BY <2>1
  <2>3. \A i \in DOMAIN b.ords : b.ords[i].root \in Nat /\ b.ords[i].root =< Len(b.ords)
    BY <2>1, <2>2 DEF BookType, Order
  <2>. QED BY <2>1, <2>2, <2>3
<1>3. os \in Seq(Order) /\ Len(os) = Len(b.ords) /\ DOMAIN os = DOMAIN b.ords
  BY <1>2, StaleCanceledType
<1>4. \A i \in DOMAIN b.ords : Quashed(b.ords[i], os[i])
  <2>1. CASE Manageable(b.pos)
    BY <2>1 DEF StaleCanceled, Quashed
  <2>2. CASE ~ Manageable(b.pos)
    BY <1>2, <2>2, CanceledInQuashed DEF StaleCanceled, Live, Done
  <2>. QED BY <2>1, <2>2
<1>5. o \in Order /\ o.type = "ENTRY" /\ o.root = 0
  BY DEF Order, OrderTypes, OrderStatus
<1> HIDE DEF os, o, c
<1>6. /\ DOMAIN c.ords = 1..root /\ c.ords[root] = o
      /\ \A i \in DOMAIN b.ords : i \in DOMAIN c.ords /\ c.ords[i] = os[i]
      /\ \A i \in DOMAIN c.ords : i \in DOMAIN b.ords \/ i = root
  BY <1>1, <1>2, <1>3, <1>5
<1>7. \A i \in DOMAIN b.ords : /\ c.ords[i].root = b.ords[i].root /\ c.ords[i].type = b.ords[i].type
                               /\ c.ords[i] = b.ords[i] \/ c.ords[i].status = "CANCELED"
  BY <1>2, <1>4, <1>6, QuashedSame
<1>8. \A i \in DOMAIN c.ords : c.ords[i].root # root
  BY <1>2, <1>5, <1>6, <1>7
<1>9. Tale(c)
  <2>1. Fills(c) = {} /\ TradeExits(c) = {}
    BY <1>1, <1>8 DEF Fills, TradeExits
  <2>2. \A i \in DOMAIN c.ords : IF c.ords[i].type = "ENTRY" THEN c.ords[i].root = 0
                                 ELSE c.ords[i].status \in Live \cup Done
    BY <1>5, <1>6, <1>7 DEF Tale, Done
  <2>. QED BY <2>1, <2>2 DEF Tale, Applied, Apart
<1>10. Final(b, c)
  BY <1>1, <1>2 DEF Final
<1>11. SoldByFill(b, c)
  <2>1. b.pos.root # root
    BY <1>2 DEF BookType, Roots
  <2>. QED BY <1>1, <2>1 DEF SoldByFill
<1>12. Reworked(b, c)
  BY <1>7 DEF Reworked, Live
<1>. QED BY <1>9, <1>10, <1>11, <1>12 DEF Tells, c
=============================================================================
