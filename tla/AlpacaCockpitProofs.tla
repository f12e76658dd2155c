------------------------ MODULE AlpacaCockpitProofs ------------------------
(***************************************************************************)
(* What CockpitService keeps true over Alpaca, for every instance of the   *)
(* constants: any prices, splits and limits, lossy or not.                 *)
(*                                                                         *)
(* The invariant IInv joins the book to the broker.  The book is           *)
(* consistent (BookInv of TradeBookProofs); each row has the id of an      *)
(* order at Alpaca; and no listing, however old, calls an order filled     *)
(* that is not: orders only grow and a filled one stays filled, so what    *)
(* was listed stays true.  That no order exceeds its quantity needs every  *)
(* quantity to be positive, which is how an entry is split.                *)
(*                                                                         *)
(* A step is Steady (the trade goes on, or opens on the fill of its entry, *)
(* and every sale is told by the rows) or Fresh (a trade starts).          *)
(***************************************************************************)
EXTENDS AlpacaCockpit, TradeBookProofs, FiniteSetTheorems

\* The orders at Alpaca: typed, none filled beyond what was asked, and "filled" when all of it is.
AlpacaOrder == [kind : OrderTypes \cup {"CLOSE"}, qty : Nat, price : Int, done : Nat,
                status : BrokerStatus, recent : BOOLEAN]
Sound(o) == o.done =< o.qty /\ (o.status = "filled" <=> o.done = o.qty)
BrokerInv(a) == a \in Seq(AlpacaOrder) /\ \A j \in DOMAIN a : Sound(a[j])

\* What a step does to them: none goes, and a filled one stays filled.
Grows(a, c) == /\ Len(a) =< Len(c)
               /\ \A j \in DOMAIN a : a[j].status = "filled" => c[j].status = "filled"

\* A listing of some of the orders that tells of no fill that did not happen.
ListingOf(a, seen) == /\ seen \in [DOMAIN seen -> Words] /\ DOMAIN seen \subseteq DOMAIN a
                      /\ \A j \in DOMAIN seen : seen[j] = "filled" => a[j].status = "filled"

Requests == [kind : OrderTypes \cup {"CLOSE"}, qty : Nat \ {0}, price : Int]

\* Requests become open orders behind those there were.
LEMMA TakenOK ==
    ASSUME NEW a, BrokerInv(a), NEW m \in Nat, NEW requests \in [1..m -> Requests]
    PROVE  BrokerInv(Taken(a, requests)) /\ Grows(a, Taken(a, requests)) /\ Len(Taken(a, requests)) = Len(a) + m
<1> DEFINE new == [k \in DOMAIN requests |->
                     [kind |-> requests[k].kind, qty |-> requests[k].qty, price |-> requests[k].price,
                      done |-> 0, status |-> "open", recent |-> TRUE]]
<1>1. \A k \in 1..m : requests[k] \in Requests
  OBVIOUS
<1>2. /\ new \in [1..m -> AlpacaOrder]
      /\ \A k \in 1..m : Sound(new[k])
  BY <1>1 DEF Requests, AlpacaOrder, BrokerStatus, Sound
<1>3. new \in Seq(AlpacaOrder) /\ Len(new) = m
  BY <1>2, FunctionIsSeq
<1>4. Taken(a, requests) = a \o new
  BY DEF Taken
<1> HIDE DEF new
<1>5. a \in Seq(AlpacaOrder) /\ Len(a) \in Nat /\ DOMAIN a = 1..Len(a)
  BY DEF BrokerInv
<1> DEFINE c == a \o new
<1>6. /\ c \in Seq(AlpacaOrder) /\ Len(c) = Len(a) + m /\ DOMAIN c = 1..(Len(a) + m)
      /\ \A j \in 1..(Len(a) + m) : c[j] = IF j =< Len(a) THEN a[j] ELSE new[j - Len(a)]
  BY <1>3, <1>5
<1> HIDE DEF c
<1>7. \A j \in DOMAIN c : Sound(c[j])
  BY <1>2, <1>5, <1>6 DEF BrokerInv
<1>8. Grows(a, c)
  BY <1>5, <1>6 DEF Grows
<1>. QED BY <1>4, <1>6, <1>7, <1>8 DEF BrokerInv, c

\* A canceled order had not filled.
LEMMA WithdrawnOK ==
    ASSUME NEW a, BrokerInv(a), NEW ids
    PROVE  BrokerInv(Withdrawn(a, ids)) /\ Grows(a, Withdrawn(a, ids)) /\ Len(Withdrawn(a, ids)) = Len(a)
<1> DEFINE c == Withdrawn(a, ids)
<1>1. a \in Seq(AlpacaOrder) /\ Len(a) \in Nat /\ DOMAIN a = 1..Len(a)
  BY DEF BrokerInv
<1>2. ASSUME NEW j \in 1..Len(a)
      PROVE  c[j] \in AlpacaOrder /\ Sound(c[j]) /\ (a[j].status = "filled" => c[j] = a[j])
  <2>1. a[j] \in AlpacaOrder /\ Sound(a[j])
    BY <1>1 DEF BrokerInv
  <2>2. c[j] = IF j \in ids /\ a[j].status = "open" THEN [a[j] EXCEPT !.status = "canceled"] ELSE a[j]
    BY <1>1 DEF Withdrawn
  <2>. QED BY <2>1, <2>2 DEF AlpacaOrder, Sound, BrokerStatus
<1>3. c \in [1..Len(a) -> AlpacaOrder]
  BY <1>1, <1>2 DEF Withdrawn
<1> HIDE DEF c
<1>4. c \in Seq(AlpacaOrder) /\ Len(c) = Len(a) /\ DOMAIN c = 1..Len(a)
  BY <1>1, <1>3, FunctionIsSeq
<1>. QED BY <1>1, <1>2, <1>4 DEF BrokerInv, Grows, c

\* A fill of what is left of an open order, or of a part of it.
LEMMA FillingOK ==
    ASSUME NEW a, BrokerInv(a), NEW j \in DOMAIN a, a[j].status = "open", NEW n \in Nat, a[j].done + n =< a[j].qty
    PROVE  BrokerInv(Filling(a, j, n)) /\ Grows(a, Filling(a, j, n)) /\ Len(Filling(a, j, n)) = Len(a)
<1> DEFINE c == Filling(a, j, n)
           o == [a[j] EXCEPT !.done = @ + n, !.status = IF a[j].done + n = a[j].qty THEN "filled" ELSE @]
<1>1. a \in Seq(AlpacaOrder) /\ Len(a) \in Nat /\ DOMAIN a = 1..Len(a) /\ a[j] \in AlpacaOrder
  BY DEF BrokerInv
<1>2. o \in AlpacaOrder /\ Sound(o)
  <2>1. a[j].qty \in Nat /\ a[j].done \in Nat /\ a[j].done + n \in Nat
    BY <1>1 DEF AlpacaOrder
  <2>2. o \in AlpacaOrder /\ o.qty = a[j].qty /\ o.done = a[j].done + n
        /\ o.status = IF a[j].done + n = a[j].qty THEN "filled" ELSE "open"
    BY <1>1, <2>1 DEF AlpacaOrder, BrokerStatus
  <2> HIDE DEF o
  <2>. QED BY <2>1, <2>2 DEF Sound
<1>3. c = [a EXCEPT ![j] = o]
  BY <1>1 DEF Filling, AlpacaOrder
<1> HIDE DEF c, o
<1>4. /\ c \in Seq(AlpacaOrder) /\ Len(c) = Len(a) /\ DOMAIN c = DOMAIN a
      /\ \A i \in DOMAIN a : c[i] = IF i = j THEN o ELSE a[i]
  BY <1>1, <1>2, <1>3
<1>. QED BY <1>2, <1>4 DEF BrokerInv, Grows, c

\* Orders that fall behind the newest of the account are what they were.
LEMMA OutnumberedOK ==
    ASSUME NEW a, BrokerInv(a), NEW n
    PROVE  BrokerInv(Outnumbered(a, n)) /\ Grows(a, Outnumbered(a, n))
<1> DEFINE c == Outnumbered(a, n)
<1>1. a \in Seq(AlpacaOrder) /\ Len(a) \in Nat /\ DOMAIN a = 1..Len(a)
  BY DEF BrokerInv
<1>2. ASSUME NEW j \in 1..Len(a)
      PROVE  c[j] \in AlpacaOrder /\ Sound(c[j]) /\ c[j].status = a[j].status
  <2>1. a[j] \in AlpacaOrder /\ Sound(a[j])
    BY <1>1 DEF BrokerInv
  <2>2. c[j] \in {a[j], [a[j] EXCEPT !.recent = FALSE]}
    BY <1>1 DEF Outnumbered
  <2>. QED BY <2>1, <2>2 DEF AlpacaOrder, Sound
<1>3. c \in [1..Len(a) -> AlpacaOrder]
  BY <1>1, <1>2 DEF Outnumbered
<1> HIDE DEF c
<1>4. c \in Seq(AlpacaOrder) /\ Len(c) = Len(a) /\ DOMAIN c = 1..Len(a)
  BY <1>1, <1>3, FunctionIsSeq
<1>. QED BY <1>1, <1>2, <1>4 DEF BrokerInv, Grows, c

\* What has been listed stays true, and a new listing is true.
LEMMA ListingsOK ==
    ASSUME NEW a, BrokerInv(a), NEW c, BrokerInv(c), Grows(a, c), NEW listed, ListingOf(a, listed)
    PROVE  \A seen \in Listings(listed, c) : ListingOf(c, seen)
<1>1. /\ a \in Seq(AlpacaOrder) /\ c \in Seq(AlpacaOrder)
      /\ DOMAIN a \subseteq DOMAIN c /\ \A j \in DOMAIN c : c[j].status \in BrokerStatus
  <2>1. a \in Seq(AlpacaOrder) /\ c \in Seq(AlpacaOrder)
    BY DEF BrokerInv
  <2>2. \A j \in DOMAIN c : c[j] \in AlpacaOrder
    BY <2>1
  <2>3. DOMAIN a \subseteq DOMAIN c
    BY <2>1 DEF Grows
  <2>. QED BY <2>1, <2>2, <2>3 DEF AlpacaOrder
<1>2. ListingOf(c, listed)
  BY <1>1 DEF ListingOf, Grows
<1>3. ListingOf(c, <<>>)
  BY DEF ListingOf
<1>4. ListingOf(c, Listing(c))
  <2> DEFINE S == {k \in DOMAIN c : c[k].recent}
             word(j) == IF c[j].status = "open" /\ c[j].done > 0 THEN "partial" ELSE c[j].status
  <2>1. Listing(c) = [j \in S |-> word(j)]
    BY DEF Listing
  <2>2. \A j \in S : word(j) \in Words /\ (word(j) = "filled" => c[j].status = "filled")
    BY <1>1 DEF BrokerStatus, Words
  <2>3. S \subseteq DOMAIN c
    OBVIOUS
  <2> HIDE DEF S, word
  <2>. QED BY <2>1, <2>2, <2>3 DEF ListingOf
<1>. QED BY <1>2, <1>3, <1>4 DEF Listings
----------------------------------------------------------------------------
\* The entry of b has filled: nothing but the phase changes.
Opened(b, c) == /\ b.pos.phase = "entry_pending" /\ c.pos.phase = "trade_entered"
                /\ Shrunk(b.pos, c.pos) /\ Active(c.pos) = Active(b.pos)
                /\ Roots(b.ords) \subseteq Roots(c.ords)

\* The rows keep their number, and a trade its quantities.
Fits(b, c) == Len(c.ords) = Len(b.ords) /\ c.pos.qty = b.pos.qty /\ c.pos.root = b.pos.root

\* A listing that shows the entry filled opens the trade; nothing it does not know is touched.
LEMMA EntrySettledOK ==
    ASSUME NEW b, BookInv(b), NEW r, NEW seen,
           NEW c, c = EntrySettled(b, r, seen)
    PROVE  /\ BookInv(c) /\ Fits(b, c)
           /\ c = b \/ (Opened(b, c) /\ Reported(b.pos.root, r, seen) = "filled")
           /\ DOMAIN c.ords = DOMAIN b.ords
           /\ \A i \in DOMAIN b.ords : SameOrder(b.ords[i], c.ords[i])
           /\ \A i \in DOMAIN b.ords : i # b.pos.root => c.ords[i] = b.ords[i]
           /\ c.pos.st = b.pos.st
           /\ c # b => b.pos.phase = "entry_pending"
<1> DEFINE p == [b.pos EXCEPT !.phase = "trade_entered"]
           f == [b.ords EXCEPT ![b.pos.root].status = "FILLED"]
           d == [pos |-> p, ords |-> f]
<1>1. /\ BookType(b) /\ b.pos \in Position /\ b.ords \in Seq(Order)
      /\ b = [pos |-> b.pos, ords |-> b.ords]
      /\ Len(b.ords) \in Nat /\ DOMAIN b.ords = 1..Len(b.ords)
      /\ \A i \in DOMAIN b.ords : b.ords[i] \in Order /\ SameOrder(b.ords[i], b.ords[i])
  BY BookParts DEF BookInv, SameOrder
<1>2. CASE ~ (b.pos.phase = "entry_pending" /\ Reported(b.pos.root, r, seen) = "filled")
  <2>1. c = b
    BY <1>2 DEF EntrySettled
  <2>. QED BY <1>1, <2>1 DEF Fits
<1>3. CASE b.pos.phase = "entry_pending" /\ Reported(b.pos.root, r, seen) = "filled"
  <2>1. c = d
    BY <1>1, <1>3 DEF EntrySettled
  <2>2. b.pos.root \in DOMAIN b.ords
    BY <1>1, <1>3 DEF BookType, Roots
  <2>3. /\ p \in Position /\ p.phase = "trade_entered" /\ p.root = b.pos.root /\ p.side = b.pos.side
        /\ p.entry = b.pos.entry /\ p.qty = b.pos.qty /\ p.st = b.pos.st
    BY <1>1 DEF Position, Phases
  <2>4. /\ f = [i \in DOMAIN b.ords |-> f[i]]
        /\ \A i \in DOMAIN b.ords : f[i] = IF i = b.pos.root THEN [b.ords[i] EXCEPT !.status = "FILLED"]
                                           ELSE b.ords[i]
    BY <1>1, <2>2
  <2> HIDE DEF p, f
  <2>5. \A i \in DOMAIN b.ords : SameOrder(b.ords[i], f[i])
    <3>1. "FILLED" \in OrderStatus
      BY DEF OrderStatus
    <3>. QED BY <1>1, <2>4, <3>1, StatusType
  <2>6. f \in Seq(Order) /\ Len(f) = Len(b.ords) /\ DOMAIN f = DOMAIN b.ords
    BY <1>1, <2>4, <2>5, RowsType
  <2>7. BookType(d) /\ Roots(b.ords) = Roots(f)
    <3>1. b.pos.phase # "none" /\ p.phase # "none" /\ Len(p.st) = Len(b.pos.st)
      BY <1>3, <2>3
    <3>. QED BY <1>1, <2>3, <2>5, <2>6, <3>1, RewrittenBook
  <2>8. d.pos = p /\ d.ords = f
    OBVIOUS
  <2> HIDE DEF d
  <2>9. Active(p) = Active(b.pos)
    BY <2>3 DEF Active
  <2>10. Flat(d) /\ Quiet(d)
    BY <1>3, <2>3, <2>8, <2>9 DEF BookInv, Flat, Quiet
  <2>11. Opened(b, d)
    BY <1>3, <2>3, <2>7, <2>8, <2>9 DEF Opened, Shrunk
  <2>. QED BY <1>3, <2>1, <2>3, <2>4, <2>5, <2>6, <2>7, <2>8, <2>10, <2>11 DEF BookInv, Fits
<1>. QED BY <1>2, <1>3

\* A pass over the exits: those hit are sold, and rows live until then may get a new status.
LEMMA PassOK ==
    ASSUME NEW b, BookInv(b), NEW hit \in SUBSET LiveExits(b), NEW status \in [DOMAIN b.ords -> OrderStatus],
           \A i \in DOMAIN b.ords \ LiveExits(b) : status[i] = b.ords[i].status,
           \A i \in LiveExits(b) : status[i] = b.ords[i].status \/ status[i] \notin Live,
           NEW d, d = [pos  |-> Settled(b.pos, SoldBy(b, hit)),
                       ords |-> [i \in DOMAIN b.ords |-> [b.ords[i] EXCEPT !.status = status[i]]]]
    PROVE  BookInv(d) /\ Fits(b, d) /\ Follows(b, d) /\ (b.pos.phase = "entry_pending" => d = b)
<1> DEFINE T == SoldBy(b, hit)
           p == Settled(b.pos, T)
           f == [i \in DOMAIN b.ords |-> [b.ords[i] EXCEPT !.status = status[i]]]
<1>1. /\ BookType(b) /\ b.pos \in Position /\ b.ords \in Seq(Order)
      /\ b = [pos |-> b.pos, ords |-> b.ords]
      /\ Len(b.ords) \in Nat /\ DOMAIN b.ords = 1..Len(b.ords)
      /\ \A i \in DOMAIN b.ords : b.ords[i] \in Order
  BY BookParts DEF BookInv
<1>2. T \in SUBSET Active(b.pos)
  BY DEF SoldBy
<1>t. hit = {} => T = {}
  BY DEF SoldBy
<1> HIDE DEF T
<1>3. /\ p \in Position /\ p.side = b.pos.side /\ p.entry = b.pos.entry /\ p.qty = b.pos.qty
      /\ p.root = b.pos.root /\ Len(p.st) = Len(b.pos.st) /\ DOMAIN p.st = DOMAIN b.pos.st
      /\ \A t \in DOMAIN b.pos.st : b.pos.st[t] # "active" => p.st[t] = b.pos.st[t]
      /\ Active(p) = Active(b.pos) \ T
      /\ T = {} => p = b.pos
      /\ T # {} => p.phase \notin {"none", "entry_pending", "trade_entered"}
      /\ T # {} => (p.phase = "closed" <=> Active(b.pos) = T)
  BY <1>1, <1>2, SettledType
<1>4. /\ f = [i \in DOMAIN b.ords |-> f[i]] /\ DOMAIN f = DOMAIN b.ords
      /\ \A i \in DOMAIN b.ords : /\ SameOrder(b.ords[i], f[i]) /\ f[i].status = status[i]
                                  /\ status[i] = b.ords[i].status => f[i] = b.ords[i]
  <2>1. ASSUME NEW i \in DOMAIN b.ords, status[i] = b.ords[i].status PROVE f[i] = b.ords[i]
    <3>1. b.ords[i] \in Order /\ f[i] = [b.ords[i] EXCEPT !.status = status[i]]
      BY <1>1
    <3>. QED BY <2>1, <3>1 DEF Order
  <2>. QED BY <1>1, <2>1, StatusType
<1>5. d = [pos |-> p, ords |-> f]
  BY DEF T
<1> HIDE DEF p, f
<1>6. f \in Seq(Order) /\ Len(f) = Len(b.ords) /\ Roots(f) = Roots(b.ords)
  BY <1>1, <1>4, RowsType
<1>7. b.pos.phase = "entry_pending" => hit = {} /\ LiveExits(b) = {}
  BY DEF BookInv, Quiet, HasLive, LiveExits
<1>8. b.pos.phase \in {"none", "closed", "entry_pending"} => T = {}
  <2>1. b.pos.phase = "none" => Active(b.pos) = {}
    BY <1>1 DEF BookType, Active
  <2>2. b.pos.phase = "closed" => Active(b.pos) = {}
    BY DEF BookInv, Flat
  <2>. QED BY <1>2, <1>7, <1>t, <2>1, <2>2
<1>9. b.pos.phase = "entry_pending" => d = b
  <2>1. SUFFICES ASSUME b.pos.phase = "entry_pending" PROVE d = b
    OBVIOUS
  <2>2. p = b.pos
    BY <2>1, <1>3, <1>8
  <2>3. \A i \in DOMAIN b.ords : f[i] = b.ords[i]
    BY <2>1, <1>4, <1>7
  <2>4. f = b.ords
    BY <2>3, <1>1, <1>4
  <2>. QED BY <2>2, <2>4, <1>1, <1>5
<1>10. BookType(d)
  <2>1. CASE b.pos.phase = "none"
    <3>1. p = b.pos /\ b.ords = <<>>
      BY <1>1, <1>3, <1>8, <2>1 DEF BookType
    <3>2. f = <<>>
      BY <1>6, <3>1
    <3>3. d = b
      BY <1>1, <1>5, <3>1, <3>2
    <3>. QED BY <1>1, <3>3
  <2>2. CASE b.pos.phase # "none"
    <3>1. p.phase # "none"
      BY <1>3, <2>2
    <3>2. \A i \in DOMAIN b.ords : SameOrder(b.ords[i], f[i])
      BY <1>4
    <3>3. BookType([pos |-> p, ords |-> f])
      BY <1>1, <1>3, <1>6, <2>2, <3>1, <3>2, RewrittenBook
    <3>. QED BY <1>5, <3>3
  <2>. QED BY <2>1, <2>2
<1>11. d.pos = p /\ d.ords = f
  BY <1>5
<1>12. Flat(d)
  BY <1>2, <1>3, <1>8, <1>11 DEF BookInv, Flat
<1>13. Quiet(d)
  <2>1. CASE T = {}
    BY <1>3, <1>9, <1>11, <2>1 DEF BookInv, Quiet
  <2>2. CASE T # {}
    BY <1>3, <1>11, <2>2 DEF Quiet
  <2>. QED BY <2>1, <2>2
<1>14. Follows(b, d)
  BY <1>3, <1>6, <1>8, <1>11 DEF Follows, Shrunk, IsOpen
<1>. QED BY <1>3, <1>6, <1>9, <1>10, <1>11, <1>12, <1>13, <1>14 DEF BookInv, Fits

\* What _reconcile_position does with the exits in one pass (reconcile loop of cockpit.py).
LEMMA ObservedOK ==
    ASSUME NEW b, BookInv(b), NEW r, NEW seen, NEW d, d = Observed(b, r, seen)
    PROVE  /\ BookInv(d) /\ Fits(b, d)
           /\ Follows(b, d) \/ (Opened(b, d) /\ Reported(b.pos.root, r, seen) = "filled")
           /\ IsOpen(b.pos) /\ ~ HasLive(b.ords, ExitTypes) => IsOpen(d.pos)
<1> DEFINE c == EntrySettled(b, r, seen)
           hit == Hit(c, r, seen)
           word(i) == IF i \in hit THEN IF Reported(i, r, seen) = "partial" THEN "PARTIALLY_FILLED" ELSE "FILLED"
                      ELSE IF i \in LiveExits(c) /\ Reported(i, r, seen) = "canceled" THEN "CANCELED"
                      ELSE c.ords[i].status
           status == [i \in DOMAIN c.ords |-> word(i)]
<1>1. /\ BookInv(c) /\ Fits(b, c)
      /\ c = b \/ (Opened(b, c) /\ Reported(b.pos.root, r, seen) = "filled")
      /\ c # b => b.pos.phase = "entry_pending"
      /\ \A i \in DOMAIN b.ords : i # b.pos.root => c.ords[i] = b.ords[i]
      /\ DOMAIN c.ords = DOMAIN b.ords
      /\ \A i \in DOMAIN b.ords : SameOrder(b.ords[i], c.ords[i])
  BY EntrySettledOK
<1>2. d = [pos  |-> Settled(c.pos, SoldBy(c, hit)),
           ords |-> [i \in DOMAIN c.ords |-> [c.ords[i] EXCEPT !.status = word(i)]]]
  BY DEF Observed
<1>3. hit \in SUBSET LiveExits(c) /\ LiveExits(c) \subseteq DOMAIN c.ords
  BY DEF Hit, LiveExits
<1>o. LiveExits(c) # {} => b.pos.phase # "entry_pending"
  <2>1. SUFFICES ASSUME NEW i \in LiveExits(c), b.pos.phase = "entry_pending" PROVE FALSE
    OBVIOUS
  <2>2. BookType(b) /\ b.pos.root \in Roots(b.ords)
    BY <2>1 DEF BookInv, BookType
  <2>3. i \in DOMAIN b.ords /\ b.ords[i].type \in ExitTypes
    BY <1>1 DEF LiveExits, SameOrder
  <2>4. c.ords[i] = b.ords[i]
    BY <1>1, <2>2, <2>3 DEF Roots, ExitTypes
  <2>. QED BY <2>1, <2>3, <2>4 DEF LiveExits, BookInv, Quiet, HasLive
<1> HIDE DEF c, hit
<1>4. \A i \in DOMAIN c.ords : c.ords[i].status \in OrderStatus
  <2>1. BookType(c)
    BY <1>1 DEF BookInv
  <2>. QED BY <2>1, BookParts DEF Order
<1>5. status \in [DOMAIN c.ords -> OrderStatus]
  BY <1>4 DEF OrderStatus
<1>6. /\ \A i \in DOMAIN c.ords \ LiveExits(c) : status[i] = c.ords[i].status
      /\ \A i \in LiveExits(c) : status[i] = c.ords[i].status \/ status[i] \notin Live
  BY <1>3 DEF Live
<1>7. [i \in DOMAIN c.ords |-> [c.ords[i] EXCEPT !.status = word(i)]]
        = [i \in DOMAIN c.ords |-> [c.ords[i] EXCEPT !.status = status[i]]]
  OBVIOUS
<1> HIDE DEF status, word
<1>d. d = [pos  |-> Settled(c.pos, SoldBy(c, hit)),
           ords |-> [i \in DOMAIN c.ords |-> [c.ords[i] EXCEPT !.status = status[i]]]]
  BY <1>2, <1>7
<1>8. BookInv(d) /\ Fits(c, d) /\ Follows(c, d)
  <2>1. BookInv(c) /\ hit \in SUBSET LiveExits(c)
    BY <1>1, <1>3
  <2>. QED BY <1>5, <1>6, <1>d, <2>1, PassOK
<1>9. LiveExits(c) = {} => d = c
  <2>1. SUFFICES ASSUME LiveExits(c) = {} PROVE d = c
    OBVIOUS
  <2>2. hit = {} /\ SoldBy(c, {}) = {} /\ Settled(c.pos, {}) = c.pos
    BY <1>3, <2>1 DEF SoldBy, Settled
  <2>3. BookType(c)
    BY <1>1 DEF BookInv
  <2>4. ASSUME NEW i \in DOMAIN c.ords PROVE [c.ords[i] EXCEPT !.status = status[i]] = c.ords[i]
    <3>1. c.ords[i] \in Order /\ status[i] = c.ords[i].status
      BY <1>6, <2>1, <2>3, BookParts
    <3>. QED BY <3>1 DEF Order
  <2>5. c = [pos |-> c.pos, ords |-> c.ords] /\ c.ords = [i \in DOMAIN c.ords |-> c.ords[i]]
    BY <2>3, BookParts
  <2>6. [i \in DOMAIN c.ords |-> [c.ords[i] EXCEPT !.status = status[i]]] = [i \in DOMAIN c.ords |-> c.ords[i]]
    BY <2>4
  <2>. QED BY <1>d, <2>2, <2>5, <2>6
<1>10. Follows(b, d) \/ (Opened(b, d) /\ Reported(b.pos.root, r, seen) = "filled")
  <2>1. CASE c = b
    BY <1>8, <2>1
  <2>2. CASE c # b
    BY <1>1, <1>o, <1>9, <2>2
  <2>. QED BY <2>1, <2>2
<1>11. ASSUME IsOpen(b.pos), ~ HasLive(b.ords, ExitTypes) PROVE IsOpen(d.pos)
  <2>1. LiveExits(c) = {}
    <3>1. SUFFICES ASSUME NEW i \in LiveExits(c) PROVE FALSE
      OBVIOUS
    <3>2. i \in DOMAIN b.ords /\ b.ords[i].type \in ExitTypes
      BY <1>1 DEF LiveExits, SameOrder
    <3>3. b.pos.phase = "entry_pending" => i # b.pos.root
      BY <3>2 DEF BookInv, BookType, Roots, ExitTypes
    <3>4. c.ords[i] = b.ords[i]
      BY <1>1, <3>2, <3>3
    <3>. QED BY <1>11, <3>2, <3>4 DEF LiveExits, HasLive
  <2>2. IsOpen(c.pos)
    BY <1>1, <1>11 DEF Opened, IsOpen
  <2>. QED BY <1>9, <2>1, <2>2
<1>. QED BY <1>1, <1>8, <1>10, <1>11 DEF Fits

\* What a pass sells, it sells by the rows it fills; what was sold before it, its rows still tell.
LEMMA ObservedSold ==
    ASSUME NEW b, NEW c, BookInv(c), SoldByFill(b, c), Reworked(b, c),
           c.pos.root = b.pos.root => DOMAIN b.pos.st \subseteq DOMAIN c.pos.st,
           NEW r, NEW seen, NEW d, d = Observed(c, r, seen)
    PROVE  SoldByFill(b, d)
<1> DEFINE e == EntrySettled(c, r, seen)
           hit == Hit(e, r, seen)
           T == SoldBy(e, hit)
           word(i) == IF i \in hit THEN IF Reported(i, r, seen) = "partial" THEN "PARTIALLY_FILLED" ELSE "FILLED"
                      ELSE IF i \in LiveExits(e) /\ Reported(i, r, seen) = "canceled" THEN "CANCELED"
                      ELSE e.ords[i].status
<1>1. /\ BookInv(e) /\ Fits(c, e) /\ e.pos.st = c.pos.st
      /\ e # c => c.pos.phase = "entry_pending"
      /\ \A i \in DOMAIN c.ords : i # c.pos.root => e.ords[i] = c.ords[i]
      /\ DOMAIN e.ords = DOMAIN c.ords
      /\ \A i \in DOMAIN c.ords : SameOrder(c.ords[i], e.ords[i])
  BY EntrySettledOK
<1>2. /\ d.pos = Settled(e.pos, T)
      /\ DOMAIN d.ords = DOMAIN c.ords
      /\ \A i \in DOMAIN c.ords : d.ords[i] = [e.ords[i] EXCEPT !.status = word(i)]
  BY <1>1 DEF Observed
<1>3. \A i \in DOMAIN c.ords : e.ords[i] \in Order
  BY <1>1 DEF SameOrder
<1>4. \A i \in DOMAIN c.ords : /\ d.ords[i].status = word(i) /\ Sells(d.ords[i]) = Sells(e.ords[i])
                               /\ d.ords[i].covered = e.ords[i].covered
                               /\ word(i) = e.ords[i].status => d.ords[i] = e.ords[i]
  <2>1. ASSUME NEW i \in DOMAIN c.ords, word(i) = e.ords[i].status PROVE d.ords[i] = e.ords[i]
    <3>1. d.ords[i] = [e.ords[i] EXCEPT !.status = word(i)] /\ e.ords[i] \in Order
      BY <1>2, <1>3
    <3> HIDE DEF word
    <3>. QED BY <2>1, <3>1 DEF Order
  <2>2. ASSUME NEW i \in DOMAIN c.ords
        PROVE  /\ d.ords[i].status = word(i) /\ Sells(d.ords[i]) = Sells(e.ords[i])
               /\ d.ords[i].covered = e.ords[i].covered
    <3>1. d.ords[i] = [e.ords[i] EXCEPT !.status = word(i)] /\ e.ords[i] \in Order
      BY <1>2, <1>3
    <3> HIDE DEF word
    <3>. QED BY <3>1, StatusSells
  <2>. QED BY <2>1, <2>2
<1>5. hit \subseteq LiveExits(e) /\ LiveExits(e) \subseteq DOMAIN e.ords
  BY DEF Hit, LiveExits
<1>6. e.pos \in Position /\ T \in SUBSET Active(e.pos)
  BY <1>1, BookParts DEF BookInv, SoldBy
<1>7. ASSUME NEW i \in LiveExits(e) PROVE i \in DOMAIN c.ords /\ e.ords[i] = c.ords[i] /\ c.ords[i].status \in Live
  <2>1. i \in DOMAIN c.ords /\ c.ords[i].type \in ExitTypes
    BY <1>1 DEF LiveExits, SameOrder
  <2>2. c.pos.phase = "entry_pending" => i # c.pos.root
    BY <2>1 DEF BookInv, BookType, Roots, ExitTypes
  <2>3. e.ords[i] = c.ords[i]
    BY <1>1, <2>1, <2>2
  <2>. QED BY <2>1, <2>3 DEF LiveExits
<1>8. SUFFICES ASSUME NEW t \in Active(b.pos), d.pos.root = b.pos.root, d.pos.st[t] = "sold"
               PROVE  \E i \in FillsIn(b, d) : t \in Sells(d.ords[i])
  BY DEF SoldByFill
<1> HIDE DEF e, hit
<1>9. /\ d.pos.root = c.pos.root
      /\ \A u \in DOMAIN e.pos.st : e.pos.st[u] # "active" => d.pos.st[u] = e.pos.st[u]
      /\ Active(d.pos) = Active(e.pos) \ T
      /\ DOMAIN d.pos.st = DOMAIN e.pos.st
  <2>1. /\ d.pos.root = e.pos.root
        /\ \A u \in DOMAIN e.pos.st : e.pos.st[u] # "active" => d.pos.st[u] = e.pos.st[u]
        /\ Active(d.pos) = Active(e.pos) \ T
        /\ DOMAIN d.pos.st = DOMAIN e.pos.st
    BY <1>2, <1>6, SettledType
  <2>. QED BY <1>1, <2>1 DEF Fits
<1>10. t \in DOMAIN c.pos.st
  BY <1>8, <1>9 DEF Active
<1>11. CASE c.pos.st[t] = "sold"
  <2>1. PICK i \in FillsIn(b, c) : t \in Sells(c.ords[i])
    BY <1>8, <1>9, <1>11 DEF SoldByFill
  <2>2. i \in DOMAIN c.ords /\ c.ords[i].status \in {"FILLED", "PARTIALLY_FILLED"} /\ c.ords[i].status \notin Live
    BY DEF FillsIn, Live
  <2>3. e.ords[i] = c.ords[i]
    <3>1. c.pos.phase = "entry_pending" => c.ords[c.pos.root].status \in Unfilled
      BY DEF BookInv, Quiet
    <3>2. c.pos.phase = "entry_pending" => i # c.pos.root
      BY <2>2, <3>1 DEF Unfilled
    <3>. QED BY <1>1, <2>2, <3>2
  <2>4. i \notin LiveExits(e)
    BY <1>7, <2>2
  <2>5. d.ords[i] = c.ords[i]
    <3>1. word(i) = e.ords[i].status
      BY <1>5, <2>4
    <3>. QED BY <1>4, <2>2, <2>3, <3>1
  <2>6. i \in FillsIn(b, d)
    BY <1>2, <2>2, <2>5 DEF FillsIn
  <2>. QED BY <2>1, <2>5, <2>6
<1>12. CASE c.pos.st[t] # "sold"
  <2>1. t \in T
    <3>1. e.pos.st[t] = c.pos.st[t] /\ t \in DOMAIN e.pos.st
      BY <1>1, <1>10
    <3>2. e.pos.st[t] = "active"
      BY <1>8, <1>9, <1>12, <3>1
    <3>3. t \in Active(e.pos)
      BY <3>1, <3>2 DEF Active
    <3>4. t \notin Active(d.pos)
      BY <1>8 DEF Active
    <3>. QED BY <1>9, <3>3, <3>4
  <2>2. PICK i \in hit : t \in Sells(e.ords[i])
    BY <2>1 DEF SoldBy
  <2>3. i \in DOMAIN c.ords /\ e.ords[i] = c.ords[i] /\ c.ords[i].status \in Live
    BY <1>5, <1>7
  <2>4. d.ords[i].status \in {"FILLED", "PARTIALLY_FILLED"} /\ d.ords[i].covered = c.ords[i].covered
        /\ t \in Sells(d.ords[i])
    BY <1>4, <2>2, <2>3
  <2>5. i \in DOMAIN b.ords => d.ords[i] # b.ords[i]
    <3>1. ASSUME i \in DOMAIN b.ords, d.ords[i] = b.ords[i] PROVE FALSE
      <4>1. b.ords[i].status \notin Live /\ c.ords[i].covered = b.ords[i].covered
        BY <2>4, <3>1 DEF Live
      <4>. QED BY <2>3, <3>1, <4>1 DEF Reworked
    <3>. QED BY <3>1
  <2>6. i \in FillsIn(b, d)
    BY <1>2, <2>3, <2>4, <2>5 DEF FillsIn
  <2>. QED BY <2>4, <2>6
<1>. QED BY <1>11, <1>12

----------------------------------------------------------------------------
(* What the handlers sell.                                                 *)

\* Rows rewritten and added: the new ones that are filled sell what the handler sold.
LEMMA SoldMore ==
    ASSUME NEW b, BookType(b), NEW p, NEW f \in Seq(Order), DOMAIN f = DOMAIN b.ords,
           \A i \in DOMAIN b.ords : b.ords[i].status \notin Live /\ f[i].status \in Live
                                      => f[i].covered # b.ords[i].covered,
           NEW g \in Seq(Order),
           \A t \in Active(b.pos) : p.st[t] = "sold" => \E k \in DOMAIN g : g[k].status = "FILLED" /\ t \in Sells(g[k])
    PROVE  LET c == [pos |-> p, ords |-> f \o g]
           IN  SoldByFill(b, c) /\ Reworked(b, c) /\ Len(c.ords) = Len(b.ords) + Len(g)
<1> DEFINE c == [pos |-> p, ords |-> f \o g]
<1>1. Len(b.ords) \in Nat /\ DOMAIN b.ords = 1..Len(b.ords)
  BY BookParts
<1>2. Len(f) = Len(b.ords)
  BY <1>1
<1>3. /\ Len(f \o g) = Len(f) + Len(g)
      /\ \A i \in DOMAIN f : (f \o g)[i] = f[i]
      /\ \A k \in DOMAIN g : Len(f) + k \in DOMAIN (f \o g) /\ (f \o g)[Len(f) + k] = g[k]
      /\ \A k \in DOMAIN g : k \in Nat \ {0}
  BY MoreRows
<1>4. c.pos = p /\ c.ords = f \o g
  OBVIOUS
<1> HIDE DEF c
<1>5. Reworked(b, c)
  BY <1>3, <1>4 DEF Reworked
<1>6. SoldByFill(b, c)
  <2>1. SUFFICES ASSUME NEW t \in Active(b.pos), p.st[t] = "sold"
                 PROVE  \E i \in FillsIn(b, c) : t \in Sells(c.ords[i])
    BY <1>4 DEF SoldByFill
  <2>2. PICK k \in DOMAIN g : g[k].status = "FILLED" /\ t \in Sells(g[k])
    BY <2>1
  <2>3. Len(f) + k \in DOMAIN c.ords /\ c.ords[Len(f) + k] = g[k] /\ Len(f) + k \notin DOMAIN b.ords
    BY <1>1, <1>2, <1>3, <1>4
  <2>4. Len(f) + k \in FillsIn(b, c)
    BY <2>2, <2>3 DEF FillsIn
  <2>. QED BY <2>2, <2>3, <2>4
<1>. QED BY <1>2, <1>3, <1>4, <1>5, <1>6 DEF c

\* A step that sells no tranche.
LEMMA SoldNone ==
    ASSUME NEW b, NEW c, \A t \in Active(b.pos) : c.pos.st[t] # "sold"
    PROVE  SoldByFill(b, c)
BY DEF SoldByFill

\* apply_stops sells nothing and adds a row for each group.
LEMMA StopsAppliedSold ==
    ASSUME NEW b, BookInv(b), Filled(b.pos), NEW mode, NEW price,
           \A k \in DOMAIN StopGroups(b.pos, mode) : price[k] \in Int
    PROVE  LET c == StopsApplied(b, StopGroups(b.pos, mode), price)
           IN  /\ SoldByFill(b, c) /\ Reworked(b, c)
               /\ Len(c.ords) = Len(b.ords) + Len(StopGroups(b.pos, mode))
<1> DEFINE groups == StopGroups(b.pos, mode)
           p == [b.pos EXCEPT !.phase = "protected"]
           row(k) == [root |-> b.pos.root, type |-> "STOP", qty |-> QtyOf(b.pos, groups[k]),
                      price |-> price[k], status |-> "ACTIVE", covered |-> groups[k],
                      tranche |-> 0, bid |-> FALSE]
           new == [k \in DOMAIN groups |-> row(k)]
           c == StopsApplied(b, groups, price)
<1>1. c = [pos |-> p, ords |-> b.ords \o new]
  BY DEF StopsApplied
<1>2. /\ BookType(b) /\ b.pos \in Position /\ b.ords \in Seq(Order) /\ Len(b.ords) \in Nat
      /\ Active(b.pos) \subseteq DOMAIN b.pos.qty /\ DOMAIN b.pos.st \subseteq TrancheIds
      /\ b.pos.root \in Nat
  BY FilledParts
<1>3. PICK n \in Nat : groups \in [1..n -> SUBSET Active(b.pos)]
  BY <1>2, GroupsParts
<1>4. groups \in Seq(SUBSET Active(b.pos)) /\ Len(groups) = n
  BY <1>3, FunctionIsSeq
<1>5. \A k \in DOMAIN groups : price[k] \in Int
  OBVIOUS
<1>6. p.st = b.pos.st
  BY <1>2 DEF Position
<1> HIDE DEF groups, c, p
<1>7. ASSUME NEW k \in 1..n PROVE row(k) \in Order
  <2>1. groups[k] \in SUBSET Active(b.pos) /\ k \in DOMAIN groups
    BY <1>3
  <2>2. groups[k] \in SUBSET TrancheIds /\ groups[k] \in SUBSET DOMAIN b.pos.qty
    BY <2>1, <1>2, BookParts
  <2>3. QtyOf(b.pos, groups[k]) \in Int /\ price[k] \in Int
    BY <2>2, <2>1, <1>2, <1>5, QtyOfType
  <2>. QED BY <2>2, <2>3, <1>2 DEF Order, OrderTypes, OrderStatus
<1>8. new \in [1..n -> Order]
  BY <1>3, <1>7
<1>9. new \in Seq(Order) /\ Len(new) = n
  BY <1>8, FunctionIsSeq
<1> HIDE DEF new
<1>10. \A t \in Active(b.pos) : p.st[t] # "sold"
  BY <1>6 DEF Active
<1> DEFINE d == [pos |-> p, ords |-> b.ords \o new]
<1>11. SoldByFill(b, d) /\ Reworked(b, d) /\ Len(d.ords) = Len(b.ords) + Len(new)
  <2>1. \A i \in DOMAIN b.ords : b.ords[i].status \notin Live /\ b.ords[i].status \in Live
                                   => b.ords[i].covered # b.ords[i].covered
    OBVIOUS
  <2>2. \A t \in Active(b.pos) : p.st[t] = "sold" =>
          \E k \in DOMAIN new : new[k].status = "FILLED" /\ t \in Sells(new[k])
    BY <1>10
  <2>3. BookType(b) /\ b.ords \in Seq(Order) /\ new \in Seq(Order)
    BY <1>2, <1>9
  <2>4. SoldByFill(b, d)
    BY <2>1, <2>2, <2>3, SoldMore
  <2>5. Reworked(b, d)
    BY <2>1, <2>2, <2>3, SoldMore
  <2>6. Len(d.ords) = Len(b.ords) + Len(new)
    BY <2>3
  <2>. QED BY <2>4, <2>5, <2>6
<1>. QED BY <1>1, <1>4, <1>9, <1>11 DEF groups, c

\* move_to_be sells nothing and brings nothing back.
LEMMA BrokenEvenSold ==
    ASSUME NEW b, BookInv(b), Filled(b.pos)
    PROVE  LET c == BrokenEven(b) IN SoldByFill(b, c) /\ Reworked(b, c) /\ Len(c.ords) = Len(b.ords)
<1> DEFINE c == BrokenEven(b)
<1>1. /\ BookType(b) /\ b.pos \in Position /\ b.ords \in Seq(Order)
      /\ Len(b.ords) \in Nat /\ DOMAIN b.ords = 1..Len(b.ords)
  BY BookParts DEF BookInv
<1>2. c.pos.st = b.pos.st
  BY <1>1 DEF BrokenEven, Position
<1>3. c.ords = [i \in DOMAIN b.ords |->
                 IF b.ords[i].type = "STOP" /\ b.ords[i].status \in Live
                 THEN [b.ords[i] EXCEPT !.price = b.pos.entry, !.status = "MODIFIED"]
                 ELSE b.ords[i]]
  BY DEF BrokenEven
<1>i. c.ords \in Seq(Order)
  BY BrokenEvenOK, BookParts DEF BookInv
<1> HIDE DEF c
<1>4. SoldByFill(b, c)
  BY <1>2, SoldNone DEF Active
<1>5. Reworked(b, c)
  BY <1>3 DEF Reworked
<1>6. Len(c.ords) = Len(b.ords)
  <2>1. DOMAIN c.ords = DOMAIN b.ords
    BY <1>3
  <2>. QED BY <1>1, <1>i, <2>1
<1>. QED BY <1>4, <1>5, <1>6 DEF c

\* The plan sells by filled limits; a stop that it brings back has lost a tranche.
LEMMA PlanExecutedSold ==
    ASSUME NEW b, BookInv(b), Filled(b.pos), NEW keep \in SUBSET Active(b.pos), NEW trail \in Int
    PROVE  LET c == PlanExecuted(b, keep, trail)
           IN  SoldByFill(b, c) /\ Reworked(b, c) /\ Len(c.ords) = Len(b.ords) + Len(ActiveList(b.pos))
<1> DEFINE sold == Active(b.pos) \ keep
           m == Marked(b.pos.st, sold, "sold")
           p == [b.pos EXCEPT !.st = m, !.runner = @ \cup keep, !.phase = PlanPhase(b.pos, keep)]
           f == [i \in DOMAIN b.ords |-> PlanOrder(b.pos, sold, b.ords[i])]
           L == ActiveList(b.pos)
           g == [k \in DOMAIN L |-> ExitOrder(b.pos, keep, trail, L[k])]
           d == [pos |-> p, ords |-> f \o g]
<1>1. PlanExecuted(b, keep, trail) = d
  BY DEF PlanExecuted
<1>2. /\ BookType(b) /\ b.pos \in Position /\ b.ords \in Seq(Order)
      /\ Active(b.pos) \subseteq DOMAIN b.pos.st /\ DOMAIN b.pos.qty = DOMAIN b.pos.st
      /\ DOMAIN b.pos.st \subseteq TrancheIds
  BY FilledParts
<1>3. sold \in SUBSET (DOMAIN b.pos.qty)
  BY <1>2
<1>4. ASSUME NEW i \in DOMAIN b.ords
      PROVE  /\ SameOrder(b.ords[i], f[i])
             /\ b.ords[i].status \notin Live /\ f[i].status \in Live => f[i].covered # b.ords[i].covered
  <2>1. b.ords[i] \in Order
    BY <1>2
  <2>2. SameOrder(b.ords[i], f[i])
    BY <1>2, <1>3, <2>1, PlanOrderType
  <2>3. ASSUME b.ords[i].status \notin Live, f[i].status \in Live PROVE f[i].covered # b.ords[i].covered
    <3>1. f[i] = ReducedBy(b.pos, sold, b.ords[i])
      BY <2>3 DEF PlanOrder, CanceledIf
    <3>2. \/ f[i] = b.ords[i] \/ f[i].status = "CANCELED"
          \/ f[i].status = "MODIFIED" /\ f[i].covered # b.ords[i].covered
      BY <1>2, <1>3, <2>1, <3>1, ReducedShape
    <3>. QED BY <2>3, <3>2 DEF Live
  <2>. QED BY <2>2, <2>3
<1>5. f \in Seq(Order) /\ DOMAIN f = DOMAIN b.ords
  <2>1. f = [i \in DOMAIN b.ords |-> f[i]]
    OBVIOUS
  <2> HIDE DEF f
  <2>. QED BY <1>2, <1>4, <2>1, RowsType
<1>6. /\ g \in Seq(Order) /\ DOMAIN g = DOMAIN L
      /\ \A k \in DOMAIN L : /\ Sells(g[k]) = {L[k]}
                              /\ \/ L[k] \in keep /\ g[k].type = "TRAIL" /\ g[k].status = "ACTIVE"
                                 \/ L[k] \notin keep /\ g[k].type = "LMT" /\ g[k].status = "FILLED"
      /\ \A t \in sold : \E k \in DOMAIN g : g[k].status = "FILLED" /\ t \in Sells(g[k])
  BY PlanNewParts
<1>7. L \in Seq(Active(b.pos))
  BY <1>2, ActiveListParts
<1>m. DOMAIN m = DOMAIN b.pos.st /\ \A t \in DOMAIN b.pos.st : m[t] = IF t \in sold THEN "sold" ELSE b.pos.st[t]
  BY <1>2, MarkedType DEF Position, TrancheStatus
<1> HIDE DEF f, g, L, m
<1>8. p.st = m
  BY <1>2 DEF Position
<1> HIDE DEF p
<1>9. Len(g) = Len(L)
  BY <1>6, <1>7
<1>10. \A t \in Active(b.pos) : p.st[t] = "sold" => \E k \in DOMAIN g : g[k].status = "FILLED" /\ t \in Sells(g[k])
  <2>1. ASSUME NEW t \in Active(b.pos), p.st[t] = "sold" PROVE t \in sold
    <3>1. t \in DOMAIN b.pos.st /\ b.pos.st[t] = "active"
      BY DEF Active
    <3>2. t \notin sold => m[t] = "active"
      BY <1>m, <3>1
    <3>. QED BY <1>8, <2>1, <3>2
  <2>. QED BY <1>6, <2>1
<1>11. SoldByFill(b, d) /\ Reworked(b, d) /\ Len(d.ords) = Len(b.ords) + Len(g)
  <2>1. \A i \in DOMAIN b.ords : b.ords[i].status \notin Live /\ f[i].status \in Live
                                   => f[i].covered # b.ords[i].covered
    BY <1>4
  <2>2. BookType(b) /\ f \in Seq(Order) /\ g \in Seq(Order) /\ DOMAIN f = DOMAIN b.ords
    BY <1>2, <1>5, <1>6
  <2>3. SoldByFill(b, d)
    BY <1>10, <2>1, <2>2, SoldMore
  <2>4. Reworked(b, d)
    BY <1>10, <2>1, <2>2, SoldMore
  <2>5. Len(d.ords) = Len(b.ords) + Len(g)
    <3>1. Len(f) = Len(b.ords)
      BY <1>2, <2>2
    <3>. QED BY <2>2, <3>1
  <2>. QED BY <2>3, <2>4, <2>5
<1>. QED BY <1>1, <1>9, <1>11 DEF L

\* flatten sells by filled market orders.
LEMMA FlattenedSold ==
    ASSUME NEW b, BookInv(b), Filled(b.pos)
    PROVE  LET c == Flattened(b)
           IN  SoldByFill(b, c) /\ Reworked(b, c) /\ Len(c.ords) = Len(b.ords) + Len(ActiveList(b.pos))
<1> DEFINE p == [b.pos EXCEPT !.st = Marked(b.pos.st, Active(b.pos), "sold"), !.phase = "closed"]
           f == CanceledIn(b.ords, Live)
           L == ActiveList(b.pos)
           g == [k \in DOMAIN L |-> MarketExit(b.pos, L[k])]
           d == [pos |-> p, ords |-> f \o g]
<1>1. Flattened(b) = d
  BY DEF Flattened
<1>2. /\ BookType(b) /\ b.pos \in Position /\ b.ords \in Seq(Order)
      /\ Active(b.pos) \subseteq DOMAIN b.pos.st /\ DOMAIN b.pos.qty = DOMAIN b.pos.st
      /\ DOMAIN b.pos.st \subseteq TrancheIds
  BY FilledParts
<1>3. /\ f \in Seq(Order) /\ DOMAIN f = DOMAIN b.ords
      /\ \A i \in DOMAIN b.ords : b.ords[i].status \notin Live /\ f[i].status \in Live
                                    => f[i].covered # b.ords[i].covered
  <2>1. f \in Seq(Order) /\ DOMAIN f = DOMAIN b.ords
    BY <1>2, CanceledInType
  <2>2. \A i \in DOMAIN b.ords : b.ords[i].status \notin Live => f[i] = b.ords[i]
    BY DEF CanceledIn, CanceledIf
  <2>. QED BY <2>1, <2>2
<1>d. DOMAIN g = DOMAIN L
  OBVIOUS
<1>4. /\ g \in Seq(Order)
      /\ \A t \in Active(b.pos) : \E k \in DOMAIN g : g[k].status = "FILLED" /\ t \in Sells(g[k])
  BY MarketNewParts
<1>5. L \in Seq(Active(b.pos))
  BY <1>2, ActiveListParts
<1> HIDE DEF f, g, L, p
<1>6. Len(g) = Len(L)
  BY <1>d, <1>4, <1>5
<1>7. SoldByFill(b, d) /\ Reworked(b, d) /\ Len(d.ords) = Len(b.ords) + Len(g)
  <2>1. \A t \in Active(b.pos) : p.st[t] = "sold" => \E k \in DOMAIN g : g[k].status = "FILLED" /\ t \in Sells(g[k])
    BY <1>4
  <2>. QED BY <1>2, <1>3, <1>4, <2>1, SoldMore
<1>. QED BY <1>1, <1>6, <1>7 DEF L

\* flatten of a pending entry sells nothing and brings nothing back.
LEMMA EntryVoidedSold ==
    ASSUME NEW b, BookInv(b), b.pos.phase = "entry_pending"
    PROVE  LET c == EntryVoided(b) IN SoldByFill(b, c) /\ Reworked(b, c) /\ Len(c.ords) = Len(b.ords)
<1> DEFINE S == Live \cup {"PENDING"}
           f == [CanceledIn(b.ords, S) EXCEPT ![b.pos.root].status = "CANCELED"]
           p == Voided(b.pos)
           c == [pos |-> p, ords |-> f]
<1>1. /\ BookType(b) /\ b.pos \in Position /\ b.ords \in Seq(Order) /\ b.pos.root \in Roots(b.ords)
      /\ Len(b.ords) \in Nat /\ DOMAIN b.ords = 1..Len(b.ords)
  BY BookParts DEF BookInv, BookType
<1>2. S \cap Done = {}
  BY DEF Live, Done
<1>3. DOMAIN f = DOMAIN b.ords
  BY DEF CanceledIn
<1>4. Len(f) = Len(b.ords)
  BY <1>1 DEF CanceledIn
<1> HIDE DEF S
<1>5. \A i \in DOMAIN b.ords : Quashed(b.ords[i], f[i])
  BY <1>1, <1>2, EntryQuashed
<1>6. \A t \in Active(b.pos) : p.st[t] # "sold"
  BY <1>1 DEF Voided, Active, Position
<1>7. EntryVoided(b) = c
  BY DEF EntryVoided, S
<1> HIDE DEF f, p
<1>8. SoldByFill(b, c)
  BY <1>6, SoldNone
<1>9. Reworked(b, c)
  <2>1. \A i \in DOMAIN b.ords : f[i] = b.ords[i] \/ f[i].status = "CANCELED"
    BY <1>1, <1>5, QuashedSame
  <2>. QED BY <2>1 DEF Reworked, Live
<1>. QED BY <1>4, <1>7, <1>8, <1>9

----------------------------------------------------------------------------
(* The invariant, and what a step does.                                    *)

\* Every quantity is positive: an entry is split into shares of at least one (_split_shares).
Positive(q) == \A t \in DOMAIN q : q[t] > 0

\* Each row has an order at Alpaca.
Linked(r, os, a) == r \in Seq(DOMAIN a) /\ Len(r) = Len(os)

IInv == /\ BookInv(book) /\ Positive(book.pos.qty)
        /\ Linked(ref, book.ords, alpaca)
        /\ BrokerInv(alpaca) /\ held \in Nat
        /\ ListingOf(alpaca, cache)

\* The trade goes on, opens because its entry has filled at Alpaca, or shrinks; its sales are told.
Steady == /\ \/ Follows(book, book')
             \/ Opened(book, book') /\ alpaca[ref[book.pos.root]].status = "filled"
          /\ SoldByFill(book, book')

\* A new trade, within the limit.
Fresh == /\ book'.pos.root > Len(book.ords)
         /\ IsOpen(book'.pos)
         /\ MaxOpenPositions > 0

\* The quantity of some tranches is positive.
LEMMA QtyPositive ==
    ASSUME NEW p, DOMAIN p.qty \subseteq TrancheIds, \A t \in DOMAIN p.qty : p.qty[t] \in Int /\ p.qty[t] > 0,
           NEW T \in SUBSET (DOMAIN p.qty), T # {}
    PROVE  QtyOf(p, T) \in Nat \ {0}
<1> DEFINE q(t) == IF t \in T THEN p.qty[t] ELSE 0
<1>1. \A t \in 1..3 : q(t) \in Nat
  OBVIOUS
<1>2. PICK t \in T : q(t) > 0
  OBVIOUS
<1>3. t \in 1..3
  BY DEF TrancheIds
<1>4. QtyOf(p, T) = q(1) + q(2) + q(3)
  BY DEF QtyOf
<1> HIDE DEF q
<1>5. q(1) \in Nat /\ q(2) \in Nat /\ q(3) \in Nat /\ (q(1) > 0 \/ q(2) > 0 \/ q(3) > 0)
  BY <1>1, <1>2, <1>3
<1>6. \A x, y, z \in Nat : x > 0 \/ y > 0 \/ z > 0 => x + y + z \in Nat \ {0}
  OBVIOUS
<1>. QED BY <1>4, <1>5, <1>6

\* The order ids stay those of orders at Alpaca.
LEMMA LinkedMore ==
    ASSUME NEW r, NEW os, NEW a, BrokerInv(a), Linked(r, os, a), NEW c, BrokerInv(c), Grows(a, c)
    PROVE  Linked(r, os, c)
<1>1. a \in Seq(AlpacaOrder) /\ c \in Seq(AlpacaOrder) /\ Len(a) =< Len(c)
  BY DEF BrokerInv, Grows
<1>2. DOMAIN a \subseteq DOMAIN c
  BY <1>1
<1>. QED BY <1>2 DEF Linked

\* What has grown twice has grown.
LEMMA GrowsTrans ==
    ASSUME NEW a, BrokerInv(a), NEW b, BrokerInv(b), NEW c, BrokerInv(c), Grows(a, b), Grows(b, c)
    PROVE  Grows(a, c)
<1>1. a \in Seq(AlpacaOrder) /\ b \in Seq(AlpacaOrder) /\ c \in Seq(AlpacaOrder)
  BY DEF BrokerInv
<1>. QED BY <1>1 DEF Grows

\* Following once more.
LEMMA OpensLater ==
    ASSUME NEW b, NEW c, NEW d, BookInv(b), BookInv(c), Follows(b, c), Opened(c, d)
    PROVE  Opened(b, d)
<1>1. b.pos.phase = "entry_pending" /\ c.pos.phase = "entry_pending" /\ d.pos.phase = "trade_entered"
  BY DEF Follows, Opened
<1>2. Active(b.pos) = DOMAIN b.pos.st /\ Active(c.pos) = DOMAIN c.pos.st
  BY <1>1 DEF BookInv, Quiet
<1>3. DOMAIN c.pos.st = DOMAIN b.pos.st /\ Shrunk(b.pos, d.pos)
  BY ShrunkTrans DEF Follows, Opened, Shrunk
<1>. QED BY <1>1, <1>2, <1>3 DEF Follows, Opened

\* What Alpaca does of its own, or for a handler that fails, changes no row.
LEMMA BrokerStep ==
    ASSUME IInv, BrokerInv(alpaca'), Grows(alpaca, alpaca'), held' \in Nat, UNCHANGED <<book, ref, cache>>
    PROVE  IInv' /\ Steady
<1>1. Linked(ref, book.ords, alpaca')
  BY LinkedMore DEF IInv
<1>2. ListingOf(alpaca', cache)
  BY ListingsOK DEF Listings, IInv
<1>3. Follows(book, book)
  BY DEF Follows, Shrunk
<1>4. SoldByFill(book, book)
  BY SoldNone DEF Active
<1>. QED BY <1>1, <1>2, <1>3, <1>4 DEF IInv, Steady

\* A handler that succeeds: it commits the book c of the same trade and reads it back.
LEMMA HandlerStep ==
    ASSUME IInv, NEW c, BookInv(c), c.pos.phase # "entry_pending",
           Follows(book, c), SoldByFill(book, c), Reworked(book, c),
           NEW r, NEW a, BrokerInv(a), Grows(alpaca, a), Linked(r, c.ords, a),
           ReadBack(c, r, a, cache), held' \in Nat
    PROVE  IInv' /\ Steady
<1>1. PICK seen \in Listings(cache, a) : book' = Read(c, r, seen) /\ cache' = seen
  BY DEF ReadBack
<1>2. ref' = r /\ alpaca' = a
  BY DEF ReadBack
<1> DEFINE d == Observed(c, r, seen)
<1>3. ListingOf(a, seen)
  BY ListingsOK DEF IInv
<1>4. BookInv(d) /\ Fits(c, d) /\ Follows(c, d)
  BY ObservedOK DEF Opened
<1>5. Follows(book, d)
  BY <1>4, FollowsTrans
<1>6. SoldByFill(book, d)
  BY ObservedSold DEF Follows, Shrunk
<1>7. book' = c \/ book' = d
  BY <1>1 DEF Read
<1> HIDE DEF d
<1>8. BookInv(book') /\ Follows(book, book') /\ SoldByFill(book, book') /\ Len(book'.ords) = Len(c.ords)
  BY <1>4, <1>5, <1>6, <1>7 DEF Fits
<1>9. Positive(book'.pos.qty)
  BY <1>8 DEF IInv, Follows, Shrunk
<1>10. Linked(r, book'.ords, a)
  BY <1>8 DEF Linked
<1>. QED BY <1>1, <1>2, <1>3, <1>8, <1>9, <1>10 DEF IInv, Steady

\* A read: the position, a price tick of it, or the sweep of an entry whose answer is lost.
LEMMA SeenStep ==
    ASSUME IInv, NEW c, BookInv(c), Follows(book, c), SoldByFill(book, c), Reworked(book, c),
           Len(c.ords) = Len(book.ords),
           NEW listed \in Listings(cache, alpaca), cache' = listed, ref' = ref,
           book' \in {c, Observed(c, ref, listed)},
           BrokerInv(alpaca'), Grows(alpaca, alpaca'), held' \in Nat
    PROVE  IInv' /\ Steady
<1> DEFINE d == Observed(c, ref, listed)
<1>1. Grows(alpaca, alpaca) /\ ListingOf(alpaca, listed)
  <2>1. Grows(alpaca, alpaca)
    BY DEF Grows, IInv, BrokerInv
  <2>. QED BY <2>1, ListingsOK DEF IInv
<1>2. ListingOf(alpaca', listed)
  BY <1>1, ListingsOK DEF IInv, Listings
<1>3. BookInv(d) /\ Fits(c, d) /\ (Follows(c, d) \/ (Opened(c, d) /\ Reported(c.pos.root, ref, listed) = "filled"))
  BY ObservedOK
<1>4. SoldByFill(book, d)
  BY ObservedSold DEF Follows, Shrunk
<1>5. c.pos.root = book.pos.root
  BY DEF Follows, Shrunk
<1>6. Reported(book.pos.root, ref, listed) = "filled" => alpaca[ref[book.pos.root]].status = "filled"
  BY <1>1 DEF Reported, ListingOf
<1>7. book' = c \/ book' = d
  OBVIOUS
<1> HIDE DEF d
<1>8. Steady
  <2>1. CASE Follows(c, d) \/ book' = c
    <3>1. Follows(book, book')
      BY <1>7, <2>1, FollowsTrans
    <3>. QED BY <1>4, <1>7, <3>1 DEF Steady
  <2>2. CASE ~ Follows(c, d) /\ book' = d
    <3>1. Opened(c, d) /\ Reported(book.pos.root, ref, listed) = "filled"
      BY <1>3, <1>5, <2>2
    <3>2. Opened(book, d)
      BY <3>1, OpensLater DEF IInv
    <3>. QED BY <1>4, <1>6, <2>2, <3>1, <3>2 DEF Steady
  <2>. QED BY <1>7, <2>1, <2>2
<1>9. BookInv(book') /\ Len(book'.ords) = Len(book.ords) /\ book'.pos.qty = book.pos.qty
  BY <1>3, <1>7 DEF Fits, Follows, Shrunk
<1>10. Linked(ref, book'.ords, alpaca')
  <2>1. Linked(ref, book.ords, alpaca')
    BY LinkedMore DEF IInv
  <2>. QED BY <1>9, <2>1 DEF Linked
<1>. QED BY <1>2, <1>8, <1>9, <1>10 DEF IInv

----------------------------------------------------------------------------
(* The handlers and Alpaca, one by one.                                    *)

\* What the invariant says of the trade a handler finds.
LEMMA Found ==
    ASSUME IInv
    PROVE  /\ BookType(book) /\ book.pos \in Position /\ book.ords \in Seq(Order)
           /\ Len(book.ords) \in Nat /\ DOMAIN book.ords = 1..Len(book.ords)
           /\ DOMAIN book.pos.qty = DOMAIN book.pos.st /\ DOMAIN book.pos.st \subseteq TrancheIds
           /\ \A t \in DOMAIN book.pos.qty : book.pos.qty[t] \in Int /\ book.pos.qty[t] > 0
           /\ Active(book.pos) \subseteq DOMAIN book.pos.qty
           /\ alpaca \in Seq(AlpacaOrder) /\ Len(alpaca) \in Nat /\ DOMAIN alpaca = 1..Len(alpaca)
<1>1. BookType(book) /\ alpaca \in Seq(AlpacaOrder)
  BY DEF IInv, BookInv, BrokerInv
<1>2. book.pos.qty \in Seq(Int)
  BY <1>1, BookParts DEF Position
<1>. QED BY <1>1, <1>2, BookParts DEF IInv, Positive

\* A handler that fails after some of its requests.
LEMMA FailedStep ==
    ASSUME IInv, NEW a, BrokerInv(a), Grows(alpaca, a), Failed(a)
    PROVE  IInv' /\ Steady
BY BrokerStep DEF Failed, IInv

\* m new orders at Alpaca, their ids appended to those of the rows.
LEMMA LinkedNew ==
    ASSUME IInv, NEW a, BrokerInv(a), NEW m \in Nat, Len(a) = Len(alpaca) + m,
           NEW os, Len(os) = Len(book.ords) + m
    PROVE  Linked(ref \o NewIds(m), os, a)
<1>1. a \in Seq(AlpacaOrder) /\ Len(alpaca) \in Nat /\ DOMAIN alpaca = 1..Len(alpaca)
  BY Found DEF BrokerInv
<1>2. ref \in Seq(1..Len(alpaca)) /\ Len(ref) = Len(book.ords)
  BY <1>1 DEF IInv, Linked
<1>3. DOMAIN a = 1..(Len(alpaca) + m)
  BY <1>1
<1>4. NewIds(m) \in [1..m -> 1..(Len(alpaca) + m)]
  BY <1>1 DEF NewIds
<1>5. NewIds(m) \in Seq(1..(Len(alpaca) + m)) /\ Len(NewIds(m)) = m
  BY <1>4, FunctionIsSeq
<1>6. ref \in Seq(1..(Len(alpaca) + m))
  BY <1>1, <1>2
<1>7. ref \o NewIds(m) \in Seq(1..(Len(alpaca) + m)) /\ Len(ref \o NewIds(m)) = Len(ref) + m
  BY <1>5, <1>6
<1>. QED BY <1>2, <1>3, <1>7 DEF Linked

\* apply_stops keeps the invariant, whether all its stops are placed or it fails.
LEMMA ProtectStep ==
    ASSUME IInv, Protect
    PROVE  IInv' /\ Steady
<1>. PICK mode \in 1..3 : \E price \in [DOMAIN StopGroups(book.pos, mode) -> Prices],
                             m \in DOMAIN StopGroups(book.pos, mode) : ApplyStops(mode, price, m)
  BY DEF Protect
<1> DEFINE groups == StopGroups(book.pos, mode)
<1>. PICK price \in [DOMAIN groups -> Prices], m \in DOMAIN groups : ApplyStops(mode, price, m)
  OBVIOUS
<1> DEFINE c == StopsApplied(book, groups, price)
           requests == [k \in 1..m |-> StopRequest(QtyOf(book.pos, groups[k]), price[k])]
           a == Taken(alpaca, requests)
<1>1. /\ Filled(book.pos)
      /\ \A k \in 1..m : groups[k] # {}
      /\ \/ m = Len(groups) /\ ReadBack(c, ref \o NewIds(m), a, cache) /\ UNCHANGED held
         \/ Failed(a)
  BY DEF ApplyStops
<1>2. BookInv(book) /\ BrokerInv(alpaca) /\ held \in Nat
  BY DEF IInv
<1>3. \A k \in DOMAIN groups : price[k] \in Int
  BY AlpacaAssumption
<1>4. BookInv(c) /\ Follows(book, c)
  BY <1>1, <1>2, <1>3, StopsAppliedOK
<1>5. SoldByFill(book, c) /\ Reworked(book, c) /\ Len(c.ords) = Len(book.ords) + Len(groups)
  BY <1>1, <1>2, <1>3, StopsAppliedSold
<1>6. c.pos.phase # "entry_pending"
  BY <1>1, <1>4 DEF Follows, Filled
<1>7. PICK n \in Nat : groups \in [1..n -> SUBSET Active(book.pos)]
  BY Found, GroupsParts
<1>8. m \in Nat /\ \A k \in 1..m : k \in DOMAIN groups
  BY <1>7
<1>9. requests \in [1..m -> Requests]
  <2>1. ASSUME NEW k \in 1..m PROVE StopRequest(QtyOf(book.pos, groups[k]), price[k]) \in Requests
    <3>1. groups[k] \in SUBSET DOMAIN book.pos.qty /\ groups[k] # {} /\ price[k] \in Int
      BY <1>1, <1>3, <1>7, <1>8, Found
    <3>2. QtyOf(book.pos, groups[k]) \in Nat \ {0}
      BY <3>1, Found, QtyPositive
    <3>. QED BY <3>1, <3>2 DEF StopRequest, Request, Requests, OrderTypes
  <2>. QED BY <2>1
<1> HIDE DEF requests, c, groups
<1>10. BrokerInv(a) /\ Grows(alpaca, a) /\ Len(a) = Len(alpaca) + m
  BY <1>2, <1>8, <1>9, TakenOK
<1> HIDE DEF a
<1>11. CASE m = Len(groups) /\ ReadBack(c, ref \o NewIds(m), a, cache) /\ UNCHANGED held
  <2>1. Linked(ref \o NewIds(m), c.ords, a)
    BY <1>5, <1>8, <1>10, <1>11, LinkedNew
  <2>. QED BY <1>2, <1>4, <1>5, <1>6, <1>10, <1>11, <2>1, HandlerStep
<1>12. CASE Failed(a)
  BY <1>10, <1>12, FailedStep
<1>. QED BY <1>1, <1>11, <1>12

\* execute_profit_plan keeps the invariant, whether it succeeds or fails between two requests.
LEMMA TakeProfitStep ==
    ASSUME IInv, TakeProfit
    PROVE  IInv' /\ Steady
<1>. PICK keep \in SUBSET Active(book.pos), trail \in Trails, n \in 0..Len(book.ords), m \in 0..3 :
       m =< Cardinality(Active(book.pos)) /\ ExecuteProfitPlan(keep, trail, n, m)
  BY DEF TakeProfit
<1> DEFINE act == ActiveList(book.pos)
           stops == {i \in LiveExits(book) : book.ords[i].type = "STOP"}
           less == Withdrawn(alpaca, BrokerIds(First(stops, n)))
           requests == [k \in 1..m |-> PlanRequest(keep, act[k])]
           a == Taken(less, requests)
           c == PlanExecuted(book, keep, trail)
<1>1. /\ ProfitActionable(book.pos)
      /\ \/ m = Len(act) /\ ReadBack(c, ref \o NewIds(m), a, cache) /\ UNCHANGED held
         \/ Failed(a)
  BY DEF ExecuteProfitPlan
<1>2. BookInv(book) /\ BrokerInv(alpaca) /\ held \in Nat /\ Filled(book.pos) /\ trail \in Int
  BY <1>1, AlpacaAssumption DEF IInv, ProfitActionable
<1>3. BookInv(c) /\ Follows(book, c)
  BY <1>2, PlanExecutedOK
<1>4. SoldByFill(book, c) /\ Reworked(book, c) /\ Len(c.ords) = Len(book.ords) + Len(act)
  BY <1>2, PlanExecutedSold
<1>5. c.pos.phase # "entry_pending"
  BY <1>2, <1>3 DEF Follows, Filled
<1>6. act \in Seq(Active(book.pos)) /\ Len(act) = Cardinality(Active(book.pos))
  <2>1. book.pos \in Position /\ DOMAIN book.pos.st \subseteq TrancheIds
    BY Found
  <2>2. act \in Seq(Active(book.pos)) /\ \A t \in Active(book.pos) : Has(act, t)
    BY <2>1, Found, ActiveListParts
  <2>3. Once(act)
    BY ListedOnce DEF ActiveList
  <2> HIDE DEF act
  <2>4. act \in Bijection(1..Len(act), Active(book.pos))
    <3>1. Len(act) \in Nat /\ DOMAIN act = 1..Len(act) /\ act \in [1..Len(act) -> Active(book.pos)]
      BY <2>2
    <3>. QED BY <2>2, <2>3, <3>1 DEF Bijection, Injection, Surjection, Has, Once, IsInjective
  <2>5. ExistsBijection(1..Len(act), Active(book.pos)) /\ Len(act) \in Nat
    BY <2>2, <2>4 DEF ExistsBijection
  <2>. QED BY <2>2, <2>5, FS_CountingElements
<1>7. requests \in [1..m -> Requests]
  <2>1. ASSUME NEW k \in 1..m PROVE PlanRequest(keep, act[k]) \in Requests
    <3>1. act[k] \in DOMAIN book.pos.qty
      BY <1>6, Found
    <3>2. book.pos.qty[act[k]] \in Nat \ {0}
      BY <3>1, Found
    <3>. QED BY <3>2 DEF PlanRequest, Request, Requests, OrderTypes
  <2>. QED BY <2>1
<1> HIDE DEF requests, c, act, stops
<1>8. BrokerInv(less) /\ Grows(alpaca, less) /\ Len(less) = Len(alpaca)
  BY <1>2, WithdrawnOK
<1> HIDE DEF less
<1>9. BrokerInv(a) /\ Grows(less, a) /\ Len(a) = Len(alpaca) + m
  BY <1>7, <1>8, TakenOK
<1> HIDE DEF a
<1>10. Grows(alpaca, a)
  BY <1>2, <1>8, <1>9, GrowsTrans
<1>11. CASE m = Len(act) /\ ReadBack(c, ref \o NewIds(m), a, cache) /\ UNCHANGED held
  <2>1. Linked(ref \o NewIds(m), c.ords, a)
    <3>1. m \in Nat /\ Len(c.ords) = Len(book.ords) + m
      BY <1>4, <1>11
    <3>. QED BY <1>9, <3>1, LinkedNew
  <2>. QED BY <1>2, <1>3, <1>4, <1>5, <1>9, <1>10, <1>11, <2>1, HandlerStep
<1>12. CASE Failed(a)
  BY <1>9, <1>10, <1>12, FailedStep
<1>. QED BY <1>1, <1>11, <1>12 DEF a, less, stops, requests, c, act

\* move_to_be keeps the invariant.
LEMMA MoveToBeStep ==
    ASSUME IInv, MoveToBe
    PROVE  IInv' /\ Steady
<1> DEFINE c == BrokenEven(book)
<1>1. /\ BookInv(book) /\ BrokerInv(alpaca) /\ held \in Nat /\ Filled(book.pos)
      /\ ReadBack(c, ref, alpaca, cache) /\ UNCHANGED held
  BY DEF MoveToBe, IInv
<1>2. BookInv(c) /\ Follows(book, c)
  BY <1>1, BrokenEvenOK
<1>3. SoldByFill(book, c) /\ Reworked(book, c) /\ Len(c.ords) = Len(book.ords)
  BY <1>1, BrokenEvenSold
<1>4. c.pos.phase # "entry_pending"
  BY <1>1, <1>2 DEF Follows, Filled
<1> HIDE DEF c
<1>5. Linked(ref, c.ords, alpaca) /\ Grows(alpaca, alpaca)
  BY <1>3, Found DEF IInv, Linked, Grows
<1>. QED BY <1>1, <1>2, <1>3, <1>4, <1>5, HandlerStep

\* flatten of a pending entry keeps the invariant, whether all its cancels arrive or it fails.
LEMMA FlattenPendingStep ==
    ASSUME IInv, NEW n, FlattenPending(n)
    PROVE  IInv' /\ Steady
<1> DEFINE open == {i \in DOMAIN book.ords \ {book.pos.root} : book.ords[i].status \in Live \cup {"PENDING"}}
           a == Withdrawn(alpaca, BrokerIds({book.pos.root} \cup First(open, n)))
           c == EntryVoided(book)
<1>1. /\ book.pos.phase = "entry_pending"
      /\ \/ ReadBack(c, ref, a, cache) /\ UNCHANGED held
         \/ Failed(a)
  BY DEF FlattenPending
<1>2. BookInv(book) /\ BrokerInv(alpaca) /\ held \in Nat
  BY DEF IInv
<1>3. BookInv(c) /\ Follows(book, c) /\ ~ IsOpen(c.pos)
  BY <1>1, <1>2, EntryVoidedOK
<1>4. SoldByFill(book, c) /\ Reworked(book, c) /\ Len(c.ords) = Len(book.ords)
  BY <1>1, <1>2, EntryVoidedSold
<1>5. BrokerInv(a) /\ Grows(alpaca, a)
  BY <1>2, WithdrawnOK
<1> HIDE DEF a, c
<1>6. c.pos.phase # "entry_pending"
  BY <1>3 DEF IsOpen
<1>7. Linked(ref, c.ords, a)
  <2>1. Linked(ref, book.ords, a)
    BY <1>5, LinkedMore DEF IInv
  <2>. QED BY <1>4, <2>1 DEF Linked
<1>8. CASE ReadBack(c, ref, a, cache) /\ UNCHANGED held
  BY <1>2, <1>3, <1>4, <1>5, <1>6, <1>7, <1>8, HandlerStep
<1>9. CASE Failed(a)
  BY <1>5, <1>9, FailedStep
<1>. QED BY <1>1, <1>8, <1>9 DEF a, c

\* flatten of a position keeps the invariant: the rows of its sale share the id of one order.
LEMMA FlattenFilledStep ==
    ASSUME IInv, NEW n, FlattenFilled(n)
    PROVE  IInv' /\ Steady
<1> DEFINE live == {i \in DOMAIN book.ords : book.ords[i].status \in Live}
           requests == <<CloseRequest>>
           more == Taken(alpaca, requests)
           a == Withdrawn(more, BrokerIds(First(live, n)))
           L == ActiveList(book.pos)
           sold == [k \in DOMAIN L |-> NewIds(1)[1]]
           c == Flattened(book)
<1>1. /\ Filled(book.pos) /\ held > 0
      /\ \/ ReadBack(c, ref \o sold, a, cache) /\ UNCHANGED held
         \/ Failed(a)
  BY DEF FlattenFilled
<1>2. BookInv(book) /\ BrokerInv(alpaca) /\ held \in Nat
  BY DEF IInv
<1>3. BookInv(c) /\ Follows(book, c) /\ ~ IsOpen(c.pos)
  BY <1>1, <1>2, FlattenedOK
<1>4. SoldByFill(book, c) /\ Reworked(book, c) /\ Len(c.ords) = Len(book.ords) + Len(L)
  BY <1>1, <1>2, FlattenedSold
<1>5. requests \in [1..1 -> Requests]
  <2>1. CloseRequest \in Requests
    BY <1>1, <1>2 DEF CloseRequest, Request, Requests
  <2>. QED BY <2>1
<1> HIDE DEF requests
<1>6. BrokerInv(more) /\ Grows(alpaca, more) /\ Len(more) = Len(alpaca) + 1
  BY <1>2, <1>5, TakenOK
<1> HIDE DEF more
<1>7. BrokerInv(a) /\ Grows(more, a) /\ Len(a) = Len(alpaca) + 1
  BY <1>6, WithdrawnOK
<1>8. L \in Seq(Active(book.pos))
  BY Found, ActiveListParts
<1> HIDE DEF a, c, L
<1>9. Grows(alpaca, a)
  BY <1>2, <1>6, <1>7, GrowsTrans
<1>10. c.pos.phase # "entry_pending"
  BY <1>3 DEF IsOpen
<1>11. Linked(ref \o sold, c.ords, a)
  <2>1. a \in Seq(AlpacaOrder) /\ Len(alpaca) \in Nat /\ DOMAIN alpaca = 1..Len(alpaca)
    BY <1>7, Found DEF BrokerInv
  <2>2. DOMAIN a = 1..(Len(alpaca) + 1)
    BY <1>7, <2>1
  <2>3. ref \in Seq(1..Len(alpaca)) /\ Len(ref) = Len(book.ords)
    BY <2>1 DEF IInv, Linked
  <2>4. NewIds(1)[1] = Len(alpaca) + 1
    BY DEF NewIds
  <2>5. Len(L) \in Nat /\ DOMAIN L = 1..Len(L)
    BY <1>8
  <2>6. sold \in [1..Len(L) -> 1..(Len(alpaca) + 1)]
    BY <2>1, <2>4, <2>5
  <2> HIDE DEF sold
  <2>7. sold \in Seq(1..(Len(alpaca) + 1)) /\ Len(sold) = Len(L)
    BY <2>5, <2>6, FunctionIsSeq
  <2>8. ref \in Seq(1..(Len(alpaca) + 1))
    BY <2>1, <2>3
  <2>9. ref \o sold \in Seq(1..(Len(alpaca) + 1)) /\ Len(ref \o sold) = Len(ref) + Len(L)
    <3> DEFINE S == 1..(Len(alpaca) + 1)
    <3>1. ref \in Seq(S) /\ sold \in Seq(S)
      BY <2>7, <2>8
    <3> HIDE DEF S
    <3>2. ref \o sold \in Seq(S) /\ Len(ref \o sold) = Len(ref) + Len(sold)
      BY <3>1
    <3>. QED BY <2>7, <3>2 DEF S
  <2>. QED BY <1>4, <2>2, <2>3, <2>9 DEF Linked
<1> HIDE DEF sold
<1>12. CASE ReadBack(c, ref \o sold, a, cache) /\ UNCHANGED held
  BY <1>2, <1>3, <1>4, <1>7, <1>9, <1>10, <1>11, <1>12, HandlerStep
<1>13. CASE Failed(a)
  BY <1>7, <1>9, <1>13, FailedStep
<1>. QED BY <1>1, <1>12, <1>13 DEF a, c, L, sold, more, requests

\* The broker's word in the rows of one order: no row comes to life, and only a pending trade is voided.
LEMMA CancelRecordedOK ==
    ASSUME IInv, NEW j, NEW word \in {"CANCELED", "PENDING_CANCEL", "FILLED"}
    PROVE  LET c == CancelRecorded(j, word)
           IN  BookInv(c) /\ Follows(book, c) /\ SoldByFill(book, c) /\ Len(c.ords) = Len(book.ords)
<1> DEFINE os == [i \in DOMAIN book.ords |->
                    IF ref[i] = j THEN [book.ords[i] EXCEPT !.status = word] ELSE book.ords[i]]
           S == Live \cup {"PENDING", "ACCEPTED"}
           f == CanceledIn(os, S)
           c == CancelRecorded(j, word)
           kept == [pos |-> book.pos, ords |-> os]
           void == [pos |-> Voided(book.pos), ords |-> f]
<1>1. /\ BookInv(book) /\ BookType(book) /\ book.pos \in Position /\ book.ords \in Seq(Order)
      /\ Len(book.ords) \in Nat /\ DOMAIN book.ords = 1..Len(book.ords)
      /\ book = [pos |-> book.pos, ords |-> book.ords]
  BY Found, BookParts DEF IInv
<1>2. ASSUME NEW i \in DOMAIN book.ords
      PROVE  /\ SameOrder(book.ords[i], os[i])
             /\ os[i] = book.ords[i] \/ os[i].status \notin Live
             /\ ref[i] # j => os[i] = book.ords[i]
  <2>1. book.ords[i] \in Order /\ word \in OrderStatus /\ word \notin Live
    BY <1>1 DEF OrderStatus, Live
  <2>. QED BY <2>1, StatusType DEF SameOrder
<1>3. os \in Seq(Order) /\ Len(os) = Len(book.ords) /\ DOMAIN os = DOMAIN book.ords
  <2>1. os = [i \in DOMAIN book.ords |-> os[i]]
    OBVIOUS
  <2> HIDE DEF os
  <2>. QED BY <1>1, <1>2, <2>1, RowsType
<1>4. CASE book.pos.phase = "entry_pending" /\ ref[book.pos.root] = j
  <2>1. c = void
    BY <1>4 DEF CancelRecorded
  <2> HIDE DEF os, c
  <2>2. f \in Seq(Order) /\ Len(f) = Len(os) /\ DOMAIN f = DOMAIN os /\ \A i \in DOMAIN os : SameOrder(os[i], f[i])
    BY <1>3, CanceledInType
  <2> HIDE DEF f
  <2>3. \A i \in DOMAIN book.ords : SameOrder(book.ords[i], f[i])
    BY <1>2, <1>3, <2>2 DEF SameOrder
  <2>4. f \in Seq(Order) /\ Len(f) = Len(book.ords)
    BY <1>3, <2>2
  <2>5. BookInv(void) /\ Follows(book, void)
    BY <1>1, <1>4, <2>3, <2>4, VoidedBook
  <2>6. SoldByFill(book, void)
    <3>1. \A t \in Active(book.pos) : void.pos.st[t] # "sold"
      BY <1>1 DEF Voided, Active, Position
    <3>. QED BY <3>1, SoldNone
  <2>. QED BY <2>1, <2>4, <2>5, <2>6 DEF c
<1>5. CASE ~ (book.pos.phase = "entry_pending" /\ ref[book.pos.root] = j)
  <2>1. c = kept
    BY <1>1, <1>5 DEF CancelRecorded
  <2> HIDE DEF os, c
  <2>2. CASE book.pos.phase = "none"
    <3>1. book.ords = <<>>
      BY <1>1, <2>2 DEF BookType
    <3>2. os = <<>>
      BY <1>3, <3>1
    <3>3. kept = book
      BY <1>1, <3>1, <3>2
    <3>4. Follows(book, book) /\ SoldByFill(book, book)
      BY SoldNone DEF Follows, Shrunk, Active
    <3>. QED BY <1>1, <2>1, <3>3, <3>4 DEF c
  <2>3. CASE book.pos.phase # "none"
    <3>1. BookType(kept) /\ Roots(book.ords) = Roots(os)
      <4>1. \A i \in DOMAIN book.ords : SameOrder(book.ords[i], os[i])
        BY <1>2
      <4>. QED BY <1>1, <1>3, <2>3, <4>1, RewrittenBook
    <3>2. kept.pos = book.pos /\ kept.ords = os
      OBVIOUS
    <3> HIDE DEF kept
    <3>3. Flat(kept)
      BY <1>1, <3>2 DEF BookInv, Flat
    <3>4. Quiet(kept)
      <4>1. ~ HasLive(book.ords, ExitTypes) => ~ HasLive(os, ExitTypes)
        BY <1>2, <1>3 DEF HasLive, SameOrder
      <4>2. book.pos.root \in DOMAIN book.ords
        BY <1>1, <2>3 DEF BookType, Roots
      <4>3. book.pos.phase = "entry_pending" => os[book.pos.root] = book.ords[book.pos.root]
        BY <1>2, <1>5, <4>2
      <4>. QED BY <1>1, <3>2, <4>1, <4>3 DEF BookInv, Quiet
    <3>5. Follows(book, kept)
      BY <3>1, <3>2 DEF Follows, Shrunk
    <3>6. SoldByFill(book, kept)
      BY <3>2, SoldNone DEF Active
    <3>. QED BY <1>3, <2>1, <3>1, <3>2, <3>3, <3>4, <3>5, <3>6 DEF BookInv, c
  <2>. QED BY <2>2, <2>3 DEF c
<1>. QED BY <1>4, <1>5

\* Shares that fill are held or were.
LEMMA FillStep ==
    ASSUME IInv, NEW j \in DOMAIN alpaca, NEW n \in Nat, CanFill(j, n)
    PROVE  BrokerInv(Filling(alpaca, j, n)) /\ Grows(alpaca, Filling(alpaca, j, n)) /\ HeldAfter(alpaca[j], n) \in Nat
<1>1. BrokerInv(alpaca) /\ held \in Nat
  BY DEF IInv
<1>2. alpaca[j].status = "open" /\ alpaca[j].done + n =< alpaca[j].qty /\ HeldAfter(alpaca[j], n) >= 0
  BY DEF CanFill
<1>3. HeldAfter(alpaca[j], n) \in Int
  BY <1>1 DEF HeldAfter
<1>. QED BY <1>1, <1>2, <1>3, FillingOK

\* cancel_recent_order keeps the invariant, whether the cancel wins the race, loses it or is pending.
LEMMA CancelStep ==
    ASSUME IInv, NEW j \in DOMAIN alpaca, CancelRecentOrder(j)
    PROVE  IInv' /\ Steady
<1>1. PICK word \in {"CANCELED", "PENDING_CANCEL", "FILLED"} : book' = CancelRecorded(j, word)
  BY DEF CancelRecentOrder
<1>2. UNCHANGED <<ref, cache>>
  BY DEF CancelRecentOrder
<1>3. BrokerInv(alpaca') /\ Grows(alpaca, alpaca') /\ held' \in Nat
  <2> DEFINE rest == alpaca[j].qty - alpaca[j].done
  <2>1. BrokerInv(alpaca) /\ Grows(alpaca, alpaca) /\ held \in Nat
    BY Found DEF IInv, Grows
  <2>2. rest \in Nat
    <3>1. alpaca[j] \in AlpacaOrder /\ Sound(alpaca[j])
      BY <2>1 DEF BrokerInv
    <3>2. alpaca[j].qty \in Nat /\ alpaca[j].done \in Nat /\ alpaca[j].done =< alpaca[j].qty
      BY <3>1 DEF AlpacaOrder, Sound
    <3>. QED BY <3>2
  <2>3. \/ alpaca' = Withdrawn(alpaca, {j}) /\ UNCHANGED held
        \/ UNCHANGED <<alpaca, held>>
        \/ CanFill(j, rest) /\ alpaca' = Filling(alpaca, j, rest) /\ held' = HeldAfter(alpaca[j], rest)
    BY DEF CancelRecentOrder
  <2> HIDE DEF rest
  <2>. QED BY <2>1, <2>2, <2>3, FillStep, WithdrawnOK
<1> DEFINE c == CancelRecorded(j, word)
<1>4. BookInv(c) /\ Follows(book, c) /\ SoldByFill(book, c) /\ Len(c.ords) = Len(book.ords)
  BY CancelRecordedOK
<1> HIDE DEF c
<1>5. Positive(book'.pos.qty)
  BY <1>1, <1>4 DEF IInv, Follows, Shrunk, c
<1>6. Linked(ref, book'.ords, alpaca')
  <2>1. Linked(ref, book.ords, alpaca')
    BY <1>3, LinkedMore DEF IInv
  <2>. QED BY <1>1, <1>4, <2>1 DEF Linked, c
<1>7. ListingOf(alpaca', cache)
  BY <1>3, ListingsOK DEF Listings, IInv
<1>. QED BY <1>1, <1>2, <1>3, <1>4, <1>5, <1>6, <1>7 DEF IInv, Steady, c

\* Alpaca fills shares, ends an order or lists it no more.
LEMMA AlpacaStep ==
    ASSUME IInv, Alpaca
    PROVE  IInv' /\ Steady
<1>. PICK j \in DOMAIN alpaca : \/ CancelRecentOrder(j) \/ AlpacaCancels(j) \/ NewerOrders(j)
                                \/ \E n \in 1..alpaca[j].qty : AlpacaFills(j, n)
  BY DEF Alpaca
<1>1. CASE CancelRecentOrder(j)
  BY <1>1, CancelStep
<1>2. CASE AlpacaCancels(j)
  <2>1. alpaca' = Withdrawn(alpaca, {j}) /\ UNCHANGED <<book, ref, held, cache>>
    BY <1>2 DEF AlpacaCancels
  <2>2. BrokerInv(alpaca') /\ Grows(alpaca, alpaca')
    BY <2>1, WithdrawnOK DEF IInv
  <2>. QED BY <2>1, <2>2, BrokerStep DEF IInv
<1>3. ASSUME NEW n \in 1..alpaca[j].qty, AlpacaFills(j, n) PROVE IInv' /\ Steady
  <2>1. CanFill(j, n) /\ alpaca' = Filling(alpaca, j, n) /\ held' = HeldAfter(alpaca[j], n) /\ UNCHANGED <<book, ref, cache>>
    BY <1>3 DEF AlpacaFills
  <2>2. n \in Nat
    BY <1>3, Found DEF AlpacaOrder
  <2>3. BrokerInv(alpaca') /\ Grows(alpaca, alpaca') /\ held' \in Nat
    BY <2>1, <2>2, FillStep
  <2>. QED BY <2>1, <2>3, BrokerStep
<1>4. CASE NewerOrders(j)
  <2>1. alpaca' = Outnumbered(alpaca, j) /\ UNCHANGED <<book, ref, held, cache>>
    BY <1>4 DEF NewerOrders
  <2>2. BrokerInv(alpaca') /\ Grows(alpaca, alpaca')
    BY <2>1, OutnumberedOK DEF IInv
  <2>. QED BY <2>1, <2>2, BrokerStep DEF IInv
<1>. QED BY <1>1, <1>2, <1>3, <1>4

\* A book taken as it is found.
LEMMA FoundStep ==
    ASSUME IInv
    PROVE  BookInv(book) /\ Follows(book, book) /\ SoldByFill(book, book) /\ Reworked(book, book)
BY SoldNone DEF IInv, Follows, Shrunk, Active, Reworked

\* get_positions and publish_price_tick keep the invariant, whatever listing they see.
LEMMA LookStep ==
    ASSUME IInv, NEW listed \in Listings(cache, alpaca), GetPositions(listed) \/ \E live \in Prices : PriceTick(live, listed)
    PROVE  IInv' /\ Steady
<1>g. BrokerInv(alpaca) /\ Grows(alpaca, alpaca) /\ held \in Nat
  BY Found DEF IInv, Grows
<1>1. CASE GetPositions(listed)
  <2>1. book' \in {book, Observed(book, ref, listed)} /\ cache' = listed /\ UNCHANGED <<ref, alpaca, held>>
    BY <1>1 DEF GetPositions, Read
  <2>. QED BY <1>g, <2>1, FoundStep, SeenStep
<1>2. ASSUME NEW live \in Prices, PriceTick(live, listed) PROVE IInv' /\ Steady
  <2> DEFINE c == [book EXCEPT !.pos.live = live]
  <2>1. /\ book.pos.phase # "none" /\ book' = Observed(c, ref, listed) /\ cache' = listed
        /\ UNCHANGED <<ref, alpaca, held>>
    BY <1>2 DEF PriceTick
  <2>2. live \in Int /\ BookInv(book)
    BY AlpacaAssumption DEF IInv
  <2>3. BookInv(c) /\ Follows(book, c)
    BY <2>1, <2>2, TickOK
  <2>4. c.ords = book.ords /\ c.pos.st = book.pos.st
    <3>1. book = [pos |-> book.pos, ords |-> book.ords] /\ book.pos \in Position
      BY BookParts, Found
    <3>. QED BY <3>1 DEF Position
  <2> HIDE DEF c
  <2>5. SoldByFill(book, c) /\ Reworked(book, c) /\ Len(c.ords) = Len(book.ords)
    BY <2>4, SoldNone DEF Reworked, Active
  <2>. QED BY <1>g, <2>1, <2>3, <2>5, SeenStep
<1>. QED BY <1>1, <1>2

\* The request of an entry.
LEMMA EntryTaken ==
    ASSUME IInv, NEW e \in Entries, NEW split \in Splits
    PROVE  LET a == Taken(alpaca, <<Request("ENTRY", Total(split), e.entry)>>)
           IN  /\ BrokerInv(a) /\ Grows(alpaca, a) /\ Len(a) = Len(alpaca) + 1
               /\ a[Len(alpaca) + 1].qty = Total(split) /\ a[Len(alpaca) + 1].done = 0
               /\ a[Len(alpaca) + 1].status = "open" /\ Total(split) \in Nat \ {0}
<1> DEFINE requests == <<Request("ENTRY", Total(split), e.entry)>>
           a == Taken(alpaca, requests)
<1>1. Total(split) \in Nat \ {0}
  <2>1. PICK n \in TrancheIds : split \in [1..n -> Nat \ {0}]
    BY AlpacaAssumption
  <2> DEFINE p == [qty |-> split]
  <2>0. n \in 1..3 /\ DOMAIN split = 1..n /\ \A t \in 1..n : split[t] \in Nat \ {0}
    BY <2>1 DEF TrancheIds
  <2>4. DOMAIN split \subseteq TrancheIds /\ 1 \in DOMAIN split
    BY <2>0 DEF TrancheIds
  <2>5. \A t \in DOMAIN split : split[t] \in Int /\ split[t] > 0
    BY <2>0
  <2>2. /\ p.qty = split /\ DOMAIN p.qty \subseteq TrancheIds
        /\ \A t \in DOMAIN p.qty : p.qty[t] \in Int /\ p.qty[t] > 0
        /\ DOMAIN split # {}
    BY <2>4, <2>5
  <2> HIDE DEF p
  <2>3. QtyOf(p, DOMAIN split) \in Nat \ {0}
    BY <2>2, QtyPositive
  <2>. QED BY <2>3 DEF Total, p
<1>2. e.entry \in Int
  BY AlpacaAssumption
<1>3. requests \in [1..1 -> Requests]
  <2>1. Request("ENTRY", Total(split), e.entry) \in Requests
    BY <1>1, <1>2 DEF Request, Requests, OrderTypes
  <2>. QED BY <2>1
<1> DEFINE order == [kind |-> "ENTRY", qty |-> Total(split), price |-> e.entry,
                     done |-> 0, status |-> "open", recent |-> TRUE]
<1>4. a[Len(alpaca) + 1] = order
  <2> DEFINE new == [k \in DOMAIN requests |->
                       [kind |-> requests[k].kind, qty |-> requests[k].qty, price |-> requests[k].price,
                        done |-> 0, status |-> "open", recent |-> TRUE]]
  <2>1. new = <<order>>
    <3> DEFINE r == Request("ENTRY", Total(split), e.entry)
               of(q) == [kind |-> q.kind, qty |-> q.qty, price |-> q.price,
                         done |-> 0, status |-> "open", recent |-> TRUE]
    <3>1. requests = <<r>> /\ new = [k \in DOMAIN requests |-> of(requests[k])]
      OBVIOUS
    <3>2. of(r) = order
      BY DEF Request
    <3> HIDE DEF r, of, order, requests, new
    <3>. QED BY <3>1, <3>2
  <2>2. a = alpaca \o new
    BY DEF Taken
  <2> HIDE DEF new, a
  <2>3. alpaca \in Seq(AlpacaOrder)
    BY Found
  <2>. QED BY <2>1, <2>2, <2>3
<1> HIDE DEF requests
<1>5. BrokerInv(a) /\ Grows(alpaca, a) /\ Len(a) = Len(alpaca) + 1
  BY <1>3, TakenOK DEF IInv
<1>. QED BY <1>1, <1>4, <1>5 DEF requests

\* A pending entry may have any of the words of an unfilled order.
LEMMA RootStatus ==
    ASSUME NEW b, BookInv(b), b.pos.phase = "entry_pending", NEW s \in Unfilled,
           NEW c, c = [b EXCEPT !.ords[b.pos.root].status = s]
    PROVE  BookInv(c) /\ c.pos = b.pos /\ Len(c.ords) = Len(b.ords) /\ ~ HasLive(c.ords, ExitTypes)
<1> DEFINE f == [b.ords EXCEPT ![b.pos.root].status = s]
           d == [pos |-> b.pos, ords |-> f]
<1>1. /\ BookType(b) /\ b.pos \in Position /\ b.ords \in Seq(Order) /\ b = [pos |-> b.pos, ords |-> b.ords]
      /\ b.pos.root \in DOMAIN b.ords
      /\ \A i \in DOMAIN b.ords : b.ords[i] \in Order /\ SameOrder(b.ords[i], b.ords[i])
  BY BookParts DEF BookInv, BookType, Roots, SameOrder
<1>2. c = d
  BY <1>1
<1>3. s \in OrderStatus /\ s \notin Live
  BY DEF Unfilled, OrderStatus, Live
<1>4. /\ f = [i \in DOMAIN b.ords |-> f[i]]
      /\ \A i \in DOMAIN b.ords : f[i] = IF i = b.pos.root THEN [b.ords[i] EXCEPT !.status = s] ELSE b.ords[i]
  BY <1>1
<1> HIDE DEF f
<1>5. \A i \in DOMAIN b.ords : SameOrder(b.ords[i], f[i])
  BY <1>1, <1>3, <1>4, StatusType
<1>6. f \in Seq(Order) /\ Len(f) = Len(b.ords) /\ DOMAIN f = DOMAIN b.ords
  BY <1>1, <1>4, <1>5, RowsType
<1>7. f[b.pos.root].status = s
  <2>1. b.ords[b.pos.root] \in Order /\ f[b.pos.root] = [b.ords[b.pos.root] EXCEPT !.status = s]
    BY <1>1, <1>4
  <2>2. [b.ords[b.pos.root] EXCEPT !.status = s].status = s
    BY <1>3, <2>1, StatusType
  <2>. QED BY <2>1, <2>2
<1>8. ~ HasLive(f, ExitTypes)
  <2>1. \A i \in DOMAIN b.ords : f[i] = b.ords[i] \/ f[i].status \notin Live
    BY <1>3, <1>4, <1>7
  <2>. QED BY <1>6, <2>1 DEF BookInv, Quiet, HasLive
<1>9. BookType(d)
  BY <1>1, <1>5, <1>6, RewrittenBook
<1>10. d.pos = b.pos /\ d.ords = f
  OBVIOUS
<1> HIDE DEF d
<1>11. Flat(d) /\ Quiet(d)
  BY <1>7, <1>8, <1>10 DEF BookInv, Flat, Quiet
<1>. QED BY <1>2, <1>6, <1>8, <1>9, <1>10, <1>11 DEF BookInv

\* A new trade, committed and read back.
LEMMA NewTrade ==
    ASSUME IInv, NEW listed \in Listings(cache, alpaca), MaxOpenPositions > 0,
           NEW c, BookInv(c), c.pos.root = Len(book.ords) + 1, Len(c.ords) = Len(book.ords) + 1,
           IsOpen(c.pos), ~ HasLive(c.ords, ExitTypes), Positive(c.pos.qty),
           NEW a, BrokerInv(a), Grows(alpaca, a), Len(a) = Len(alpaca) + 1,
           ReadBack(c, Append(ref, Len(alpaca) + 1), a, listed), held' \in Nat
    PROVE  IInv' /\ Fresh
<1> DEFINE r == Append(ref, Len(alpaca) + 1)
<1>1. PICK seen \in Listings(listed, a) : book' = Read(c, r, seen) /\ cache' = seen
  BY DEF ReadBack
<1>2. ref' = r /\ alpaca' = a
  BY DEF ReadBack
<1>3. ListingOf(a, seen)
  <2>1. BrokerInv(alpaca) /\ Grows(alpaca, alpaca) /\ ListingOf(alpaca, cache)
    BY Found DEF IInv, Grows
  <2>2. ListingOf(alpaca, listed)
    BY <2>1, ListingsOK
  <2>. QED BY <2>1, <2>2, ListingsOK
<1> DEFINE d == Observed(c, r, seen)
<1>4. BookInv(d) /\ Fits(c, d) /\ IsOpen(d.pos)
  BY ObservedOK
<1>5. book' = c \/ book' = d
  BY <1>1 DEF Read
<1> HIDE DEF d
<1>6. /\ BookInv(book') /\ IsOpen(book'.pos) /\ Positive(book'.pos.qty)
      /\ Len(book'.ords) = Len(book.ords) + 1 /\ book'.pos.root = Len(book.ords) + 1
  BY <1>4, <1>5 DEF Fits
<1>7. Linked(r, book'.ords, a)
  <2>1. a \in Seq(AlpacaOrder) /\ Len(alpaca) \in Nat /\ DOMAIN alpaca = 1..Len(alpaca)
    BY Found DEF BrokerInv
  <2>2. DOMAIN a = 1..(Len(alpaca) + 1)
    BY <2>1
  <2>3. ref \in Seq(1..Len(alpaca)) /\ Len(ref) = Len(book.ords)
    BY <2>1 DEF IInv, Linked
  <2>4. ref \in Seq(1..(Len(alpaca) + 1)) /\ Len(alpaca) + 1 \in 1..(Len(alpaca) + 1)
    BY <2>1, <2>3
  <2>5. r \in Seq(1..(Len(alpaca) + 1)) /\ Len(r) = Len(ref) + 1
    BY <2>4
  <2>. QED BY <1>6, <2>2, <2>3, <2>5 DEF Linked
<1>8. Fresh
  <2>1. Len(book.ords) \in Nat
    BY Found
  <2>. QED BY <1>6, <2>1 DEF Fresh
<1>. QED BY <1>1, <1>2, <1>3, <1>6, <1>7, <1>8 DEF IInv

\* The sweep of an entry whose answer is lost keeps the invariant, with the order left at Alpaca.
LEMMA EntryLostStep ==
    ASSUME IInv, NEW listed \in Listings(cache, alpaca), NEW e \in Entries, NEW split \in Splits,
           EntryLost(e, split, listed)
    PROVE  IInv' /\ Steady
<1>1. /\ book' \in {book, Observed(book, ref, listed)} /\ cache' = listed
      /\ alpaca' = Taken(alpaca, <<Request("ENTRY", Total(split), e.entry)>>)
      /\ UNCHANGED <<ref, held>>
  BY DEF EntryLost, Read
<1>2. BrokerInv(alpaca') /\ Grows(alpaca, alpaca')
  BY <1>1, EntryTaken
<1>3. held' \in Nat
  BY <1>1 DEF IInv
<1>. QED BY <1>1, <1>2, <1>3, FoundStep, SeenStep

\* enter_trade keeps the invariant, however Alpaca takes the entry.
LEMMA EnterStep ==
    ASSUME IInv, NEW listed \in Listings(cache, alpaca), NEW e \in Entries, NEW split \in Splits,
           NEW runner \in SUBSET DOMAIN split, EnterTrade(e, split, runner, listed)
    PROVE  IInv' /\ Fresh
<1> DEFINE b == Read(book, ref, listed)
           all == Total(split)
           id == NewIds(1)[1]
           a == Taken(alpaca, <<Request("ENTRY", all, e.entry)>>)
           new(outcome) == Entered(b, e, split, runner, outcome)
<1>1. /\ (IF IsOpen(b.pos) THEN 1 ELSE 0) < MaxOpenPositions
      /\ ~ HasLive(StaleCanceled(b), OrderTypes)
      /\ \/ \E n \in 0..all :
              /\ Arrived(n, all) /\ held' = held + n
              /\ ReadBack(new("filled"), Append(ref, id), Filling(a, id, n), listed)
         \/ \E status \in {"PENDING", "ACCEPTED"} :
              /\ ReadBack([new("queued") EXCEPT !.ords[new("queued").pos.root].status = status],
                          Append(ref, id), a, listed)
              /\ UNCHANGED held
  BY DEF EnterTrade
<1>2. BookInv(b) /\ Len(b.ords) = Len(book.ords)
  <2>1. BookInv(book)
    BY DEF IInv
  <2>2. BookInv(Observed(book, ref, listed)) /\ Fits(book, Observed(book, ref, listed))
    BY <2>1, ObservedOK
  <2>. QED BY <2>1, <2>2 DEF Read, Fits
<1>3. MaxOpenPositions > 0
  BY <1>1, AlpacaAssumption
<1>4. PICK n \in TrancheIds : split \in [1..n -> Nat \ {0}]
  BY AlpacaAssumption
<1>5. /\ e \in [side : Sides, entry : Int, live : Int] /\ split \in [1..n -> Int] /\ runner \in SUBSET (1..n)
      /\ Positive(split)
  BY <1>4, AlpacaAssumption DEF Sides, Positive
<1>6. id = Len(alpaca) + 1
  BY DEF NewIds
<1>7. /\ BrokerInv(a) /\ Grows(alpaca, a) /\ Len(a) = Len(alpaca) + 1
      /\ a[Len(alpaca) + 1].qty = all /\ a[Len(alpaca) + 1].done = 0
      /\ a[Len(alpaca) + 1].status = "open" /\ all \in Nat \ {0}
  BY EntryTaken
<1> HIDE DEF b, a, id, all
<1>8. ASSUME NEW outcome
      PROVE  /\ BookInv(new(outcome)) /\ IsOpen(new(outcome).pos) /\ ~ HasLive(new(outcome).ords, ExitTypes)
             /\ new(outcome).pos.root = Len(book.ords) + 1 /\ Len(new(outcome).ords) = Len(book.ords) + 1
             /\ Positive(new(outcome).pos.qty)
             /\ outcome = "filled" => new(outcome).pos.phase = "trade_entered"
             /\ outcome # "filled" => new(outcome).pos.phase = "entry_pending"
  <2> DEFINE c == Entered(b, e, split, runner, outcome)
  <2>1. ~ HasLive(StaleCanceled(b), OrderTypes) /\ Asks(e, split, runner)
    BY <1>1, <1>5 DEF Asks
  <2>0. c = Entered(b, e, split, runner, outcome)
    OBVIOUS
  <2>3. new(outcome) = c
    OBVIOUS
  <2> HIDE DEF c, new
  <2>4. BookInv(c)
    BY <1>2, <2>0, <2>1, EnteredOK
  <2>5. IsOpen(c.pos)
    BY <1>2, <2>0, <2>1, EnteredOK
  <2>6. ~ HasLive(c.ords, ExitTypes)
    BY <1>2, <2>0, <2>1, EnteredOK
  <2>7. c.pos.root = Len(b.ords) + 1
    BY <1>2, <2>0, <2>1, EnteredOK
  <2>8. Len(c.ords) = Len(b.ords) + 1
    BY <1>2, <2>0, <2>1, EnteredOK
  <2>9. c.pos.qty = split
    BY <1>2, <2>0, <2>1, EnteredOK
  <2>10. (outcome = "filled" => c.pos.phase = "trade_entered") /\ (outcome # "filled" => c.pos.phase = "entry_pending")
    BY <1>2, <2>0, <2>1, EnteredOK
  <2>. QED BY <1>2, <1>5, <2>3, <2>4, <2>5, <2>6, <2>7, <2>8, <2>9, <2>10
<1> HIDE DEF new
<1>9. ASSUME NEW m \in 0..all, held' = held + m,
             ReadBack(new("filled"), Append(ref, id), Filling(a, id, m), listed)
      PROVE  IInv' /\ Fresh
  <2>1. id \in DOMAIN a /\ m \in Nat /\ a[id].done + m =< a[id].qty /\ a[id].status = "open"
    BY <1>6, <1>7, <1>9, Found DEF BrokerInv
  <2>2. BrokerInv(Filling(a, id, m)) /\ Grows(a, Filling(a, id, m)) /\ Len(Filling(a, id, m)) = Len(a)
    BY <1>7, <2>1, FillingOK
  <2>3. Grows(alpaca, Filling(a, id, m)) /\ held' \in Nat
    BY <1>7, <1>9, <2>1, <2>2, GrowsTrans DEF IInv
  <2>. QED BY <1>3, <1>6, <1>7, <1>8, <1>9, <2>2, <2>3, NewTrade
<1>10. ASSUME NEW status \in {"PENDING", "ACCEPTED"},
              ReadBack([new("queued") EXCEPT !.ords[new("queued").pos.root].status = status],
                       Append(ref, id), a, listed),
              UNCHANGED held
       PROVE  IInv' /\ Fresh
  <2> DEFINE p == new("queued")
             c == [p EXCEPT !.ords[p.pos.root].status = status]
  <2>1. BookInv(p) /\ p.pos.phase = "entry_pending" /\ status \in Unfilled
    BY <1>8 DEF Unfilled
  <2>2. BookInv(c) /\ c.pos = p.pos /\ Len(c.ords) = Len(p.ords) /\ ~ HasLive(c.ords, ExitTypes)
    BY <2>1, RootStatus
  <2>3. held' \in Nat
    BY <1>10 DEF IInv
  <2>4. ReadBack(c, Append(ref, Len(alpaca) + 1), a, listed)
    BY <1>6, <1>10
  <2> HIDE DEF c
  <2>. QED BY <1>3, <1>7, <1>8, <2>2, <2>3, <2>4, NewTrade
<1>. QED BY <1>1, <1>9, <1>10


\* A handler of the trade, or Alpaca, moves the trade on.
LEMMA TradeStep ==
    ASSUME IInv, Protect \/ TakeProfit \/ MoveToBe \/ Flatten \/ Alpaca
    PROVE  IInv' /\ Steady
<1>1. CASE Flatten
  <2>. PICK n \in 0..Len(book.ords) : FlattenPending(n) \/ FlattenFilled(n)
    BY <1>1 DEF Flatten
  <2>. QED BY FlattenPendingStep, FlattenFilledStep
<1>. QED BY <1>1, ProtectStep, TakeProfitStep, MoveToBeStep, AlpacaStep

\* Nothing happens.
LEMMA IdleStep ==
    ASSUME IInv, UNCHANGED vars
    PROVE  IInv' /\ Steady
<1>1. Grows(alpaca, alpaca) /\ UNCHANGED <<book, ref, alpaca, held, cache>>
  BY Found DEF vars, Grows
<1>. QED BY <1>1, BrokerStep DEF IInv

\* Every step keeps the invariant, and it moves the trade on or starts one.
LEMMA StepShape ==
    ASSUME IInv, [Next]_vars
    PROVE  IInv' /\ (Steady \/ Fresh)
<1>1. CASE Look
  <2>. PICK listed \in Listings(cache, alpaca) :
         Enter(listed) \/ GetPositions(listed) \/ \E live \in Prices : PriceTick(live, listed)
    BY <1>1 DEF Look
  <2>1. CASE GetPositions(listed) \/ \E live \in Prices : PriceTick(live, listed)
    BY <2>1, LookStep
  <2>2. CASE Enter(listed)
    <3>. PICK e \in Entries, split \in Splits :
           \/ \E runner \in SUBSET DOMAIN split : EnterTrade(e, split, runner, listed)
           \/ EntryLost(e, split, listed)
      BY <2>2 DEF Enter
    <3>1. CASE EntryLost(e, split, listed)
      BY <3>1, EntryLostStep
    <3>2. ASSUME NEW runner \in SUBSET DOMAIN split, EnterTrade(e, split, runner, listed)
          PROVE  IInv' /\ Fresh
      BY <3>2, EnterStep
    <3>. QED BY <3>1, <3>2
  <2>. QED BY <2>1, <2>2
<1>. QED BY <1>1, TradeStep, IdleStep DEF Next

\* The root of a trade is one of the rows.
LEMMA RootBelow ==
    ASSUME IInv
    PROVE  book.pos.root \in 0..Len(book.ords)
BY Found DEF BookType, Roots

\* A step of the same trade is one of the ledger.
LEMMA RowMoves ==
    ASSUME NEW b, NEW c, BookInv(b), BookInv(c), Follows(b, c) \/ Opened(b, c)
    PROVE  Row(c) \in Ledger!Moves(Row(b))
<1>1. CASE Opened(b, c)
  <2>1. Row(b) = [stage |-> "pending", held |-> Active(b.pos), trade |-> b.pos.root]
    BY <1>1 DEF Row, Opened
  <2>2. Row(c) = [stage |-> "open", held |-> Active(b.pos), trade |-> b.pos.root]
    BY <1>1 DEF Row, Opened, Shrunk
  <2>3. Row(c) = [Row(b) EXCEPT !.stage = "open"]
    BY <2>1, <2>2
  <2>. QED BY <2>1, <2>3 DEF Ledger!Moves
<1>. QED BY <1>1, RowGoes DEF Ledger!Moves, Ledger!Left

\* The invariant: the book is consistent whatever the broker does, each row has its order there, no
\* order fills beyond its quantity, and no listing tells of a fill that did not happen.
THEOREM Inductive == Spec => []IInv
<1>1. Init => IInv
  <2> SUFFICES ASSUME Init PROVE IInv
    OBVIOUS
  <2>1. book = EmptyBook /\ ref = <<>> /\ alpaca = <<>> /\ held = 0 /\ cache = <<>>
    BY DEF Init
  <2>2. BookInv(book)
    BY <2>1, EmptyOK
  <2>3. Positive(book.pos.qty) /\ Len(ref) = Len(book.ords)
    BY <2>1 DEF EmptyBook, NoPosition, Positive
  <2>. QED BY <2>1, <2>2, <2>3 DEF IInv, Linked, BrokerInv, ListingOf
<1>2. IInv /\ [Next]_vars => IInv'
  BY StepShape
<1>. QED BY <1>1, <1>2, PTL DEF Spec

\* The rows, the orders at Alpaca and the ids that join them keep their types (orders of both sides).
THEOREM TypeCorrect == Spec => []TypeOK
<1>1. IInv => TypeOK
  BY DEF IInv, BookInv, Linked, BrokerInv, AlpacaOrder, Sound, ListingOf, TypeOK
<1>. QED BY <1>1, Inductive, PTL

\* A position is closed exactly when nothing of it is held (every handler over Alpaca).
THEOREM ClosedWhenFlat == Spec => []ClosedIffFlat
<1>1. IInv => ClosedIffFlat
  BY DEF IInv, BookInv, ClosedIffFlat
<1>. QED BY <1>1, Inductive, PTL

\* Nothing that was sold or canceled comes back, whatever fails or arrives late.
THEOREM OnlyShrinks == Spec => TradeOnlyShrinks
<1>1. IInv /\ [Next]_vars => Shrinks
  <2>1. ASSUME IInv, Steady PROVE Shrinks
    BY <2>1 DEF Steady, Follows, Opened, Shrinks
  <2>2. ASSUME IInv, Fresh PROVE Shrinks
    BY <2>2, RootBelow DEF Fresh, Shrinks
  <2>. QED BY <2>1, <2>2, StepShape
<1>. QED BY <1>1, Inductive, PTL DEF Spec, TradeOnlyShrinks

\* A pending trade opens only on the whole fill of its entry at Alpaca.
THEOREM OpensOnlyOnFill == Spec => PendingOpensOnFill
<1>1. IInv /\ [Next]_vars => OpensOnFill
  <2>1. ASSUME IInv, Steady PROVE OpensOnFill
    BY <2>1 DEF Steady, Follows, OpensOnFill, Opens
  <2>2. ASSUME IInv, Fresh PROVE OpensOnFill
    BY <2>2, RootBelow DEF Fresh, OpensOnFill, Opens
  <2>. QED BY <2>1, <2>2, StepShape
<1>. QED BY <1>1, Inductive, PTL DEF Spec, PendingOpensOnFill

\* Every sale is the fill, in that step, of the row of an order that sells the tranche.
THEOREM SalesAreFills == Spec => SoldOnlyByFill
<1>1. IInv /\ [Next]_vars => SoldByFill(book, book')
  <2>1. ASSUME IInv, Fresh PROVE SoldByFill(book, book')
    BY <2>1, RootBelow DEF Fresh, SoldByFill
  <2>. QED BY <2>1, StepShape DEF Steady
<1>. QED BY <1>1, Inductive, PTL DEF Spec, SoldOnlyByFill

\* The handlers over Alpaca implement the ledger: each step is one it allows.
THEOREM LedgerKept == Spec => KeepsLedger
<1> DEFINE ledger == [s \in {1} |-> Row(book)]
<1>1. Init => Ledger!Init
  <2>1. EmptyBook.pos.phase = "none" /\ EmptyBook.pos.root = 0 /\ Active(EmptyBook.pos) = {}
    BY DEF EmptyBook, NoPosition, Active
  <2>2. Row(EmptyBook) = [stage |-> "none", held |-> {}, trade |-> 0]
    BY <2>1 DEF Row
  <2>. QED BY <2>2 DEF Init, Ledger!Init
<1>2. IInv /\ IInv' /\ [Next]_vars => [Ledger!Next]_ledger
  <2>1. ASSUME IInv, IInv', Steady PROVE Ledger!Next
    <3>1. Row(book') \in Ledger!Moves(Row(book))
      BY <2>1, RowMoves DEF Steady, IInv
    <3>. QED BY <3>1 DEF Ledger!Next, Ledger!Progress
  <2>2. ASSUME IInv, IInv', Fresh PROVE Ledger!Next
    <3>1. Row(book').stage \in {"pending", "open"}
      BY <2>2 DEF Fresh, IsOpen, Row
    <3>2. Row(book').held \in SUBSET TrancheIds /\ Row(book').held # {}
      <4>1. BookInv(book')
        BY <2>2 DEF IInv
      <4>2. Active(book'.pos) # {} /\ Active(book'.pos) \subseteq TrancheIds
        BY <2>2, <4>1, BookParts DEF Fresh, IsOpen, BookInv, Flat
      <4>. QED BY <4>2 DEF Row
    <3>3. Row(book').trade > Row(book).trade
      <4>1. book.pos.root \in 0..Len(book.ords) /\ Len(book.ords) \in Nat /\ BookInv(book')
        BY <2>2, RootBelow, Found DEF IInv
      <4>2. book'.pos.root \in Nat /\ book'.pos.root > Len(book.ords)
        BY <2>2, <4>1, BookParts DEF Fresh, BookInv, Position
      <4>3. book'.pos.root > book.pos.root
        BY <4>1, <4>2
      <4>. QED BY <4>3 DEF Row
    <3>4. Ledger!Cardinality(Ledger!Committed') =< MaxOpenPositions
      <4>1. Ledger!Committed' \subseteq {1}
        BY DEF Ledger!Committed
      <4>2. Cardinality(Ledger!Committed') =< Cardinality({1})
        BY <4>1, FS_Subset, FS_Singleton
      <4>3. Cardinality({1}) = 1 /\ MaxOpenPositions \in Nat /\ Cardinality(Ledger!Committed') \in Nat
        BY <4>1, FS_Subset, FS_Singleton, FS_CardinalityType, AlpacaAssumption
      <4>4. Cardinality(Ledger!Committed') =< MaxOpenPositions
        BY <2>2, <4>2, <4>3 DEF Fresh
      <4>. QED BY <4>4 DEF Cardinality, Ledger!Cardinality
    <3>5. Ledger!Open(1)
      BY <3>1, <3>2, <3>3, <3>4 DEF Ledger!Open
    <3>. QED BY <3>5 DEF Ledger!Next
  <2>. QED BY <2>1, <2>2, StepShape
<1>. QED BY <1>1, <1>2, Inductive, PTL DEF Spec, KeepsLedger, Ledger!Spec
=============================================================================
