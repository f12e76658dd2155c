------------------------- MODULE EntryTicketProofs -------------------------
(* What holds of entry tickets whatever the tickets, the accounts, the      *)
(* quotes and the percentages are.                                          *)
EXTENDS EntryTicket, FiniteSetTheorems, TLAPS

\* A floor is at most the quotient (math.floor of the limits of _calculate_shares).
LEMMA FloorBound ==
  ASSUME NEW a \in Int, NEW b \in Int, b > 0
  PROVE  a \div b \in Int /\ b * (a \div b) =< a
  BY SMT

\* What is sized fits: floors only lose, and the cap is the larger of the two bounds on money.
LEMMA SharesFit ==
  ASSUME NEW a \in Accounts, NEW entry \in Int, NEW risk \in Int, Shares(a, entry, risk) > 0
  PROVE  /\ Shares(a, entry, risk) \in Nat
         /\ 100 * entry * Shares(a, entry, risk) =< CapPct * a.equity
         /\ 100 * risk * Shares(a, entry, risk) =< RiskPct * a.equity
<1>. DEFINE s == Shares(a, entry, risk)
            r == RiskPct * a.equity
            m == Affordable(a)
<1>1. a.equity \in Nat /\ a.power \in Int /\ r \in Int /\ CapPct * a.equity \in Int
  BY AccountsAssumption, PctAssumption DEF Money
<1>2. m \in Int /\ m =< CapPct * a.equity
  BY <1>1 DEF Affordable, Least
<1>3. risk > 0 /\ entry > 0
  BY DEF Shares
<1>4. s = AtLeastZero(Least(r \div (100 * risk), m \div (100 * entry)))
  BY <1>3 DEF Shares
<1>. HIDE DEF r, m
<1>5. /\ r \div (100 * risk) \in Int /\ (100 * risk) * (r \div (100 * risk)) =< r
      /\ m \div (100 * entry) \in Int /\ (100 * entry) * (m \div (100 * entry)) =< m
  BY <1>1, <1>2, <1>3, FloorBound
<1>6. s \in Nat /\ s > 0 /\ s =< r \div (100 * risk) /\ s =< m \div (100 * entry)
  BY <1>4, <1>5 DEF AtLeastZero, Least
<1>. HIDE DEF s
<1>7. ASSUME NEW x \in Int, NEW y \in Int, NEW b \in Int, b > 0, x =< y  PROVE b * x =< b * y
  BY <1>7
<1>8. (100 * risk) * s =< r /\ (100 * entry) * s =< m
  <2>1. (100 * risk) * s =< (100 * risk) * (r \div (100 * risk))
    BY <1>3, <1>5, <1>6, <1>7
  <2>2. (100 * entry) * s =< (100 * entry) * (m \div (100 * entry))
    BY <1>3, <1>5, <1>6, <1>7
  <2>. QED BY <1>1, <1>2, <1>3, <1>5, <1>6, <2>1, <2>2
<1>9. QED BY <1>1, <1>2, <1>3, <1>6, <1>8 DEF s, r
----------------------------------------------------------------------------
(* The two rule tables.                                                     *)

\* Both tables read a draft of the screen, normalized or not, in the same way.
LEMMA RulesAgree ==
  ASSUME NEW t \in Ticket, NEW s \in Sessions
  PROVE  UiErrors(BuiltByUi(t.picked, t.target), s) = Errors(Normalized(BuiltByUi(t.picked, t.target)), s)
<1>. DEFINE p == t.picked
            d == BuiltByUi(p, t.target)
            o == Normalized(d)
<1>1. /\ p.type \in Types /\ p.tif \in Tifs /\ p.class \in Classes /\ p.extended = FALSE
      /\ p.otoSide \in {"take_profit", "stop_loss"} /\ p.limit \in Amount /\ p.stop \in Amount
      /\ t.target \in BOOLEAN
  BY DEF Ticket
<1>2. /\ d.type = p.type /\ d.tif = p.tif /\ d.class = p.class /\ d.extended = FALSE /\ d.otoSide = p.otoSide
      /\ o.type = p.type /\ o.tif = p.tif /\ o.class = p.class /\ o.extended = FALSE /\ o.otoSide = p.otoSide
  BY <1>1 DEF BuiltByUi, Normalized
<1>3. p.type \in Limited => (Falsy(d.limit) <=> o.limit # "priced")
  BY <1>1 DEF BuiltByUi, Normalized, Falsy, Amount, Limited
<1>4. p.type \in Triggered => (Falsy(d.stop) <=> o.stop # "priced")
  BY <1>1 DEF BuiltByUi, Normalized, Falsy, Amount, Triggered
<1>5. /\ p.class = "bracket" => (Missing(d.takeProfit) <=> o.takeProfit # "priced")
      /\ p.class = "bracket" => (Missing(d.stopLoss) <=> o.stopLoss # "priced")
  BY <1>1 DEF BuiltByUi, Normalized, Missing
<1>6. p.class = "oto" => /\ p.otoSide = "take_profit" => (Missing(d.takeProfit) <=> o.takeProfit # "priced")
                         /\ p.otoSide = "stop_loss" => (Missing(d.stopLoss) <=> o.stopLoss # "priced")
  BY <1>1 DEF BuiltByUi, Normalized, Missing
<1>. HIDE DEF p, d, o
<1>7. \A e : e \in UiErrors(d, s) <=> e \in Errors(o, s)
  <2>. DEFINE Same(e) == e \in UiErrors(d, s) <=> e \in Errors(o, s)
  <2>1. Same("tif")
    BY <1>2 DEF UiErrors, Errors
  <2>2. Same("limit")
    BY <1>2, <1>3 DEF UiErrors, Errors
  <2>3. Same("trigger")
    BY <1>2, <1>4 DEF UiErrors, Errors
  <2>4. Same("extended type")
    BY <1>2 DEF UiErrors, Errors
  <2>5. Same("extended class")
    BY <1>2 DEF UiErrors, Errors
  <2>6. Same("oco")
    BY <1>2 DEF UiErrors, Errors
  <2>7. Same("bracket profit")
    BY <1>2, <1>5 DEF UiErrors, Errors
  <2>8. Same("bracket stop")
    BY <1>2, <1>5 DEF UiErrors, Errors
  <2>9. Same("oto profit")
    BY <1>2, <1>1, <1>6 DEF UiErrors, Errors
  <2>10. Same("oto stop")
    BY <1>2, <1>1, <1>6 DEF UiErrors, Errors
  <2>11. Same("exits tif")
    BY <1>2 DEF UiErrors, Errors
  <2>12. Same("auction")
    BY <1>2 DEF UiErrors, Errors
  <2>. DEFINE Names == {"tif", "limit", "trigger", "extended type", "extended class", "oco", "bracket profit", "bracket stop", "oto profit", "oto stop", "exits tif", "auction"}
  <2>13. UiErrors(d, s) \subseteq Names /\ Errors(o, s) \subseteq Names
    <3>1. UiErrors(d, s) \subseteq Names
      BY DEF UiErrors
    <3>2. Errors(o, s) \subseteq Names
      BY DEF Errors
    <3>. QED BY <3>1, <3>2
  <2>14. \A e \in Names : Same(e)
    <3>. HIDE DEF Same
    <3>. QED BY <2>1, <2>2, <2>3, <2>4, <2>5, <2>6, <2>7, <2>8, <2>9, <2>10, <2>11, <2>12
  <2>. HIDE DEF Names
  <2>. QED BY <2>13, <2>14
<1>8. UiErrors(d, s) = Errors(o, s)
  BY <1>7
<1>9. QED BY <1>8 DEF p, d, o
----------------------------------------------------------------------------
(* What the screen shows.                                                   *)

\* A floor is less than one below the quotient.
LEMMA FloorIs ==
  ASSUME NEW a \in Int, NEW b \in Int, b > 0
  PROVE  a < b * (a \div b) + b
  BY SMT

\* A common factor is dropped, also with less than one factor of slack.
LEMMA Cancel ==
  ASSUME NEW k \in Int, k > 0, NEW x \in Int, NEW y \in Int, k * x < k * y + k
  PROVE  x =< y
<1>1. SUFFICES ASSUME x >= y + 1 PROVE FALSE
  OBVIOUS
<1>2. k * x >= k * (y + 1)
  BY <1>1
<1>3. k * (y + 1) = k * y + k
  OBVIOUS
<1>. QED BY <1>2, <1>3

\* Dividing the risk rounded to cents gives the exact quotient or one more.
LEMMA RoundedRisk ==
  ASSUME NEW a \in Int, NEW k \in Int, k > 0
  PROVE  ((a + 50) \div 100) \div k \in (a \div (100 * k)) .. (a \div (100 * k)) + 1
<1>. DEFINE q == a \div (100 * k)
            cents == (a + 50) \div 100
            u == cents \div k
<1>1. q \in Int /\ (100 * k) * q =< a /\ a < (100 * k) * q + 100 * k
  BY FloorBound, FloorIs
<1>2. cents \in Int /\ 100 * cents =< a + 50 /\ a + 50 < 100 * cents + 100
  OBVIOUS
<1>. HIDE DEF q, cents
<1>3. u \in Int /\ k * u =< cents /\ cents < k * u + k
  BY <1>2, FloorBound, FloorIs
<1>. HIDE DEF u
<1>4. k * q \in Int /\ k * u \in Int /\ (100 * k) * q = 100 * (k * q)
  BY <1>1, <1>3
<1>5. k * q =< cents /\ cents =< k * q + k
  <2>. DEFINE kq == k * q
  <2>1. kq \in Int /\ 100 * kq =< a /\ a < 100 * kq + 100 * k
    BY <1>1, <1>4
  <2>. HIDE DEF kq
  <2>2. kq =< cents /\ cents =< kq + k
    BY <1>2, <2>1
  <2>. QED BY <2>2 DEF kq
<1>6. k * q < k * u + k /\ k * u < (k * q + k) + k
  <2>. DEFINE kq == k * q
              ku == k * u
  <2>1. kq \in Int /\ ku \in Int /\ ku =< cents /\ cents < ku + k /\ kq =< cents /\ cents =< kq + k
    BY <1>3, <1>4, <1>5
  <2>. HIDE DEF kq, ku
  <2>2. kq < ku + k /\ ku < (kq + k) + k
    BY <1>2, <2>1
  <2>. QED BY <2>2 DEF kq, ku
<1>7. k * (q + 1) = k * q + k
  BY <1>1
<1>8. q =< u /\ u =< q + 1
  <2>1. q =< u
    BY <1>1, <1>3, <1>6, Cancel
  <2>2. k * u < k * (q + 1) + k
    BY <1>6, <1>7
  <2>. QED BY <1>1, <1>3, <2>1, <2>2, Cancel
<1>. QED BY <1>1, <1>3, <1>8 DEF q, u, cents

\* The screen shows the shares the service will buy, or one more (deriveSetupForSelection against
\* _calculate_shares).
LEMMA ShownFits ==
  ASSUME NEW a \in Accounts, a.power > 0, NEW entry \in Int, NEW risk \in Int
  PROVE  UiShares(a, entry, risk) \in Shares(a, entry, risk) .. Shares(a, entry, risk) + 1
<1>1. CASE risk =< 0 \/ entry =< 0
  BY <1>1 DEF UiShares, Shares
<1>2. CASE risk > 0 /\ entry > 0
  <2>. DEFINE r == RiskPct * a.equity
              m == Affordable(a)
              c == m \div (100 * entry)
  <2>1. a.equity \in Nat /\ a.power \in Int /\ r \in Int /\ CapPct * a.equity \in Int
    BY AccountsAssumption, PctAssumption DEF Money
  <2>2. m \in Int /\ m = Least(100 * a.power, CapPct * a.equity)
    BY <2>1 DEF Affordable, Least
  <2>3. DollarRisk(a) \div risk \in (r \div (100 * risk)) .. (r \div (100 * risk)) + 1
    BY <1>2, <2>1, RoundedRisk DEF DollarRisk
  <2>4. /\ Shares(a, entry, risk) = AtLeastZero(Least(r \div (100 * risk), c))
        /\ UiShares(a, entry, risk) = AtLeastZero(Least(DollarRisk(a) \div risk, c))
    BY <1>2, <2>2 DEF Shares, UiShares
  <2>. HIDE DEF m, r
  <2>5. c \in Int /\ r \div (100 * risk) \in Int
    BY <1>2, <2>1, <2>2, FloorBound
  <2>. QED BY <2>3, <2>4, <2>5 DEF AtLeastZero, Least
<1>. QED BY <1>1, <1>2
----------------------------------------------------------------------------
(* The tranches.                                                            *)

\* A set of at most two elements is counted element by element.
LEMMA Pair ==
  ASSUME NEW a, NEW b, a # b, NEW S, S \subseteq {a, b}
  PROVE  Cardinality(S) = (IF a \in S THEN 1 ELSE 0) + (IF b \in S THEN 1 ELSE 0)
<1>1. Cardinality({}) = 0 /\ Cardinality({a}) = 1 /\ Cardinality({b}) = 1 /\ IsFiniteSet({a})
  BY FS_EmptySet, FS_Singleton
<1>2. Cardinality({a} \cup {b}) = 2
  <2>1. b \notin {a}
    OBVIOUS
  <2>2. Cardinality({a} \cup {b}) = Cardinality({a}) + 1
    BY <1>1, <2>1, FS_AddElement
  <2>. QED BY <1>1, <2>2
<1>3. CASE a \in S /\ b \in S
  <2>1. S = {a} \cup {b}
    BY <1>3
  <2>. QED BY <1>2, <1>3, <2>1
<1>4. CASE a \in S /\ b \notin S
  <2>1. S = {a}
    BY <1>4
  <2>. QED BY <1>1, <1>4, <2>1
<1>5. CASE a \notin S /\ b \in S
  <2>1. S = {b}
    BY <1>5
  <2>. QED BY <1>1, <1>5, <2>1
<1>6. CASE a \notin S /\ b \notin S
  <2>1. S = {}
    BY <1>6
  <2>. QED BY <1>1, <1>6, <2>1
<1>. QED BY <1>3, <1>4, <1>5, <1>6

\* The tranches are ranked apart by what is before them (the sort of _split_shares).
LEMMA Ranks ==
  ASSUME NEW n \in 1..3, NEW f \in [1..n -> Int]
  PROVE  LET rank(i) == Cardinality(Larger(f, i))
         IN  /\ n = 1 => rank(1) = 0
             /\ n = 2 => rank(1) \in 0..1 /\ rank(2) = 1 - rank(1)
             /\ n = 3 => /\ rank(1) \in 0..2 /\ rank(2) \in 0..2 /\ rank(3) = 3 - rank(1) - rank(2)
                         /\ rank(1) # rank(2) /\ rank(1) # rank(3) /\ rank(2) # rank(3)
<1> DEFINE rank(i) == Cardinality(Larger(f, i))
           in(i, j) == IF j \in Larger(f, i) THEN 1 ELSE 0
<1>1. \A i, j \in 1..n : j \in Larger(f, i) <=> f[j] > f[i] \/ (f[j] = f[i] /\ j < i)
  BY DEF Larger
<1>2. \A i \in 1..n : Larger(f, i) \subseteq 1..n \ {i} /\ f[i] \in Int
  BY DEF Larger
<1>3. CASE n = 1
  <2>1. Larger(f, 1) = {}
    BY <1>2, <1>3
  <2>. QED BY <1>3, <2>1, FS_EmptySet
<1>4. CASE n = 2
  <2>1. Larger(f, 1) \subseteq {2, 3} /\ 3 \notin Larger(f, 1) /\ Larger(f, 2) \subseteq {1, 3} /\ 3 \notin Larger(f, 2)
    BY <1>2, <1>4
  <2>2. rank(1) = in(1, 2) /\ rank(2) = in(2, 1)
    <3>1. rank(1) = in(1, 2) + in(1, 3)
      BY <2>1, Pair
    <3>2. rank(2) = in(2, 1) + in(2, 3)
      BY <2>1, Pair
    <3>. QED BY <2>1, <3>1, <3>2
  <2>3. in(1, 2) \in 0..1 /\ in(2, 1) = 1 - in(1, 2)
    BY <1>1, <1>2, <1>4
  <2> HIDE DEF rank, in
  <2>4. rank(1) \in 0..1 /\ rank(2) = 1 - rank(1)
    BY <2>2, <2>3
  <2>. QED BY <1>4, <2>4 DEF rank
<1>5. CASE n = 3
  <2>1. Larger(f, 1) \subseteq {2, 3} /\ Larger(f, 2) \subseteq {1, 3} /\ Larger(f, 3) \subseteq {1, 2}
    BY <1>2, <1>5
  <2>2. rank(1) = in(1, 2) + in(1, 3)
    BY <2>1, Pair
  <2>3. rank(2) = in(2, 1) + in(2, 3)
    BY <2>1, Pair
  <2>4. rank(3) = in(3, 1) + in(3, 2)
    BY <2>1, Pair
  <2>5. /\ in(1, 2) \in 0..1 /\ in(1, 3) \in 0..1 /\ in(2, 3) \in 0..1
        /\ in(2, 1) = 1 - in(1, 2) /\ in(3, 1) = 1 - in(1, 3) /\ in(3, 2) = 1 - in(2, 3)
    BY <1>1, <1>2, <1>5
  <2>6. /\ in(1, 2) = 1 /\ in(2, 3) = 1 => in(1, 3) = 1
        /\ in(1, 2) = 0 /\ in(2, 3) = 0 => in(1, 3) = 0
    BY <1>1, <1>2, <1>5
  <2> HIDE DEF rank, in
  <2>7. /\ rank(1) \in 0..2 /\ rank(2) \in 0..2 /\ rank(3) = 3 - rank(1) - rank(2)
        /\ rank(1) # rank(2) /\ rank(1) # rank(3) /\ rank(2) # rank(3)
    BY <2>2, <2>3, <2>4, <2>5, <2>6
  <2>. QED BY <1>5, <2>7 DEF rank
<1>. QED BY <1>3, <1>4, <1>5

\* A part of the shares, cut into whole ones and a fraction (in ten-thousandths).
Cut(s, pct, whole, fraction) ==
  /\ whole \in Int
  /\ fraction \in Int /\ 0 =< fraction /\ fraction < 10000
  /\ s * pct = 10000 * whole + fraction
  /\ pct >= 0 => whole >= 0

\* Dividing cuts a part (floor and what is above it, _split_shares).
LEMMA Divides ==
  ASSUME NEW s \in Nat, NEW pct \in Int
  PROVE  Cut(s, pct, (s * pct) \div 10000, (s * pct) % 10000)
<1> DEFINE x == s * pct
<1>1. x \in Int /\ (pct >= 0 => x >= 0)
  OBVIOUS
<1> HIDE DEF x
<1> DEFINE q == x \div 10000
           m == x % 10000
<1>2. q \in Int /\ m \in Int /\ 0 =< m /\ m < 10000 /\ x = 10000 * q + m
  BY <1>1
<1>3. x >= 0 => q >= 0
  BY <1>1
<1> HIDE DEF q, m
<1>4. Cut(s, pct, q, m)
  BY <1>1, <1>2, <1>3 DEF Cut, x
<1>. QED BY <1>4 DEF q, m, x

\* What a cut is made of.
LEMMA Pieces ==
  ASSUME NEW s, NEW pct, NEW whole, NEW fraction, Cut(s, pct, whole, fraction)
  PROVE  /\ whole \in Int /\ fraction \in Int
         /\ 0 =< fraction /\ fraction < 10000
         /\ pct >= 0 => whole >= 0
  BY DEF Cut

\* Three such parts, of percentages that make up the whole.
Cuts(s, a, b, c, u, v, w, k, l, m) ==
  /\ s \in Nat /\ a \in Int /\ b \in Int /\ c \in Int /\ a + b + c = 10000
  /\ Cut(s, a, u, k) /\ Cut(s, b, v, l) /\ Cut(s, c, w, m)

\* What the whole shares leave is made up of the fractions (remainder of _split_shares).
LEMMA LeftOver ==
  ASSUME NEW s, NEW a, NEW b, NEW c, NEW u, NEW v, NEW w, NEW k, NEW l, NEW m,
         Cuts(s, a, b, c, u, v, w, k, l, m)
  PROVE  /\ s - (u + v + w) \in Int /\ 0 =< s - (u + v + w) /\ s - (u + v + w) =< 2
         /\ m = 0 => s - (u + v + w) \in 0..1
         /\ l = 0 /\ m = 0 => s - (u + v + w) = 0
<1>1. s \in Nat /\ a \in Int /\ b \in Int /\ c \in Int /\ u \in Int /\ v \in Int /\ w \in Int
      /\ k \in Int /\ l \in Int /\ m \in Int
  BY DEF Cuts, Cut
<1>2. a + b + c = 10000 /\ Cut(s, a, u, k) /\ Cut(s, b, v, l) /\ Cut(s, c, w, m)
  BY DEF Cuts
<1>3. 0 =< k /\ k < 10000 /\ 0 =< l /\ l < 10000 /\ 0 =< m /\ m < 10000
  BY <1>2 DEF Cut
<1>4. s * a = 10000 * u + k /\ s * b = 10000 * v + l /\ s * c = 10000 * w + m
  BY <1>2, <1>1 DEF Cut
<1>5. s * a + s * b + s * c = 10000 * s
  <2>1. s * a + s * b + s * c = s * (a + b + c)
    BY <1>1
  <2>2. s * (a + b + c) = s * 10000
    BY <1>2, <1>1
  <2>3. s * 10000 = 10000 * s
    BY <1>1
  <2>. QED BY <1>1, <2>1, <2>2, <2>3
<1>6. PICK left \in Int : left = s - (u + v + w)
  BY <1>1
<1>7. k + l + m = 10000 * left
  <2>1. (10000 * u + k) + (10000 * v + l) + (10000 * w + m) = 10000 * s
    BY <1>4, <1>5, <1>1
  <2>. QED BY <1>6, <1>1, <2>1
<1>8. left >= 0 /\ left =< 2
  BY <1>3, <1>7, <1>1
<1>9. m = 0 => left =< 1
  BY <1>3, <1>7, <1>1
<1>10. l = 0 /\ m = 0 => left = 0
  BY <1>3, <1>7, <1>1
<1>. QED BY <1>6, <1>8, <1>9, <1>10

\* Percentages of n tranches that make up the whole.
Complete(n, p) == n \in 1..3 /\ p \in [1..n -> Int] /\ Total(p) = 10000

\* Percentages that make up the whole divide the shares exactly, and none of them that is not
\* negative gets less than nothing (_split_shares).
LEMMA SplitOK ==
  ASSUME NEW n, NEW p, Complete(n, p), NEW shares \in Nat, NEW q, q = Split(shares, p)
  PROVE  /\ q \in [1..n -> Int] /\ Total(q) = shares
         /\ \A i \in 1..n : p[i] >= 0 => q[i] >= 0
<1>1. n \in 1..3 /\ p \in [1..n -> Int] /\ Total(p) = 10000
  BY DEF Complete
<1> USE <1>1
<1> DEFINE w == Whole(shares, p)
           f == Fraction(shares, p)
           rank == [i \in 1..n |-> Cardinality(Larger(f, i))]
           left == shares - Total(w)
           more == [i \in 1..n |-> IF rank[i] < left THEN 1 ELSE 0]
<1>2. q = [i \in 1..n |-> IF rank[i] < left THEN w[i] + 1 ELSE w[i]]
  BY DEF Split
<1>3. DOMAIN w = 1..n /\ DOMAIN f = 1..n /\ w = [i \in 1..n |-> w[i]] /\ f = [i \in 1..n |-> f[i]]
  BY DEF Whole, Fraction
<1>4. \A i \in 1..n : Cut(shares, p[i], w[i], f[i])
  <2>1. TAKE i \in 1..n
  <2>2. w[i] = (shares * p[i]) \div 10000 /\ f[i] = (shares * p[i]) % 10000
    BY DEF Whole, Fraction
  <2>3. p[i] \in Int
    OBVIOUS
  <2>. HIDE DEF w, f
  <2>4. Cut(shares, p[i], (shares * p[i]) \div 10000, (shares * p[i]) % 10000)
    BY <2>3, Divides
  <2>. QED BY <2>2, <2>4
<1> HIDE DEF w, f
<1>5. \A i \in 1..n : w[i] \in Int /\ f[i] \in Int
  <2>1. \A i \in 1..n : w[i] \in Int
    BY <1>4, Pieces
  <2>2. \A i \in 1..n : f[i] \in Int
    BY <1>4, Pieces
  <2>. QED BY <2>1, <2>2
<1>6. \A i \in 1..n : p[i] >= 0 => w[i] >= 0
  BY <1>4, Pieces
<1>7. w \in [1..n -> Int] /\ f \in [1..n -> Int]
  <2>1. [i \in 1..n |-> w[i]] \in [1..n -> Int] /\ [i \in 1..n |-> f[i]] \in [1..n -> Int]
    BY <1>5
  <2>. QED BY <1>3, <2>1
<1>8. \A i \in 1..n : rank[i] = Cardinality(Larger(f, i))
  OBVIOUS
<1> HIDE DEF rank
<1>9. /\ n = 1 => rank[1] = 0
      /\ n = 2 => rank[1] \in 0..1 /\ rank[2] = 1 - rank[1]
      /\ n = 3 => /\ rank[1] \in 0..2 /\ rank[2] \in 0..2 /\ rank[3] = 3 - rank[1] - rank[2]
                  /\ rank[1] # rank[2] /\ rank[1] # rank[3] /\ rank[2] # rank[3]
  <2>1. CASE n = 1
    BY <1>7, <1>8, <2>1, Ranks
  <2>2. CASE n = 2
    BY <1>7, <1>8, <2>2, Ranks
  <2>3. CASE n = 3
    BY <1>7, <1>8, <2>3, Ranks
  <2>. QED BY <2>1, <2>2, <2>3
<1>10. Cut(shares, 0, 0, 0)
  BY DEF Cut
<1>11. /\ left \in Int /\ Total(w) \in Int
       /\ n = 1 => left = 0
       /\ n = 2 => left \in 0..1
       /\ n = 3 => left \in 0..2
  <2>1. CASE n = 1
    <3>1. p[1] = 10000 /\ Total(w) = w[1] + 0 + 0 /\ w[1] \in Int
      BY <1>7, <2>1 DEF Total
    <3>2. PICK u \in Int, k \in Int : u = w[1] /\ k = f[1]
      BY <1>5, <2>1
    <3>3. Cut(shares, 10000, u, k)
      BY <1>4, <2>1, <3>1, <3>2
    <3>4. 10000 + 0 + 0 = 10000
      OBVIOUS
    <3>5. Cuts(shares, 10000, 0, 0, u, 0, 0, k, 0, 0)
      BY <1>10, <3>3, <3>4 DEF Cuts
    <3>6. shares - (u + 0 + 0) = 0
      BY <3>5, LeftOver
    <3>. QED BY <2>1, <3>1, <3>2, <3>6
  <2>2. CASE n = 2
    <3>1. PICK a \in Int, b \in Int : a = p[1] /\ b = p[2]
      BY <2>2
    <3>2. a + b + 0 = 10000
      BY <2>2, <3>1 DEF Total
    <3>3. Total(w) = w[1] + w[2] + 0 /\ w[1] \in Int /\ w[2] \in Int
      BY <1>7, <2>2 DEF Total
    <3>4. PICK u \in Int, v \in Int, k \in Int, l \in Int : u = w[1] /\ v = w[2] /\ k = f[1] /\ l = f[2]
      BY <1>5, <2>2
    <3>5. Cut(shares, a, u, k) /\ Cut(shares, b, v, l)
      BY <1>4, <2>2, <3>1, <3>4
    <3>6. Cuts(shares, a, b, 0, u, v, 0, k, l, 0)
      BY <1>10, <3>2, <3>5 DEF Cuts
    <3>7. shares - (u + v + 0) \in 0..1
      BY <3>6, LeftOver
    <3>8. Total(w) = u + v + 0
      BY <3>3, <3>4
    <3>. QED BY <2>2, <3>7, <3>8
  <2>3. CASE n = 3
    <3>1. PICK a \in Int, b \in Int, c \in Int : a = p[1] /\ b = p[2] /\ c = p[3]
      BY <2>3
    <3>2. a + b + c = 10000
      BY <2>3, <3>1 DEF Total
    <3>3. Total(w) = w[1] + w[2] + w[3] /\ w[1] \in Int /\ w[2] \in Int /\ w[3] \in Int
      BY <1>7, <2>3 DEF Total
    <3>4. PICK u \in Int, v \in Int, x \in Int : u = w[1] /\ v = w[2] /\ x = w[3]
      BY <3>3
    <3>5. f[1] \in Int /\ f[2] \in Int /\ f[3] \in Int
      BY <1>5, <2>3
    <3>6. PICK k \in Int, l \in Int, m \in Int : k = f[1] /\ l = f[2] /\ m = f[3]
      BY <3>5
    <3>7. Cut(shares, a, u, k) /\ Cut(shares, b, v, l) /\ Cut(shares, c, x, m)
      BY <1>4, <2>3, <3>1, <3>4, <3>6
    <3>8. Cuts(shares, a, b, c, u, v, x, k, l, m)
      BY <3>2, <3>7 DEF Cuts
    <3>9. shares - (u + v + x) \in 0..2
      BY <3>8, LeftOver
    <3>10. Total(w) = u + v + x
      BY <3>3, <3>4
    <3>. QED BY <2>3, <3>9, <3>10
  <2>. QED BY <2>1, <2>2, <2>3
<1>12. Total(w) + left = shares
  BY <1>11
<1> HIDE DEF left
<1>13. more \in [1..n -> 0..1] /\ Total(more) = left
  <2>1. \A i \in 1..n : more[i] = IF rank[i] < left THEN 1 ELSE 0
    OBVIOUS
  <2>2. more \in [1..n -> 0..1]
    OBVIOUS
  <2> HIDE DEF more
  <2>3. CASE n = 1
    <3>1. Total(more) = more[1] + 0 + 0
      BY <2>2, <2>3 DEF Total
    <3>2. more[1] = IF rank[1] < left THEN 1 ELSE 0
      BY <2>1, <2>3
    <3>3. rank[1] = 0 /\ left = 0
      BY <1>9, <1>11, <2>3
    <3>. QED BY <2>2, <3>1, <3>2, <3>3
  <2>4. CASE n = 2
    <3>1. Total(more) = more[1] + more[2] + 0
      BY <2>2, <2>4 DEF Total
    <3>2. more[1] = (IF rank[1] < left THEN 1 ELSE 0) /\ more[2] = (IF rank[2] < left THEN 1 ELSE 0)
      BY <2>1, <2>4
    <3>3. rank[1] \in 0..1 /\ rank[2] = 1 - rank[1] /\ left \in 0..1
      BY <1>9, <1>11, <2>4
    <3>. QED BY <2>2, <3>1, <3>2, <3>3
  <2>5. CASE n = 3
    <3>1. Total(more) = more[1] + more[2] + more[3]
      BY <2>2, <2>5 DEF Total
    <3>2. /\ more[1] = (IF rank[1] < left THEN 1 ELSE 0) /\ more[2] = (IF rank[2] < left THEN 1 ELSE 0)
          /\ more[3] = (IF rank[3] < left THEN 1 ELSE 0)
      BY <2>1, <2>5
    <3>3. /\ rank[1] \in 0..2 /\ rank[2] \in 0..2 /\ rank[3] = 3 - rank[1] - rank[2] /\ left \in 0..2
          /\ rank[1] # rank[2] /\ rank[1] # rank[3] /\ rank[2] # rank[3]
      BY <1>9, <1>11, <2>5
    <3>4. Total(more) = left
      BY <3>1, <3>2, <3>3
    <3>. QED BY <2>2, <3>4
  <2>. QED BY <2>2, <2>3, <2>4, <2>5
<1>14. \A i \in 1..n : q[i] = w[i] + more[i]
  BY <1>2, <1>5
<1> HIDE DEF more
<1>15. q \in [1..n -> Int]
  <2>1. q = [i \in 1..n |-> q[i]]
    BY <1>2
  <2>2. \A i \in 1..n : q[i] \in Int
    <3>1. TAKE i \in 1..n
    <3>2. w[i] \in Int /\ more[i] \in Int /\ q[i] = w[i] + more[i]
      BY <1>5, <1>13, <1>14
    <3>. QED BY <3>2
  <2>. QED BY <2>1, <2>2
<1>16. Total(q) = Total(w) + Total(more)
  <2>1. \A i \in 1..n : q[i] = w[i] + more[i] /\ w[i] \in Int /\ more[i] \in Int
    BY <1>5, <1>13, <1>14
  <2>2. DOMAIN q = 1..n /\ DOMAIN w = 1..n /\ DOMAIN more = 1..n
    BY <1>7, <1>13, <1>15
  <2>3. CASE n = 1
    BY <2>1, <2>2, <2>3 DEF Total
  <2>4. CASE n = 2
    BY <2>1, <2>2, <2>4 DEF Total
  <2>5. CASE n = 3
    BY <2>1, <2>2, <2>5 DEF Total
  <2>. QED BY <2>3, <2>4, <2>5
<1>17. \A i \in 1..n : p[i] >= 0 => q[i] >= 0
  <2>1. TAKE i \in 1..n
  <2>2. w[i] \in Int /\ more[i] \in 0..1 /\ q[i] = w[i] + more[i] /\ (p[i] >= 0 => w[i] >= 0)
    BY <1>5, <1>13, <1>14, <1>6
  <2>. QED BY <2>2
<1>. QED BY <1>12, <1>13, <1>15, <1>16, <1>17

\* A rounded quotient is not negative, and at most a half too much.
LEMMA RoundedOK ==
  ASSUME NEW a \in Nat, NEW b \in Nat, b > 0, NEW r \in Rounded(a, b)
  PROVE  r \in Nat /\ 2 * (b * r) =< 2 * a + b
<1>1. PICK c \in {2 * a + b, 2 * a + b - 1} : r = c \div (2 * b)
  BY DEF Rounded
<1>2. c \in Nat /\ c =< 2 * a + b /\ 2 * b \in Nat /\ 2 * b > 0
  BY <1>1
<1>3. r \in Int /\ (2 * b) * r =< c /\ c < (2 * b) * r + 2 * b
  BY <1>1, <1>2, FloorBound, FloorIs
<1>4. r >= 0
  <2>1. (2 * b) * 0 = 0
    BY <1>2
  <2>2. (2 * b) * 0 < (2 * b) * r + 2 * b
    BY <1>2, <1>3, <2>1
  <2>. QED BY <1>2, <1>3, <2>2, Cancel
<1>5. (2 * b) * r = 2 * (b * r)
  BY <1>3
<1>. QED BY <1>2, <1>3, <1>4, <1>5

\* Weights are not negative, make up something, and only what was to hold nothing weighs nothing
\* (_normalize_allocation_pcts, provided and total).
LEMMA WeightOK ==
  ASSUME NEW al \in Allocations, NEW w, w = Weight(al, Len(al))
  PROVE  /\ Len(al) \in 1..3 /\ w \in [1..Len(al) -> Nat] /\ Total(w) > 0
         /\ \A i \in 1..Len(al) : w[i] = 0 => al[i] = 0
<1> DEFINE n == Len(al)
           given == [i \in 1..n |-> IF al[i] = Unset THEN 300 \div n ELSE 3 * al[i]]
<1>1. n \in 1..3 /\ \A i \in 1..n : al[i] \in Nat \cup {Unset}
  BY DEF Allocations
<1> HIDE DEF n
<1>2. 300 \div n \in Nat /\ 300 \div n > 0
  <2>1. CASE n = 1
    BY <2>1
  <2>2. CASE n = 2
    BY <2>2
  <2>3. CASE n = 3
    BY <2>3
  <2>. QED BY <1>1, <2>1, <2>2, <2>3
<1>3. given \in [1..n -> Nat] /\ \A i \in 1..n : given[i] = 0 => al[i] = 0
  BY <1>1, <1>2 DEF Unset
<1>4. w = IF Total(given) =< 0 THEN [i \in 1..n |-> 1] ELSE given
  BY DEF Weight, n
<1> HIDE DEF given
<1>5. Total(given) \in Nat
  BY <1>1, <1>3 DEF Total
<1>6. CASE Total(given) =< 0
  <2>1. w = [i \in 1..n |-> 1]
    BY <1>4, <1>6
  <2>2. Total(w) > 0
    BY <1>1, <2>1 DEF Total
  <2>. QED BY <1>1, <2>1, <2>2 DEF n
<1>7. CASE ~(Total(given) =< 0)
  BY <1>1, <1>3, <1>4, <1>5, <1>7 DEF n
<1>. QED BY <1>6, <1>7

\* The percentages make up the whole, and none is negative but a last one that was to be nothing
\* (_normalize_allocation_pcts).
LEMMA PctsOK ==
  ASSUME NEW al \in Allocations, NEW p \in NormalizedPcts(al, Len(al))
  PROVE  /\ p \in [1..Len(al) -> Int] /\ Total(p) = 10000
         /\ \A i \in 1..Len(al) : p[i] >= 0 \/ (i = Len(al) /\ al[i] = 0)
<1> DEFINE n == Len(al)
           w == Weight(al, n)
           t == Total(w)
           near(i) == Rounded(10000 * w[i], t)
<1>1. n \in 1..3 /\ w \in [1..n -> Nat] /\ t > 0 /\ \A i \in 1..n : w[i] = 0 => al[i] = 0
  BY WeightOK
<1> HIDE DEF w
<1>2. /\ n = 1 => p = <<10000>>
      /\ n = 2 => \E a \in near(1) : p = <<a, 10000 - a>>
      /\ n = 3 => \E a \in near(1), b \in near(2) : p = <<a, b, 10000 - a - b>>
  <2>1. NormalizedPcts(al, n) = IF n = 1 THEN {<<10000>>}
                                ELSE IF n = 2 THEN {<<a, 10000 - a>> : a \in near(1)}
                                ELSE {<<a, b, 10000 - a - b>> : a \in near(1), b \in near(2)}
    BY DEF NormalizedPcts, w
  <2> HIDE DEF near, n
  <2>2. p \in NormalizedPcts(al, n)
    BY DEF n
  <2>3. CASE n = 1
    BY <2>1, <2>2, <2>3
  <2>4. CASE n = 2
    BY <2>1, <2>2, <2>4
  <2>5. CASE n = 3
    BY <2>1, <2>2, <2>5
  <2>. QED BY <1>1, <2>3, <2>4, <2>5 DEF n
<1>3. t \in Nat
  BY <1>1 DEF Total
<1>4. ASSUME NEW i \in 1..n, NEW r \in near(i)
      PROVE  r \in Nat /\ 2 * (t * r) =< 20000 * w[i] + t
  <2>1. 10000 * w[i] \in Nat /\ w[i] \in Nat
    BY <1>1
  <2> HIDE DEF t
  <2>2. r \in Nat /\ 2 * (t * r) =< 2 * (10000 * w[i]) + t
    BY <1>1, <1>3, <2>1, RoundedOK
  <2>. QED BY <2>1, <2>2
<1> HIDE DEF near, n
<1>5. CASE n = 1
  BY <1>2, <1>5 DEF Total, n
<1>6. CASE n = 2
  <2>1. PICK a \in near(1) : p = <<a, 10000 - a>>
    BY <1>2, <1>6
  <2>2. a \in Nat /\ 2 * (t * a) =< 20000 * w[1] + t
    BY <1>4, <1>6, <2>1
  <2>3. t = w[1] + w[2] /\ w[1] \in Nat /\ w[2] \in Nat
    BY <1>1, <1>6 DEF Total
  <2> HIDE DEF t
  <2>4. t * a \in Int /\ t * 10000 = 10000 * t
    BY <1>3, <2>2
  <2>5. t * a < t * 10000 + t
    <3> DEFINE ta == t * a
    <3>1. ta \in Int /\ 2 * ta =< 20000 * w[1] + t
      BY <2>2, <2>4
    <3> HIDE DEF ta
    <3>2. PICK x \in Int, y \in Int, u \in Int, c \in Int : x = w[1] /\ y = w[2] /\ u = t /\ c = ta
      BY <1>3, <2>3, <3>1
    <3>3. u = x + y /\ y >= 0 /\ u > 0 /\ 2 * c =< 20000 * x + u
      BY <1>1, <2>3, <3>1, <3>2
    <3>4. c < 10000 * u + u
      BY <3>3
    <3>5. ta < 10000 * t + t
      BY <3>2, <3>4
    <3>. QED BY <2>4, <3>5 DEF ta
  <2>6. a =< 10000
    BY <1>1, <1>3, <2>2, <2>5, Cancel
  <2>7. p \in [1..2 -> Int] /\ p[1] = a /\ p[2] = 10000 - a
    BY <2>1, <2>2
  <2>8. Total(p) = 10000
    BY <2>2, <2>7 DEF Total
  <2>. QED BY <1>6, <2>2, <2>6, <2>7, <2>8 DEF n
<1>7. CASE n = 3
  <2>1. PICK a \in near(1), b \in near(2) : p = <<a, b, 10000 - a - b>>
    BY <1>2, <1>7
  <2>2. a \in Nat /\ 2 * (t * a) =< 20000 * w[1] + t /\ b \in Nat /\ 2 * (t * b) =< 20000 * w[2] + t
    BY <1>4, <1>7, <2>1
  <2>3. t = w[1] + w[2] + w[3] /\ w[1] \in Nat /\ w[2] \in Nat /\ w[3] \in Nat
    BY <1>1, <1>7 DEF Total
  <2> HIDE DEF t
  <2>4. a + b =< 10000 \/ w[3] = 0
    <3>1. SUFFICES ASSUME w[3] > 0 PROVE a + b =< 10000
      BY <2>3
    <3>2. t * a \in Int /\ t * b \in Int /\ t * (a + b) = t * a + t * b /\ t * 10000 = 10000 * t
      BY <1>3, <2>2
    <3>3. t * (a + b) < t * 10000 + t
      <4> DEFINE ta == t * a
                 tb == t * b
      <4>1. ta \in Int /\ tb \in Int /\ 2 * ta =< 20000 * w[1] + t /\ 2 * tb =< 20000 * w[2] + t
        BY <2>2, <3>2
      <4> HIDE DEF ta, tb
      <4>2. PICK x \in Int, y \in Int, z \in Int, u \in Int, c \in Int, d \in Int :
              x = w[1] /\ y = w[2] /\ z = w[3] /\ u = t /\ c = ta /\ d = tb
        BY <1>3, <2>3, <4>1
      <4>3. u = x + y + z /\ z > 0 /\ 2 * c =< 20000 * x + u /\ 2 * d =< 20000 * y + u
        BY <2>3, <3>1, <4>1, <4>2
      <4>4. c + d < 10000 * u + u
        BY <4>3
      <4>5. ta + tb < 10000 * t + t
        BY <4>2, <4>4
      <4>. QED BY <3>2, <4>5 DEF ta, tb
    <3>. QED BY <1>1, <1>3, <2>2, <3>3, Cancel
  <2>5. p \in [1..3 -> Int] /\ p[1] = a /\ p[2] = b /\ p[3] = 10000 - a - b
    BY <2>1, <2>2
  <2>6. Total(p) = 10000
    BY <2>2, <2>5 DEF Total
  <2>7. p[3] >= 0 \/ al[3] = 0
    BY <1>1, <1>7, <2>2, <2>4, <2>5
  <2>. QED BY <1>7, <2>2, <2>5, <2>6, <2>7 DEF n
<1>. QED BY <1>1, <1>5, <1>6, <1>7

\* However the shares are divided, nothing is lost and no tranche is negative but a last one that
\* was to be nothing (_split_shares after _normalize_allocation_pcts).
LEMMA Divided ==
  ASSUME NEW al \in Allocations, NEW p \in NormalizedPcts(al, Len(al)), NEW shares \in Nat,
         NEW q, q = Split(shares, p)
  PROVE  /\ DOMAIN q = DOMAIN al /\ Total(q) = shares
         /\ \A i \in DOMAIN al : q[i] >= 0 \/ (i = Len(al) /\ al[i] = 0)
<1>1. PICK n \in 1..3 : n = Len(al) /\ DOMAIN al = 1..n
  BY DEF Allocations
<1>2. Complete(n, p)
  BY <1>1, PctsOK DEF Complete
<1>3. \A i \in 1..n : p[i] >= 0 \/ (i = n /\ al[i] = 0)
  BY <1>1, PctsOK
<1>4. q \in [1..n -> Int] /\ Total(q) = shares
  BY <1>2, SplitOK
<1>5. \A i \in 1..n : p[i] >= 0 => q[i] >= 0
  BY <1>2, SplitOK
<1>. QED BY <1>1, <1>3, <1>4, <1>5
----------------------------------------------------------------------------
(* The steps of the ticket.                                                 *)

\* A loaded setup puts a ticket on the screen (loadSetup).
LEMMA FreshTyped ==
  ASSUME NEW q \in Quotes
  PROVE  Fresh(q) \in Ticket
<1>1. q.entry \in Nat /\ q.lod \in Nat
  BY TicketsAssumption DEF Money
<1>2. <<33, 33, 34>> \in Allocations
  BY DEF Allocations
<1>. QED BY <1>1, <1>2 DEF Fresh, Ticket, Types, Tifs, Classes, Amount, Money

\* The draft of the screen and what the service makes of it are drafts (buildEntryOrderDraft,
\* _normalize_entry_order).
LEMMA DraftTyped ==
  ASSUME NEW t \in Ticket
  PROVE  Normalized(BuiltByUi(t.picked, t.target)) \in Draft
<1>. DEFINE p == t.picked
            d == BuiltByUi(p, t.target)
<1>1. /\ p.type \in Types /\ p.tif \in Tifs /\ p.class \in Classes /\ p.extended \in BOOLEAN
      /\ p.otoSide \in {"take_profit", "stop_loss"} /\ p.limit \in Amount /\ p.stop \in Amount
  BY DEF Ticket
<1>. HIDE DEF p
<1>2. d \in Draft
  BY <1>1 DEF BuiltByUi, Draft, Amount, Attached
<1>. HIDE DEF d
<1>3. d.limit \in Amount /\ d.stop \in Amount /\ d.takeProfit \in Attached /\ d.stopLoss \in Attached
  BY <1>2 DEF Draft
<1>. DEFINE given(a) == IF a = "none" THEN "priced" ELSE a
            both == d.class \in {"bracket", "oco"}
            takes == d.class = "oto" /\ d.otoSide = "take_profit"
            stops == d.class = "oto" /\ d.otoSide = "stop_loss"
            l0 == IF d.type \in Limited THEN given(d.limit) ELSE d.limit
            u0 == IF d.type \in Triggered THEN given(d.stop) ELSE d.stop
            g0 == IF both \/ takes THEN given(d.takeProfit) ELSE IF stops THEN "none" ELSE d.takeProfit
            h0 == IF both \/ stops THEN given(d.stopLoss) ELSE IF takes THEN "none" ELSE d.stopLoss
<1>4. l0 \in Amount /\ u0 \in Amount /\ g0 \in Attached /\ h0 \in Attached
  BY <1>3 DEF Amount, Attached
<1>5. Normalized(d) = [d EXCEPT !.limit = l0, !.stop = u0, !.takeProfit = g0, !.stopLoss = h0]
  BY Zenon DEF Normalized
<1>. HIDE DEF l0, u0, g0, h0
<1>6. Normalized(d) \in Draft
  BY <1>2, <1>4, <1>5 DEF Draft
<1>. QED BY <1>6 DEF d, p

\* What goes to Alpaca outside the regular session is a draft (_build_broker_entry_order).
LEMMA WireTyped ==
  ASSUME NEW o \in Draft, NEW choice, NEW w \in WireOrder(o, choice)
  PROVE  w \in Draft
<1>1. w \in {o, [o EXCEPT !.type = "market", !.tif = "day"], [o EXCEPT !.type = "limit", !.tif = "day", !.extended = TRUE]}
  BY DEF WireOrder
<1>. QED BY <1>1 DEF Draft, Types, Tifs

\* The state is of its type: what is sent is a draft, placed as the user chose
\* (submitEnterTrade, enter_trade).
THEOREM TypeCorrect == Spec => []TypeOK
<1>1. Init => TypeOK
  BY FreshTyped DEF Init, TypeOK, Nothing
<1>2. TypeOK /\ [Next]_vars => TypeOK'
  <2>. SUFFICES ASSUME TypeOK, [Next]_vars PROVE TypeOK'
    OBVIOUS
  <2>1. ASSUME NEW q \in Quotes, Load(q), account' \in Accounts
        PROVE  seen' \in [session : Sessions, account : Accounts] /\ seen' # NoSetup /\ ticket' \in Ticket
    BY <2>1, FreshTyped DEF Load, TypeOK, NoSetup, Sessions
  <2>2. CASE LoadSetup
    BY <2>2, <2>1 DEF LoadSetup, TypeOK, market, Nothing
  <2>3. CASE Edit
    BY <2>3, TicketsAssumption DEF Edit, TypeOK, market
  <2>4. ASSUME NEW mode \in OffHoursModes, Submit(mode)  PROVE TypeOK'
    <3>. DEFINE choice == IF seen.session = "regular_open" THEN "null" ELSE mode
    <3>1. PICK later \in Accounts :
            /\ account' = later /\ UNCHANGED <<alpaca, session>>
            /\ \/ sent' = Nothing /\ UNCHANGED <<seen, ticket, modal>>
               \/ sent' \in Placed(choice, later) /\ modal' = FALSE /\ \E q \in Quotes : Load(q)
      BY <2>4 DEF Submit
    <3>2. choice \in OffHoursModes
      BY DEF OffHoursModes
    <3>. HIDE DEF choice
    <3>3. CASE sent' = Nothing /\ UNCHANGED <<seen, ticket, modal>>
      BY <3>1, <3>3 DEF TypeOK
    <3>4. CASE sent' \in Placed(choice, later) /\ modal' = FALSE /\ \E q \in Quotes : Load(q)
      <4>1. PICK w \in WireOrder(Normalized(Drafted), choice) : sent'.order = w /\ sent'.choice = choice
        BY <3>4 DEF Placed
      <4>2. sent'.order \in Draft /\ sent'.choice \in OffHoursModes
        BY <3>2, <4>1, DraftTyped, WireTyped DEF TypeOK, Drafted
      <4>3. seen' \in [session : Sessions, account : Accounts] /\ ticket' \in Ticket
        BY <2>1, <3>1, <3>4
      <4>. QED BY <3>1, <3>4, <4>2, <4>3 DEF TypeOK
    <3>. QED BY <3>1, <3>3, <3>4
  <2>5. CASE EnterTrade
    BY <2>5, <2>4 DEF EnterTrade, Disabled, TypeOK, market, OffHoursModes
  <2>6. CASE Confirm
    BY <2>6, <2>4 DEF Confirm
  <2>7. CASE CancelModal \/ SessionMoves \/ AccountMoves
    <3>1. CASE CancelModal
      BY <3>1 DEF CancelModal, TypeOK, market
    <3>2. CASE SessionMoves
      BY <3>2 DEF SessionMoves, TypeOK
    <3>3. CASE AccountMoves
      BY <3>3 DEF AccountMoves, TypeOK
    <3>. QED BY <2>7, <3>1, <3>2, <3>3
  <2>8. CASE UNCHANGED vars
    BY <2>8 DEF TypeOK, market, vars
  <2>9. CASE ShowPosition
    <3>1. PICK q \in Quotes, p \in Positions :
            ticket' = [Fresh(q) EXCEPT !.side = p.side, !.allocations = p.allocations]
      BY <2>9 DEF ShowPosition
    <3>2. p.side \in {"buy", "sell"} /\ p.allocations \in Allocations
      <4>1. PICK t \in Tickets : p = [side |-> t.side, allocations |-> t.allocations]
        BY DEF Positions
      <4>2. t \in Ticket
        BY TicketsAssumption
      <4>. QED BY <4>1, <4>2 DEF Ticket
    <3>3. ticket' \in Ticket
      BY <3>1, <3>2, FreshTyped DEF Ticket
    <3>4. seen' \in [session : Sessions, account : Accounts] /\ seen' # NoSetup
      BY <2>9 DEF ShowPosition, NoSetup, Sessions
    <3>. QED BY <2>9, <3>3, <3>4 DEF ShowPosition, TypeOK, market
  <2>. QED BY <2>2, <2>3, <2>5, <2>6, <2>7, <2>8, <2>9 DEF Next
<1>. QED BY <1>1, <1>2, PTL DEF Spec

\* GuardrailsAgree for every set of tickets.
THEOREM GuardrailsAlwaysAgree == Spec => []GuardrailsAgree
<1>1. TypeOK => GuardrailsAgree
  BY RulesAgree DEF TypeOK, GuardrailsAgree, Drafted
<1>. QED BY <1>1, TypeCorrect, PTL

\* The price an entry is sized with, and its risk, are numbers (_preview_entry_price, _risk_per_share).
LEMMA PreviewTyped ==
  ASSUME NEW t \in Ticket
  PROVE  /\ Preview(t) \in Int /\ Risk(t, Preview(t)) \in Int
         /\ t.entry \in Int /\ Risk(t, t.entry) \in Int
<1>1. t.entry \in Nat /\ t.typed \in Nat /\ t.protect \in Nat
  BY DEF Ticket, Money
<1>2. Preview(t) \in Int
  BY <1>1 DEF Preview, PriceOf
<1>. QED BY <1>1, <1>2 DEF Risk

\* Whatever the service places satisfies the four properties of an order that was sent.
SentWell == SizedFits /\ SplitExact /\ ShownIsEntered /\ OffHoursChosen

\* One entry that is placed has the four properties (enter_trade).
LEMMA PlacedWell ==
  ASSUME TypeOK, seen # NoSetup, NEW choice \in OffHoursModes, NEW later \in Accounts,
         sent' \in Placed(choice, later), alpaca' = alpaca
  PROVE  SentWell'
<1>. DEFINE entry == Preview(ticket)
            risk == Risk(ticket, entry)
            n == Shares(account, entry, risk)
<1>1. account \in Accounts /\ ticket \in Ticket /\ seen.account \in Accounts
  BY DEF TypeOK
<1>2. PICK w \in WireOrder(Normalized(Drafted), choice), pcts \in NormalizedPcts(ticket.allocations, Len(ticket.allocations)) :
        sent' = [order |-> w, choice |-> choice, session |-> session, account |-> account, ticket |-> ticket,
                 shares |-> n, shown |-> UiShares(seen.account, ticket.entry, Risk(ticket, ticket.entry)),
                 unmoved |-> seen.account = account,
                 qtys |-> Split(n, pcts)]
  BY DEF Placed
<1>3. n > 0
  BY DEF Placed
<1>4. entry \in Int /\ risk \in Int
  BY <1>1, PreviewTyped
<1>. HIDE DEF n, risk, entry
<1>5. SizedFits'
  <2>1. /\ 100 * entry * n =< CapPct * account.equity
        /\ 100 * risk * n =< RiskPct * account.equity
    BY <1>1, <1>3, <1>4, SharesFit DEF n
  <2>2. sent'.ticket = ticket /\ sent'.account = account /\ sent'.shares = n
    BY <1>2
  <2>. QED BY <2>1, <2>2 DEF SizedFits, entry, risk
<1>6. ShownIsEntered'
  <2>1. SUFFICES ASSUME sent'.unmoved, sent'.account.power > 0, Preview(sent'.ticket) = sent'.ticket.entry
                 PROVE  sent'.shown \in sent'.shares .. sent'.shares + 1
    BY DEF ShownIsEntered
  <2>2. seen.account = account /\ account.power > 0 /\ entry = ticket.entry
    BY <1>2, <2>1 DEF entry
  <2>3. UiShares(account, entry, risk) \in n .. n + 1
    BY <1>1, <1>4, <2>2, ShownFits DEF n
  <2>4. sent'.shown = UiShares(account, entry, risk) /\ sent'.shares = n
    BY <1>2, <2>2 DEF risk
  <2>. QED BY <2>3, <2>4
<1>7. OffHoursChosen'
  <2>1. SUFFICES ASSUME alpaca', sent'.session # "regular_open", sent'.order.type = "market"
                 PROVE  sent'.choice = "queue_for_open"
    BY DEF OffHoursChosen
  <2>2. alpaca /\ session # "regular_open" /\ w.type = "market" /\ sent'.choice = choice
    BY <1>2, <2>1
  <2>3. choice = "extended_hours_limit" => w = [Normalized(Drafted) EXCEPT !.type = "limit", !.tif = "day", !.extended = TRUE]
    BY <1>2, <2>2 DEF WireOrder
  <2>4. [Normalized(Drafted) EXCEPT !.type = "limit", !.tif = "day", !.extended = TRUE].type = "limit"
    BY DEF Normalized, Drafted, BuiltByUi
  <2>5. choice = "null" => w = Normalized(Drafted) /\ Normalized(Drafted).type # "market"
    BY <1>2, <2>2 DEF WireOrder
  <2>. QED BY <2>2, <2>3, <2>4, <2>5 DEF OffHoursModes
<1>8. SplitExact'
  <2> DEFINE al == ticket.allocations
  <2> PICK q : q = Split(n, pcts)
    OBVIOUS
  <2>1. al \in Allocations
    BY <1>1 DEF Ticket
  <2>2. n \in Nat
    BY <1>1, <1>3, <1>4, SharesFit DEF n
  <2>3. pcts \in NormalizedPcts(al, Len(al))
    OBVIOUS
  <2>4. sent'.qtys = q /\ sent'.ticket.allocations = al /\ sent'.shares = n
    BY <1>2
  <2> HIDE DEF al
  <2>5. /\ DOMAIN q = DOMAIN al /\ Total(q) = n
        /\ \A i \in DOMAIN al : q[i] >= 0 \/ (i = Len(al) /\ al[i] = 0)
    BY <2>1, <2>2, <2>3, Divided
  <2>. QED BY <2>4, <2>5 DEF SplitExact
<1>. QED BY <1>5, <1>6, <1>7, <1>8 DEF SentWell

\* A step that sends nothing has them too.
LEMMA NothingSent ==
  ASSUME sent' = Nothing
  PROVE  SentWell'
  BY DEF SentWell, SizedFits, SplitExact, ShownIsEntered, OffHoursChosen

\* SizedFits, SplitExact, ShownIsEntered and OffHoursChosen for all tickets, accounts, quotes and percentages.
THEOREM WellSent == Spec => []SentWell
<1>1. Init => SentWell
  BY DEF Init, SentWell, SizedFits, SplitExact, ShownIsEntered, OffHoursChosen
<1>2. TypeOK /\ SentWell /\ [Next]_vars => SentWell'
  <2>. SUFFICES ASSUME TypeOK, SentWell, [Next]_vars PROVE SentWell'
    OBVIOUS
  <2>1. ASSUME NEW mode \in OffHoursModes, Submit(mode), seen # NoSetup  PROVE SentWell'
    <3>1. PICK later \in Accounts :
            LET placed == Placed(IF seen.session = "regular_open" THEN "null" ELSE mode, later)
            IN UNCHANGED <<alpaca, session>> /\ (sent' = Nothing \/ sent' \in placed)
      BY <2>1 DEF Submit
    <3>2. (IF seen.session = "regular_open" THEN "null" ELSE mode) \in OffHoursModes
      BY DEF OffHoursModes
    <3>. QED BY <2>1, <3>1, <3>2, PlacedWell, NothingSent
  <2>2. CASE EnterTrade
    BY <2>2, <2>1, NothingSent DEF EnterTrade, Disabled, OffHoursModes
  <2>3. CASE Confirm
    BY <2>3, <2>1 DEF Confirm, TypeOK
  <2>4. CASE LoadSetup \/ Edit \/ ShowPosition \/ CancelModal \/ SessionMoves \/ AccountMoves
    BY <2>4, NothingSent DEF LoadSetup, Edit, ShowPosition, CancelModal, SessionMoves, AccountMoves
  <2>5. CASE UNCHANGED vars
    BY <2>5 DEF vars, market, SentWell, SizedFits, SplitExact, ShownIsEntered, OffHoursChosen
  <2>. QED BY <2>2, <2>3, <2>4, <2>5 DEF Next
<1>. QED BY <1>1, <1>2, TypeCorrect, PTL DEF Spec

\* What is sent fits cap and risk budget, for all percentages, accounts and tickets (_calculate_shares).
THEOREM SizedAlwaysFits == Spec => []SizedFits
<1>1. SentWell => SizedFits
  BY DEF SentWell
<1>. QED BY <1>1, WellSent, PTL

\* The tranches hold the shares exactly, for all percentages and numbers of shares (_split_shares).
THEOREM SplitAlwaysExact == Spec => []SplitExact
<1>1. SentWell => SplitExact
  BY DEF SentWell
<1>. QED BY <1>1, WellSent, PTL

\* What is sent is what was shown, or one share less (deriveSetupForSelection, _calculate_shares).
THEOREM ShownAlwaysEntered == Spec => []ShownIsEntered
<1>1. SentWell => ShownIsEntered
  BY DEF SentWell
<1>. QED BY <1>1, WellSent, PTL

\* A market order outside the session was chosen, for all tickets and accounts (_build_broker_entry_order).
THEOREM OffHoursAlwaysChosen == Spec => []OffHoursChosen
<1>1. SentWell => OffHoursChosen
  BY DEF SentWell
<1>. QED BY <1>1, WellSent, PTL
=============================================================================
