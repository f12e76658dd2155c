--------------------------- MODULE PositionSizing ---------------------------
(* How many shares an entry buys and how they are divided over its tranches. *)
(* Money is in cents and percentages are whole numbers; the arithmetic is    *)
(* exact where the code's is in floats.                                      *)
(*   cockpit.py (_calculate_shares, _split_shares), Cockpit.tsx              *)
EXTENDS Integers, Sequences, FiniteSets

CONSTANTS RiskPct,   \* risk_pct: the share of the equity one trade may lose
          CapPct     \* max_position_notional_pct
ASSUME PctAssumption == RiskPct \in Nat /\ CapPct \in Nat

Least(a, b) == IF a < b THEN a ELSE b
AtLeastZero(a) == IF a < 0 THEN 0 ELSE a

\* Hundred times the money a position may cost: without buying power the cap alone counts.
Affordable(account) ==
  IF account.power > 0 THEN Least(100 * account.power, CapPct * account.equity) ELSE CapPct * account.equity

\* Wrong versions, for the checks of SizedFits and ShownIsEntered: the larger of the two
\* limits; and no buying power at all.
SharesMost(account, entry, risk) ==
  IF risk =< 0 \/ entry =< 0 THEN 0
  ELSE (RiskPct * account.equity) \div (100 * risk)
SharesCapped(account, entry, risk) ==
  IF risk =< 0 \/ entry =< 0 THEN 0
  ELSE AtLeastZero(Least((RiskPct * account.equity) \div (100 * risk), (CapPct * account.equity) \div (100 * entry)))

\* _calculate_shares
Shares(account, entry, risk) ==
  IF risk =< 0 \/ entry =< 0 THEN 0
  ELSE AtLeastZero(Least((RiskPct * account.equity) \div (100 * risk), Affordable(account) \div (100 * entry)))

\* What the screen shows: the risk in dollars is rounded to cents before it is divided.
DollarRisk(account) == (RiskPct * account.equity + 50) \div 100
UiShares(account, entry, risk) ==
  IF risk =< 0 \/ entry =< 0 THEN 0
  ELSE AtLeastZero(Least(DollarRisk(account) \div risk,
                         Least(100 * account.power, CapPct * account.equity) \div (100 * entry)))
----------------------------------------------------------------------------
(* Tranches, three at most (_validate_tranche_modes).  An allocation is a    *)
(* whole percentage or Unset; the default, a count-th of 100, makes thirds   *)
(* of a percent the unit.                                                    *)
Unset == -1
Allocations == {a \in Seq(Nat \cup {Unset}) : Len(a) \in 1..3}
Total(f) == LET part(i) == IF i \in DOMAIN f THEN f[i] ELSE 0 IN part(1) + part(2) + part(3)

Weight(allocations, count) ==
  LET given == [i \in 1..count |-> IF allocations[i] = Unset THEN 300 \div count ELSE 3 * allocations[i]]
  IN IF Total(given) =< 0 THEN [i \in 1..count |-> 1] ELSE given

\* a / b rounded: halfway the floats decide, up or down.
Rounded(a, b) == {(2 * a + b) \div (2 * b), (2 * a + b - 1) \div (2 * b)}

\* _normalize_allocation_pcts, in hundredths of a percent: the last takes what rounding left.
NormalizedPcts(allocations, count) ==
  LET weight == Weight(allocations, count)
      near(i) == Rounded(10000 * weight[i], Total(weight))
  IN IF count = 1 THEN {<<10000>>}
     ELSE IF count = 2 THEN {<<a, 10000 - a>> : a \in near(1)}
     ELSE {<<a, b, 10000 - a - b>> : a \in near(1), b \in near(2)}

\* A wrong Split, for the check of SplitExact: every fraction is rounded up.
SplitUp(shares, pcts) == [i \in DOMAIN pcts |-> (shares * pcts[i] + 9999) \div 10000]

\* _split_shares: whole shares first, and what is left to the largest fractions.
Whole(shares, pcts) == [i \in DOMAIN pcts |-> (shares * pcts[i]) \div 10000]
Fraction(shares, pcts) == [i \in DOMAIN pcts |-> (shares * pcts[i]) % 10000]
Larger(f, i) == {j \in DOMAIN f : f[j] > f[i] \/ (f[j] = f[i] /\ j < i)}
Split(shares, pcts) ==
  LET whole == Whole(shares, pcts)
      left == shares - Total(whole)
  IN [i \in DOMAIN pcts |->
       IF Cardinality(Larger(Fraction(shares, pcts), i)) < left THEN whole[i] + 1 ELSE whole[i]]
=============================================================================
