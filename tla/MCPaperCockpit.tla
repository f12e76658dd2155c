--------------------------- MODULE MCPaperCockpit ---------------------------
(* One or two symbols, prices around a single entry price, small splits.   *)
EXTENDS PaperCockpit, TLC

MCPrices   == 10..12
WidePrices == 9..12      \* two prices a long stop may have
NearPrices == 10..11
Swap == Permutations(Symbols)
MCTrails == {1}

\* An entry at 11 of a symbol last traded at live.
At(side, live) == [side |-> side, entry |-> 11, live |-> live]
Longs == {At("buy", 11)}
Both  == {At("buy", 11), At("sell", 11)}

OneTranche    == {<<2>>}
TwoTranches   == {<<2, 1>>}
ThreeTranches == {<<1, 2, 1>>, <<-1, 3>>, <<1, 0>>}
=============================================================================
