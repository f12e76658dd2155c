-------------------------- MODULE EntryOrderRules --------------------------
(* Which entry orders may be sent: the draft the screen builds from what the *)
(* user chose, the defaults the service fills in, and the rules each of the  *)
(* two checks, written twice, in TypeScript and in Python.                   *)
(*   entry-order-rules.ts, entry_order_rules.py, Cockpit.tsx, cockpit.py     *)
EXTENDS Naturals

\* A price of the draft: null, not positive, or positive.
Amount == {"none", "zero", "priced"}
\* An attached exit: null, an object whose price is null, or one with a price.
Attached == {"none", "unpriced", "priced"}
Types == {"market", "limit", "stop", "stop_limit"}
Tifs == {"day", "gtc", "ioc", "fok", "opg", "cls"}
Classes == {"simple", "bracket", "oco", "oto"}
Draft == [type : Types, tif : Tifs, class : Classes, extended : BOOLEAN, otoSide : {"take_profit", "stop_loss"},
          limit : Amount, stop : Amount, takeProfit : Attached, stopLoss : Attached]
Sessions == {"regular_open", "closed"}   \* every session but the regular one counts as closed

TifsOf(type) == IF type \in {"market", "limit"} THEN Tifs ELSE {"day", "gtc"}   \* VALID_TIF_BY_TYPE
Limited == {"limit", "stop_limit"}
Triggered == {"stop", "stop_limit"}

\* The errors of the service, by the line that adds them.
Errors(o, session) ==
  {e \in {"tif", "limit", "trigger", "extended type", "extended class", "oco", "bracket profit",
          "bracket stop", "oto profit", "oto stop", "exits tif", "auction"} :
     \/ e = "tif" /\ o.tif \notin TifsOf(o.type)
     \/ e = "limit" /\ o.type \in Limited /\ o.limit # "priced"
     \/ e = "trigger" /\ o.type \in Triggered /\ o.stop # "priced"
     \/ e = "extended type" /\ o.extended /\ ~(o.type = "limit" /\ o.tif \in {"day", "gtc"})
     \/ e = "extended class" /\ o.extended /\ o.class # "simple"
     \/ e = "oco" /\ o.class = "oco"
     \/ e = "bracket profit" /\ o.class = "bracket" /\ o.takeProfit # "priced"
     \/ e = "bracket stop" /\ o.class = "bracket" /\ o.stopLoss # "priced"
     \/ e = "oto profit" /\ o.class = "oto" /\ o.otoSide = "take_profit" /\ o.takeProfit # "priced"
     \/ e = "oto stop" /\ o.class = "oto" /\ o.otoSide = "stop_loss" /\ o.stopLoss # "priced"
     \/ e = "exits tif" /\ o.class \in {"bracket", "oto"} /\ o.tif \notin {"day", "gtc"}
     \/ e = "auction" /\ session # "regular_open" /\ o.type = "market" /\ o.tif \in {"opg", "cls"}}

\* The errors of the screen: a price is missing when it is falsy, an exit's only when it is null.
Falsy(amount) == amount \in {"none", "zero"}
Missing(exit) == exit \in {"none", "unpriced"}
UiErrors(o, session) ==
  LET off == session # "regular_open"
      short == o.tif \notin {"day", "gtc"}
  IN {e \in {"tif"} : o.tif \notin TifsOf(o.type)}
     \cup {e \in {"limit"} : o.type \in Limited /\ Falsy(o.limit)}
     \cup {e \in {"trigger"} : o.type \in Triggered /\ Falsy(o.stop)}
     \cup {e \in {"extended type"} : o.extended /\ (o.type # "limit" \/ short)}
     \cup {e \in {"extended class"} : o.extended /\ o.class # "simple"}
     \cup {e \in {"oco"} : o.class = "oco"}
     \cup {e \in {"bracket profit"} : o.class = "bracket" /\ Missing(o.takeProfit)}
     \cup {e \in {"bracket stop"} : o.class = "bracket" /\ Missing(o.stopLoss)}
     \cup (IF o.class # "oto" THEN {}
           ELSE IF o.otoSide = "take_profit" THEN {e \in {"oto profit"} : Missing(o.takeProfit)}
           ELSE {e \in {"oto stop"} : Missing(o.stopLoss)})
     \cup {e \in {"exits tif"} : o.class \in {"bracket", "oto"} /\ short}
     \cup {e \in {"auction"} : off /\ o.type = "market" /\ o.tif \in {"opg", "cls"}}

\* A wrong Normalized, for the check of GuardrailsAgree: a profit object without a price is filled in as well.
NormalizedUnpriced(o) ==
  LET or(exit) == IF exit # "priced" THEN "priced" ELSE exit
  IN [o EXCEPT !.takeProfit = IF o.class = "bracket" THEN or(@) ELSE @]

\* The service fills in what is null (an object without a price is not) and drops the exit an OTO does not name.
Normalized(o) ==
  LET given(amount) == IF amount = "none" THEN "priced" ELSE amount
      or(exit) == IF exit = "none" THEN "priced" ELSE exit
      both == o.class \in {"bracket", "oco"}
      takes == o.class = "oto" /\ o.otoSide = "take_profit"
      stops == o.class = "oto" /\ o.otoSide = "stop_loss"
  IN [o EXCEPT !.limit = IF o.type \in Limited THEN given(@) ELSE @,
               !.stop = IF o.type \in Triggered THEN given(@) ELSE @,
               !.takeProfit = IF both \/ takes THEN or(@) ELSE IF stops THEN "none" ELSE @,
               !.stopLoss = IF both \/ stops THEN or(@) ELSE IF takes THEN "none" ELSE @]

\* The draft the screen sends.  picked: type, tif, class, extended, otoSide and the two price
\* inputs as the user left them; target: the first tranche has a profit target with a price.
BuiltByUi(picked, target) ==
  LET shown(amount) == IF amount = "none" THEN "priced" ELSE amount
      profit == IF target THEN "priced" ELSE "unpriced"
      both == picked.class \in {"bracket", "oco"}
  IN [type |-> picked.type, tif |-> picked.tif, class |-> picked.class, extended |-> picked.extended,
      otoSide |-> picked.otoSide,
      limit |-> IF picked.type \in Limited THEN shown(picked.limit) ELSE "none",
      stop |-> IF picked.type \in Triggered THEN shown(picked.stop) ELSE "none",
      takeProfit |-> IF both \/ (picked.class = "oto" /\ picked.otoSide = "take_profit") THEN profit ELSE "none",
      stopLoss |-> IF both \/ (picked.class = "oto" /\ picked.otoSide = "stop_loss") THEN "priced" ELSE "none"]
=============================================================================
