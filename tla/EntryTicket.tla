---------------------------- MODULE EntryTicket ----------------------------
(* The way of an entry from the screen to the broker.  The screen checks and *)
(* sizes the ticket against the setup it loaded; the service does both again *)
(* against the session and the account of the moment it is asked.            *)
(*   Cockpit.tsx (enterTrade, submitEnterTrade), cockpit.py (enter_trade)    *)
EXTENDS EntryOrderRules, PositionSizing

CONSTANTS Tickets,    \* what the user may have on the screen (Ticket)
          Accounts,   \* equity and buying power, in cents
          Quotes      \* entry price and low of the day a setup is loaded with
Money == Nat
ASSUME AccountsAssumption == Accounts \subseteq [equity : Money, power : Int]

\* picked: the order form.  typed: the price in its inputs where they are "priced".
\* target: the first tranche has a profit target with a price.
Ticket == [picked : [type : Types, tif : Tifs, class : Classes, extended : {FALSE},
                     otoSide : {"take_profit", "stop_loss"}, limit : Amount, stop : Amount],
           side : {"buy", "sell"}, entry : Money, typed : Money, protect : Money, target : BOOLEAN,
           allocations : Allocations]
ASSUME TicketsAssumption == Tickets \subseteq Ticket /\ Quotes \subseteq [entry : Money, lod : Money]

VARIABLES alpaca,    \* the execution provider is alpaca_paper
          session,   \* the market's session now
          account,   \* the account now
          seen,      \* what the screen's setup holds of both, or nothing
          ticket,    \* what the screen holds of the order
          modal,     \* offHoursModalOpen
          sent       \* what this step handed to the broker
market == <<alpaca, session, account>>
vars == <<market, seen, ticket, modal, sent>>

NoSetup == [session |-> "none", account |-> "none"]
Nothing == [order |-> "none"]
OffHoursModes == {"null", "queue_for_open", "extended_hours_limit"}

\* DEFAULT_ENTRY_ORDER and what a loaded setup puts on the screen.
Fresh(quote) == [picked |-> [type |-> "limit", tif |-> "day", class |-> "simple", extended |-> FALSE,
                             otoSide |-> "stop_loss", limit |-> "priced", stop |-> "none"],
                 side |-> "buy", entry |-> quote.entry, typed |-> quote.entry, protect |-> quote.lod,
                 target |-> TRUE, allocations |-> <<33, 33, 34>>]

Init == /\ alpaca \in BOOLEAN /\ session \in Sessions /\ account \in Accounts
        /\ seen = NoSetup /\ modal = FALSE /\ sent = Nothing
        /\ \E q \in Quotes : ticket = Fresh(q)
----------------------------------------------------------------------------
(* The service.                                                            *)
\* _preview_entry_price and _risk_per_share
PriceOf(amount, t) == CASE amount = "none" -> t.entry [] amount = "zero" -> 0 [] OTHER -> t.typed
Preview(t) == CASE t.picked.type = "stop" -> PriceOf(t.picked.stop, t)
                [] t.picked.type \in Limited -> PriceOf(t.picked.limit, t)
                [] OTHER -> t.entry
Risk(t, entry) == IF t.side = "sell" THEN t.protect - entry ELSE entry - t.protect
\* _validate_stop
ValidStop(t, entry) == Risk(t, entry) > 0 /\ 2 * Risk(t, entry) < entry

\* A wrong WireOrder, for the check of OffHoursChosen: only the choice is looked at.
WireUnasked(o, choice) ==
  {IF session = "regular_open" \/ ~alpaca \/ choice = "null" THEN o
   ELSE IF choice = "queue_for_open" THEN [o EXCEPT !.type = "market", !.tif = "day"]
   ELSE [o EXCEPT !.type = "limit", !.tif = "day", !.extended = TRUE]}

\* _build_broker_entry_order: no order where the code raises.
WireOrder(o, choice) ==
  IF session = "regular_open" \/ ~alpaca THEN {o}
  ELSE CASE choice = "queue_for_open" -> {[o EXCEPT !.type = "market", !.tif = "day"]}
         [] choice = "extended_hours_limit" -> {[o EXCEPT !.type = "limit", !.tif = "day", !.extended = TRUE]}
         [] OTHER -> IF o.type = "market" THEN {} ELSE {o}

Drafted == BuiltByUi(ticket.picked, ticket.target)

\* enter_trade up to the broker: all that it would place, which is one order or none.  The
\* account is read again, from Alpaca, for the risk checks.
Placed(choice, later) ==
  LET o == Normalized(Drafted)
      entry == Preview(ticket)
      shares == Shares(account, entry, Risk(ticket, entry))
  IN IF /\ Errors(o, session) = {} /\ ValidStop(ticket, entry) /\ shares > 0
        /\ 100 * entry * shares =< CapPct * later.equity
     THEN {[order |-> w, choice |-> choice, session |-> session, account |-> account, ticket |-> ticket,
            shares |-> shares, shown |-> UiShares(seen.account, ticket.entry, Risk(ticket, ticket.entry)),
            unmoved |-> seen.account = account,
            qtys |-> Split(shares, pcts)] :
              w \in WireOrder(o, choice), pcts \in NormalizedPcts(ticket.allocations, Len(ticket.allocations))}
     ELSE {}
----------------------------------------------------------------------------
(* The screen.                                                             *)
Disabled == seen = NoSetup \/ UiErrors(Drafted, seen.session) # {}

\* loadSetup, and the position's own setup after an entry.
Load(quote) == /\ seen' = [session |-> session, account |-> account']
               /\ ticket' = Fresh(quote)
LoadSetup == /\ ~modal
             /\ sent' = Nothing /\ UNCHANGED <<market, modal>>
             /\ \E q \in Quotes : Load(q)
Edit == /\ ~modal /\ seen # NoSetup
        /\ ticket' \in Tickets
        /\ sent' = Nothing /\ UNCHANGED <<market, seen, modal>>

\* submitEnterTrade: a refused entry leaves the screen, and the modal, as they are.
Submit(mode) ==
  \E later \in {a \in Accounts : alpaca \/ a = account} :
    LET placed == Placed(IF seen.session = "regular_open" THEN "null" ELSE mode, later)
    IN /\ account' = later /\ UNCHANGED <<alpaca, session>>
       /\ \/ placed = {} /\ sent' = Nothing /\ UNCHANGED <<seen, ticket, modal>>
          \/ sent' \in placed /\ modal' = FALSE /\ \E q \in Quotes : Load(q)
EnterTrade == /\ ~Disabled /\ ~modal
              /\ IF seen.session # "regular_open" /\ Drafted.type = "market"
                 THEN modal' = TRUE /\ sent' = Nothing /\ UNCHANGED <<market, seen, ticket>>
                 ELSE Submit("null")
Confirm == /\ modal
           /\ \E mode \in OffHoursModes \ {"null"} : Submit(mode)
\* What the rows of a position keep of its entry.
Positions == {[side |-> t.side, allocations |-> t.allocations] : t \in Tickets}
\* applyPositionState, for an update that comes while the dialog is open as well: the order starts over with
\* the setup its position was entered with, and the dialog stays; what was chosen there is reset.
ShowPosition == /\ \E q \in Quotes, p \in Positions :
                     ticket' = [Fresh(q) EXCEPT !.side = p.side, !.allocations = p.allocations]
                /\ seen' \in [session : Sessions, account : Accounts]
                /\ sent' = Nothing /\ UNCHANGED <<market, modal>>
CancelModal == /\ modal
               /\ modal' = FALSE /\ sent' = Nothing /\ UNCHANGED <<market, seen, ticket>>
----------------------------------------------------------------------------
(* The market, and orders and fills that move the account.                 *)
SessionMoves == /\ session' \in Sessions \ {session}
                /\ sent' = Nothing /\ UNCHANGED <<alpaca, account, seen, ticket, modal>>
AccountMoves == /\ account' \in Accounts \ {account}
                /\ sent' = Nothing /\ UNCHANGED <<alpaca, session, seen, ticket, modal>>

Next == LoadSetup \/ Edit \/ EnterTrade \/ Confirm \/ ShowPosition \/ CancelModal \/ SessionMoves \/ AccountMoves
Spec == Init /\ [][Next]_vars
----------------------------------------------------------------------------
TypeOK == /\ alpaca \in BOOLEAN /\ session \in Sessions /\ account \in Accounts
          /\ seen \in [session : Sessions, account : Accounts] \cup {NoSetup}
          /\ ticket \in Ticket
          /\ modal \in BOOLEAN /\ (modal => seen # NoSetup)
          /\ sent # Nothing => sent.order \in Draft /\ sent.choice \in OffHoursModes

\* The rules the screen shows and the rules the service enforces find the same errors in
\* every draft the screen can build, in every session
\* (entry-order-rules.ts; entry_order_rules.py after _normalize_entry_order).
GuardrailsAgree == \A s \in Sessions : UiErrors(Drafted, s) = Errors(Normalized(Drafted), s)

\* An order that was sized neither costs more than the cap nor loses more than the risk
\* budget of the account it was sized with, whatever the buying power is
\* (_calculate_shares against _enforce_risk_checks).
SizedFits == sent # Nothing =>
  LET entry == Preview(sent.ticket)
  IN /\ 100 * entry * sent.shares =< CapPct * sent.account.equity
     /\ 100 * Risk(sent.ticket, entry) * sent.shares =< RiskPct * sent.account.equity

\* The tranches of an entry hold all its shares and no more, and none holds less than nothing, but
\* perhaps a last one that was to hold nothing: it takes what rounding left, which may be
\* a hundredth of a percent too little (_split_shares, _normalize_allocation_pcts).
SplitExact == sent # Nothing =>
  LET given == sent.ticket.allocations
  IN /\ DOMAIN sent.qtys = DOMAIN given /\ Total(sent.qtys) = sent.shares
     /\ \A i \in DOMAIN given : sent.qtys[i] >= 0 \/ (i = Len(given) /\ given[i] = 0)

\* While the account stands still, the entry buys what the screen showed or one share less,
\* if the order names no price but the ticket's and there is buying power
\* (deriveSetupForSelection against _calculate_shares).
ShownIsEntered ==
  sent # Nothing /\ sent.unmoved /\ sent.account.power > 0 /\ Preview(sent.ticket) = sent.ticket.entry
    => sent.shown \in sent.shares .. sent.shares + 1

\* Outside the regular session a market order goes to Alpaca only when the user chose to
\* queue it, also when the session closed after the setup was loaded
\* (_build_broker_entry_order).
OffHoursChosen == sent # Nothing /\ alpaca /\ sent.session # "regular_open" /\ sent.order.type = "market"
                    => sent.choice = "queue_for_open"

\* What goes to the broker obeys the rules the ticket was checked by
\* (_build_broker_entry_order after _validate_entry_order).
WireObeysRules == sent # Nothing => Errors(sent.order, sent.session) = {}
=============================================================================
