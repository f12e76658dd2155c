----------------------------- MODULE SetupLoad -----------------------------
(* Which symbol the screen shows, and which one its orders name.  Typing     *)
(* starts a timer, the timer a load; loads are aborted by later ones, while  *)
(* changes of the risk, orders and readings of the positions answer when     *)
(* they will.  Any of them may answer 401, which signs the screen out.       *)
(* React runs the effect on ticker, loaded and the user in the step that     *)
(* changed them.                                                             *)
(*   Cockpit.tsx                                                             *)
EXTENDS FiniteSets, Naturals

CONSTANTS Symbols, MaxRequests  \* bound of the model: requests other than loads under way
None == "none"
ASSUME SymbolsAssumption == IsFiniteSet(Symbols) /\ None \notin Symbols /\ MaxRequests \in Nat

VARIABLES auth,     \* "in": authUser; "out": authRequired, the login panel; "shown": neither
          ticker,   \* what is typed, a valid symbol or none
          loaded,   \* activeLoadedTicker
          setup,    \* the symbol of the setup and what put it there
          active,   \* activeSymbol, the position on the screen
          held,     \* the open positions
          timer,    \* setupDebounceRef: the symbol it will load
          pending,  \* setupLoadPending
          reqs,     \* requests that have yet to answer; of loads one is current (setupRequestSeqRef)
          failed    \* the last load failed and nothing was tried since
ui == <<ticker, loaded, setup, active, timer, pending, failed>>
vars == <<auth, ui, held, reqs>>

signedIn == auth = "in"
shown == auth # "out"
OrNone == Symbols \cup {None}
NoSetup == [symbol |-> None, by |-> "nothing"]

\* "hydrate" reads the positions, and then shows that of its symbol, if it has one; "first" is
\* hydrate with autoSelectFirst.
Request == [kind : {"load"}, symbol : Symbols, current : BOOLEAN]
           \cup [kind : {"risk", "enter", "flatten"}, symbol : Symbols]
           \cup [kind : {"hydrate", "first"}, symbol : OrNone]
Current == {r \in reqs : r.kind = "load" /\ r.current}

\* Until loadSession answers, the screen is shown and nobody is signed in.
Init == /\ auth = "shown" /\ held = {} /\ reqs = {}
        /\ ticker = None /\ loaded = None /\ active = None /\ timer = None
        /\ setup = NoSetup /\ pending = FALSE /\ failed = FALSE

\* A wrong Effect, for the check of CatchesUp: it does not depend on the loaded ticker.
EffectOfTicker(typed, current, busy, due) ==
  LET same == typed = ticker /\ signedIn' = signedIn
      idle == typed \in {None, current}
      runs == ~same /\ signedIn'
  IN /\ ticker' = typed /\ loaded' = current
     /\ pending' = IF runs THEN ~idle ELSE busy
     /\ timer' = IF same THEN due ELSE IF runs /\ ~idle THEN typed ELSE None

\* The effect, which runs when the ticker, the loaded one or the user has changed: its cleanup stops
\* the timer; then, if somebody is signed in, there is nothing to load or a timer for what is typed.
\* Otherwise busy and due are what the handler made of pending and the timer.
Effect(typed, current, busy, due) ==
  LET same == typed = ticker /\ current = loaded /\ signedIn' = signedIn
      idle == typed \in {None, current}
      runs == ~same /\ signedIn'
  IN /\ ticker' = typed /\ loaded' = current
     /\ pending' = IF runs THEN ~idle ELSE busy
     /\ timer' = IF same THEN due ELSE IF runs /\ ~idle THEN typed ELSE None

\* handleApiError for a 401.
SignedOut == auth' = "out" /\ Effect(ticker, loaded, pending, timer)
----------------------------------------------------------------------------
(* What the user does.                                                     *)
Type(s) == /\ shown /\ s # ticker /\ UNCHANGED auth
           /\ Effect(s, loaded, pending, timer)
           /\ failed' = FALSE
           /\ UNCHANGED <<setup, active, held, reqs>>

\* clearPendingSetupRequest: an aborted load is gone, or its answer is already there.
Superseded(gone) == {[r EXCEPT !.current = FALSE] : r \in Current \ gone} \cup (reqs \ Current)

\* loadSetup, from the load button, the Enter key or the timer.
StartLoad(s) == /\ \E gone \in SUBSET Current :
                     reqs' = Superseded(gone) \cup {[kind |-> "load", symbol |-> s, current |-> TRUE]}
                /\ pending' = TRUE /\ timer' = None /\ failed' = FALSE
                /\ UNCHANGED <<auth, ticker, loaded, setup, active, held>>
LoadNow == shown /\ ticker # None /\ StartLoad(ticker)
TimerFires == timer # None /\ StartLoad(timer)

\* A request is sent from the screen, for the symbol of the moment.
Send(kind, s) == /\ shown
                 /\ Cardinality({r \in reqs : r.kind # "load"}) < MaxRequests
                 /\ reqs' = reqs \cup {[kind |-> kind, symbol |-> s]}
                 /\ UNCHANGED <<auth, ui, held>>

\* actionsDisabled but for the rules of the order, and the symbol an order names.
Enabled == /\ shown /\ setup # NoSetup /\ ~pending
           /\ ticker # None => ticker = loaded
OrderSymbol == IF loaded # None THEN loaded ELSE ticker

ChangeRisk == OrderSymbol # None /\ Send("risk", OrderSymbol)
EnterTrade == Enabled /\ OrderSymbol # None /\ Send("enter", OrderSymbol)
\* executeStops, executeProfit and moveToBe: what answers is followed by hydrate and selectPosition.
Manage == \E s \in {IF active # None THEN active ELSE ticker} \cap held : Send("hydrate", s)
Flatten == active # None /\ Send("flatten", active)
\* The other callers of hydrate; a socket that opens again selects first if a position is shown.
Refresh == Send("hydrate", None) \/ (signedIn /\ active # None /\ Send("first", None))

\* A wrong Apply, for the check of SetupMatches: the ticker stays what it was.
ApplySetup(p) == /\ setup' = [symbol |-> p, by |-> "position"] /\ active' = p
                 /\ UNCHANGED <<ticker, loaded, pending, timer, failed>>

\* applyPositionState
Apply(p) == /\ Effect(p, p, pending, timer)
            /\ setup' = [symbol |-> p, by |-> "position"] /\ active' = p
            /\ UNCHANGED failed
SelectPosition == /\ shown /\ UNCHANGED <<auth, held, reqs>>
                  /\ \E p \in held : Apply(p)
Logout == /\ shown
          /\ auth' = "out"
          /\ setup' = NoSetup /\ active' = None /\ ticker' = None /\ loaded' = None
          /\ timer' = None /\ pending' = FALSE /\ failed' = FALSE
          /\ reqs' = reqs \ Current
          /\ UNCHANGED held
\* loadSession or submitLogin has succeeded; both go on with hydrate.
SignIn == /\ ~signedIn /\ auth' = "in"
          /\ Effect(ticker, loaded, pending, timer)
          /\ failed' = FALSE
          /\ reqs' = reqs \cup {[kind |-> "first", symbol |-> None]}
          /\ UNCHANGED <<setup, active, held>>
----------------------------------------------------------------------------
(* Answers and events.                                                     *)
LoadAnswers(r) ==
  /\ r.kind = "load" /\ reqs' = reqs \ {r} /\ UNCHANGED <<auth, held>>
  /\ \/ /\ r.current
        /\ setup' = [symbol |-> r.symbol, by |-> "load"] /\ active' = None
        /\ Effect(ticker, r.symbol, FALSE, timer)
        /\ failed' = FALSE
     \/ ~r.current /\ UNCHANGED ui


\* The current load fails, with 401 or otherwise; one that was aborted does nothing.
LoadFails(r) == /\ r.kind = "load" /\ reqs' = reqs \ {r} /\ UNCHANGED <<setup, active, held>>
                /\ \/ /\ r.current /\ failed' = TRUE
                      /\ auth' \in {auth, "out"} /\ Effect(ticker, loaded, FALSE, timer)
                   \/ ~r.current /\ UNCHANGED <<auth, ticker, loaded, timer, pending, failed>>

\* The setup of a change of the risk, which then reads the positions.
RiskAnswers(r) == /\ r.kind = "risk"
                  /\ reqs' = (reqs \ {r}) \cup {[kind |-> "hydrate", symbol |-> None]}
                  /\ setup' = [symbol |-> r.symbol, by |-> "risk"]
                  /\ UNCHANGED <<auth, ticker, loaded, active, timer, pending, failed, held>>
EntryAnswers(r) == /\ r.kind = "enter" /\ UNCHANGED auth
                   /\ reqs' = (reqs \ {r}) \cup {[kind |-> "hydrate", symbol |-> r.symbol]}
                   /\ held' = held \cup {r.symbol} /\ Apply(r.symbol)

\* hydrate once the positions are there: the one on the screen, or the first, or none.
Hydrated(first) ==
  LET blank == setup.by \notin {"load", "position"}    \* setupLoadedRef is not set
  IN \/ active \in held /\ Apply(active)
     \/ active \notin held /\ first /\ blank /\ \E p \in held : Apply(p)
     \/ /\ active \notin held /\ ~(first /\ setup = NoSetup /\ held # {})
        /\ active' = None /\ Effect(ticker, loaded, pending, timer)
        /\ UNCHANGED <<setup, failed>>

\* It hides the login panel, whoever is signed in by now.
HydrateAnswers(r) == /\ r.kind \in {"hydrate", "first"} /\ reqs' = reqs \ {r} /\ UNCHANGED held
                     /\ auth' = IF shown THEN auth ELSE "shown"
                     /\ \/ r.symbol # None /\ Apply(r.symbol)
                        \/ r.symbol = None /\ Hydrated(r.kind = "first")

\* flatten: the position is closed, hydrate has answered or failed with 401, and what is loaded by
\* now counts no longer as loaded.
FlattenAnswers(r) ==
  /\ r.kind = "flatten" /\ reqs' = reqs \ {r}
  /\ held' = held \ {r.symbol} /\ active' = None /\ UNCHANGED failed
  /\ \/ /\ auth' = IF shown THEN auth ELSE "shown"
        /\ active \in held'
        /\ Effect(active, None, pending, timer) /\ setup' = [symbol |-> active, by |-> "position"]
     \/ /\ auth' \in {IF shown THEN auth ELSE "shown", "out"}
        /\ active \in held' => auth' = "out"
        /\ Effect(ticker, None, pending, timer) /\ UNCHANGED setup

\* Another request fails; a 401 signs the screen out, and that of a hydrate does not keep its
\* caller from showing the position it has.
RequestFails(r) == /\ r.kind # "load" /\ reqs' = reqs \ {r} /\ UNCHANGED held
                   /\ \/ UNCHANGED <<auth, ui>>
                      \/ SignedOut /\ UNCHANGED <<setup, active, failed>>
                      \/ r.kind = "hydrate" /\ r.symbol # None /\ auth' = "out" /\ Apply(r.symbol)

\* loadSession, a preview or a canceled order answers 401.
Unauthorized == SignedOut /\ UNCHANGED <<setup, active, failed, held, reqs>>

\* A position_update of the position on the screen, open or closed.
PositionUpdate == /\ signedIn /\ active # None /\ UNCHANGED <<auth, held, reqs>>
                  /\ Apply(active)
\* The last exit of a position fills.
PositionCloses == /\ \E p \in held : held' = held \ {p}
                  /\ UNCHANGED <<auth, ui, reqs>>

CurrentAnswers == \E r \in Current : LoadAnswers(r) \/ LoadFails(r)
Answers(r) == \/ LoadAnswers(r) \/ LoadFails(r) \/ RiskAnswers(r) \/ EntryAnswers(r)
              \/ HydrateAnswers(r) \/ FlattenAnswers(r) \/ RequestFails(r)
Next == \/ \E s \in OrNone : Type(s)
        \/ LoadNow \/ TimerFires \/ ChangeRisk \/ EnterTrade \/ Manage \/ Flatten \/ Refresh
        \/ SelectPosition \/ Logout \/ SignIn
        \/ \E r \in reqs : Answers(r)
        \/ Unauthorized \/ PositionUpdate \/ PositionCloses

\* Timers fire and the current load answers: the user pauses between two loads for long enough.
Spec == Init /\ [][Next]_vars
FairSpec == Spec /\ WF_vars(TimerFires) /\ WF_vars(CurrentAnswers)
----------------------------------------------------------------------------
TypeOK == /\ auth \in {"in", "out", "shown"} /\ ticker \in OrNone /\ loaded \in OrNone
          /\ setup \in [symbol : OrNone, by : {"nothing", "load", "position", "risk"}]
          /\ active \in OrNone /\ held \subseteq Symbols /\ timer \in OrNone
          /\ pending \in BOOLEAN /\ failed \in BOOLEAN
          /\ reqs \subseteq Request /\ \A r, q \in Current : r = q

\* While orders can be sent, the setup their prices come from is that of the symbol they name,
\* however loads, entries and position updates answer; only a setup that was loaded again after
\* a change of the risk may be of another symbol (actionsDisabled, loadSetup,
\* applyPositionState; commitRiskPct checks nothing before it overwrites the setup).
SetupMatches == Enabled /\ setup.by # "risk" /\ OrderSymbol # None => setup.symbol = OrderSymbol

\* Of what the ticker field shows nothing is forgotten while somebody is signed in: unless its load
\* failed, a symbol that is not loaded has a timer or a load under way, whatever else answered (the
\* effect).  The field itself may be overwritten: a position that is put on the screen takes the
\* place of what was typed and stops its timer, and that symbol is not loaded (applyPositionState).
CatchesUp == signedIn /\ ticker \notin {None, loaded} /\ ~failed
               => timer = ticker \/ \E r \in Current : r.symbol = ticker

=============================================================================
