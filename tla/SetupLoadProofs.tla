-------------------------- MODULE SetupLoadProofs --------------------------
(* What holds of the screen however many symbols there are.                 *)
EXTENDS SetupLoad, TLAPS

\* The setup follows the loaded symbol, except one that a change of the risk put there.
SetupFollows == setup.by # "risk" /\ loaded # None => setup.symbol = loaded
\* The timer runs for nothing but what is typed.
TimerFollows == timer \in {None, ticker}
\* After a failure nothing is under way that could clear it.
FailedIsIdle == failed => Current = {}
IInv == TypeOK /\ SetupFollows /\ TimerFollows /\ CatchesUp /\ FailedIsIdle

\* A load that begins is the current one, and the only one (loadSetup, clearPendingSetupRequest).
LEMMA LoadBegins ==
  ASSUME TypeOK, NEW s \in Symbols, StartLoad(s)
  PROVE  /\ reqs' \subseteq Request
         /\ Current' = {[kind |-> "load", symbol |-> s, current |-> TRUE]}
<1>1. PICK gone \in SUBSET Current :
        reqs' = Superseded(gone) \cup {[kind |-> "load", symbol |-> s, current |-> TRUE]}
  BY DEF StartLoad
<1>2. \A r \in Superseded(gone) : r \in Request /\ ~(r.kind = "load" /\ r.current)
  <2>1. ASSUME NEW r \in Current
        PROVE  [r EXCEPT !.current = FALSE] \in Request /\ ~[r EXCEPT !.current = FALSE].current
    <3>1. r \in reqs /\ r \in Request /\ r.kind = "load"
      BY DEF TypeOK, Current
    <3>2. r \in [kind : {"load"}, symbol : Symbols, current : BOOLEAN]
      BY <3>1 DEF Request
    <3>. QED BY <3>2 DEF Request
  <2>2. \A r \in reqs \ Current : r \in Request /\ ~(r.kind = "load" /\ r.current)
    BY DEF TypeOK, Current
  <2>. QED BY <2>1, <2>2 DEF Superseded
<1>3. [kind |-> "load", symbol |-> s, current |-> TRUE] \in Request
  BY DEF Request
<1>. DEFINE new == [kind |-> "load", symbol |-> s, current |-> TRUE]
<1>4. new.kind = "load" /\ new.current
  OBVIOUS
<1>. HIDE DEF new
<1>5. \A r : r \in reqs' <=> r \in Superseded(gone) \/ r = new
  BY <1>1 DEF new
<1>6. \A r : r \in Current' <=> r \in reqs' /\ r.kind = "load" /\ r.current
  BY DEF Current
<1>7. \A r : r \in Current' <=> r = new
  BY <1>2, <1>4, <1>5, <1>6
<1>8. reqs' \subseteq Request
  BY <1>2, <1>3, <1>5 DEF new
<1>. QED BY <1>7, <1>8 DEF new

\* An answer takes its request away and leaves the others as they are.
LEMMA RequestEnds ==
  ASSUME TypeOK, NEW r \in reqs, reqs' = reqs \ {r}
  PROVE  /\ reqs' \subseteq Request /\ Current' = Current \ {r}
         /\ \A p, q \in Current' : p = q
         /\ r.kind # "load" => Current' = Current
  BY DEF TypeOK, Current

\* A request other than a load that is sent, in the place of one that has answered or beside the
\* others, does not touch the loads.
LEMMA RequestBegins ==
  ASSUME TypeOK, NEW k \in {"risk", "enter", "flatten", "hydrate", "first"}, NEW s \in OrNone,
         s = None => k \in {"hydrate", "first"},
         NEW others, others \subseteq reqs, Current \subseteq others,
         reqs' = others \cup {[kind |-> k, symbol |-> s]}
  PROVE  reqs' \subseteq Request /\ Current' = Current
<1>. DEFINE new == [kind |-> k, symbol |-> s]
<1>1. new \in Request /\ new.kind # "load"
  BY DEF Request, OrNone
<1>. HIDE DEF new
<1>2. \A r : r \in reqs' <=> r \in others \/ r = new
  BY DEF new
<1>. QED BY <1>1, <1>2 DEF TypeOK, Current

\* What a request names.
LEMMA RequestSymbol ==
  ASSUME TypeOK, NEW r \in reqs
  PROVE  r.symbol \in OrNone /\ (r.kind \in {"load", "risk", "enter", "flatten"} => r.symbol \in Symbols)
  BY DEF TypeOK, Request, OrNone

\* The effect keeps the timer on what is typed, and lets nothing typed go unnoticed while somebody is
\* signed in.
LEMMA EffectFollows ==
  ASSUME TypeOK, TimerFollows, NEW typed \in OrNone, NEW current \in OrNone, NEW busy \in BOOLEAN,
         Effect(typed, current, busy, timer)
  PROVE  /\ ticker' = typed /\ loaded' = current /\ ticker' \in OrNone /\ loaded' \in OrNone
         /\ timer' \in OrNone /\ pending' \in BOOLEAN
         /\ TimerFollows'
         /\ \/ ~signedIn' \/ ticker' \in {None, loaded'} \/ timer' = ticker'
            \/ ticker' = ticker /\ loaded' = loaded /\ timer' = timer /\ signedIn
  BY DEF Effect, TimerFollows, TypeOK, OrNone, signedIn
----------------------------------------------------------------------------
(* One lemma for each kind of step.                                         *)

\* A step after which the setup still follows and the effect has run, with the loads as they were.
LEMMA EffectKeeps ==
  ASSUME IInv, NEW typed \in OrNone, NEW current \in OrNone, NEW busy \in BOOLEAN,
         auth' \in {"in", "out", "shown"}, Effect(typed, current, busy, timer),
         setup' \in [symbol : OrNone, by : {"nothing", "load", "position", "risk"}], SetupFollows',
         active' \in OrNone, held' \subseteq Symbols,
         reqs' \subseteq Request, Current' = Current, failed' \in {failed, FALSE}, failed' = failed \/ ~signedIn'
                                   \/ ticker' \in {None, loaded'} \/ timer' = ticker'
  PROVE  IInv'
<1>1. TypeOK /\ TimerFollows
  BY DEF IInv
<1>2. /\ ticker' \in OrNone /\ loaded' \in OrNone /\ timer' \in OrNone /\ pending' \in BOOLEAN /\ TimerFollows'
      /\ \/ ~signedIn' \/ ticker' \in {None, loaded'} \/ timer' = ticker'
         \/ ticker' = ticker /\ loaded' = loaded /\ timer' = timer /\ signedIn
  BY <1>1, EffectFollows
<1>3. TypeOK'
  BY <1>1, <1>2 DEF TypeOK
<1>4. CatchesUp'
  BY <1>2 DEF IInv, CatchesUp
<1>5. FailedIsIdle'
  BY DEF IInv, FailedIsIdle
<1>. QED BY <1>2, <1>3, <1>4, <1>5 DEF IInv

\* Typing starts a timer or, back at the loaded symbol, ends it (the effect).
LEMMA TypeKeeps ==
  ASSUME IInv, NEW s \in OrNone, Type(s)
  PROVE  IInv'
<1>1. TypeOK /\ TimerFollows /\ pending \in BOOLEAN /\ loaded \in OrNone /\ Effect(s, loaded, pending, timer)
  BY DEF IInv, TypeOK, Type
<1>2. /\ ticker' = s /\ loaded' = loaded
      /\ ~signedIn' \/ ticker' \in {None, loaded'} \/ timer' = ticker'
  BY <1>1, EffectFollows DEF Type
<1>3. SetupFollows' /\ Current' = Current
  BY <1>2 DEF Type, IInv, SetupFollows, Current
<1>4. /\ auth' \in {"in", "out", "shown"} /\ active' \in OrNone /\ held' \subseteq Symbols /\ reqs' \subseteq Request
      /\ setup' \in [symbol : OrNone, by : {"nothing", "load", "position", "risk"}] /\ failed' = FALSE
  BY <1>1 DEF Type, TypeOK
<1>. QED BY <1>1, <1>2, <1>3, <1>4, EffectKeeps

\* A load that begins is for what is typed (loadSetup).
LEMMA StartKeeps ==
  ASSUME IInv, NEW s \in Symbols, s = ticker, StartLoad(s)
  PROVE  IInv'
<1>. DEFINE new == [kind |-> "load", symbol |-> s, current |-> TRUE]
<1>1. TypeOK /\ reqs' \subseteq Request /\ Current' = {new}
  BY LoadBegins DEF IInv
<1>2. new.symbol = s
  OBVIOUS
<1>. HIDE DEF new
<1>3. TypeOK'
  BY <1>1 DEF StartLoad, TypeOK, OrNone
<1>. QED BY <1>1, <1>2, <1>3 DEF StartLoad, IInv, SetupFollows, TimerFollows, CatchesUp, FailedIsIdle

\* What puts a position on the screen brings its symbol, its setup and its ticker together (applyPositionState).
LEMMA ApplyKeeps ==
  ASSUME IInv, NEW p \in Symbols, Apply(p), auth' \in {"in", "out", "shown"}, held' \subseteq Symbols,
         reqs' \subseteq Request, Current' = Current
  PROVE  IInv'
<1>1. TypeOK /\ TimerFollows /\ p \in OrNone /\ pending \in BOOLEAN
  BY DEF IInv, TypeOK, OrNone
<1>2. ticker' = p /\ loaded' = p
  BY <1>1, EffectFollows DEF Apply
<1>3. /\ setup' = [symbol |-> p, by |-> "position"] /\ active' = p /\ failed' = failed
      /\ Effect(p, p, pending, timer)
  BY DEF Apply
<1>4. SetupFollows' /\ setup' \in [symbol : OrNone, by : {"nothing", "load", "position", "risk"}]
  BY <1>1, <1>2, <1>3 DEF SetupFollows
<1>. QED BY <1>1, <1>3, <1>4, EffectKeeps DEF TypeOK

\* A step that changes nothing the effect follows but the user and what is loaded: the setup stays.
LEMMA ScreenKeeps ==
  ASSUME IInv, NEW current \in {loaded, None}, auth' \in {"in", "out", "shown"},
         Effect(ticker, current, pending, timer), UNCHANGED <<setup, failed>>, active' \in OrNone,
         held' \subseteq Symbols, reqs' \subseteq Request, Current' = Current
  PROVE  IInv'
<1>1. TypeOK /\ TimerFollows /\ pending \in BOOLEAN /\ ticker \in OrNone /\ current \in OrNone
  BY DEF IInv, TypeOK, OrNone
<1>2. loaded' = current
  BY <1>1, EffectFollows
<1>3. SetupFollows'
  BY <1>2 DEF IInv, SetupFollows
<1>. QED BY <1>1, <1>3, EffectKeeps DEF TypeOK

\* A request that is sent leaves the screen as it is (commitRiskPct, submitEnterTrade, hydrate).
LEMMA SendKeeps ==
  ASSUME IInv, NEW k \in {"risk", "enter", "flatten", "hydrate", "first"}, NEW s \in OrNone,
         s = None => k \in {"hydrate", "first"}, Send(k, s)
  PROVE  IInv'
<1>1. TypeOK /\ reqs' = reqs \cup {[kind |-> k, symbol |-> s]} /\ UNCHANGED <<auth, ui, held>>
  BY DEF Send, IInv
<1>2. reqs' \subseteq Request /\ Current' = Current
  <2>1. reqs \subseteq reqs /\ Current \subseteq reqs
    BY DEF Current
  <2>. QED BY <1>1, <2>1, RequestBegins
<1>3. TypeOK'
  BY <1>1, <1>2 DEF TypeOK, ui
<1>. QED BY <1>1, <1>2, <1>3 DEF ui, IInv, SetupFollows, TimerFollows, CatchesUp, FailedIsIdle, signedIn

\* Signing in runs the effect for what is typed, and nothing counts as failed any more (submitLogin).
LEMMA SignInKeeps ==
  ASSUME IInv, SignIn
  PROVE  IInv'
<1>1. TypeOK /\ TimerFollows /\ pending \in BOOLEAN /\ loaded \in OrNone /\ ticker \in OrNone
  BY DEF IInv, TypeOK
<1>2. reqs' = reqs \cup {[kind |-> "first", symbol |-> None]} /\ None \in OrNone
  BY DEF SignIn, OrNone
<1>3. reqs' \subseteq Request /\ Current' = Current
  <2>1. reqs \subseteq reqs /\ Current \subseteq reqs
    BY DEF Current
  <2>. QED BY <1>1, <1>2, <2>1, RequestBegins
<1>4. loaded' = loaded /\ (ticker' \in {None, loaded'} \/ timer' = ticker')
  BY <1>1, EffectFollows DEF SignIn, signedIn
<1>5. SetupFollows'
  BY <1>4 DEF SignIn, IInv, SetupFollows
<1>. QED BY <1>1, <1>3, <1>4, <1>5, EffectKeeps DEF SignIn, TypeOK

\* A load answers: the current one fills the setup, an older one nothing (loadSetup).
LEMMA AnswerKeeps ==
  ASSUME IInv, NEW r \in reqs, LoadAnswers(r)
  PROVE  IInv'
<1>1. TypeOK /\ TimerFollows /\ r.symbol \in Symbols /\ r.kind = "load"
  BY RequestSymbol DEF IInv, LoadAnswers
<1>3. reqs' \subseteq Request /\ Current' = Current \ {r} /\ \A p, q \in Current' : p = q
  BY <1>1, RequestEnds DEF LoadAnswers
<1>4. CASE r.current
  <2>1. r \in Current /\ Current' = {}
    BY <1>1, <1>3, <1>4 DEF Current, TypeOK
  <2>2. /\ ticker' = ticker /\ loaded' = r.symbol /\ loaded' \in OrNone /\ timer' \in OrNone /\ pending' \in BOOLEAN
        /\ TimerFollows'
        /\ \/ ~signedIn' \/ ticker' \in {None, loaded'} \/ timer' = ticker'
           \/ loaded' = loaded /\ timer' = timer /\ signedIn
    <3>1. Effect(ticker, r.symbol, FALSE, timer) /\ r.symbol \in OrNone /\ ticker \in OrNone
      BY <1>1, <1>4 DEF LoadAnswers, TypeOK, OrNone
    <3>. QED BY <1>1, <3>1, EffectFollows
  <2>3. setup' = [symbol |-> r.symbol, by |-> "load"] /\ active' = None /\ failed' = FALSE
        /\ auth' = auth /\ held' = held
    BY <1>4 DEF LoadAnswers
  <2>4. TypeOK'
    BY <1>1, <1>3, <2>2, <2>3 DEF TypeOK, OrNone
  <2>5. SetupFollows'
    BY <2>2, <2>3 DEF SetupFollows
  <2>6. CatchesUp'
    <3>1. CASE ~signedIn' \/ ticker' \in {None, loaded'} \/ timer' = ticker'
      BY <3>1 DEF CatchesUp
    <3>2. CASE loaded' = loaded /\ timer' = timer /\ signedIn /\ ticker' \notin {None, loaded'}
      <4>1. ~failed
        BY <2>1 DEF IInv, FailedIsIdle
      <4>2. timer = ticker \/ \E q \in Current : q.symbol = ticker
        BY <2>2, <3>2, <4>1 DEF IInv, CatchesUp
      <4>3. \A q \in Current : q = r
        BY <1>1, <2>1 DEF TypeOK
      <4>. QED BY <2>2, <3>2, <4>2, <4>3 DEF CatchesUp
    <3>. QED BY <2>2, <3>1, <3>2
  <2>. QED BY <2>2, <2>3, <2>4, <2>5, <2>6 DEF IInv, FailedIsIdle
<1>5. CASE ~r.current
  <2>1. Current' = Current
    BY <1>3, <1>5 DEF Current
  <2>2. UNCHANGED <<auth, ticker, loaded, setup, active, held, timer, pending, failed>>
    BY <1>5 DEF LoadAnswers, ui
  <2>3. TypeOK'
    BY <1>1, <1>3, <2>2 DEF TypeOK
  <2>. QED BY <2>1, <2>2, <2>3 DEF IInv, SetupFollows, TimerFollows, CatchesUp, FailedIsIdle, signedIn
<1>. QED BY <1>4, <1>5

\* A load fails, with 401 or otherwise: only the failure of the current one shows (loadSetup).
LEMMA FailKeeps ==
  ASSUME IInv, NEW r \in reqs, LoadFails(r)
  PROVE  IInv'
<1>1. TypeOK /\ reqs' \subseteq Request /\ Current' = Current \ {r} /\ \A p, q \in Current' : p = q
  BY RequestEnds DEF LoadFails, IInv
<1>2. UNCHANGED <<setup, active, held>>
  BY DEF LoadFails
<1>3. CASE r.current
  <2>1. Current' = {} /\ failed' = TRUE /\ auth' \in {"in", "out", "shown"}
    BY <1>1, <1>3 DEF LoadFails, Current, TypeOK
  <2>2. Effect(ticker, loaded, FALSE, timer) /\ ticker \in OrNone /\ loaded \in OrNone /\ TimerFollows
    BY <1>1, <1>3 DEF LoadFails, TypeOK, IInv
  <2>3. ticker' = ticker /\ loaded' = loaded /\ timer' \in OrNone /\ pending' \in BOOLEAN /\ TimerFollows'
    BY <1>1, <2>2, EffectFollows
  <2>4. TypeOK'
    BY <1>1, <1>2, <2>1, <2>3 DEF TypeOK
  <2>. QED BY <1>2, <2>1, <2>3, <2>4 DEF IInv, SetupFollows, CatchesUp, FailedIsIdle
<1>4. CASE ~r.current
  <2>1. Current' = Current /\ UNCHANGED <<auth, ticker, loaded, timer, pending, failed>>
    BY <1>1, <1>4 DEF LoadFails, Current
  <2>. QED BY <1>1, <1>2, <2>1
           DEF IInv, TypeOK, SetupFollows, TimerFollows, CatchesUp, FailedIsIdle, signedIn
<1>. QED BY <1>3, <1>4

\* The setup of a change of the risk is exempt from following what is loaded (commitRiskPct).
LEMMA RiskKeeps ==
  ASSUME IInv, NEW r \in reqs, RiskAnswers(r)
  PROVE  IInv'
<1>1. TypeOK /\ r.symbol \in Symbols /\ None \in OrNone
  BY RequestSymbol DEF IInv, RiskAnswers, OrNone
<1>2. reqs' \subseteq Request /\ Current' = Current
  <2>1. reqs \ {r} \subseteq reqs /\ Current \subseteq reqs \ {r}
    BY DEF Current, RiskAnswers
  <2>2. reqs' = (reqs \ {r}) \cup {[kind |-> "hydrate", symbol |-> None]}
    BY DEF RiskAnswers
  <2>. QED BY <1>1, <2>1, <2>2, RequestBegins
<1>. QED BY <1>1, <1>2
         DEF RiskAnswers, IInv, TypeOK, OrNone, SetupFollows, TimerFollows, CatchesUp, FailedIsIdle, signedIn

\* An entry that answers is on the screen (submitEnterTrade).
LEMMA EntryKeeps ==
  ASSUME IInv, NEW r \in reqs, EntryAnswers(r)
  PROVE  IInv'
<1>1. TypeOK /\ r.symbol \in Symbols /\ r.symbol \in OrNone
  BY RequestSymbol DEF IInv, EntryAnswers
<1>2. r.symbol # None
  BY <1>1, SymbolsAssumption
<1>3. reqs' \subseteq Request /\ Current' = Current
  <2>1. reqs \ {r} \subseteq reqs /\ Current \subseteq reqs \ {r}
    BY DEF Current, EntryAnswers
  <2>2. reqs' = (reqs \ {r}) \cup {[kind |-> "hydrate", symbol |-> r.symbol]}
    BY DEF EntryAnswers
  <2>. QED BY <1>1, <1>2, <2>1, <2>2, RequestBegins
<1>. QED BY <1>1, <1>3, ApplyKeeps DEF EntryAnswers, TypeOK

\* The positions answer: one of them is on the screen, or none (hydrate).
LEMMA HydrateKeeps ==
  ASSUME IInv, NEW r \in reqs, HydrateAnswers(r)
  PROVE  IInv'
<1>1. TypeOK /\ r.symbol \in OrNone /\ r.kind # "load"
  BY RequestSymbol DEF IInv, HydrateAnswers
<1>2. reqs' \subseteq Request /\ Current' = Current /\ held' \subseteq Symbols /\ auth' \in {"in", "out", "shown"}
  BY <1>1, RequestEnds DEF HydrateAnswers, TypeOK
<1>3. CASE \E p \in Symbols : Apply(p)
  BY <1>2, <1>3, ApplyKeeps
<1>4. CASE active' = None /\ Effect(ticker, loaded, pending, timer) /\ UNCHANGED <<setup, failed>>
  BY <1>2, <1>4, ScreenKeeps DEF OrNone
<1>5. (\E p \in Symbols : Apply(p))
      \/ (active' = None /\ Effect(ticker, loaded, pending, timer) /\ UNCHANGED <<setup, failed>>)
  BY <1>1 DEF HydrateAnswers, Hydrated, TypeOK, OrNone
<1>. QED BY <1>3, <1>4, <1>5

\* A position is closed, and what was loaded counts no longer as loaded (flatten).
LEMMA FlattenKeeps ==
  ASSUME IInv, NEW r \in reqs, FlattenAnswers(r)
  PROVE  IInv'
<1>1. TypeOK /\ TimerFollows /\ None \in OrNone /\ r.kind # "load" /\ pending \in BOOLEAN
  BY DEF IInv, FlattenAnswers, OrNone, TypeOK
<1>2. /\ reqs' \subseteq Request /\ Current' = Current /\ held' \subseteq Symbols /\ active' = None
      /\ auth' \in {"in", "out", "shown"} /\ failed' = failed
  BY <1>1, RequestEnds DEF FlattenAnswers, TypeOK
<1>3. CASE active \in held' /\ Effect(active, None, pending, timer) /\ setup' = [symbol |-> active, by |-> "position"]
  <2>1. active \in OrNone /\ setup' \in [symbol : OrNone, by : {"nothing", "load", "position", "risk"}]
    BY <1>1, <1>3 DEF TypeOK
  <2>2. loaded' = None
    BY <1>1, <1>3, <2>1, EffectFollows
  <2>. QED BY <1>1, <1>2, <1>3, <2>1, <2>2, EffectKeeps DEF SetupFollows
<1>4. CASE Effect(ticker, None, pending, timer) /\ UNCHANGED setup
  BY <1>1, <1>2, <1>4, ScreenKeeps
<1>. QED BY <1>3, <1>4 DEF FlattenAnswers

\* A request fails; the 401 of a hydrate may leave its position on the screen (handleApiError).
LEMMA RequestFailKeeps ==
  ASSUME IInv, NEW r \in reqs, RequestFails(r)
  PROVE  IInv'
<1>1. TypeOK /\ r.symbol \in OrNone /\ r.kind # "load"
  BY RequestSymbol DEF IInv, RequestFails
<1>2. reqs' \subseteq Request /\ Current' = Current /\ held' = held /\ held \subseteq Symbols
  BY <1>1, RequestEnds DEF RequestFails, TypeOK
<1>3. CASE UNCHANGED <<auth, ui>>
  BY <1>1, <1>2, <1>3
     DEF ui, IInv, TypeOK, SetupFollows, TimerFollows, CatchesUp, FailedIsIdle, signedIn
<1>4. CASE SignedOut /\ UNCHANGED <<setup, active, failed>>
  BY <1>1, <1>2, <1>4, ScreenKeeps DEF SignedOut, TypeOK
<1>5. CASE r.symbol # None /\ auth' = "out" /\ Apply(r.symbol)
  BY <1>1, <1>2, <1>5, ApplyKeeps DEF OrNone
<1>. QED BY <1>3, <1>4, <1>5 DEF RequestFails
----------------------------------------------------------------------------
\* The inductive invariant, over all the steps of the screen.
THEOREM Inductive == Spec => []IInv
<1>1. Init => IInv
  <2>. SUFFICES ASSUME Init PROVE IInv
    OBVIOUS
  <2>1. Current = {} /\ None \in OrNone
    BY DEF Init, Current, OrNone
  <2>2. setup \in [symbol : OrNone, by : {"nothing", "load", "position", "risk"}]
    BY <2>1 DEF Init, NoSetup
  <2>3. TypeOK
    BY <2>1, <2>2 DEF Init, TypeOK
  <2>. QED BY <2>1, <2>3 DEF Init, IInv, SetupFollows, TimerFollows, CatchesUp, FailedIsIdle, signedIn
<1>2. IInv /\ [Next]_vars => IInv'
  <2>. SUFFICES ASSUME IInv, [Next]_vars PROVE IInv'
    OBVIOUS
  <2>0. TypeOK /\ TimerFollows
    BY DEF IInv
  <2>1. ASSUME NEW s \in OrNone, Type(s)  PROVE IInv'
    BY <2>1, TypeKeeps
  <2>2. CASE LoadNow
    BY <2>0, <2>2, StartKeeps DEF LoadNow, TypeOK, OrNone
  <2>3. CASE TimerFires
    BY <2>0, <2>3, StartKeeps DEF TimerFires, TypeOK, OrNone, TimerFollows
  <2>4. CASE ChangeRisk \/ EnterTrade
    BY <2>0, <2>4, SendKeeps DEF ChangeRisk, EnterTrade, OrderSymbol, TypeOK
  <2>5. CASE Manage
    <3>1. PICK s \in held : Send("hydrate", s)
      BY <2>5 DEF Manage
    <3>. QED BY <2>0, <3>1, SendKeeps DEF TypeOK, OrNone
  <2>6. CASE Flatten
    BY <2>0, <2>6, SendKeeps DEF Flatten, TypeOK
  <2>7. CASE Refresh
    BY <2>7, SendKeeps DEF Refresh, OrNone
  <2>8. CASE SelectPosition
    BY <2>0, <2>8, ApplyKeeps DEF SelectPosition, TypeOK, Current
  <2>9. CASE Logout
    <3>1. Current' = {} /\ reqs' \subseteq Request
      BY <2>0, <2>9 DEF Logout, Current, TypeOK
    <3>. QED BY <2>0, <2>9, <3>1
             DEF Logout, NoSetup, IInv, TypeOK, OrNone, SetupFollows, TimerFollows, CatchesUp, FailedIsIdle
  <2>10. CASE SignIn
    BY <2>10, SignInKeeps
  <2>11. ASSUME NEW r \in reqs, Answers(r)  PROVE IInv'
    BY <2>11, AnswerKeeps, FailKeeps, RiskKeeps, EntryKeeps, HydrateKeeps, FlattenKeeps, RequestFailKeeps
       DEF Answers
  <2>12. CASE Unauthorized
    <3>1. reqs' \subseteq Request /\ Current' = Current /\ held' \subseteq Symbols /\ active' \in OrNone
      BY <2>0, <2>12 DEF Unauthorized, TypeOK, Current
    <3>. QED BY <2>12, <3>1, ScreenKeeps DEF Unauthorized, SignedOut
  <2>13. CASE PositionUpdate
    BY <2>0, <2>13, ApplyKeeps DEF PositionUpdate, TypeOK, OrNone, Current
  <2>14. CASE PositionCloses \/ UNCHANGED vars
    <3>1. UNCHANGED <<auth, ticker, loaded, setup, active, timer, pending, failed, reqs>>
      BY <2>14 DEF PositionCloses, vars, ui
    <3>2. Current' = Current /\ held' \subseteq Symbols
      BY <2>0, <2>14, <3>1 DEF PositionCloses, vars, Current, TypeOK
    <3>3. TypeOK'
      BY <2>0, <3>1, <3>2 DEF TypeOK
    <3>. QED BY <3>1, <3>2, <3>3 DEF IInv, SetupFollows, TimerFollows, CatchesUp, FailedIsIdle, signedIn
  <2>. QED
    BY <2>1, <2>2, <2>3, <2>4, <2>5, <2>6, <2>7, <2>8, <2>9, <2>10, <2>11, <2>12, <2>13, <2>14 DEF Next
<1>. QED BY <1>1, <1>2, PTL DEF Spec

\* TypeOK for any symbols: one load at most is current, whatever was aborted (loadSetup).
THEOREM TypeCorrect == Spec => []TypeOK
<1>1. IInv => TypeOK
  BY DEF IInv
<1>. QED BY <1>1, Inductive, PTL

\* SetupMatches for any symbols: no order is priced by another symbol's loaded setup (actionsDisabled).
THEOREM SetupAlwaysMatches == Spec => []SetupMatches
<1>1. IInv => SetupMatches
  BY DEF IInv, SetupFollows, SetupMatches, Enabled, OrderSymbol
<1>. QED BY <1>1, Inductive, PTL

\* CatchesUp for any symbols: what the ticker shows has a timer or a load while somebody is signed in,
\* or its load failed (the effect, loadSetup).
THEOREM AlwaysCatchesUp == Spec => []CatchesUp
<1>1. IInv => CatchesUp
  BY DEF IInv
<1>. QED BY <1>1, Inductive, PTL
=============================================================================
