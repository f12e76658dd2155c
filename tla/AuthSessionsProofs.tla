------------------------- MODULE AuthSessionsProofs -------------------------
(* What holds of sessions for any number of tokens and requests, any time to *)
(* live and with no bound on time.                                           *)
EXTENDS AuthSessions, TLAPS

\* A request under way has read its clock, and its token has a row, which stays.
Behind == \A r \in Requests : req[r].now =< clock
HasRow == \A r \in Requests : ~At(r, "idle") => rows[req[r].token].state # "none"
\* Only a logout gets to revoke_session, and it never ends in or refused.
KindFits == \A r \in Requests :
              /\ req[r].pc \in {"find", "revoke", "out"} => req[r].kind = "logout"
              /\ req[r].pc \in {"in", "refused"} => req[r].kind = "visit"
IInv == TypeOK /\ Behind /\ HasRow /\ KindFits /\ ExpiryFollowsUse /\ LogoutEnds

\* A step that moves one request and no other, and writes at most the row of its token, only as
\* resolve_session and revoke_session write it.
Touched(row, now) == {row, [row EXCEPT !.state = "revoked"], Used(row, now)}
Moves(r, pc, row) == /\ ~At(r, "idle") /\ pc \in Steps \ {"idle", "select"} /\ Goto(r, pc)
                     /\ row \in Touched(rows[req[r].token], req[r].now)
                     /\ rows' = [rows EXCEPT ![req[r].token] = row]
                     /\ UNCHANGED <<clock, active>>
                     /\ pc \in {"find", "revoke", "out"} => req[r].kind = "logout"
                     /\ pc \in {"in", "refused"} => req[r].kind = "visit"
                     /\ pc = "out" => row.state = "revoked"
                     /\ pc = "extend" => /\ MayExtend(r, req[r].token) /\ Found(req[r].token)
                                       /\ row = rows[req[r].token]
                     /\ ~At(r, "extend") => row \in {rows[req[r].token], [rows[req[r].token] EXCEPT !.state = "revoked"]}
                     /\ req[r].kind = "visit" => \/ req[r].pc \in {"select", "expire"} /\ pc \in {"expire", "refused"}
                                                 \/ req[r].pc = "select" /\ pc = "extend"
                                                 \/ req[r].pc = "extend" /\ pc = "in"
\* Such a step keeps the invariant (resolve_session, revoke_session).
LEMMA RequestKeeps ==
  ASSUME IInv, NEW r \in Requests, NEW pc, NEW row, Moves(r, pc, row)
  PROVE  IInv'
<1>. DEFINE t == req[r].token
            now == req[r].now
<1>1. TypeOK /\ req[r] \in Request /\ t \in Tokens /\ now \in Nat /\ now =< clock /\ rows[t] \in Row
  BY DEF IInv, TypeOK, Request, Behind
<1>2. rows[t].state # "none" /\ rows[t].expires = rows[t].seen + TTL /\ rows[t].seen =< clock
  BY <1>1 DEF IInv, HasRow, ExpiryFollowsUse, Moves
<1>. HIDE DEF t, now
<1>3. /\ row \in Row /\ row.state # "none" /\ row.expires = row.seen + TTL /\ row.seen =< clock
      /\ rows[t].state = "revoked" => row.state = "revoked"
  <2>1. row \in Touched(rows[t], now)
    BY DEF Moves, t, now
  <2>2. CASE row = rows[t]
    BY <1>1, <1>2, <2>2
  <2>3. CASE row = [rows[t] EXCEPT !.state = "revoked"]
    BY <1>1, <1>2, <2>3 DEF Row
  <2>4. CASE row = Used(rows[t], now)
    <3>1. row = [rows[t] EXCEPT !.seen = now, !.expires = now + TTL]
      BY <2>4 DEF Used
    <3>2. row.seen = now /\ row.expires = now + TTL /\ row.state = rows[t].state /\ now + TTL \in Nat /\ row \in Row
      <4>1. TTL \in Nat /\ now + TTL \in Nat
        BY <1>1, TTLAssumption
      <4>2. rows[t] = [state |-> rows[t].state, seen |-> rows[t].seen, expires |-> rows[t].expires]
            /\ rows[t].state \in {"none", "live", "revoked"}
        BY <1>1 DEF Row
      <4>3. row = [state |-> rows[t].state, seen |-> now, expires |-> now + TTL]
        BY <3>1, <4>2
      <4>. QED BY <1>1, <4>1, <4>2, <4>3 DEF Row
    <3>. QED BY <1>1, <1>2, <3>2
  <2>. QED BY <2>1, <2>2, <2>3, <2>4 DEF Touched
<1>4. /\ \A u \in Tokens : rows'[u] = IF u = t THEN row ELSE rows[u]
      /\ rows' \in [Tokens -> Row]
  BY <1>1, <1>3 DEF TypeOK, Moves, t
<1>5. /\ req' \in [Requests -> Request]
      /\ \A q \in Requests : /\ req'[q].token = req[q].token /\ req'[q].now = req[q].now /\ req'[q].kind = req[q].kind
                             /\ req'[q].pc = IF q = r THEN pc ELSE req[q].pc
  BY <1>1 DEF Moves, Goto, TypeOK, Request
<1>6. TypeOK'
  BY <1>1, <1>4, <1>5 DEF TypeOK, Moves
<1>7. Behind'
  BY <1>5 DEF IInv, Behind, Moves
<1>8. HasRow'
  BY <1>3, <1>4, <1>5 DEF IInv, HasRow, At, TypeOK, Request, Moves, t
<1>9. KindFits'
  BY <1>5 DEF IInv, KindFits, Moves
<1>10. ExpiryFollowsUse'
  BY <1>3, <1>4 DEF IInv, ExpiryFollowsUse, Moves
<1>11. LogoutEnds'
  BY <1>3, <1>4, <1>5 DEF IInv, LogoutEnds, At, TypeOK, Request, Moves, t
<1>. QED BY <1>6, <1>7, <1>8, <1>9, <1>10, <1>11 DEF IInv

\* Every statement of resolve_session and revoke_session is such a step.
LEMMA StepMoves ==
  ASSUME IInv, NEW r \in Requests, Step(r)
  PROVE  \E pc, row : Moves(r, pc, row)
<1>. DEFINE t == req[r].token
            over == [rows[t] EXCEPT !.state = "revoked"]
<1>1. /\ rows \in [Tokens -> Row] /\ t \in Tokens /\ req[r].kind \in Kinds /\ over.state = "revoked"
      /\ req[r].now \in Nat /\ rows[t] \in Row
  BY DEF IInv, TypeOK, Request, Row
<1>2. rows[t].state # "none" \/ At(r, "idle")
  BY DEF IInv, HasRow
<1>3. rows' = rows => rows' = [rows EXCEPT ![t] = rows[t]]
  BY <1>1
<1>4. rows[t] \in Touched(rows[t], req[r].now) /\ over \in Touched(rows[t], req[r].now)
  BY DEF Touched
<1>5. CASE Select(r)
  <2>1. At(r, "select") /\ ~At(r, "idle") /\ ~At(r, "extend") /\ rows' = [rows EXCEPT ![t] = rows[t]] /\ UNCHANGED <<clock, active>>
    BY <1>3, <1>5 DEF Select, At
  <2>2. CASE Resolved(r, "refused")
    <3>1. CASE req[r].kind = "logout"
      <4>1. Moves(r, "find", rows[t])
        BY <1>4, <2>1, <2>2, <3>1 DEF Resolved, Moves, Steps
      <4>. QED BY <4>1
    <3>2. CASE req[r].kind = "visit"
      <4>1. Moves(r, "refused", rows[t])
        BY <1>4, <2>1, <2>2, <3>2 DEF Resolved, Moves, Steps, At
      <4>. QED BY <4>1
    <3>. QED BY <1>1, <3>1, <3>2 DEF Kinds
  <2>3. CASE Goto(r, "expire")
    <3>1. Moves(r, "expire", rows[t])
      BY <1>4, <2>1, <2>3 DEF Moves, Steps, At
    <3>. QED BY <3>1
  <2>4. CASE Found(t) /\ ~Expired(r) /\ Goto(r, "extend")
    <3>1. MayExtend(r, t)
      BY <1>1, <2>1, <2>4 DEF MayExtend, Expired, Row
    <3>2. Moves(r, "extend", rows[t])
      BY <1>4, <2>1, <2>4, <3>1 DEF Moves, Steps, At
    <3>. QED BY <3>2
  <2>. QED BY <1>5, <2>2, <2>3, <2>4 DEF Select
<1>6. CASE Expire(r)
  <2>1. At(r, "expire") /\ ~At(r, "idle") /\ ~At(r, "extend") /\ rows' = [rows EXCEPT ![t] = over] /\ UNCHANGED <<clock, active>>
    BY <1>1, <1>6 DEF Expire, At
  <2>2. CASE req[r].kind = "logout"
    <3>1. Moves(r, "find", over)
      BY <1>4, <1>6, <2>1, <2>2 DEF Expire, Resolved, Moves, Steps
    <3>. QED BY <3>1
  <2>3. CASE req[r].kind = "visit"
    <3>1. Moves(r, "refused", over)
      BY <1>4, <1>6, <2>1, <2>3 DEF Expire, Resolved, Moves, Steps, At
    <3>. QED BY <3>1
  <2>. QED BY <1>1, <2>2, <2>3 DEF Kinds
<1>7. CASE Extend(r)
  <2>. DEFINE used == Used(rows[t], req[r].now)
  <2>1. At(r, "extend") /\ ~At(r, "idle") /\ rows' = [rows EXCEPT ![t] = used] /\ UNCHANGED <<clock, active>>
        /\ used \in Touched(rows[t], req[r].now)
    BY <1>1, <1>7 DEF Extend, At, Touched
  <2>. HIDE DEF used
  <2>2. CASE req[r].kind = "logout"
    <3>1. Moves(r, "find", used)
      BY <1>7, <2>1, <2>2 DEF Extend, Resolved, Moves, Steps
    <3>. QED BY <3>1
  <2>3. CASE req[r].kind = "visit"
    <3>1. Moves(r, "in", used)
      BY <1>7, <2>1, <2>3 DEF Extend, Resolved, Moves, Steps, At
    <3>. QED BY <3>1
  <2>. QED BY <1>1, <2>2, <2>3 DEF Kinds
<1>8. CASE FindRow(r)
  <2>1. /\ At(r, "find") /\ ~At(r, "idle") /\ ~At(r, "extend") /\ rows' = [rows EXCEPT ![t] = rows[t]]
        /\ UNCHANGED <<clock, active>> /\ req[r].kind = "logout"
    BY <1>3, <1>8 DEF FindRow, At, IInv, KindFits
  <2>2. CASE Found(t) /\ Goto(r, "revoke")
    <3>1. Moves(r, "revoke", rows[t])
      BY <1>4, <2>1, <2>2 DEF Moves, Steps
    <3>. QED BY <3>1
  <2>3. CASE ~Found(t) /\ Goto(r, "out")
    <3>1. rows[t].state = "revoked"
      BY <1>1, <1>2, <2>1, <2>3 DEF Found, Row
    <3>2. Moves(r, "out", rows[t])
      BY <1>4, <2>1, <2>3, <3>1 DEF Moves, Steps
    <3>. QED BY <3>2
  <2>. QED BY <1>8, <2>2, <2>3 DEF FindRow
<1>9. CASE Revoke(r)
  <2>1. /\ At(r, "revoke") /\ ~At(r, "idle") /\ ~At(r, "extend") /\ rows' = [rows EXCEPT ![t] = over]
        /\ UNCHANGED <<clock, active>> /\ req[r].kind = "logout" /\ Goto(r, "out")
    BY <1>1, <1>9 DEF Revoke, At, IInv, KindFits
  <2>2. Moves(r, "out", over)
    BY <1>1, <1>4, <2>1 DEF Moves, Steps
  <2>. QED BY <2>2
<1>. QED BY <1>5, <1>6, <1>7, <1>8, <1>9 DEF Step

\* The inductive invariant, over all the requests of the store.
THEOREM Inductive == Spec => []IInv
<1>0. Idle \in Request /\ Idle.pc = "idle" /\ Idle.now = 0
  BY TokensAssumption DEF Idle, Request, Steps, Kinds
<1>1. Init => IInv
  BY <1>0 DEF Init, IInv, TypeOK, Behind, HasRow, KindFits, ExpiryFollowsUse, LogoutEnds, NoRow, Row, At
<1>2. IInv /\ [Next]_vars => IInv'
  <2>. SUFFICES ASSUME IInv, [Next]_vars PROVE IInv'
    OBVIOUS
  <2>0. TypeOK
    BY DEF IInv
  <2>1. ASSUME NEW t \in Tokens, CreateSession(t)  PROVE IInv'
    <3>1. Fresh(clock) \in Row /\ Fresh(clock).state = "live" /\ Fresh(clock).seen = clock /\ Fresh(clock).expires = clock + TTL
      BY <2>0, TTLAssumption DEF Fresh, Row, TypeOK
    <3>2. \A u \in Tokens : rows'[u] = IF u = t THEN Fresh(clock) ELSE rows[u]
      BY <2>0, <2>1 DEF CreateSession, TypeOK
    <3>3. TypeOK'
      BY <2>0, <2>1, <3>1 DEF CreateSession, TypeOK
    <3>4. \A r \in Requests : req[r].token \in Tokens
      BY <2>0 DEF TypeOK, Request
    <3>. QED BY <2>0, <2>1, <3>1, <3>2, <3>3, <3>4
             DEF CreateSession, IInv, TypeOK, Behind, HasRow, KindFits, ExpiryFollowsUse, LogoutEnds, At
  <2>2. ASSUME NEW r \in Requests, NEW t \in Tokens, NEW kind \in Kinds, Begin(r, t, kind)  PROVE IInv'
    <3>. DEFINE new == [pc |-> "select", kind |-> kind, token |-> t, now |-> clock]
    <3>1. new \in Request /\ new.pc = "select" /\ new.now = clock /\ new.token = t
      BY <2>0 DEF Request, Steps, TypeOK
    <3>. HIDE DEF new
    <3>2. req' = [req EXCEPT ![r] = new] /\ UNCHANGED <<clock, rows, active>> /\ rows[t].state # "none"
      BY <2>2 DEF Begin, new
    <3>3. \A q \in Requests : req'[q] = IF q = r THEN new ELSE req[q]
      BY <2>0, <3>2 DEF TypeOK
    <3>4. TypeOK'
      BY <2>0, <3>1, <3>2 DEF TypeOK
    <3>. QED BY <2>0, <3>1, <3>2, <3>3, <3>4
             DEF IInv, TypeOK, Behind, HasRow, KindFits, ExpiryFollowsUse, LogoutEnds, At
  <2>3. ASSUME NEW r \in Requests, Step(r)  PROVE IInv'
    BY <2>3, StepMoves, RequestKeeps
  <2>4. ASSUME NEW r \in Requests, Leave(r)  PROVE IInv'
    <3>1. \A q \in Requests : req'[q] = IF q = r THEN Idle ELSE req[q]
      BY <2>0, <2>4 DEF Leave, TypeOK
    <3>2. TypeOK'
      BY <1>0, <2>0, <2>4 DEF Leave, TypeOK
    <3>. QED BY <1>0, <2>0, <2>4, <3>1, <3>2
             DEF Leave, IInv, TypeOK, Behind, HasRow, KindFits, ExpiryFollowsUse, LogoutEnds, At
  <2>5. CASE Tick
    <3>1. \A r \in Requests : req[r].now \in Nat
      BY <2>0 DEF TypeOK, Request
    <3>2. \A t \in Tokens : rows[t].seen \in Nat
      BY <2>0 DEF TypeOK, Row
    <3>3. clock \in Nat /\ clock' = clock + 1 /\ UNCHANGED <<rows, active, req>>
      BY <2>0, <2>5 DEF Tick, TypeOK
    <3>4. Behind' /\ ExpiryFollowsUse'
      BY <3>1, <3>2, <3>3 DEF IInv, Behind, ExpiryFollowsUse
    <3>. QED BY <2>0, <3>3, <3>4 DEF IInv, TypeOK, HasRow, KindFits, LogoutEnds, At
  <2>6. CASE EnsureUser \/ Deactivate \/ UNCHANGED vars
    BY <2>0, <2>6 DEF EnsureUser, Deactivate, vars, IInv, TypeOK, Behind, HasRow, KindFits, ExpiryFollowsUse, LogoutEnds, At
  <2>. QED BY <2>1, <2>2, <2>3, <2>4, <2>5, <2>6 DEF Next
<1>. QED BY <1>1, <1>2, PTL DEF Spec

\* TypeOK for any tokens, requests and time to live.
THEOREM TypeCorrect == Spec => []TypeOK
<1>1. IInv => TypeOK
  BY DEF IInv
<1>. QED BY <1>1, Inductive, PTL

\* ExpiryFollowsUse for any of them: the columns that concurrent requests write stay one (resolve_session).
THEOREM ExpiryAlwaysFollowsUse == Spec => []ExpiryFollowsUse
<1>1. IInv => ExpiryFollowsUse
  BY DEF IInv
<1>. QED BY <1>1, Inductive, PTL

\* LogoutEnds for any of them: a logout that has run has ended its session (logout, revoke_session).
THEOREM LogoutAlwaysEnds == Spec => []LogoutEnds
<1>1. IInv => LogoutEnds
  BY DEF IInv
<1>. QED BY <1>1, Inductive, PTL
----------------------------------------------------------------------------
(* The refinement: what each step makes of lives and visits.                *)

LifeEnds == \A u \in Tokens : Life(u)' # Life(u) => Life(u) = "live" /\ Life(u)' = "ended"

\* A session that is over is over after a step of any request: only one that holds an earlier clock
\* or decision extends it (resolve_session).
LEMMA MovesEnd ==
  ASSUME IInv, NEW r \in Requests, NEW pc, NEW row, Moves(r, pc, row)
  PROVE  LifeEnds
<1>0. PICK t \in Tokens : t = req[r].token
  BY DEF IInv, TypeOK, Request
<1>1. TypeOK /\ t \in Tokens /\ rows[t] \in Row /\ rows[t].state # "none"
  BY <1>0 DEF IInv, TypeOK, Request, HasRow, Moves
<1>2. \A u \in Tokens : rows'[u] = IF u = t THEN row ELSE rows[u]
  BY <1>0, <1>1 DEF Moves, TypeOK
<1>3. \A q \in Requests : /\ req'[q].token = req[q].token /\ req'[q].now = req[q].now
                          /\ req'[q].pc = IF q = r THEN pc ELSE req[q].pc
  BY <1>1 DEF Moves, Goto, TypeOK, Request
<1>4. clock' = clock
  BY DEF Moves
<1>5. \/ row = rows[t]
      \/ row.state = "revoked"
      \/ At(r, "extend") /\ row.state = rows[t].state
  <2>1. row \in {rows[t], [rows[t] EXCEPT !.state = "revoked"], Used(rows[t], req[r].now)}
    BY <1>0 DEF Moves, Touched
  <2>0. ~At(r, "extend") => row \in {rows[t], [rows[t] EXCEPT !.state = "revoked"]}
    BY <1>0 DEF Moves
  <2>2. [rows[t] EXCEPT !.state = "revoked"].state = "revoked"
    BY <1>1 DEF Row
  <2>3. Used(rows[t], req[r].now).state = rows[t].state
    BY <1>1 DEF Row, Used
  <2>. QED BY <2>0, <2>1, <2>2, <2>3
<1>6. ASSUME NEW u \in Tokens, u # t  PROVE Life(u)' = Life(u)
  <2>1. rows'[u] = rows[u]
    BY <1>2, <1>6
  <2>2. \A q \in Requests : MayExtend(q, u)' <=> MayExtend(q, u)
    BY <1>0, <1>3, <1>6, <2>1 DEF MayExtend, At
  <2>3. Over(u)' <=> Over(u)
    BY <1>4, <2>1, <2>2 DEF Over
  <2>. QED BY <2>1, <2>3 DEF Life
<1>7. row.state # "none"
  BY <1>1, <1>5
<1>8. Over(t) => Over(t)'
  <2>1. CASE rows[t].state = "revoked"
    BY <1>1, <1>2, <1>5, <2>1 DEF Over
  <2>2. CASE row.state = "revoked"
    BY <1>1, <1>2, <2>2 DEF Over
  <2>3. CASE Over(t) /\ rows[t].state # "revoked" /\ row.state # "revoked"
    <3>1. rows[t].state = "live" /\ rows[t].expires =< clock /\ \A q \in Requests : ~MayExtend(q, t)
      BY <2>3 DEF Over
    <3>2. ~At(r, "extend")
      BY <1>0, <3>1 DEF MayExtend
    <3>3. rows'[t] = rows[t]
      BY <1>1, <1>2, <1>5, <2>3, <3>2
    <3>4. ~MayExtend(r, t)'
      <4>1. pc = "extend" => MayExtend(r, t)
        BY <1>0 DEF Moves
      <4>2. pc # "extend" /\ pc # "select"
        BY <3>1, <4>1 DEF Moves
      <4>. QED BY <1>3, <4>2 DEF MayExtend, At
    <3>5. \A q \in Requests : ~MayExtend(q, t)'
      BY <1>3, <3>1, <3>3, <3>4 DEF MayExtend, At
    <3>. QED BY <1>4, <3>1, <3>3, <3>5 DEF Over
  <2>. QED BY <2>1, <2>2, <2>3
<1>9. Life(t) \in {"live", "ended"} /\ Life(t)' \in {"live", "ended"} /\ (Life(t) = "ended" => Life(t)' = "ended")
  BY <1>1, <1>2, <1>7, <1>8 DEF Life
<1>. QED BY <1>6, <1>9 DEF LifeEnds

life == [t \in Tokens |-> Life(t)]
visit == [r \in Requests |-> Visit(req[r])]

\* A step after which sessions only end is one that ends some.
LEMMA EndsSome == LifeEnds => Ledger!SomeEnd
<1>. SUFFICES ASSUME LifeEnds PROVE Ledger!SomeEnd
  OBVIOUS
<1>1. \A u \in Tokens : life[u] = Life(u) /\ life'[u] = Life(u)' /\ Life(u)' \in {"unknown", "live", "ended"}
  BY DEF life, Life
<1>2. life' \in [Tokens -> {"unknown", "live", "ended"}]
  BY <1>1 DEF life
<1>. QED BY <1>1, <1>2 DEF LifeEnds, Ledger!SomeEnd, life

\* What a step of one request does to the visits.
LEMMA VisitMoves ==
  ASSUME TypeOK, NEW r \in Requests, NEW new, req' = [req EXCEPT ![r] = new]
  PROVE  visit' = [visit EXCEPT ![r] = Visit(new)]
<1>1. \A q \in Requests : req'[q] = IF q = r THEN new ELSE req[q]
  BY DEF TypeOK
<1>2. visit' = [q \in Requests |-> Visit(req'[q])]
  BY DEF visit, Visit, Got, Nobody
<1>3. visit = [q \in Requests |-> Visit(req[q])]
  BY DEF visit
<1>4. \A q \in Requests : visit'[q] = [visit EXCEPT ![r] = Visit(new)][q]
  BY <1>1, <1>2, <1>3
<1>. QED BY <1>2, <1>3, <1>4

\* A step of a request that means the same to its visit changes no visit.
LEMMA VisitUnchanged ==
  ASSUME TypeOK, NEW r \in Requests, NEW new, req' = [req EXCEPT ![r] = new], Visit(new) = Visit(req[r])
  PROVE  visit' = visit
<1>1. visit' = [visit EXCEPT ![r] = Visit(new)]
  BY VisitMoves
<1>2. visit = [q \in Requests |-> Visit(req[q])]
  BY DEF visit
<1>. QED BY <1>1, <1>2

\* A step of a request is one of the ledger: it refuses a visit, lets it in, or ends sessions at most.
LEMMA MovesKeepLedger ==
  ASSUME IInv, NEW r \in Requests, NEW pc, NEW row, Moves(r, pc, row)
  PROVE  Ledger!Next
<1>. DEFINE new == [req[r] EXCEPT !.pc = pc]
<1>0. PICK t \in Tokens : t = req[r].token
  BY DEF IInv, TypeOK, Request
<1>1. TypeOK /\ req' = [req EXCEPT ![r] = new] /\ req[r] \in Request
  BY DEF IInv, TypeOK, Moves, Goto
<1>2. new.pc = pc /\ new.token = t /\ new.kind = req[r].kind /\ req[r].kind \in Kinds /\ req[r].pc # "idle" /\ pc # "idle"
  BY <1>0, <1>1 DEF Request, Moves, At
<1>3. LifeEnds /\ Ledger!SomeEnd
  BY MovesEnd, EndsSome
<1>4. visit' = visit => Ledger!Next
  BY <1>3 DEF visit, Ledger!Next, Ledger!End
<1>. HIDE DEF new
<1>5. CASE Visit(new) = Visit(req[r])
  BY <1>1, <1>4, <1>5, VisitUnchanged
<1>6. CASE req[r].kind = "logout"
  <2>1. Visit(new) = Visit(req[r])
    BY <1>2, <1>6 DEF Visit
  <2>. QED BY <1>5, <2>1
<1>7. CASE req[r].kind = "visit"
  <2>1. /\ Visit(req[r]) = [token |-> t, got |-> Got(req[r].pc)]
        /\ Visit(new) = [token |-> t, got |-> Got(pc)]
    BY <1>0, <1>2, <1>7 DEF Visit
  <2>2. /\ Got("select") = "asking" /\ Got("expire") = "refused" /\ Got("refused") = "refused"
        /\ Got("extend") = "in" /\ Got("in") = "in"
    BY DEF Got
  <2>3. visit' = [visit EXCEPT ![r] = Visit(new)] /\ visit[r] = Visit(req[r])
    BY <1>1, VisitMoves DEF visit
  <2>4. CASE req[r].pc = "select" /\ pc \in {"expire", "refused"}
    <3>1. visit[r] = Ledger!Asking(t) /\ visit' = [visit EXCEPT ![r] = Ledger!Refused(t)]
      BY <2>1, <2>2, <2>3, <2>4 DEF Ledger!Asking, Ledger!Refused
    <3>2. Ledger!Refuse(r, t)
      BY <1>3, <3>1 DEF Ledger!Refuse, visit
    <3>. QED BY <3>2 DEF Ledger!Next
  <2>5. CASE (req[r].pc = "expire" /\ pc \in {"expire", "refused"}) \/ (req[r].pc = "extend" /\ pc = "in")
    <3>1. Visit(new) = Visit(req[r])
      BY <2>1, <2>2, <2>5
    <3>. QED BY <1>5, <3>1
  <2>6. CASE req[r].pc = "select" /\ pc = "extend"
    <3>1. visit[r] = Ledger!Asking(t) /\ visit' = [visit EXCEPT ![r] = Ledger!In(t)]
      BY <2>1, <2>2, <2>3, <2>6 DEF Ledger!Asking, Ledger!In
    <3>2. MayExtend(r, t) /\ rows[t].state = "live" /\ rows' = rows /\ clock' = clock
      BY <1>0, <1>1, <2>6 DEF Moves, Found, TypeOK
    <3>3. Life(t) = "live"
      BY <3>2 DEF Life, Over
    <3>4. MayExtend(r, t)'
      <4>1. req'[r].pc = "extend" /\ req'[r].token = t
        BY <1>1, <1>2, <2>6 DEF TypeOK
      <4>. QED BY <4>1 DEF MayExtend, At
    <3>5. Life(t)' = "live"
      BY <3>2, <3>4 DEF Life, Over
    <3>6. ASSUME NEW u \in Tokens  PROVE Life(u)' = Life(u)
      <4>1. CASE u = t
        BY <3>3, <3>5, <4>1
      <4>2. CASE u # t
        <5>1. \A q \in Requests : MayExtend(q, u)' <=> MayExtend(q, u)
          <6>1. \A q \in Requests : req'[q] = IF q = r THEN new ELSE req[q]
            BY <1>1 DEF TypeOK
          <6>. QED BY <1>0, <1>2, <3>2, <4>2, <6>1 DEF MayExtend, At
        <5>. QED BY <3>2, <5>1 DEF Life, Over
      <4>. QED BY <4>1, <4>2
    <3>7. life' = life /\ life[t] = "live"
      BY <3>3, <3>6 DEF life
    <3>8. Ledger!LetIn(r, t)
      BY <3>1, <3>7 DEF Ledger!LetIn, life, visit
    <3>. QED BY <3>8 DEF Ledger!Next
  <2>7. \/ req[r].pc = "select" /\ pc \in {"expire", "refused"}
        \/ (req[r].pc = "expire" /\ pc \in {"expire", "refused"}) \/ (req[r].pc = "extend" /\ pc = "in")
        \/ req[r].pc = "select" /\ pc = "extend"
    BY <1>7 DEF Moves
  <2>. QED BY <2>4, <2>5, <2>6, <2>7
<1>. QED BY <1>1, <1>2, <1>6, <1>7 DEF Kinds

\* KeepsSessions for any tokens, requests and time to live: the store with its interleaved statements
\* implements the ledger (resolve_session, revoke_session).
THEOREM LedgerKept == Spec => KeepsSessions
<1>0. Idle \in Request /\ Idle.pc = "idle"
  BY TokensAssumption DEF Idle, Request, Steps, Kinds
<1>1. Init => Ledger!Init
  <2>1. Init => life = [t \in Tokens |-> "unknown"] /\ visit = [r \in Requests |-> Nobody]
    BY <1>0 DEF Init, life, visit, Life, Visit, NoRow
  <2>. QED BY <2>1 DEF Ledger!Init, life, visit
<1>2. IInv /\ [Next]_vars => [Ledger!Next]_<<life, visit>>
  <2>. SUFFICES ASSUME IInv, [Next]_vars PROVE Ledger!Next \/ UNCHANGED <<life, visit>>
    OBVIOUS
  <2>0. TypeOK /\ \A r \in Requests : req[r] \in Request /\ req[r].token \in Tokens
    BY DEF IInv, TypeOK, Request
  <2>1. ASSUME NEW t \in Tokens, CreateSession(t)  PROVE Ledger!Next
    <3>1. \A u \in Tokens : rows'[u] = IF u = t THEN Fresh(clock) ELSE rows[u]
      BY <2>0, <2>1 DEF CreateSession, TypeOK
    <3>2. rows[t].state = "none" /\ clock \in Nat /\ UNCHANGED <<clock, req>>
      BY <2>0, <2>1 DEF CreateSession, TypeOK
    <3>3. Life(t) = "unknown" /\ Life(t)' = "live"
      BY <3>1, <3>2, TTLAssumption DEF Life, Over, Fresh
    <3>4. ASSUME NEW u \in Tokens, u # t  PROVE Life(u)' = Life(u)
      BY <3>1, <3>2, <3>4 DEF Life, Over, MayExtend, At
    <3>5. life' = [life EXCEPT ![t] = "live"] /\ life[t] = "unknown"
      BY <3>3, <3>4 DEF life
    <3>6. visit' = visit
      BY <3>2 DEF visit, Visit, Got, Nobody
    <3>7. Ledger!Login(t)
      BY <3>5, <3>6 DEF Ledger!Login, life, visit
    <3>. QED BY <3>7 DEF Ledger!Next
  <2>2. ASSUME NEW r \in Requests, NEW t \in Tokens, NEW kind \in Kinds, Begin(r, t, kind)
        PROVE  Ledger!Next \/ UNCHANGED <<life, visit>>
    <3>. DEFINE new == [pc |-> "select", kind |-> kind, token |-> t, now |-> clock]
    <3>1. /\ req' = [req EXCEPT ![r] = new] /\ rows' = rows /\ clock' = clock /\ At(r, "idle")
          /\ \A q \in Requests : req'[q] = IF q = r THEN new ELSE req[q]
      BY <2>0, <2>2 DEF Begin, TypeOK
    <3>2. ASSUME NEW u \in Tokens  PROVE Life(u)' = Life(u)
      <4>1. \A q \in Requests \ {r} : MayExtend(q, u)' <=> MayExtend(q, u)
        BY <3>1 DEF MayExtend, At
      <4>2. ~MayExtend(r, u)
        BY <3>1 DEF MayExtend, At
      <4>3. MayExtend(r, u)' => rows[u].expires > clock
        BY <3>1, <2>0 DEF MayExtend, At, TypeOK, Row
      <4>4. Over(u)' <=> Over(u)
        <5>1. CASE rows[u].expires =< clock
          <6>1. clock \in Nat /\ rows[u].expires \in Nat
            BY <2>0 DEF TypeOK, Row
          <6>2. ~MayExtend(r, u)'
            BY <4>3, <5>1, <6>1
          <6>. QED BY <3>1, <4>1, <4>2, <6>2 DEF Over
        <5>2. CASE ~(rows[u].expires =< clock)
          BY <3>1, <5>2 DEF Over
        <5>. QED BY <5>1, <5>2
      <4>. QED BY <3>1, <4>4 DEF Life
    <3>3. life' = life
      BY <3>2 DEF life
    <3>4. Visit(req[r]) = Nobody
      BY <3>1 DEF Visit, At
    <3>5. CASE kind = "logout"
      <4>1. Visit(new) = Nobody
        BY <3>5 DEF Visit
      <4>. HIDE DEF new
      <4>2. visit' = visit
        BY <2>0, <3>1, <3>4, <4>1, VisitUnchanged
      <4>. QED BY <3>3, <4>2
    <3>6. CASE kind = "visit"
      <4>1. Visit(new) = Ledger!Asking(t)
        BY <3>6 DEF Visit, Got, Ledger!Asking
      <4>. HIDE DEF new
      <4>2. visit' = [visit EXCEPT ![r] = Visit(new)] /\ visit[r] = Nobody
        BY <2>0, <3>1, <3>4, VisitMoves DEF visit
      <4>3. Ledger!Ask(r, t)
        BY <3>3, <4>1, <4>2 DEF Ledger!Ask, life, visit
      <4>. QED BY <4>3 DEF Ledger!Next
    <3>. QED BY <3>5, <3>6 DEF Kinds
  <2>3. ASSUME NEW r \in Requests, Step(r)  PROVE Ledger!Next
    BY <2>3, StepMoves, MovesKeepLedger
  <2>4. ASSUME NEW r \in Requests, Leave(r)  PROVE Ledger!Next \/ UNCHANGED <<life, visit>>
    <3>1. /\ req' = [req EXCEPT ![r] = Idle] /\ rows' = rows /\ clock' = clock /\ req[r].pc \in {"in", "refused", "out"}
          /\ \A q \in Requests : req'[q] = IF q = r THEN Idle ELSE req[q]
      BY <2>0, <2>4 DEF Leave, TypeOK
    <3>2. ASSUME NEW u \in Tokens  PROVE Life(u)' = Life(u)
      <4>1. \A q \in Requests : MayExtend(q, u)' <=> MayExtend(q, u)
        BY <1>0, <3>1 DEF MayExtend, At
      <4>. QED BY <3>1, <4>1 DEF Life, Over
    <3>3. life' = life
      BY <3>2 DEF life
    <3>4. visit' = [visit EXCEPT ![r] = Nobody]
      <4>1. Visit(Idle) = Nobody
        BY <1>0 DEF Visit
      <4>. QED BY <2>0, <3>1, <4>1, VisitMoves
    <3>5. CASE visit[r] = Nobody
      <4>1. visit' = visit
        BY <3>4, <3>5 DEF visit
      <4>. QED BY <3>3, <4>1
    <3>6. CASE visit[r] # Nobody
      <4>1. Ledger!Leave(r)
        BY <3>3, <3>4, <3>6 DEF Ledger!Leave, life, visit
      <4>. QED BY <4>1 DEF Ledger!Next
    <3>. QED BY <3>5, <3>6
  <2>5. CASE Tick
    <3>1. clock \in Nat /\ clock' = clock + 1 /\ UNCHANGED <<rows, req>>
      BY <2>0, <2>5 DEF Tick, TypeOK
    <3>2. ASSUME NEW u \in Tokens  PROVE Life(u)' # Life(u) => Life(u) = "live" /\ Life(u)' = "ended"
      <4>1. rows[u].expires \in Nat
        BY <2>0 DEF TypeOK, Row
      <4>2. \A q \in Requests : MayExtend(q, u)' <=> MayExtend(q, u)
        BY <3>1 DEF MayExtend, At
      <4>3. Over(u) => Over(u)'
        BY <3>1, <4>1, <4>2 DEF Over
      <4>. QED BY <3>1, <4>3 DEF Life
    <3>3. visit' = visit
      BY <3>1 DEF visit, Visit, Got, Nobody
    <3>4. Ledger!SomeEnd
      BY <3>2, EndsSome DEF LifeEnds
    <3>. QED BY <3>3, <3>4 DEF Ledger!Next, Ledger!End, visit
  <2>6. CASE EnsureUser \/ Deactivate \/ UNCHANGED vars
    <3>1. UNCHANGED <<clock, rows, req>>
      BY <2>6 DEF EnsureUser, Deactivate, vars
    <3>2. life' = life /\ visit' = visit
      BY <3>1 DEF life, visit, Life, Over, MayExtend, At, Visit, Got, Nobody
    <3>. QED BY <3>2
  <2>. QED BY <2>1, <2>2, <2>3, <2>4, <2>5, <2>6 DEF Next
<1>3. Ledger!Spec <=> Ledger!Init /\ [][Ledger!Next]_<<life, visit>>
  BY DEF Ledger!Spec, Ledger!vars, life, visit
<1>. QED BY <1>1, <1>2, <1>3, Inductive, PTL DEF Spec, KeepsSessions
=============================================================================
