---------------------------- MODULE AuthSessions ----------------------------
(* Login sessions: a row per token in the store, and the requests that       *)
(* resolve and revoke it from the thread pool.  Every statement of the store *)
(* commits on its own, so a request is a chain of steps, and it works with   *)
(* the clock it read when it began and with the row it selected.             *)
(*   services/auth.py, api/routes_auth.py, api/deps_auth.py                  *)
EXTENDS Naturals

CONSTANTS Tokens,    \* the tokens create_session may hand out, all of one user
          Requests,  \* the requests under way at once
          TTL,       \* session_ttl_hours
          MaxTime    \* bound: the clock stops here
ASSUME TokensAssumption == Tokens # {}
ASSUME TTLAssumption == TTL \in Nat \ {0}
ASSUME MaxTimeAssumption == MaxTime \in Nat

VARIABLES clock,
          rows,    \* rows[t]: the auth_sessions row of token t
          active,  \* is_active of the user
          req      \* req[r]: what request r does, for which token, with which clock
vars == <<clock, rows, active, req>>

Row == [state : {"none", "live", "revoked"}, seen : Nat, expires : Nat]
NoRow == [state |-> "none", seen |-> 0, expires |-> 0]

\* A visit is a route (or the opening of a socket) that resolves the session and then does its work;
\* a logout resolves it too, for the log, and revokes it whatever came out.
Kinds == {"visit", "logout"}
Steps == {"idle", "select", "expire", "extend", "in", "refused", "find", "revoke", "out"}
Request == [pc : Steps, kind : Kinds, token : Tokens, now : Nat]
Idle == [pc |-> "idle", kind |-> "visit", token |-> CHOOSE t \in Tokens : TRUE, now |-> 0]

Init == /\ clock = 0
        /\ rows = [t \in Tokens |-> NoRow]
        /\ active = TRUE
        /\ req = [r \in Requests |-> Idle]
----------------------------------------------------------------------------
At(r, pc) == req[r].pc = pc
Goto(r, pc) == req' = [req EXCEPT ![r].pc = pc]
\* A wrong Resolved, for the check of LogoutTakes: a logout stops where its session was not found.
ResolvedFound(r, pc) == Goto(r, IF req[r].kind = "logout" /\ pc = "in" THEN "find" ELSE pc)

\* Where a request goes once its session was resolved, found or not.
Resolved(r, pc) == Goto(r, IF req[r].kind = "logout" THEN "find" ELSE pc)

Fresh(now) == [state |-> "live", seen |-> now, expires |-> now + TTL]

\* create_session, at the end of a login.
CreateSession(t) == /\ rows[t].state = "none"
                    /\ rows' = [rows EXCEPT ![t] = Fresh(clock)]
                    /\ UNCHANGED <<clock, active, req>>

\* ensure_user makes the user active; nothing in the code makes it inactive, an operator does.
EnsureUser == active' = TRUE /\ UNCHANGED <<clock, rows, req>>
Deactivate == active' = FALSE /\ UNCHANGED <<clock, rows, req>>

\* A request arrives with a token; resolve_session reads the clock.
Begin(r, t, kind) == /\ At(r, "idle") /\ rows[t].state # "none"
                     /\ req' = [req EXCEPT ![r] = [pc |-> "select", kind |-> kind, token |-> t, now |-> clock]]
                     /\ UNCHANGED <<clock, rows, active>>

\* A wrong Expired, for the check of KeepsSessions: the last moment still counts.
ExpiredAfter(r) == rows[req[r].token].expires < req[r].now

\* resolve_session selects the row and decides by it.
Found(t) == rows[t].state = "live"
Expired(r) == rows[req[r].token].expires =< req[r].now
Select(r) ==
    /\ At(r, "select")
    /\ \/ ~Found(req[r].token) /\ Resolved(r, "refused")
       \/ Found(req[r].token) /\ Expired(r) /\ Goto(r, "expire")
       \/ Found(req[r].token) /\ ~Expired(r) /\ ~active /\ Resolved(r, "refused")
       \/ Found(req[r].token) /\ ~Expired(r) /\ active /\ Goto(r, "extend")
    /\ UNCHANGED <<clock, rows, active>>

\* It revokes a session that has expired ...
Expire(r) == /\ At(r, "expire")
             /\ rows' = [rows EXCEPT ![req[r].token].state = "revoked"]
             /\ Resolved(r, "refused")
             /\ UNCHANGED <<clock, active>>

\* A wrong Used, for the check of ExpiryFollowsUse: the time is never shortened.
UsedLonger(row, now) == [row EXCEPT !.seen = now, !.expires = IF @ > now + TTL THEN @ ELSE now + TTL]

\* ... and extends one that has not, writing these two columns and no other.
Used(row, now) == [row EXCEPT !.seen = now, !.expires = now + TTL]
Extend(r) == /\ At(r, "extend")
             /\ rows' = [rows EXCEPT ![req[r].token] = Used(@, req[r].now)]
             /\ Resolved(r, "in")
             /\ UNCHANGED <<clock, active>>

\* A wrong FindRow, for the check of LogoutEnds: a row whose time is over is passed over.
FindUnexpired(r) == /\ At(r, "find")
                    /\ Goto(r, IF Found(req[r].token) /\ ~Expired(r) THEN "revoke" ELSE "out")
                    /\ UNCHANGED <<clock, rows, active>>

\* revoke_session: the database store selects the row first and then writes it.
FindRow(r) == /\ At(r, "find")
              /\ Goto(r, IF Found(req[r].token) THEN "revoke" ELSE "out")
              /\ UNCHANGED <<clock, rows, active>>
Revoke(r) == /\ At(r, "revoke")
             /\ rows' = [rows EXCEPT ![req[r].token].state = "revoked"]
             /\ Goto(r, "out")
             /\ UNCHANGED <<clock, active>>

\* The route, or the socket, ends.
Leave(r) == /\ req[r].pc \in {"in", "refused", "out"}
            /\ req' = [req EXCEPT ![r] = Idle]
            /\ UNCHANGED <<clock, rows, active>>

Tick == /\ clock < MaxTime
        /\ clock' = clock + 1
        /\ UNCHANGED <<rows, active, req>>

Step(r) == Select(r) \/ Expire(r) \/ Extend(r) \/ FindRow(r) \/ Revoke(r)
Next == \/ \E t \in Tokens : CreateSession(t)
        \/ EnsureUser \/ Deactivate
        \/ \E r \in Requests, t \in Tokens, kind \in Kinds : Begin(r, t, kind)
        \/ \E r \in Requests : Step(r) \/ Leave(r)
        \/ Tick

Spec == Init /\ [][Next]_vars
\* A request that has begun is carried through by its thread.
FairSpec == Spec /\ \A r \in Requests : WF_vars(Step(r))
----------------------------------------------------------------------------
TypeOK == /\ clock \in Nat
          /\ rows \in [Tokens -> Row]
          /\ active \in BOOLEAN
          /\ req \in [Requests -> Request]

\* The two columns that concurrent requests write tell of one use: a session expires TTL after a
\* use that has happened, however the writes of several requests interleave (resolve_session).
ExpiryFollowsUse ==
    \A t \in Tokens : rows[t].state # "none" =>
                        rows[t].expires = rows[t].seen + TTL /\ rows[t].seen =< clock

\* A logout that has run has ended its session, also one whose user is inactive, which
\* resolve_session did not find for it, and also when another request extends or expires the row
\* meanwhile (logout, revoke_session).
LogoutEnds == \A r \in Requests : At(r, "out") => rows[req[r].token].state = "revoked"

\* A session is over when it is revoked, or when its time has passed and no request holds an earlier
\* clock or an earlier decision with which it could still extend it.
MayExtend(r, t) == /\ req[r].token = t
                   /\ \/ At(r, "extend")
                      \/ At(r, "select") /\ req[r].now < rows[t].expires
Over(t) == \/ rows[t].state = "revoked"
           \/ /\ rows[t].state = "live"
              /\ rows[t].expires =< clock
              /\ \A r \in Requests : ~MayExtend(r, t)

\* The state of the ledger.
Nobody == [token |-> Idle.token, got |-> "nothing"]
Life(t) == IF rows[t].state = "none" THEN "unknown" ELSE IF Over(t) THEN "ended" ELSE "live"
Got(pc) == CASE pc \in {"extend", "in"} -> "in"
             [] pc = "select" -> "asking"
             [] pc \in {"expire", "refused"} -> "refused"
Visit(q) == IF q.kind = "logout" \/ q.pc = "idle" THEN Nobody
            ELSE [token |-> q.token, got |-> Got(q.pc)]
Ledger == INSTANCE SessionLedger WITH
            Visits <- Requests,
            life <- [t \in Tokens |-> Life(t)],
            visit <- [r \in Requests |-> Visit(req[r])]
\* The store keeps the promise of SessionLedger: a session that is over stays over, and a visit is
\* let in only with a session that is not (resolve_session, revoke_session).
KeepsSessions == Ledger!Spec

\* A logout that has begun ends its session in the end, whether its session was found or not and
\* whatever other requests do (routes_auth.py logout).
LogoutTakes == \A r \in Requests, t \in Tokens :
                 At(r, "select") /\ req[r].kind = "logout" /\ req[r].token = t
                   ~> rows[t].state = "revoked"
=============================================================================
