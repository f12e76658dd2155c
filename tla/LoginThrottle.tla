--------------------------- MODULE LoginThrottle ---------------------------
(* Failed logins are counted per user name and per client address over a     *)
(* sliding window; a subject with more than Limit of them is locked.  The    *)
(* login route runs in the thread pool: between its calls of the store other *)
(* logins run.  Time is kept as the age of each row, so that it may pass for *)
(* ever.   services/auth.py, api/routes_auth.py                              *)
EXTENDS Integers, FiniteSets, FiniteSetsExt

CONSTANTS Users, Addresses,
          Threads,  \* the logins under way at once
          Limit,    \* FAILED_LOGIN_LIMIT
          Window    \* FAILED_LOGIN_WINDOW_MINUTES
ASSUME ThreadsAssumption == IsFiniteSet(Threads)
ASSUME LimitAssumption == Limit \in Nat
ASSUME WindowAssumption == Window \in Nat \ {0}

VARIABLES rows,   \* rows[s]: the auth_login_attempts rows of subject s
          login,  \* login[w]: how far the login of thread w is
          wait    \* wait[s]: how long the last blocked login was told to wait, counted down
vars == <<rows, login, wait>>

\* _login_subjects: the user name, then the address, in this order.
Subjects == Users \cup Addresses
Ages == 0..Window + 1   \* the last age stands for every later one
Attempt == [age : Ages, nr : Nat]   \* nr tells rows of one age apart

Nobody == [pc |-> "idle"]
Login == [pc : {"password", "failed", "recorded", "passed"}, user : Users, addr : Addresses]
By(u, a) == {u, a}

Init == /\ rows = [s \in Subjects |-> {}]
        /\ login = [w \in Threads |-> Nobody]
        /\ wait = [s \in Subjects |-> 0]
----------------------------------------------------------------------------
\* _recent_attempt_rows: a row exactly Window old still counts.
Recent(f) == {r \in f : r.age =< Window}
Count(f) == Cardinality(Recent(f))
Locked(f) == Count(f) > Limit

\* Wrong versions of RetryAfter, for the checks of WaitIsReal and TypeOK: until the newest row has
\* left the window; and until the oldest has, where its age is taken from the last minute kept.
RetryAfterAll(f) == Max({1, Window - Min({r.age : r \in Recent(f)})})
RetryAfterNext(f) == Max({1, Window + 1 - Max({r.age : r \in Recent(f)})})

\* The wait that is announced: until the oldest row that counts has left the window.
RetryAfter(f) == Max({1, Window - Max({r.age : r \in Recent(f)})})

\* _cleanup_expired_login_attempts, of all subjects.
Cleaned(rs) == [s \in Subjects |-> Recent(rs[s])]

\* A new row among those of a subject.
OneMore(f) == f \cup {[age |-> 0, nr |-> Cardinality({r \in f : r.age = 0})]}

\* A wrong FirstLocked, for the check of WindowBound: the address is not looked at.
UserLocked(rs, u, a) == IF Locked(rs[u]) THEN {u} ELSE {}

\* check_login_allowed: the first locked subject decides what is announced.
FirstLocked(rs, u, a) == IF Locked(rs[u]) THEN {u} ELSE IF Locked(rs[a]) THEN {a} ELSE {}
Announced(rs, u, a) ==
    [s \in Subjects |-> IF s \in FirstLocked(rs, u, a) THEN Max({wait[s], RetryAfter(rs[s])}) ELSE wait[s]]

\* A wrong Check, for the check of LocksEnd: a locked login leaves a row too (up to two above the
\* lock, so that the rows stay few).
CheckRecords(w, u, a) ==
    /\ login[w] = Nobody
    /\ rows' = [s \in Subjects |->
                 IF s \in By(u, a) /\ Locked(rows[s]) /\ Count(rows[s]) < Limit + 3
                 THEN OneMore(Cleaned(rows)[s]) ELSE Cleaned(rows)[s]]
    /\ wait' = Announced(rows, u, a)
    /\ login' = IF FirstLocked(rows, u, a) = {}
                THEN [login EXCEPT ![w] = [pc |-> "password", user |-> u, addr |-> a]]
                ELSE login

\* POST /login begins with the check; a locked login ends here and leaves no row.
Check(w, u, a) ==
    /\ login[w] = Nobody
    /\ rows' = Cleaned(rows)
    /\ wait' = Announced(rows, u, a)
    /\ login' = IF FirstLocked(rows, u, a) = {}
                THEN [login EXCEPT ![w] = [pc |-> "password", user |-> u, addr |-> a]]
                ELSE login

\* authenticate: the password is right or not.
Authenticate(w) ==
    /\ login[w].pc = "password"
    /\ \E pc \in {"failed", "passed"} : login' = [login EXCEPT ![w].pc = pc]
    /\ UNCHANGED <<rows, wait>>

\* record_login_failure: a row for each subject is committed ...
RecordFailure(w) ==
    /\ login[w].pc = "failed"
    /\ rows' = [s \in Subjects |-> IF s \in By(login[w].user, login[w].addr) THEN OneMore(rows[s]) ELSE rows[s]]
    /\ login' = [login EXCEPT ![w].pc = "recorded"]
    /\ UNCHANGED wait

\* ... then the check runs again, for the answer.
Recheck(w) ==
    /\ login[w].pc = "recorded"
    /\ rows' = Cleaned(rows)
    /\ wait' = Announced(rows, login[w].user, login[w].addr)
    /\ login' = [login EXCEPT ![w] = Nobody]

\* clear_login_failures of both subjects, then create_session (AuthSessions).
ClearFailures(w) ==
    /\ login[w].pc = "passed"
    /\ LET who == By(login[w].user, login[w].addr)
       IN  /\ rows' = [s \in Subjects |-> IF s \in who THEN {} ELSE rows[s]]
           /\ wait' = [s \in Subjects |-> IF s \in who THEN 0 ELSE wait[s]]
    /\ login' = [login EXCEPT ![w] = Nobody]

\* Time passes: every row gets older.
Older(f) == {[r EXCEPT !.age = IF @ =< Window THEN @ + 1 ELSE @] : r \in f}
Tick == /\ rows' = [s \in Subjects |-> Older(rows[s])]
        /\ wait' = [s \in Subjects |-> Max({0, wait[s] - 1})]
        /\ UNCHANGED login

Next == \/ \E w \in Threads : \/ \E u \in Users, a \in Addresses : Check(w, u, a)
                              \/ Authenticate(w) \/ RecordFailure(w) \/ Recheck(w) \/ ClearFailures(w)
        \/ Tick

Spec == Init /\ [][Next]_vars
\* Time passes; nobody has to try, or to finish trying.
FairSpec == Spec /\ WF_vars(Tick)
----------------------------------------------------------------------------
TypeOK == /\ rows \in [Subjects -> SUBSET Attempt] /\ \A s \in Subjects : IsFiniteSet(rows[s])
          /\ login \in [Threads -> Login \cup {Nobody}]
          /\ wait \in [Subjects -> 0..Window]

\* The logins of a subject that were let through and have not left a row.
UnderWay(s) == {w \in Threads : /\ login[w] # Nobody /\ login[w].pc # "recorded"
                                /\ s \in By(login[w].user, login[w].addr)}

\* The limit holds up to the logins that were checked before it was reached: the failures in a
\* window and the logins under way are never more than Limit and one for each thread
\* (check_login_allowed before, record_login_failure after the password).
WindowBound == \A s \in Subjects : Count(rows[s]) + Cardinality(UnderWay(s)) =< Limit + Cardinality(Threads)

\* A wait that was announced is real: until it is over the subject stays locked, whoever tries in
\* the meantime, unless a login that was under way succeeds and clears it
\* (check_login_allowed, _recent_attempt_rows).
WaitIsReal == \A s \in Subjects : wait[s] > 0 => Locked(rows[s])

\* No lock is for ever: being tried while locked does not prolong it (a blocked login leaves no
\* row, and rows leave the window).
LocksEnd == \A s \in Subjects : Locked(rows[s]) ~> ~Locked(rows[s])
=============================================================================
