------------------------ MODULE LoginThrottleProofs ------------------------
(* What holds of the throttle for any users, addresses, logins under way,    *)
(* limit and window, with no bound on time or on the number of rows.         *)
EXTENDS LoginThrottle, FiniteSetTheorems, WellFoundedInduction, TLAPS

\* Rows of one subject: finitely many, those of age 0 numbered from 0, which keeps a new row apart.
New(f) == {r \in f : r.age = 0}
Good(f) == /\ f \in SUBSET Attempt /\ IsFiniteSet(f)
           /\ \A r \in New(f) : r.nr < Cardinality(New(f))

\* The rows that still count when all but one tick of a wait of k have passed.
Staying(f, k) == {r \in f : r.age + k - 1 =< Window}

\* More rows than the limit outlast every wait that was announced.
Outlasted(rs, wt) == \A s \in Subjects : wt[s] > 0 => Cardinality(Staying(rs[s], wt[s])) > Limit

IInv == /\ rows \in [Subjects -> SUBSET Attempt] /\ \A s \in Subjects : Good(rows[s])
        /\ login \in [Threads -> Login \cup {Nobody}]
        /\ wait \in [Subjects -> 0..Window]
        /\ WindowBound
        /\ Outlasted(rows, wait)
----------------------------------------------------------------------------
(* The operators on rows.                                                  *)

\* A finite set of numbers that is not empty has a largest one.
LEMMA Largest ==
    ASSUME NEW S \in SUBSET Int, IsFiniteSet(S), S # {}
    PROVE  Max(S) \in S /\ \A y \in S : y =< Max(S)
<1> DEFINE Above(x) == {y \in S : y > x}
           T == {Above(x) : x \in S}
<1>1. IsWellFoundedOn(StrictSubsetOrdering(S), FiniteSubsetsOf(S))
  BY FS_StrictSubsetOrderingWellFounded
<1>2. T \subseteq FiniteSubsetsOf(S) /\ T # {}
  <2>1. \A x \in S : Above(x) \in SUBSET S
    OBVIOUS
  <2>2. FiniteSubsetsOf(S) = SUBSET S
    BY FS_FiniteSubsetsOfFinite
  <2>3. PICK x \in S : TRUE
    OBVIOUS
  <2> HIDE DEF Above
  <2>4. Above(x) \in T
    OBVIOUS
  <2>. QED BY <2>1, <2>2, <2>4
<1>3. PICK U \in T : \A V \in T : ~ (<<V, U>> \in StrictSubsetOrdering(S))
  BY <1>1, <1>2, WFMin
<1>4. PICK x \in S : U = Above(x)
  OBVIOUS
<1>5. Above(x) = {}
  <2>1. SUFFICES ASSUME NEW y \in Above(x) PROVE FALSE
    OBVIOUS
  <2>2. y \in S /\ y > x /\ Above(y) \in T
    OBVIOUS
  <2>3. Above(y) \subseteq Above(x) /\ y \notin Above(y)
    <3>1. \A z \in S : z > y => z > x
      BY <2>2
    <3>2. ~ (y > y)
      BY <2>2
    <3>. QED BY <3>1, <3>2
  <2>4. <<Above(y), Above(x)>> \in StrictSubsetOrdering(S)
    BY <2>1, <2>3 DEF StrictSubsetOrdering
  <2>. QED BY <1>3, <1>4, <2>2, <2>4
<1>6. x \in S /\ \A y \in S : x >= y
  BY <1>5
<1>. QED BY <1>6 DEF Max

\* The larger of two numbers.
LEMMA Larger ==
    ASSUME NEW a \in Int, NEW b \in Int
    PROVE  Max({a, b}) = IF a >= b THEN a ELSE b
<1>1. {a, b} \in SUBSET Int /\ {a, b} # {} /\ IsFiniteSet({a, b})
  <2>1. IsFiniteSet({a}) /\ {a, b} = {a} \cup {b}
    BY FS_Singleton
  <2>. QED BY <2>1, FS_AddElement
<1>2. Max({a, b}) \in {a, b} /\ a =< Max({a, b}) /\ b =< Max({a, b})
  BY <1>1, Largest
<1>. QED BY <1>2

\* Some rows of a subject are finitely many.
LEMMA Some ==
    ASSUME NEW f, Good(f), NEW S \in SUBSET f
    PROVE  IsFiniteSet(S) /\ Cardinality(S) \in Nat /\ \A T \in SUBSET S : Cardinality(T) =< Cardinality(S)
BY FS_Subset, FS_CardinalityType DEF Good

\* The wait that is announced is within the window, and the rows that count now outlast it.
LEMMA WaitOK ==
    ASSUME NEW f, Good(f), Locked(f)
    PROVE  RetryAfter(f) \in 1..Window /\ Cardinality(Staying(f, RetryAfter(f))) > Limit
<1> DEFINE R == Recent(f)
           A == {r.age : r \in R}
           oldest == Max(A)
           k == RetryAfter(f)
<1>0. Window \in Nat \ {0} /\ Limit \in Nat
  BY WindowAssumption, LimitAssumption
<1>1. R \in SUBSET f /\ \A r \in R : r.age \in 0..Window /\ r \in f
  BY <1>0 DEF Recent, Good, Attempt, Ages
<1>2. Cardinality(R) \in Nat /\ Cardinality(R) > Limit /\ R # {}
  BY <1>0, <1>1, Some, FS_EmptySet DEF Locked, Count
<1> HIDE DEF R
<1>3. A \in SUBSET Int /\ IsFiniteSet(A) /\ A # {}
  <2>1. A \in SUBSET (0..Window) /\ IsFiniteSet(0..Window)
    BY <1>0, <1>1, FS_Interval
  <2>2. A # {}
    BY <1>2
  <2>3. IsFiniteSet(A)
    BY <2>1, FS_Subset
  <2>. QED BY <2>1, <2>2, <2>3
<1>4. oldest \in 0..Window /\ \A r \in R : r.age =< oldest
  BY <1>1, <1>3, Largest
<1>5. k = IF 1 >= Window - oldest THEN 1 ELSE Window - oldest
  <2>1. k = Max({1, Window - oldest})
    BY DEF RetryAfter, R
  <2>2. Window - oldest \in Int
    BY <1>0, <1>4
  <2> HIDE DEF k, oldest
  <2>. QED BY <2>1, <2>2, Larger
<1> HIDE DEF k, oldest, A
<1>6. k \in 1..Window /\ \A r \in R : r.age + k - 1 =< Window
  BY <1>0, <1>1, <1>4, <1>5
<1>7. R \in SUBSET Staying(f, k) /\ Staying(f, k) \in SUBSET f
  BY <1>1, <1>6 DEF Staying
<1>8. Cardinality(R) =< Cardinality(Staying(f, k)) /\ Cardinality(Staying(f, k)) \in Nat
  BY <1>7, Some
<1>. QED BY <1>0, <1>2, <1>6, <1>8 DEF k

\* Removing the rows that do not count changes no count.
LEMMA RecentOK ==
    ASSUME NEW f, Good(f)
    PROVE  /\ Good(Recent(f)) /\ Count(Recent(f)) = Count(f)
           /\ \A k \in Nat \ {0} : Staying(Recent(f), k) = Staying(f, k)
<1>0. Window \in Nat \ {0} /\ \A r \in f : r.age \in Nat
  BY WindowAssumption DEF Good, Attempt, Ages
<1>1. Recent(Recent(f)) = Recent(f) /\ Recent(f) \in SUBSET f
  BY DEF Recent
<1>2. New(Recent(f)) = New(f)
  BY <1>0 DEF Recent, New
<1>3. \A k \in Nat \ {0} : Staying(Recent(f), k) = Staying(f, k)
  BY <1>0 DEF Recent, Staying
<1>4. IsFiniteSet(Recent(f)) /\ Recent(f) \in SUBSET Attempt
  BY <1>1, Some DEF Good
<1>. QED BY <1>1, <1>2, <1>3, <1>4 DEF Count, Good

\* A new row is one more.
LEMMA OneMoreOK ==
    ASSUME NEW f, Good(f)
    PROVE  /\ Good(OneMore(f)) /\ Count(OneMore(f)) = Count(f) + 1
           /\ f \in SUBSET OneMore(f)
<1> DEFINE n == Cardinality(New(f))
           x == [age |-> 0, nr |-> n]
<1>0. Window \in Nat \ {0} /\ f \in SUBSET Attempt /\ IsFiniteSet(f)
  BY WindowAssumption DEF Good
<1>1. OneMore(f) = f \cup {x}
  BY DEF OneMore, New
<1>2. n \in Nat /\ New(f) \in SUBSET f /\ IsFiniteSet(New(f))
  <2>1. New(f) \in SUBSET f
    BY DEF New
  <2>. QED BY <2>1, Some
<1>3. x \in Attempt /\ x \notin f /\ x.age = 0 /\ x.nr = n
  <2>1. x \in Attempt /\ x.age = 0 /\ x.nr = n
    BY <1>0, <1>2 DEF Attempt, Ages
  <2>2. x \notin New(f)
    BY <1>2, <2>1 DEF Good
  <2>. QED BY <2>1, <2>2 DEF New
<1> HIDE DEF x, n
<1>4. New(OneMore(f)) = New(f) \cup {x} /\ x \notin New(f)
  BY <1>1, <1>3 DEF New
<1>5. Cardinality(New(OneMore(f))) = n + 1
  BY <1>2, <1>4, FS_AddElement DEF n
<1>6. IsFiniteSet(OneMore(f)) /\ OneMore(f) \in SUBSET Attempt
  BY <1>0, <1>1, <1>3, FS_AddElement
<1>7. ASSUME NEW r \in New(OneMore(f)) PROVE r.nr < n + 1
  <2>1. CASE r = x
    BY <1>2, <1>3, <2>1
  <2>2. CASE r \in New(f)
    <3>1. r.nr < n /\ r.nr \in Nat
      BY <1>0, <1>2, <2>2 DEF Good, n, Attempt
    <3>. QED BY <1>2, <3>1
  <2>. QED BY <1>4, <2>1, <2>2
<1>8. Recent(OneMore(f)) = Recent(f) \cup {x} /\ x \notin Recent(f)
  BY <1>0, <1>1, <1>3 DEF Recent
<1>9. IsFiniteSet(Recent(f))
  <2>1. Recent(f) \in SUBSET f
    BY DEF Recent
  <2>. QED BY <2>1, Some
<1>10. Count(OneMore(f)) = Count(f) + 1
  BY <1>8, <1>9, FS_AddElement DEF Count
<1>. QED BY <1>1, <1>5, <1>6, <1>7, <1>10 DEF Good

\* Time makes no row count that did not, and a row that outlasts a wait outlasts what is left of it.
LEMMA OlderOK ==
    ASSUME NEW f, Good(f)
    PROVE  /\ Good(Older(f)) /\ Count(Older(f)) =< Count(f)
           /\ \A k \in Nat : k > 1 => Cardinality(Staying(Older(f), k - 1)) = Cardinality(Staying(f, k))
<1> DEFINE Aged(r) == [r EXCEPT !.age = IF @ =< Window THEN @ + 1 ELSE @]
<1>0. Window \in Nat \ {0} /\ f \in SUBSET Attempt /\ IsFiniteSet(f)
  BY WindowAssumption DEF Good
<1>1. Older(f) = {Aged(r) : r \in f}
  BY DEF Older
<1>2. \A r \in f : /\ Aged(r) \in Attempt /\ r.age \in Nat /\ r.age =< Window + 1
                   /\ Aged(r).nr = r.nr /\ Aged(r).age = IF r.age =< Window THEN r.age + 1 ELSE r.age
  BY <1>0 DEF Attempt, Ages
<1>3. \A r, q \in f : r.age =< Window /\ Aged(q) = Aged(r) /\ q.age =< Window => q = r
  <2> SUFFICES ASSUME NEW r \in f, NEW q \in f, r.age =< Window, Aged(q) = Aged(r), q.age =< Window
               PROVE  q = r
    OBVIOUS
  <2>1. q.nr = r.nr /\ q.age = r.age
    <3>1. Aged(r).age = r.age + 1 /\ Aged(q).age = q.age + 1 /\ Aged(r).nr = r.nr /\ Aged(q).nr = q.nr
      BY <1>2
    <3>2. r.age + 1 = q.age + 1 /\ r.nr = q.nr
      BY <3>1
    <3>3. r.age \in Nat /\ q.age \in Nat
      BY <1>2
    <3>. QED BY <3>2, <3>3
  <2>. QED BY <1>0, <2>1 DEF Attempt
<1> HIDE DEF Aged
<1> DEFINE g == [r \in f |-> Aged(r)]
<1>4. IsFiniteSet(Older(f)) /\ Older(f) \in SUBSET Attempt
  <2>1. g \in Surjection(f, Older(f))
    BY <1>1 DEF Surjection
  <2>2. IsFiniteSet(Older(f))
    BY <1>0, <2>1, FS_Surjection
  <2>. QED BY <1>1, <1>2, <2>2
<1>5. New(Older(f)) = {}
  <2>1. ASSUME NEW r \in f PROVE Aged(r).age # 0
    BY <1>0, <1>2
  <2>. QED BY <1>1, <2>1 DEF New
<1>6. ASSUME NEW k \in Nat, k > 1
      PROVE  Cardinality(Staying(Older(f), k - 1)) = Cardinality(Staying(f, k))
  <2> DEFINE S == Staying(f, k)
             T == Staying(Older(f), k - 1)
             h == [r \in S |-> Aged(r)]
  <2>1. S \in SUBSET f /\ \A r \in S : r.age =< Window /\ r.age + k - 1 =< Window
    BY <1>0, <1>2, <1>6 DEF Staying
  <2>2. \A r \in f : Aged(r) \in T <=> r \in S
    <3>1. ASSUME NEW r \in f PROVE Aged(r) \in T <=> r \in S
      <4>1. Aged(r) \in Older(f)
        BY <1>1
      <4>2. r.age + k - 1 =< Window <=> Aged(r).age + (k - 1) - 1 =< Window
        BY <1>0, <1>2, <1>6
      <4>. QED BY <4>1, <4>2 DEF Staying
    <3>. QED BY <3>1
  <2>3. T \subseteq {Aged(r) : r \in f}
    BY <1>1 DEF Staying
  <2> HIDE DEF S, T
  <2>4. h \in Bijection(S, T)
    <3>1. h \in [S -> T]
      BY <2>1, <2>2
    <3>2. \A r, q \in S : h[r] = h[q] => r = q
      BY <1>3, <2>1
    <3>3. \A t \in T : \E r \in S : h[r] = t
      BY <2>1, <2>2, <2>3
    <3>. QED BY <3>1, <3>2, <3>3 DEF Bijection, Injection, Surjection, IsInjective
  <2>5. IsFiniteSet(S)
    BY <2>1, Some
  <2>6. ExistsBijection(S, T)
    BY <2>4 DEF ExistsBijection
  <2>7. Cardinality(T) = Cardinality(S)
    BY <2>5, <2>6, FS_Bijection
  <2>. QED BY <2>7 DEF S, T
<1>7. Count(Older(f)) =< Count(f)
  <2> DEFINE S == {r \in f : r.age + 1 =< Window}
             h == [r \in S |-> Aged(r)]
  <2>1. \A r \in f : Aged(r).age =< Window <=> r \in S
    BY <1>0, <1>2
  <2>2. h \in Surjection(S, Recent(Older(f)))
    <3>1. h \in [S -> Recent(Older(f))]
      BY <1>1, <2>1 DEF Recent
    <3>2. \A t \in Recent(Older(f)) : \E r \in S : h[r] = t
      BY <1>1, <2>1 DEF Recent
    <3>. QED BY <3>1, <3>2 DEF Surjection
  <2>3. S \in SUBSET Recent(f) /\ Recent(f) \in SUBSET f
    BY <1>0, <1>2 DEF Recent
  <2>4. IsFiniteSet(S) /\ Cardinality(S) =< Cardinality(Recent(f)) /\ Cardinality(Recent(f)) \in Nat
        /\ Cardinality(S) \in Nat
    BY <2>3, Some
  <2> HIDE DEF S, h
  <2>5. Cardinality(Recent(Older(f))) =< Cardinality(S) /\ IsFiniteSet(Recent(Older(f)))
    BY <2>2, <2>4, FS_Surjection
  <2>6. Cardinality(Recent(Older(f))) \in Nat
    BY <2>5, FS_CardinalityType
  <2>. QED BY <2>4, <2>5, <2>6 DEF Count
<1>. QED BY <1>4, <1>5, <1>6, <1>7 DEF Good
----------------------------------------------------------------------------
(* The steps.                                                              *)

\* Some threads are finitely many.
LEMMA ThreadsOK ==
    ASSUME NEW S \in SUBSET Threads
    PROVE  /\ IsFiniteSet(S) /\ Cardinality(S) \in Nat /\ Cardinality(Threads) \in Nat
           /\ Cardinality(S) =< Cardinality(Threads)
           /\ \A T \in SUBSET S : Cardinality(T) =< Cardinality(S) /\ Cardinality(T) \in Nat
<1>1. IsFiniteSet(S) /\ Cardinality(S) =< Cardinality(Threads)
  BY ThreadsAssumption, FS_Subset
<1>2. \A T \in SUBSET S : IsFiniteSet(T) /\ Cardinality(T) =< Cardinality(S)
  BY <1>1, FS_Subset
<1>. QED BY <1>1, <1>2, ThreadsAssumption, FS_CardinalityType

\* How many rows of a subject count is a number.
LEMMA CountType ==
    ASSUME NEW f, Good(f)
    PROVE  Count(f) \in Nat
<1>1. Recent(f) \in SUBSET f
  BY DEF Recent
<1>. QED BY <1>1, Some DEF Count

\* The cleanup keeps the rows that count.
LEMMA CleanedOK ==
    ASSUME IInv
    PROVE  /\ Cleaned(rows) \in [Subjects -> SUBSET Attempt]
           /\ \A s \in Subjects : Good(Cleaned(rows)[s]) /\ Count(Cleaned(rows)[s]) = Count(rows[s])
<1>1. \A s \in Subjects : Cleaned(rows)[s] = Recent(rows[s])
  BY DEF Cleaned
<1>2. \A s \in Subjects : Good(Recent(rows[s])) /\ Count(Recent(rows[s])) = Count(rows[s])
  BY RecentOK DEF IInv
<1>3. \A s \in Subjects : Recent(rows[s]) \in SUBSET Attempt
  BY <1>2 DEF Good
<1>. QED BY <1>1, <1>2, <1>3 DEF Cleaned

\* What a check announces is outlasted by the rows that are left (check_login_allowed).
LEMMA AnnouncedOK ==
    ASSUME IInv, NEW u, NEW a, NEW new, new = Announced(rows, u, a)
    PROVE  new \in [Subjects -> 0..Window] /\ Outlasted(Cleaned(rows), new)
<1>0. Window \in Nat \ {0} /\ wait \in [Subjects -> 0..Window]
  BY WindowAssumption DEF IInv
<1>1. ASSUME NEW s \in Subjects
      PROVE  /\ new[s] \in 0..Window
             /\ new[s] > 0 => Cardinality(Staying(Cleaned(rows)[s], new[s])) > Limit
  <2>1. Good(rows[s]) /\ (wait[s] > 0 => Cardinality(Staying(rows[s], wait[s])) > Limit) /\ wait[s] \in 0..Window
    BY <1>0 DEF IInv, Outlasted
  <2>2. new[s] \in 0..Window /\ (new[s] > 0 => Cardinality(Staying(rows[s], new[s])) > Limit)
    <3>1. CASE s \in FirstLocked(rows, u, a)
      <4>1. Locked(rows[s])
        BY <3>1 DEF FirstLocked
      <4> DEFINE k == RetryAfter(rows[s])
      <4>2. k \in 1..Window /\ Cardinality(Staying(rows[s], k)) > Limit
        BY <2>1, <4>1, WaitOK
      <4>3. new[s] = Max({wait[s], k})
        BY <3>1 DEF Announced
      <4> HIDE DEF k
      <4>4. new[s] = IF wait[s] >= k THEN wait[s] ELSE k
        BY <1>0, <2>1, <4>2, <4>3, Larger
      <4>. QED BY <1>0, <2>1, <4>2, <4>4
    <3>2. CASE s \notin FirstLocked(rows, u, a)
      <4>1. new[s] = wait[s]
        BY <3>2 DEF Announced
      <4>. QED BY <2>1, <4>1
    <3>. QED BY <3>1, <3>2
  <2>3. new[s] > 0 => Staying(Cleaned(rows)[s], new[s]) = Staying(rows[s], new[s])
    <3>1. new[s] \in Nat /\ Cleaned(rows)[s] = Recent(rows[s])
      BY <2>2 DEF Cleaned
    <3>. QED BY <2>1, <3>1, RecentOK
  <2>. QED BY <2>2, <2>3
<1>2. new = [s \in Subjects |-> new[s]]
  BY DEF Announced
<1>. QED BY <1>1, <1>2 DEF Outlasted

\* A login that is let through is one more under way, and its subjects are within the limit.
LEMMA CheckStep ==
    ASSUME IInv, NEW w \in Threads, NEW u \in Users, NEW a \in Addresses, Check(w, u, a)
    PROVE  IInv'
<1> DEFINE now == [pc |-> "password", user |-> u, addr |-> a]
<1>1. rows' = Cleaned(rows) /\ wait' = Announced(rows, u, a) /\ login[w] = Nobody
  BY DEF Check
<1>2. login' = login \/ (FirstLocked(rows, u, a) = {} /\ login' = [login EXCEPT ![w] = now])
  BY DEF Check
<1>3. now \in Login /\ login \in [Threads -> Login \cup {Nobody}] /\ u \in Subjects /\ a \in Subjects
  BY DEF Login, IInv, Subjects
<1>4. login' \in [Threads -> Login \cup {Nobody}]
  BY <1>2, <1>3
<1>5. ASSUME NEW s \in Subjects
      PROVE  Count(rows'[s]) + Cardinality(UnderWay(s)') =< Limit + Cardinality(Threads)
  <2>1. Count(rows'[s]) = Count(rows[s]) /\ Count(rows[s]) \in Nat
    BY <1>1, CleanedOK, CountType DEF IInv
  <2>2. UnderWay(s)' \in SUBSET Threads /\ UnderWay(s) \in SUBSET Threads
    BY DEF UnderWay
  <2>3. Cardinality(UnderWay(s)') =< Cardinality(Threads) /\ Cardinality(UnderWay(s)') \in Nat
        /\ Cardinality(Threads) \in Nat /\ Limit \in Nat
    BY <2>2, ThreadsOK, LimitAssumption
  <2>4. CASE UnderWay(s)' = UnderWay(s)
    BY <2>1, <2>4 DEF IInv, WindowBound
  <2>5. CASE UnderWay(s)' # UnderWay(s)
    <3>1. FirstLocked(rows, u, a) = {} /\ login' = [login EXCEPT ![w] = now]
      BY <1>2, <2>5 DEF UnderWay
    <3>2. s \in By(u, a)
      <4>1. SUFFICES ASSUME s \notin By(u, a) PROVE FALSE
        OBVIOUS
      <4>2. \A v \in Threads : login'[v] = IF v = w THEN now ELSE login[v]
        BY <1>3, <3>1
      <4>3. now.user = u /\ now.addr = a
        OBVIOUS
      <4> HIDE DEF now
      <4>. QED BY <1>1, <2>5, <4>1, <4>2, <4>3 DEF UnderWay
    <3>3. ~ Locked(rows[s])
      BY <3>1, <3>2 DEF FirstLocked, By
    <3>. QED BY <2>1, <2>3, <3>3 DEF Locked
  <2>. QED BY <2>4, <2>5
<1>. QED BY <1>1, <1>4, <1>5, CleanedOK, AnnouncedOK DEF IInv, WindowBound

\* What is under way when one thread moves on.
LEMMA OneMoves ==
    ASSUME IInv, NEW w \in Threads, login[w] # Nobody, NEW now, login' = [login EXCEPT ![w] = now]
    PROVE  /\ login[w] \in Login /\ login'[w] = now
           /\ \A v \in Threads \ {w} : login'[v] = login[v]
           /\ now \in Login \cup {Nobody} => login' \in [Threads -> Login \cup {Nobody}]
BY DEF IInv

\* A password is right or wrong.
LEMMA AuthenticateStep ==
    ASSUME IInv, NEW w \in Threads, Authenticate(w)
    PROVE  IInv'
<1>. PICK pc \in {"failed", "passed"} : login' = [login EXCEPT ![w].pc = pc]
  BY DEF Authenticate
<1> DEFINE now == [login[w] EXCEPT !.pc = pc]
<1>1. login[w].pc = "password" /\ UNCHANGED <<rows, wait>>
  BY DEF Authenticate
<1>2. login[w] # Nobody /\ login \in [Threads -> Login \cup {Nobody}]
  BY <1>1 DEF Nobody, IInv
<1>3. login' = [login EXCEPT ![w] = now]
  BY <1>2
<1>4. login[w] \in Login
  BY <1>2
<1>5. now \in Login /\ now.pc = pc /\ now.user = login[w].user /\ now.addr = login[w].addr /\ now # Nobody
  <2>1. now \in Login /\ now.pc = pc /\ now.user = login[w].user /\ now.addr = login[w].addr
    BY <1>4 DEF Login
  <2>. QED BY <2>1 DEF Nobody
<1> HIDE DEF now
<1>6. /\ login'[w] = now /\ \A v \in Threads \ {w} : login'[v] = login[v]
      /\ login' \in [Threads -> Login \cup {Nobody}]
  BY <1>2, <1>3, <1>5, OneMoves
<1>7. \A s \in Subjects : UnderWay(s)' = UnderWay(s)
  BY <1>1, <1>2, <1>5, <1>6 DEF UnderWay
<1>. QED BY <1>1, <1>6, <1>7 DEF IInv, WindowBound, Outlasted

\* A login that failed leaves a row for each of its subjects, and is not under way any more.
LEMMA RecordStep ==
    ASSUME IInv, NEW w \in Threads, RecordFailure(w)
    PROVE  IInv'
<1> DEFINE now == [login[w] EXCEPT !.pc = "recorded"]
           who == By(login[w].user, login[w].addr)
<1>1. /\ login[w].pc = "failed" /\ UNCHANGED wait /\ login' = [login EXCEPT ![w] = now]
      /\ rows' = [s \in Subjects |-> IF s \in who THEN OneMore(rows[s]) ELSE rows[s]]
  BY DEF RecordFailure
<1>2. login[w] # Nobody /\ login \in [Threads -> Login \cup {Nobody}]
  BY <1>1 DEF Nobody, IInv
<1>3. now \in Login /\ now.pc = "recorded"
  <2>1. login[w] \in Login
    BY <1>2
  <2>. QED BY <2>1 DEF Login
<1>4. /\ login'[w] = now /\ \A v \in Threads \ {w} : login'[v] = login[v]
      /\ login' \in [Threads -> Login \cup {Nobody}]
  BY <1>1, <1>2, <1>3, OneMoves
<1> HIDE DEF now
<1>5. ASSUME NEW s \in Subjects
      PROVE  /\ Good(rows'[s]) /\ rows[s] \in SUBSET rows'[s]
             /\ Count(rows'[s]) = IF s \in who THEN Count(rows[s]) + 1 ELSE Count(rows[s])
  <2>1. Good(rows[s]) /\ rows'[s] = IF s \in who THEN OneMore(rows[s]) ELSE rows[s]
    BY <1>1 DEF IInv
  <2>. QED BY <2>1, OneMoreOK
<1>6. ASSUME NEW s \in Subjects
      PROVE  Count(rows'[s]) + Cardinality(UnderWay(s)') =< Limit + Cardinality(Threads)
  <2>1. UnderWay(s) \in SUBSET Threads /\ Count(rows[s]) \in Nat /\ Limit \in Nat
    BY CountType, LimitAssumption DEF UnderWay, IInv
  <2>2. IsFiniteSet(UnderWay(s)) /\ Cardinality(UnderWay(s)) \in Nat /\ Cardinality(Threads) \in Nat
    BY <2>1, ThreadsOK
  <2>3. Count(rows[s]) + Cardinality(UnderWay(s)) =< Limit + Cardinality(Threads)
    BY DEF IInv, WindowBound
  <2>4. CASE s \in who
    <3>1. w \in UnderWay(s)
      BY <1>1, <1>2, <2>4 DEF UnderWay
    <3>2. UnderWay(s)' = UnderWay(s) \ {w}
      BY <1>3, <1>4 DEF UnderWay
    <3>3. Cardinality(UnderWay(s)') = Cardinality(UnderWay(s)) - 1
      BY <2>2, <3>1, <3>2, FS_RemoveElement
    <3>4. Count(rows'[s]) = Count(rows[s]) + 1
      BY <1>5, <2>4
    <3>. QED BY <2>1, <2>2, <2>3, <3>3, <3>4
  <2>5. CASE s \notin who
    <3>1. UnderWay(s)' = UnderWay(s)
      BY <1>3, <1>4, <2>5 DEF UnderWay
    <3>. QED BY <1>5, <2>3, <2>5, <3>1
  <2>. QED BY <2>4, <2>5
<1>7. Outlasted(rows', wait')
  <2> SUFFICES ASSUME NEW s \in Subjects, wait'[s] > 0
               PROVE  Cardinality(Staying(rows'[s], wait'[s])) > Limit
    BY DEF Outlasted
  <2>1. Cardinality(Staying(rows[s], wait[s])) > Limit /\ wait'[s] = wait[s]
    BY <1>1 DEF IInv, Outlasted
  <2>2. Staying(rows[s], wait[s]) \in SUBSET Staying(rows'[s], wait[s]) /\ Staying(rows'[s], wait[s]) \in SUBSET rows'[s]
        /\ Staying(rows[s], wait[s]) \in SUBSET rows[s]
    BY <1>5 DEF Staying
  <2>3. /\ Cardinality(Staying(rows[s], wait[s])) =< Cardinality(Staying(rows'[s], wait[s]))
        /\ Cardinality(Staying(rows'[s], wait[s])) \in Nat
    BY <1>5, <2>2, Some
  <2>4. Cardinality(Staying(rows[s], wait[s])) \in Nat /\ Limit \in Nat
    BY <2>2, Some, LimitAssumption DEF IInv
  <2>. QED BY <2>1, <2>3, <2>4
<1>8. rows' \in [Subjects -> SUBSET Attempt]
  BY <1>1, <1>5 DEF Good
<1>. QED BY <1>1, <1>4, <1>5, <1>6, <1>7, <1>8 DEF IInv, WindowBound

\* The check for the answer of a failed login; nobody gets under way.
LEMMA RecheckStep ==
    ASSUME IInv, NEW w \in Threads, Recheck(w)
    PROVE  IInv'
<1>1. /\ login[w].pc = "recorded" /\ rows' = Cleaned(rows)
      /\ wait' = Announced(rows, login[w].user, login[w].addr)
      /\ login' = [login EXCEPT ![w] = Nobody]
  BY DEF Recheck
<1>2. login[w] # Nobody
  BY <1>1 DEF Nobody
<1>3. /\ login'[w] = Nobody /\ \A v \in Threads \ {w} : login'[v] = login[v]
      /\ login' \in [Threads -> Login \cup {Nobody}]
  BY <1>1, <1>2, OneMoves
<1>4. \A s \in Subjects : UnderWay(s)' = UnderWay(s)
  BY <1>1, <1>3 DEF UnderWay
<1>5. \A s \in Subjects : Count(rows'[s]) = Count(rows[s])
  BY <1>1, CleanedOK
<1>6. WindowBound'
  BY <1>4, <1>5 DEF IInv, WindowBound
<1>. QED BY <1>1, <1>3, <1>6, CleanedOK, AnnouncedOK DEF IInv

\* A login that succeeds clears its subjects.
LEMMA ClearStep ==
    ASSUME IInv, NEW w \in Threads, ClearFailures(w)
    PROVE  IInv'
<1> DEFINE who == By(login[w].user, login[w].addr)
<1>1. /\ login[w].pc = "passed" /\ login' = [login EXCEPT ![w] = Nobody]
      /\ rows' = [s \in Subjects |-> IF s \in who THEN {} ELSE rows[s]]
      /\ wait' = [s \in Subjects |-> IF s \in who THEN 0 ELSE wait[s]]
  BY DEF ClearFailures
<1>2. login[w] # Nobody
  BY <1>1 DEF Nobody
<1>3. /\ login'[w] = Nobody /\ \A v \in Threads \ {w} : login'[v] = login[v]
      /\ login' \in [Threads -> Login \cup {Nobody}]
  BY <1>1, <1>2, OneMoves
<1>4. Good({}) /\ Count({}) = 0
  BY FS_EmptySet DEF Good, New, Count, Recent
<1> HIDE DEF who
<1>5. ASSUME NEW s \in Subjects
      PROVE  /\ Good(rows'[s]) /\ wait'[s] \in 0..Window
             /\ wait'[s] > 0 => Cardinality(Staying(rows'[s], wait'[s])) > Limit
             /\ Count(rows'[s]) + Cardinality(UnderWay(s)') =< Limit + Cardinality(Threads)
  <2>1. Good(rows[s]) /\ wait[s] \in 0..Window /\ Window \in Nat
        /\ (wait[s] > 0 => Cardinality(Staying(rows[s], wait[s])) > Limit)
    BY WindowAssumption DEF IInv, Outlasted
  <2>2. UnderWay(s)' \in SUBSET UnderWay(s) /\ UnderWay(s) \in SUBSET Threads
    BY <1>3 DEF UnderWay
  <2>3. Cardinality(UnderWay(s)') =< Cardinality(UnderWay(s)) /\ Cardinality(UnderWay(s)) =< Cardinality(Threads)
        /\ Cardinality(UnderWay(s)') \in Nat /\ Cardinality(UnderWay(s)) \in Nat /\ Cardinality(Threads) \in Nat
    BY <2>2, ThreadsOK
  <2>4. Count(rows[s]) + Cardinality(UnderWay(s)) =< Limit + Cardinality(Threads) /\ Count(rows[s]) \in Nat
        /\ Limit \in Nat
    BY <2>1, CountType, LimitAssumption DEF IInv, WindowBound
  <2>5. CASE s \in who
    <3>1. rows'[s] = {} /\ wait'[s] = 0
      BY <1>1, <2>5
    <3>. QED BY <1>4, <2>1, <2>3, <2>4, <3>1
  <2>6. CASE s \notin who
    <3>1. rows'[s] = rows[s] /\ wait'[s] = wait[s]
      BY <1>1, <2>6
    <3>. QED BY <2>1, <2>3, <2>4, <3>1
  <2>. QED BY <2>5, <2>6
<1>6. rows' \in [Subjects -> SUBSET Attempt] /\ wait' \in [Subjects -> 0..Window]
  <2>1. rows' = [s \in Subjects |-> rows'[s]] /\ wait' = [s \in Subjects |-> wait'[s]]
    BY <1>1
  <2>. QED BY <1>5, <2>1 DEF Good
<1>. QED BY <1>3, <1>5, <1>6 DEF IInv, WindowBound, Outlasted

\* Time passes for the rows and the waits alike.
LEMMA TickStep ==
    ASSUME IInv, Tick
    PROVE  IInv'
<1>1. /\ rows' = [s \in Subjects |-> Older(rows[s])] /\ UNCHANGED login
      /\ wait' = [s \in Subjects |-> Max({0, wait[s] - 1})]
  BY DEF Tick
<1>2. ASSUME NEW s \in Subjects
      PROVE  /\ Good(rows'[s]) /\ wait'[s] \in 0..Window
             /\ wait'[s] > 0 => Cardinality(Staying(rows'[s], wait'[s])) > Limit
             /\ Count(rows'[s]) + Cardinality(UnderWay(s)') =< Limit + Cardinality(Threads)
  <2>1. Good(rows[s]) /\ wait[s] \in 0..Window /\ Window \in Nat /\ Limit \in Nat
        /\ (wait[s] > 0 => Cardinality(Staying(rows[s], wait[s])) > Limit)
    BY WindowAssumption, LimitAssumption DEF IInv, Outlasted
  <2>2. wait'[s] = IF 0 >= wait[s] - 1 THEN 0 ELSE wait[s] - 1
    <3>1. wait'[s] = Max({0, wait[s] - 1}) /\ wait[s] - 1 \in Int
      BY <1>1, <2>1
    <3>. QED BY <3>1, Larger
  <2>3. rows'[s] = Older(rows[s]) /\ UnderWay(s)' = UnderWay(s)
    BY <1>1 DEF UnderWay
  <2>4. Good(rows'[s]) /\ Count(rows'[s]) =< Count(rows[s]) /\ Count(rows'[s]) \in Nat /\ Count(rows[s]) \in Nat
    BY <2>1, <2>3, OlderOK, CountType
  <2>5. wait'[s] > 0 => Cardinality(Staying(rows'[s], wait'[s])) > Limit
    <3>1. SUFFICES ASSUME wait'[s] > 0 PROVE Cardinality(Staying(rows'[s], wait'[s])) > Limit
      OBVIOUS
    <3>2. wait[s] \in Nat /\ wait[s] > 1 /\ wait'[s] = wait[s] - 1
      BY <2>1, <2>2, <3>1
    <3>3. Cardinality(Staying(rows'[s], wait'[s])) = Cardinality(Staying(rows[s], wait[s]))
      BY <2>1, <2>3, <3>2, OlderOK
    <3>. QED BY <2>1, <3>2, <3>3
  <2>6. Count(rows'[s]) + Cardinality(UnderWay(s)') =< Limit + Cardinality(Threads)
    <3>1. UnderWay(s) \in SUBSET Threads
      BY DEF UnderWay
    <3>2. Cardinality(UnderWay(s)) \in Nat /\ Cardinality(Threads) \in Nat
      BY <3>1, ThreadsOK
    <3>. QED BY <2>1, <2>3, <2>4, <3>2 DEF IInv, WindowBound
  <2>. QED BY <2>1, <2>2, <2>4, <2>5, <2>6
<1>3. rows' \in [Subjects -> SUBSET Attempt] /\ wait' \in [Subjects -> 0..Window]
  <2>1. rows' = [s \in Subjects |-> rows'[s]] /\ wait' = [s \in Subjects |-> wait'[s]]
    BY <1>1
  <2>. QED BY <1>2, <2>1 DEF Good
<1>. QED BY <1>1, <1>2, <1>3 DEF IInv, WindowBound, Outlasted

\* At the start nothing has failed and nobody waits.
LEMMA InitIInv == Init => IInv
<1>. SUFFICES ASSUME Init PROVE IInv
  OBVIOUS
<1>1. /\ rows = [s \in Subjects |-> {}] /\ login = [w \in Threads |-> Nobody]
      /\ wait = [s \in Subjects |-> 0] /\ Window \in Nat /\ Limit \in Nat
  BY WindowAssumption, LimitAssumption DEF Init
<1>2. Good({}) /\ Count({}) = 0
  BY FS_EmptySet DEF Good, New, Count, Recent
<1>3. \A s \in Subjects : UnderWay(s) = {}
  BY <1>1 DEF UnderWay
<1>4. Cardinality({}) = 0 /\ Cardinality(Threads) \in Nat
  BY FS_EmptySet, ThreadsAssumption, FS_CardinalityType
<1>5. WindowBound
  <2>1. ASSUME NEW s \in Subjects PROVE Count(rows[s]) + Cardinality(UnderWay(s)) =< Limit + Cardinality(Threads)
    <3>1. Count(rows[s]) = 0 /\ Cardinality(UnderWay(s)) = 0
      BY <1>1, <1>2, <1>3, <1>4
    <3>. QED BY <1>1, <1>4, <3>1
  <2>. QED BY <2>1 DEF WindowBound
<1>. QED BY <1>1, <1>2, <1>5 DEF IInv, Outlasted

\* The rows are numbered apart, a row for each failure is paid for by a login under way, and more
\* rows than the limit outlast each wait.
THEOREM Inductive == Spec => []IInv
<1>1. IInv /\ [Next]_vars => IInv'
  <2>1. ASSUME IInv, Next PROVE IInv'
    BY <2>1, CheckStep, AuthenticateStep, RecordStep, RecheckStep, ClearStep, TickStep DEF Next
  <2>2. ASSUME IInv, UNCHANGED vars PROVE IInv'
    BY <2>2 DEF vars, IInv, WindowBound, UnderWay, Outlasted
  <2>. QED BY <2>1, <2>2
<1>. QED BY <1>1, InitIInv, PTL DEF Spec

\* Rows, logins and waits keep their types: no wait is longer than the window (max, expires_at).
THEOREM TypeCorrect == Spec => []TypeOK
<1>1. IInv => TypeOK
  BY DEF IInv, TypeOK, Good
<1>. QED BY <1>1, Inductive, PTL

\* Failures in the window overrun the limit by the logins under way at most.
THEOREM BoundHolds == Spec => []WindowBound
<1>1. IInv => WindowBound
  BY DEF IInv
<1>. QED BY <1>1, Inductive, PTL

\* A wait that was announced is real: who waits is locked until the wait is over.
THEOREM WaitHolds == Spec => []WaitIsReal
<1>1. IInv => WaitIsReal
  <2> SUFFICES ASSUME IInv, NEW s \in Subjects, wait[s] > 0 PROVE Locked(rows[s])
    BY DEF WaitIsReal
  <2>1. Good(rows[s]) /\ wait[s] \in 0..Window /\ Window \in Nat /\ Limit \in Nat
        /\ Cardinality(Staying(rows[s], wait[s])) > Limit
    BY WindowAssumption, LimitAssumption DEF IInv, Outlasted
  <2>2. \A r \in rows[s] : r.age \in Nat
    BY <2>1 DEF Good, Attempt, Ages
  <2>3. Staying(rows[s], wait[s]) \in SUBSET Recent(rows[s]) /\ Recent(rows[s]) \in SUBSET rows[s]
        /\ Staying(rows[s], wait[s]) \in SUBSET rows[s]
    BY <2>1, <2>2 DEF Staying, Recent
  <2>4. /\ Cardinality(Staying(rows[s], wait[s])) =< Cardinality(Recent(rows[s]))
        /\ Cardinality(Staying(rows[s], wait[s])) \in Nat /\ Cardinality(Recent(rows[s])) \in Nat
    BY <2>1, <2>3, Some
  <2>. QED BY <2>1, <2>4 DEF Locked, Count
<1>. QED BY <1>1, Inductive, PTL
=============================================================================
