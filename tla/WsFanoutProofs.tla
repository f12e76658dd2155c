--------------------------- MODULE WsFanoutProofs ---------------------------
(* What holds of the fan-out for any number of processes, sockets and events. *)
EXTENDS WsFanout, TLAPS

\* The parts of an emission.
Pc(i, e) == sends[i][e].pc
Todo(i, e) == sends[i][e].todo
ToldTo(i, e) == sends[i][e].told

\* An emission is for sockets of its process that have been served.
Told == \A i \in Processes, e \in Events :
          /\ \A s \in Todo(i, e) : s \in ToldTo(i, e)
          /\ \A s \in ToldTo(i, e) : s \in Sockets /\ Home[s] = i /\ handler[s] \in {"serving", "ended"}
\* What an emission no longer has to tell has been told.
Done == \A i \in Processes, e \in Events :
          /\ Pc(i, e) \in {"sending", "sent"} =>
               \A s \in ToldTo(i, e) : s \notin Todo(i, e) /\ peer[s] = "open" => e \in Range(got[s])
          /\ Pc(i, e) = "sent" => \A s : s \notin Todo(i, e)
\* What it has yet to tell has not been told before.
Due == \A i \in Processes, e \in Events :
         /\ Pc(i, e) = "sending" => \A s \in Todo(i, e) : e \notin Range(got[s])
         /\ Pc(i, e) = "unsent" => \A s \in Sockets : Home[s] = i => e \notin Range(got[s])
\* A process has broadcast the event and sent it to its own sockets.
SentBy(e) == \E k \in Processes : origin[e] = k /\ Pc(k, e) = "sent"
\* A message is on a channel once, after its own process has sent it and before this one has.
OnWire == \A j \in Processes :
            /\ IsInjective(chan[j])
            /\ \A e \in Range(chan[j]) : /\ SentBy(e)
                                         /\ origin[e] # j => Pc(j, e) = "unsent"
\* What a process sends it has broadcast itself, or got from one that has sent it.
Heard == \A j \in Processes, e \in Events :
           Pc(j, e) # "unsent" /\ origin[e] # j => SentBy(e)
\* The loop is never busy with an event of its own process.
InLoop == \A j \in Processes :
            \A e \in Events : loop[j] = e => origin[e] \in Processes \ {j} /\ Pc(j, e) = "sending"
IInv == TypeOK /\ Membership /\ Told /\ Done /\ Due /\ OnWire /\ Heard /\ InLoop /\ AtMostOnce

\* Sequences: what Append and Tail do to the set of elements and to having none twice.
LEMMA Appended ==
  ASSUME NEW S, NEW q \in Seq(S), NEW x \in S
  PROVE  /\ Append(q, x) \in Seq(S) /\ Range(Append(q, x)) = Range(q) \cup {x}
         /\ IsInjective(q) /\ x \notin Range(q) => IsInjective(Append(q, x))
<1>. DEFINE p == Append(q, x)
<1>1. p \in Seq(S) /\ DOMAIN q = 1..Len(q) /\ Len(q) \in Nat /\ DOMAIN p = 1..Len(q) + 1
      /\ p[Len(q) + 1] = x /\ \A k \in 1..Len(q) : p[k] = q[k]
  OBVIOUS
<1>. HIDE DEF p
<1>2. Range(p) = Range(q) \cup {x}
  <2>1. \A y : y \in Range(p) <=> \E k \in 1..Len(q) + 1 : p[k] = y
    BY <1>1 DEF Range
  <2>2. \A y : y \in Range(q) <=> \E k \in 1..Len(q) : q[k] = y
    BY <1>1 DEF Range
  <2>. QED BY <1>1, <2>1, <2>2
<1>3. IsInjective(q) /\ x \notin Range(q) => IsInjective(p)
  BY <1>1 DEF IsInjective, Range
<1>. QED BY <1>1, <1>2, <1>3 DEF p

\* What Tail keeps, and that the head is gone from it when nothing was there twice.
LEMMA TailOf ==
  ASSUME NEW S, NEW q \in Seq(S), q # <<>>
  PROVE  /\ Tail(q) \in Seq(S) /\ Head(q) \in S /\ Head(q) \in Range(q) /\ Range(Tail(q)) \subseteq Range(q)
         /\ IsInjective(q) => IsInjective(Tail(q)) /\ Head(q) \notin Range(Tail(q))
<1>. DEFINE p == Tail(q)
<1>1. /\ p \in Seq(S) /\ DOMAIN q = 1..Len(q) /\ Len(q) \in Nat /\ Len(q) > 0 /\ DOMAIN p = 1..Len(q) - 1
      /\ Head(q) = q[1] /\ q[1] \in S /\ \A k \in 1..Len(q) - 1 : p[k] = q[k + 1]
  OBVIOUS
<1>. HIDE DEF p
<1>2. Head(q) \in Range(q) /\ Range(p) \subseteq Range(q)
  BY <1>1 DEF Range
<1>3. IsInjective(q) => IsInjective(p)
  <2>1. SUFFICES ASSUME IsInjective(q), NEW a \in 1..Len(q) - 1, NEW b \in 1..Len(q) - 1, p[a] = p[b] PROVE a = b
    BY <1>1 DEF IsInjective
  <2>2. q[a + 1] = q[b + 1] /\ a + 1 \in DOMAIN q /\ b + 1 \in DOMAIN q
    BY <1>1, <2>1
  <2>3. a + 1 = b + 1
    BY <2>1, <2>2 DEF IsInjective
  <2>. QED BY <1>1, <2>3
<1>4. IsInjective(q) => q[1] \notin Range(p)
  BY <1>1 DEF IsInjective, Range
<1>. QED BY <1>1, <1>2, <1>3, <1>4 DEF p
----------------------------------------------------------------------------
(* One lemma for each kind of step.                                         *)

\* A step that moves sockets alone: none is opened again, and registered are those served that have
\* not gone (connect, disconnect, cockpit_ws).
LEMMA SocketKeeps ==
  ASSUME IInv, UNCHANGED <<bus, sends, got>>,
         TypeOK', Membership',
         \A s \in Sockets : /\ handler[s] \in {"serving", "ended"} =>
                                 handler'[s] \in {"serving", "ended"} /\ (peer'[s] = "open" => peer[s] = "open")
  PROVE  IInv'
<1>1. UNCHANGED <<redis, chan, loop, origin, got>>
  BY DEF bus
<1>2. \A i, e : Pc(i, e)' = Pc(i, e) /\ Todo(i, e)' = Todo(i, e) /\ ToldTo(i, e)' = ToldTo(i, e)
  BY DEF Pc, Todo, ToldTo
<1>3. Told'
  BY <1>2 DEF IInv, Told
<1>4. Done'
  BY <1>1, <1>2 DEF IInv, Told, Done
<1>5. Due' /\ AtMostOnce'
  BY <1>1, <1>2 DEF IInv, Due, AtMostOnce
<1>6. OnWire' /\ Heard' /\ InLoop'
  BY <1>1, <1>2 DEF IInv, OnWire, Heard, InLoop, SentBy
<1>. QED BY <1>3, <1>4, <1>5, <1>6 DEF IInv

\* connect, the browser and cockpit_ws: one case for each step of a socket.
LEMMA SocketsMove ==
  ASSUME IInv, NEW s \in Sockets, Accept(s) \/ GoAway(s) \/ Handle(s)
  PROVE  IInv'
<1>0. TypeOK /\ Membership
  BY DEF IInv
<1>1. CASE Accept(s)
  <2>1. TypeOK'
    BY <1>0, <1>1 DEF Accept, TypeOK, bus
  <2>2. Membership'
    BY <1>0, <1>1 DEF Accept, TypeOK, Membership
  <2>. QED BY <1>0, <1>1, <2>1, <2>2, SocketKeeps DEF Accept, TypeOK
<1>2. CASE GoAway(s)
  <2>1. TypeOK'
    BY <1>0, <1>2 DEF GoAway, TypeOK, bus
  <2>2. Membership'
    BY <1>0, <1>2 DEF GoAway, TypeOK, Membership
  <2>. QED BY <1>0, <1>2, <2>1, <2>2, SocketKeeps DEF GoAway, TypeOK
<1>3. CASE Register(s)
  <2>0. Home[s] \in Processes
    BY HomeAssumption
  <2>1. TypeOK'
    BY <1>0, <1>3, <2>0 DEF Register, TypeOK, bus
  <2>2. Membership'
    BY <1>0, <1>3, <2>0 DEF Register, TypeOK, Membership
  <2>. QED BY <1>0, <1>3, <2>1, <2>2, SocketKeeps DEF Register, TypeOK
<1>4. CASE HandlerEnds(s)
  <2>0. Home[s] \in Processes
    BY HomeAssumption
  <2>1. TypeOK'
    BY <1>0, <1>4, <2>0 DEF HandlerEnds, Disconnected, TypeOK, bus
  <2>2. Membership'
    BY <1>0, <1>4, <2>0 DEF HandlerEnds, Disconnected, TypeOK, Membership
  <2>. QED BY <1>0, <1>4, <2>1, <2>2, SocketKeeps DEF HandlerEnds, TypeOK
<1>. QED BY <1>1, <1>2, <1>3, <1>4 DEF Handle

\* An emission that begins has the sockets of its process to tell, which are told nothing else twice.
LEMMA EmitKeeps ==
  ASSUME IInv, NEW i \in Processes, NEW e \in Events, EmitLocal(i, e), Pc(i, e) = "unsent",
         UNCHANGED <<sockets, got>>
  PROVE  /\ sends' \in [Processes -> [Events -> Emission]]
         /\ \A j \in Processes, f \in Events : Pc(j, f)' = IF j = i /\ f = e THEN "sending" ELSE Pc(j, f)
         /\ Membership' /\ Told' /\ Done' /\ Due' /\ AtMostOnce'
<1>1. TypeOK /\ Membership /\ UNCHANGED <<peer, handler, conns, got>>
  BY DEF IInv, sockets
<1>2. Targets(i) \in Emission /\ Targets(i).pc = "sending" /\ Targets(i).todo = conns[i] /\ Targets(i).told = conns[i]
  BY <1>1 DEF Targets, Emission, TypeOK
<1>3. /\ sends' \in [Processes -> [Events -> Emission]]
      /\ \A j \in Processes, f \in Events :
              /\ Pc(j, f)' = IF j = i /\ f = e THEN "sending" ELSE Pc(j, f)
              /\ Todo(j, f)' = IF j = i /\ f = e THEN conns[i] ELSE Todo(j, f)
              /\ ToldTo(j, f)' = IF j = i /\ f = e THEN conns[i] ELSE ToldTo(j, f)
  <2>1. PICK new : new = Targets(i)
    OBVIOUS
  <2>2. new \in Emission /\ new.pc = "sending" /\ new.todo = conns[i] /\ new.told = conns[i]
        /\ sends' = [sends EXCEPT ![i][e] = new]
    BY <1>2, <2>1 DEF EmitLocal
  <2>3. /\ sends' \in [Processes -> [Events -> Emission]]
        /\ \A j \in Processes, f \in Events :
              /\ Pc(j, f)' = IF j = i /\ f = e THEN new.pc ELSE Pc(j, f)
              /\ Todo(j, f)' = IF j = i /\ f = e THEN new.todo ELSE Todo(j, f)
              /\ ToldTo(j, f)' = IF j = i /\ f = e THEN new.told ELSE ToldTo(j, f)
    <3>1. /\ sends' \in [Processes -> [Events -> Emission]]
          /\ \A j \in Processes, f \in Events : sends'[j][f] = IF j = i /\ f = e THEN new ELSE sends[j][f]
      BY <1>1, <2>2 DEF TypeOK
    <3>. QED BY <3>1 DEF Pc, Todo, ToldTo
  <2>. QED BY <2>2, <2>3
<1>4. \A s \in conns[i] : s \in Sockets /\ Home[s] = i /\ handler[s] = "serving"
  BY <1>1 DEF TypeOK, Membership
<1>5. Membership'
  BY <1>1 DEF Membership
<1>6. Told'
  BY <1>1, <1>3, <1>4 DEF IInv, Told
<1>7. Done'
  BY <1>1, <1>3 DEF IInv, Done
<1>8. Due'
  BY <1>1, <1>3, <1>4 DEF IInv, Due
<1>9. AtMostOnce'
  BY <1>1 DEF IInv, AtMostOnce
<1>. QED BY <1>3, <1>5, <1>6, <1>7, <1>8, <1>9

\* broadcast: nobody has sent the event before.
LEMMA BroadcastKeeps ==
  ASSUME IInv, NEW i \in Processes, NEW e \in Events, Broadcast(i, e)
  PROVE  IInv'
<1>1. TypeOK /\ origin[e] = Nowhere /\ UNCHANGED <<sockets, redis, chan, loop, got>> /\ EmitLocal(i, e)
      /\ origin' = [origin EXCEPT ![e] = i]
  BY DEF IInv, Broadcast
<1>2. \A j \in Processes : Pc(j, e) = "unsent" /\ e \notin Range(chan[j])
  BY <1>1, NamesAssumption DEF IInv, Heard, OnWire, SentBy
<1>3. /\ sends' \in [Processes -> [Events -> Emission]]
      /\ \A j \in Processes, f \in Events : Pc(j, f)' = IF j = i /\ f = e THEN "sending" ELSE Pc(j, f)
      /\ Membership' /\ Told' /\ Done' /\ Due' /\ AtMostOnce'
  BY <1>1, <1>2, EmitKeeps
<1>4. origin' \in [Events -> Processes \cup {Nowhere}] /\ \A f \in Events : origin'[f] = IF f = e THEN i ELSE origin[f]
  BY <1>1 DEF TypeOK
<1>5. TypeOK'
  BY <1>1, <1>3, <1>4 DEF TypeOK, sockets
<1>6. \A j \in Processes : chan[j] \in Seq(Events) /\ Range(chan[j]) \subseteq Events
  BY <1>1 DEF TypeOK, Range
<1>7. OnWire'
  BY <1>1, <1>2, <1>3, <1>4, <1>6 DEF IInv, OnWire, SentBy
<1>8. Heard'
  BY <1>1, <1>2, <1>3, <1>4 DEF IInv, Heard, SentBy
<1>9. InLoop'
  BY <1>1, <1>2, <1>3, <1>4 DEF IInv, InLoop
<1>. QED BY <1>3, <1>5, <1>7, <1>8, <1>9 DEF IInv

\* A step that ends an emission, or breaks one off, and touches no socket.
EndsAs(i, e, pc) == /\ sends' = [sends EXCEPT ![i][e].pc = pc]
                    /\ pc = "sent" => sends[i][e].todo = {}
\* What has been told is as it was, and sent in full is what had nobody left (_emit_local, stop).
LEMMA EndKeeps ==
  ASSUME IInv, NEW i \in Processes, NEW e \in Events, NEW pc \in {"sent", "broken"}, Pc(i, e) = "sending",
         EndsAs(i, e, pc), UNCHANGED <<sockets, got>>
  PROVE  /\ sends' \in [Processes -> [Events -> Emission]]
         /\ \A j \in Processes, f \in Events : Pc(j, f)' = IF j = i /\ f = e THEN pc ELSE Pc(j, f)
         /\ Membership' /\ Told' /\ Done' /\ Due' /\ AtMostOnce'
<1>1. TypeOK /\ Membership /\ UNCHANGED <<peer, handler, conns, got>>
  BY DEF IInv, sockets
<1>2. PICK new \in Emission : /\ new.pc = pc /\ new.todo = sends[i][e].todo /\ new.told = sends[i][e].told
                              /\ sends' = [sends EXCEPT ![i][e] = new]
  <2>1. sends[i][e] \in Emission
    BY <1>1 DEF TypeOK
  <2>. DEFINE n == [pc |-> pc, todo |-> sends[i][e].todo, told |-> sends[i][e].told]
  <2>2. n \in Emission /\ n = [sends[i][e] EXCEPT !.pc = pc]
    BY <2>1 DEF Emission
  <2>3. sends' = [sends EXCEPT ![i][e] = n]
    BY <2>2 DEF EndsAs
  <2>. QED BY <2>2, <2>3
<1>3. \A j \in Processes, f \in Events :
              /\ Pc(j, f)' = IF j = i /\ f = e THEN pc ELSE Pc(j, f)
              /\ Todo(j, f)' = Todo(j, f) /\ ToldTo(j, f)' = ToldTo(j, f)
  <2>1. \A j \in Processes, f \in Events : sends'[j][f] = IF j = i /\ f = e THEN new ELSE sends[j][f]
    BY <1>1, <1>2 DEF TypeOK
  <2>. QED BY <1>2, <2>1 DEF Pc, Todo, ToldTo
<1>4. pc = "sent" => \A s : s \notin Todo(i, e)
  BY DEF Todo, EndsAs
<1>5. sends' \in [Processes -> [Events -> Emission]]
  BY <1>1, <1>2 DEF TypeOK
<1>6. Membership' /\ AtMostOnce'
  BY <1>1 DEF IInv, Membership, AtMostOnce
<1>7. Told'
  BY <1>1, <1>3 DEF IInv, Told
<1>8. Done'
  BY <1>1, <1>3, <1>4 DEF IInv, Done
<1>9. Due'
  BY <1>1, <1>3 DEF IInv, Due
<1>. QED BY <1>5, <1>3, <1>6, <1>7, <1>8, <1>9

\* _emit_local, one send_text: a socket is told, or found gone and taken out.
LEMMA SendKeeps ==
  ASSUME IInv, NEW i \in Processes, NEW e \in Events, Send(i, e)
  PROVE  IInv'
<1>1. TypeOK /\ Membership /\ Pc(i, e) = "sending" /\ UNCHANGED <<peer, handler, bus>>
  BY DEF IInv, Send, Pc
<1>2. PICK s \in Todo(i, e) :
        /\ sends' = [sends EXCEPT ![i][e].todo = @ \ {s}]
        /\ \/ /\ peer[s] = "open"
              /\ got' = [got EXCEPT ![s] = Append(@, e)]
              /\ UNCHANGED conns
           \/ /\ peer[s] = "gone"
              /\ conns' = Disconnected(s)
              /\ UNCHANGED got
  BY DEF Send, Todo
<1>3. s \in Sockets /\ Home[s] = i /\ e \notin Range(got[s]) /\ got[s] \in Seq(Events) /\ s \in ToldTo(i, e)
  BY <1>1, <1>2 DEF IInv, Told, Due, TypeOK
<1>4. /\ sends' \in [Processes -> [Events -> Emission]]
      /\ \A j \in Processes, f \in Events :
              /\ Pc(j, f)' = Pc(j, f) /\ ToldTo(j, f)' = ToldTo(j, f)
              /\ Todo(j, f)' = IF j = i /\ f = e THEN Todo(j, f) \ {s} ELSE Todo(j, f)
  <2>1. PICK new : new = [sends[i][e] EXCEPT !.todo = @ \ {s}]
    OBVIOUS
  <2>2. sends[i][e] \in Emission
    BY <1>1 DEF TypeOK
  <2>3. new \in Emission /\ new.pc = sends[i][e].pc /\ new.todo = sends[i][e].todo \ {s} /\ new.told = sends[i][e].told
    BY <2>1, <2>2 DEF Emission
  <2>4. sends' = [sends EXCEPT ![i][e] = new]
    BY <1>2, <2>1
  <2>5. /\ sends' \in [Processes -> [Events -> Emission]]
        /\ \A j \in Processes, f \in Events :
              /\ Pc(j, f)' = IF j = i /\ f = e THEN new.pc ELSE Pc(j, f)
              /\ Todo(j, f)' = IF j = i /\ f = e THEN new.todo ELSE Todo(j, f)
              /\ ToldTo(j, f)' = IF j = i /\ f = e THEN new.told ELSE ToldTo(j, f)
    <3>1. /\ sends' \in [Processes -> [Events -> Emission]]
          /\ \A j \in Processes, f \in Events : sends'[j][f] = IF j = i /\ f = e THEN new ELSE sends[j][f]
      BY <1>1, <2>3, <2>4 DEF TypeOK
    <3>. QED BY <3>1 DEF Pc, Todo, ToldTo
  <2>. QED BY <2>3, <2>5 DEF Pc, Todo, ToldTo
<1>5. /\ got' \in [Sockets -> Seq(Events)]
      /\ \A t \in Sockets : t # s => got'[t] = got[t]
      /\ \A f \in Events : f \in Range(got'[s]) <=> f \in Range(got[s]) \/ (f = e /\ peer[s] = "open")
      /\ IsInjective(got[s]) => IsInjective(got'[s])
  <2>1. CASE peer[s] = "open"
    <3>1. Append(got[s], e) \in Seq(Events) /\ Range(Append(got[s], e)) = Range(got[s]) \cup {e}
          /\ (IsInjective(got[s]) => IsInjective(Append(got[s], e)))
      BY <1>3, Appended
    <3>2. got' = [got EXCEPT ![s] = Append(got[s], e)]
      BY <1>2, <2>1
    <3>. QED BY <1>1, <1>3, <2>1, <3>1, <3>2 DEF TypeOK
  <2>2. CASE peer[s] # "open"
    BY <1>1, <1>2, <2>2 DEF TypeOK
  <2>. QED BY <2>1, <2>2
<1>6. conns' \in [Processes -> SUBSET Sockets] /\ Membership'
  <2>1. CASE peer[s] = "open"
    <3>1. conns' = conns
      BY <1>2, <2>1
    <3>. QED BY <1>1, <3>1 DEF TypeOK, Membership
  <2>2. CASE peer[s] = "gone"
    <3>1. conns' = [conns EXCEPT ![i] = conns[i] \ {s}]
      BY <1>2, <1>3, <2>2 DEF Disconnected
    <3>2. conns' \in [Processes -> SUBSET Sockets] /\ \A j \in Processes : conns'[j] = IF j = i THEN conns[i] \ {s} ELSE conns[j]
      BY <1>1, <3>1 DEF TypeOK
    <3>. QED BY <1>1, <1>3, <2>2, <3>2, HomeAssumption DEF Membership
  <2>. QED BY <1>2, <2>1, <2>2
<1>7. TypeOK'
  BY <1>1, <1>4, <1>5, <1>6 DEF TypeOK, bus
<1>8. Told'
  BY <1>1, <1>4 DEF IInv, Told
<1>9. Done'
  <2>1. SUFFICES ASSUME NEW j \in Processes, NEW f \in Events
        PROVE  /\ Pc(j, f) \in {"sending", "sent"} =>
                    \A t \in ToldTo(j, f) : t \notin Todo(j, f)' /\ peer[t] = "open" => f \in Range(got'[t])
               /\ Pc(j, f) = "sent" => \A t : t \notin Todo(j, f)'
    BY <1>1, <1>4 DEF Done
  <2>2. \A t : t \in Todo(j, f)' => t \in Todo(j, f)
    BY <1>4
  <2>3. \A t \in ToldTo(j, f) : t \in Sockets
    BY DEF IInv, Told
  <2>4. \A t \in Sockets : f \in Range(got[t]) => f \in Range(got'[t])
    BY <1>5
  <2>5. ASSUME NEW t \in ToldTo(j, f), t \notin Todo(j, f)', peer[t] = "open", Pc(j, f) \in {"sending", "sent"}
        PROVE  f \in Range(got'[t])
    <3>1. CASE t \notin Todo(j, f)
      BY <2>3, <2>4, <2>5, <3>1 DEF IInv, Done
    <3>2. CASE t \in Todo(j, f)
      <4>1. j = i /\ f = e /\ t = s
        BY <1>4, <2>5, <3>2
      <4>. QED BY <1>5, <2>5, <4>1
    <3>. QED BY <3>1, <3>2
  <2>. QED BY <2>2, <2>5 DEF IInv, Done
<1>10. Due'
  <2>1. \A j \in Processes, f \in Events, t \in Sockets :
           Home[t] = j /\ f \in Range(got'[t]) => f \in Range(got[t]) \/ (j = i /\ f = e /\ t = s)
    BY <1>3, <1>5
  <2>2. \A j \in Processes, f \in Events : \A t : t \in Todo(j, f)' =>
           t \in Todo(j, f) /\ ~(j = i /\ f = e /\ t = s) /\ t \in Sockets /\ Home[t] = j
    BY <1>4 DEF IInv, Told
  <2>. QED BY <1>1, <1>4, <2>1, <2>2 DEF IInv, Due
<1>11. OnWire' /\ Heard' /\ InLoop'
  <2>1. UNCHANGED <<chan, origin, loop>>
    BY <1>1 DEF bus
  <2>2. \A j \in Processes : chan[j] \in Seq(Events) /\ Range(chan[j]) \subseteq Events
    BY <1>1 DEF TypeOK, Range
  <2>. QED BY <1>4, <2>1, <2>2 DEF IInv, OnWire, Heard, InLoop, SentBy
<1>12. AtMostOnce'
  BY <1>3, <1>5 DEF IInv, AtMostOnce
<1>. QED BY <1>6, <1>7, <1>8, <1>9, <1>10, <1>11, <1>12 DEF IInv

\* broadcast, its last step: the event goes on the channels, where it cannot be yet.
LEMMA PublishKeeps ==
  ASSUME IInv, NEW i \in Processes, NEW e \in Events, Publish(i, e)
  PROVE  IInv'
<1>1. TypeOK /\ Pc(i, e) = "sending" /\ origin[e] = i /\ UNCHANGED <<sockets, redis, loop, origin, got>>
      /\ EndsAs(i, e, "sent")
  BY DEF IInv, Publish, Sent, Own, Finish, Pc, EndsAs
<1>2. /\ sends' \in [Processes -> [Events -> Emission]]
      /\ \A j \in Processes, f \in Events : Pc(j, f)' = IF j = i /\ f = e THEN "sent" ELSE Pc(j, f)
      /\ Membership' /\ Told' /\ Done' /\ Due' /\ AtMostOnce'
  BY <1>1, EndKeeps
<1>3. \A j \in Processes : e \notin Range(chan[j]) /\ (j # i => Pc(j, e) = "unsent")
  BY <1>1 DEF IInv, OnWire, Heard, SentBy
<1>4. \A j \in Processes : chan[j] \in Seq(Events) /\ IsInjective(chan[j])
  BY <1>1 DEF IInv, TypeOK, OnWire
<1>5. \A j \in Processes : /\ Append(chan[j], e) \in Seq(Events)
                           /\ Range(Append(chan[j], e)) = Range(chan[j]) \cup {e}
                           /\ IsInjective(Append(chan[j], e))
  BY <1>3, <1>4, Appended
<1>6. /\ chan' \in [Processes -> Seq(Events)]
      /\ \A j \in Processes : chan'[j] = chan[j] \/ chan'[j] = Append(chan[j], e)
  <2>1. CASE UNCHANGED chan
    BY <1>1, <2>1 DEF TypeOK
  <2>2. CASE chan' = [j \in Processes |-> IF Listening(j) THEN Append(chan[j], e) ELSE chan[j]]
    BY <1>4, <1>5, <2>2
  <2>. QED BY <2>1, <2>2 DEF Publish
<1>7. \A j \in Processes : IsInjective(chan'[j]) /\ \A f \in Range(chan'[j]) : f \in Range(chan[j]) \/ f = e
  <2>1. TAKE j \in Processes
  <2>2. CASE chan'[j] = chan[j]
    BY <1>4, <2>2
  <2>3. CASE chan'[j] = Append(chan[j], e)
    BY <1>5, <2>3
  <2>. QED BY <1>6, <2>2, <2>3
<1>8. \A f \in Events : SentBy(f) \/ f = e => SentBy(f)'
  BY <1>1, <1>2 DEF SentBy
<1>9. TypeOK'
  BY <1>1, <1>2, <1>6 DEF TypeOK, sockets
<1>10. \A j \in Processes : \A f \in Range(chan[j]) : f \in Events
  BY <1>1 DEF TypeOK, Range
<1>11. OnWire'
  <2>1. SUFFICES ASSUME NEW j \in Processes, NEW f \in Range(chan'[j])
                 PROVE  SentBy(f)' /\ (origin[f] # j => Pc(j, f)' = "unsent")
    BY <1>1, <1>7 DEF OnWire
  <2>2. CASE f = e
    BY <1>1, <1>2, <1>3, <1>8, <2>2
  <2>3. CASE f # e
    BY <1>2, <1>7, <1>8, <1>10, <2>3 DEF IInv, OnWire
  <2>. QED BY <2>2, <2>3
<1>12. Heard'
  BY <1>1, <1>2, <1>8 DEF IInv, Heard
<1>13. InLoop'
  BY <1>1, <1>2 DEF IInv, InLoop
<1>. QED BY <1>2, <1>9, <1>11, <1>12, <1>13 DEF IInv

\* _subscriber_loop reads a message: its own it passes over, and another one it has never sent.
LEMMA ReceiveKeeps ==
  ASSUME IInv, NEW i \in Processes, Receive(i)
  PROVE  IInv'
<1>. DEFINE e == Head(chan[i])
<1>1. /\ TypeOK /\ loop[i] = "waiting" /\ chan[i] # <<>> /\ chan[i] \in Seq(Events)
      /\ chan' = [chan EXCEPT ![i] = Tail(chan[i])] /\ UNCHANGED <<sockets, redis, origin, got>>
  BY DEF IInv, Receive, TypeOK
<1>2. /\ Tail(chan[i]) \in Seq(Events) /\ e \in Events /\ e \in Range(chan[i])
      /\ Range(Tail(chan[i])) \subseteq Range(chan[i]) /\ IsInjective(Tail(chan[i])) /\ e \notin Range(Tail(chan[i]))
  BY <1>1, TailOf DEF IInv, OnWire
<1>. HIDE DEF e
<1>3. /\ chan' \in [Processes -> Seq(Events)]
      /\ \A j \in Processes : chan'[j] = IF j = i THEN Tail(chan[i]) ELSE chan[j]
  BY <1>1, <1>2 DEF TypeOK
<1>4. \A j \in Processes : /\ IsInjective(chan'[j])
                           /\ \A f \in Range(chan'[j]) : f \in Range(chan[j]) /\ f \in Events /\ (j = i => f # e)
  <2>1. TAKE j \in Processes
  <2>2. \A f \in Range(chan[j]) : f \in Events
    BY <1>1 DEF TypeOK, Range
  <2>3. CASE j = i
    BY <1>2, <1>3, <2>2, <2>3
  <2>4. CASE j # i
    BY <1>3, <2>2, <2>4 DEF IInv, OnWire
  <2>. QED BY <2>3, <2>4
<1>5. CASE Own(i, e) /\ UNCHANGED <<loop, sends>>
  <2>1. \A j, f : Pc(j, f)' = Pc(j, f) /\ Todo(j, f)' = Todo(j, f) /\ ToldTo(j, f)' = ToldTo(j, f)
    BY <1>5 DEF Pc, Todo, ToldTo
  <2>2. TypeOK'
    BY <1>1, <1>3, <1>5 DEF TypeOK, sockets
  <2>3. Membership' /\ Told' /\ Done' /\ Due' /\ AtMostOnce'
    BY <1>1, <2>1 DEF IInv, Membership, Told, Done, Due, AtMostOnce, sockets
  <2>4. OnWire' /\ Heard' /\ InLoop'
    BY <1>1, <1>4, <1>5, <2>1 DEF IInv, OnWire, Heard, InLoop, SentBy
  <2>. QED BY <2>2, <2>3, <2>4 DEF IInv
<1>6. CASE ~Own(i, e) /\ loop' = [loop EXCEPT ![i] = e] /\ EmitLocal(i, e)
  <2>1. SentBy(e) /\ Pc(i, e) = "unsent" /\ origin[e] # i
    BY <1>2, <1>6 DEF IInv, OnWire, Own
  <2>2. /\ sends' \in [Processes -> [Events -> Emission]]
        /\ \A j \in Processes, f \in Events : Pc(j, f)' = IF j = i /\ f = e THEN "sending" ELSE Pc(j, f)
        /\ Membership' /\ Told' /\ Done' /\ Due' /\ AtMostOnce'
    BY <1>1, <1>2, <1>6, <2>1, EmitKeeps
  <2>3. loop' \in [Processes -> Events \cup LoopStates] /\ \A j \in Processes : loop'[j] = IF j = i THEN e ELSE loop[j]
    BY <1>1, <1>2, <1>6 DEF TypeOK
  <2>4. TypeOK'
    BY <1>1, <1>3, <2>2, <2>3 DEF TypeOK, sockets
  <2>5. \A f \in Events : SentBy(f) => SentBy(f)'
    BY <1>1, <2>1, <2>2 DEF SentBy
  <2>6. OnWire'
    BY <1>1, <1>4, <2>2, <2>5 DEF IInv, OnWire
  <2>7. Heard'
    BY <1>1, <1>2, <2>1, <2>2, <2>5 DEF IInv, Heard
  <2>8. origin[e] \in Processes \ {i}
    BY <2>1 DEF SentBy
  <2>9. InLoop'
    BY <1>1, <1>2, <2>2, <2>3, <2>8 DEF IInv, InLoop
  <2>. QED BY <2>2, <2>4, <2>6, <2>7, <2>9 DEF IInv
<1>. QED BY <1>5, <1>6 DEF Receive, e

\* _subscriber_loop is through with the message, and back at the channel.
LEMMA ResumeKeeps ==
  ASSUME IInv, NEW i \in Processes, NEW e \in Events, Resume(i, e)
  PROVE  IInv'
<1>1. TypeOK /\ Pc(i, e) = "sending" /\ loop[i] = e /\ loop' = [loop EXCEPT ![i] = "waiting"]
      /\ UNCHANGED <<sockets, redis, chan, origin, got>> /\ EndsAs(i, e, "sent")
  BY DEF IInv, Resume, Sent, Finish, Pc, EndsAs
<1>2. /\ sends' \in [Processes -> [Events -> Emission]]
      /\ \A j \in Processes, f \in Events : Pc(j, f)' = IF j = i /\ f = e THEN "sent" ELSE Pc(j, f)
      /\ Membership' /\ Told' /\ Done' /\ Due' /\ AtMostOnce'
  BY <1>1, EndKeeps
<1>3. /\ loop' \in [Processes -> Events \cup LoopStates]
      /\ \A j \in Processes : loop'[j] = IF j = i THEN "waiting" ELSE loop[j]
  BY <1>1 DEF TypeOK, LoopStates
<1>4. TypeOK'
  BY <1>1, <1>2, <1>3 DEF TypeOK, sockets
<1>5. \A j \in Processes : \A f \in Range(chan[j]) : f \in Events
  BY <1>1 DEF TypeOK, Range
<1>6. \A f \in Events : SentBy(f) => SentBy(f)'
  BY <1>1, <1>2 DEF SentBy
<1>7. OnWire'
  BY <1>1, <1>2, <1>5, <1>6 DEF IInv, OnWire
<1>8. Heard'
  BY <1>1, <1>2, <1>6 DEF IInv, Heard
<1>9. "waiting" \notin Events
  BY NamesAssumption DEF LoopStates
<1>10. InLoop'
  BY <1>1, <1>2, <1>3, <1>9 DEF IInv, InLoop
<1>. QED BY <1>2, <1>4, <1>7, <1>8, <1>10 DEF IInv

\* start, the subscription: nothing is sent and nothing read.
LEMMA SubscribeKeeps ==
  ASSUME IInv, NEW i \in Processes, Subscribe(i)
  PROVE  IInv'
<1>1. TypeOK /\ loop' = [loop EXCEPT ![i] = "waiting"] /\ UNCHANGED <<sockets, redis, chan, origin, sends, got>>
  BY DEF IInv, Subscribe
<1>2. /\ loop' \in [Processes -> Events \cup LoopStates]
      /\ \A j \in Processes : loop'[j] = IF j = i THEN "waiting" ELSE loop[j]
  BY <1>1 DEF TypeOK, LoopStates
<1>3. \A j, f : Pc(j, f)' = Pc(j, f) /\ Todo(j, f)' = Todo(j, f) /\ ToldTo(j, f)' = ToldTo(j, f)
  BY <1>1 DEF Pc, Todo, ToldTo
<1>4. TypeOK'
  BY <1>1, <1>2 DEF TypeOK, sockets
<1>5. Membership' /\ Told' /\ Done' /\ Due' /\ AtMostOnce'
  BY <1>1, <1>3 DEF IInv, Membership, Told, Done, Due, AtMostOnce, sockets
<1>6. OnWire' /\ Heard'
  BY <1>1, <1>3 DEF IInv, OnWire, Heard, SentBy
<1>7. "waiting" \notin Events
  BY NamesAssumption DEF LoopStates
<1>8. InLoop'
  BY <1>1, <1>2, <1>3, <1>7 DEF IInv, InLoop
<1>. QED BY <1>4, <1>5, <1>6, <1>8 DEF IInv

\* A failing read or stop() ends the loop, and what it was sending stays as it is.
LEMMA LoopEndsKeeps ==
  ASSUME IInv, NEW i \in Processes, LoopEnds(i)
  PROVE  IInv'
<1>1. /\ TypeOK /\ loop' = [loop EXCEPT ![i] = "ended"] /\ chan' = [chan EXCEPT ![i] = <<>>]
      /\ UNCHANGED <<sockets, origin, got>> /\ loop[i] \notin {"off", "ended"}
  BY DEF IInv, LoopEnds, Listening
<1>2. redis' \in [Processes -> BOOLEAN]
  BY <1>1 DEF LoopEnds, TypeOK
<1>3. /\ loop' \in [Processes -> Events \cup LoopStates]
      /\ \A j \in Processes : loop'[j] = IF j = i THEN "ended" ELSE loop[j]
  BY <1>1 DEF TypeOK, LoopStates
<1>4. /\ chan' \in [Processes -> Seq(Events)]
      /\ \A j \in Processes : chan'[j] = IF j = i THEN <<>> ELSE chan[j]
  BY <1>1 DEF TypeOK
<1>5. \A j \in Processes : IsInjective(chan'[j]) /\ \A f \in Range(chan'[j]) : f \in Range(chan[j]) /\ f \in Events
  <2>1. TAKE j \in Processes
  <2>2. \A f \in Range(chan[j]) : f \in Events
    BY <1>1 DEF TypeOK, Range
  <2>3. CASE j = i
    BY <1>4, <2>3 DEF IsInjective, Range
  <2>4. CASE j # i
    BY <1>4, <2>2, <2>4 DEF IInv, OnWire
  <2>. QED BY <2>3, <2>4
<1>6. "ended" \notin Events /\ "waiting" \notin Events
  BY NamesAssumption DEF LoopStates
<1>7. CASE loop[i] = "waiting"
  <2>1. sends' = sends
    BY <1>7 DEF LoopEnds
  <2>2. \A j, f : Pc(j, f)' = Pc(j, f) /\ Todo(j, f)' = Todo(j, f) /\ ToldTo(j, f)' = ToldTo(j, f)
    BY <2>1 DEF Pc, Todo, ToldTo
  <2>3. TypeOK'
    BY <1>1, <1>2, <1>3, <1>4, <2>1 DEF TypeOK, sockets
  <2>4. Membership' /\ Told' /\ Done' /\ Due' /\ AtMostOnce'
    BY <1>1, <2>2 DEF IInv, Membership, Told, Done, Due, AtMostOnce, sockets
  <2>5. OnWire' /\ Heard' /\ InLoop'
    BY <1>1, <1>3, <1>5, <1>6, <2>2 DEF IInv, OnWire, Heard, InLoop, SentBy
  <2>. QED BY <2>3, <2>4, <2>5 DEF IInv
<1>8. CASE loop[i] # "waiting"
  <2>1. PICK e \in Events : e = loop[i]
    BY <1>1, <1>8 DEF TypeOK, LoopStates
  <2>2. EndsAs(i, e, "broken") /\ Pc(i, e) = "sending" /\ origin[e] # i
    BY <1>8, <2>1 DEF LoopEnds, EndsAs, IInv, InLoop
  <2>3. /\ sends' \in [Processes -> [Events -> Emission]]
        /\ \A j \in Processes, f \in Events : Pc(j, f)' = IF j = i /\ f = e THEN "broken" ELSE Pc(j, f)
        /\ Membership' /\ Told' /\ Done' /\ Due' /\ AtMostOnce'
    BY <1>1, <2>2, EndKeeps
  <2>4. TypeOK'
    BY <1>1, <1>2, <1>3, <1>4, <2>3 DEF TypeOK, sockets
  <2>5. \A f \in Events : SentBy(f) => SentBy(f)'
    BY <1>1, <2>2, <2>3 DEF SentBy
  <2>6. OnWire'
    BY <1>1, <1>5, <2>2, <2>3, <2>5 DEF IInv, OnWire
  <2>7. Heard'
    BY <1>1, <2>2, <2>3, <2>5 DEF IInv, Heard
  <2>8. InLoop'
    BY <1>1, <1>3, <1>6, <2>3 DEF IInv, InLoop
  <2>. QED BY <2>3, <2>4, <2>6, <2>7, <2>8 DEF IInv
<1>. QED BY <1>7, <1>8
----------------------------------------------------------------------------
\* The invariant is inductive (ws/manager.py as a whole).
THEOREM Inductive == Spec => []IInv
<1>1. Init => IInv
  <2>1. SUFFICES ASSUME Init PROVE IInv
    OBVIOUS
  <2>2. NoEmission \in Emission /\ NoEmission.pc = "unsent" /\ NoEmission.todo = {} /\ NoEmission.told = {}
    BY DEF NoEmission, Emission
  <2>3. \A i \in Processes, e \in Events : sends[i][e] = NoEmission
    BY <2>1 DEF Init
  <2>4. \A i \in Processes, e \in Events : Pc(i, e) = "unsent" /\ Todo(i, e) = {} /\ ToldTo(i, e) = {}
    BY <2>2, <2>3 DEF Pc, Todo, ToldTo
  <2>5. TypeOK
    BY <2>1, <2>2 DEF Init, TypeOK, LoopStates
  <2>6. Membership /\ Told
    BY <2>1, <2>4 DEF Init, Membership, Told
  <2>7. \A q : q = <<>> => IsInjective(q) /\ \A e : e \notin Range(q)
    BY DEF IsInjective, Range
  <2>8. Done /\ Due /\ AtMostOnce
    BY <2>1, <2>4, <2>7 DEF Init, Done, Due, AtMostOnce
  <2>9. OnWire /\ Heard
    BY <2>1, <2>4, <2>7 DEF Init, OnWire, Heard
  <2>10. InLoop
    BY <2>1, NamesAssumption DEF Init, InLoop, LoopStates
  <2>. QED BY <2>5, <2>6, <2>8, <2>9, <2>10 DEF IInv
<1>2. IInv /\ [Next]_vars => IInv'
  <2>1. SUFFICES ASSUME IInv, [Next]_vars PROVE IInv'
    OBVIOUS
  <2>2. CASE UNCHANGED vars
    <3>1. \A j, f : Pc(j, f)' = Pc(j, f) /\ Todo(j, f)' = Todo(j, f) /\ ToldTo(j, f)' = ToldTo(j, f)
      BY <2>2 DEF vars, Pc, Todo, ToldTo
    <3>2. TypeOK' /\ Membership' /\ AtMostOnce'
      BY <2>1, <2>2 DEF IInv, TypeOK, Membership, AtMostOnce, vars, sockets, bus
    <3>3. Told' /\ Done' /\ Due'
      BY <2>1, <2>2, <3>1 DEF IInv, Told, Done, Due, vars, sockets, bus
    <3>4. OnWire' /\ Heard' /\ InLoop'
      BY <2>1, <2>2, <3>1 DEF IInv, OnWire, Heard, InLoop, SentBy, vars, sockets, bus
    <3>. QED BY <3>2, <3>3, <3>4 DEF IInv
  <2>3. CASE \E s \in Sockets : Accept(s) \/ GoAway(s) \/ Handle(s)
    BY <2>1, <2>3, SocketsMove
  <2>4. CASE \E i \in Processes, e \in Events : Broadcast(i, e) \/ Emit(i, e)
    BY <2>1, <2>4, BroadcastKeeps, SendKeeps, PublishKeeps, ResumeKeeps DEF Emit
  <2>5. CASE \E i \in Processes : Receive(i) \/ Subscribe(i) \/ LoopEnds(i)
    BY <2>1, <2>5, ReceiveKeeps, SubscribeKeeps, LoopEndsKeeps
  <2>. QED BY <2>1, <2>2, <2>3, <2>4, <2>5 DEF Next
<1>. QED BY <1>1, <1>2, PTL DEF Spec

\* The state is of its type (ConnectionManager's fields).
THEOREM TypeCorrect == Spec => []TypeOK
<1>1. IInv => TypeOK
  BY DEF IInv
<1>. QED BY <1>1, Inductive, PTL

\* What is registered is served here, and what is open and served is registered (connect,
\* disconnect, _emit_local).
THEOREM MembershipHolds == Spec => []Membership
<1>1. IInv => Membership
  BY DEF IInv
<1>. QED BY <1>1, Inductive, PTL

\* An emission run to its end has reached every socket it began with that is open (_emit_local).
THEOREM AlwaysReaches == Spec => []Reaches
<1>1. IInv => Reaches
  BY DEF IInv, Done, Reaches, Pc, Todo, ToldTo
<1>. QED BY <1>1, Inductive, PTL

\* No socket is written an event twice, for any number of processes (_subscriber_loop, broadcast).
THEOREM AlwaysAtMostOnce == Spec => []AtMostOnce
<1>1. IInv => AtMostOnce
  BY DEF IInv
<1>. QED BY <1>1, Inductive, PTL
----------------------------------------------------------------------------
(* The order of the events that come over Redis.                            *)

\* e stands before f in q.
Ahead(q, e, f) == \E m, n \in DOMAIN q : m < n /\ q[m] = e /\ q[n] = f

\* Event e comes to process i from another one.
Comes(i, e) == origin[e] \in Processes \ {i}
\* The order in which a process has told two events, or is bound to.
Precedes(i, e, f) ==
  \/ \E s \in Sockets : Home[s] = i /\ Before(s, e, f)
  \/ Ahead(chan[i], e, f)
  \/ Pc(i, e) # "unsent" /\ f \in Range(chan[i])
  \/ Pc(i, e) \in {"sent", "broken"} /\ loop[i] = f
\* An event that came is sent by the loop and nobody else.
Busy == \A i \in Processes, e \in Events : Pc(i, e) = "sending" /\ Comes(i, e) => loop[i] = e
\* No two processes are at odds about two events that come to both.
Order == \A i, j \in Processes, e, f \in Events :
           /\ Comes(i, e) /\ Comes(i, f) /\ Comes(j, e) /\ Comes(j, f)
           /\ Precedes(i, e, f)
           => ~Precedes(j, f, e)

\* An appended element stands behind all the others; the head stood before all the others.
LEMMA AheadOf ==
  ASSUME NEW S, NEW q \in Seq(S)
  PROVE  /\ \A e, f : Ahead(q, e, f) => e \in Range(q) /\ f \in Range(q)
         /\ \A x \in S : \A e, f : Ahead(Append(q, x), e, f) => Ahead(q, e, f) \/ (e \in Range(q) /\ f = x)
         /\ q # <<>> => \A e, f : /\ Ahead(Tail(q), e, f) => Ahead(q, e, f)
                                  /\ f \in Range(Tail(q)) => Ahead(q, Head(q), f)
<1>1. DOMAIN q = 1..Len(q) /\ Len(q) \in Nat
  OBVIOUS
<1>2. \A e, f : Ahead(q, e, f) => e \in Range(q) /\ f \in Range(q)
  BY DEF Ahead, Range
<1>3. ASSUME NEW x \in S, NEW e, NEW f, Ahead(Append(q, x), e, f), ~Ahead(q, e, f)
      PROVE  e \in Range(q) /\ f = x
  <2> DEFINE p == Append(q, x)
  <2>1. DOMAIN p = 1..Len(q) + 1 /\ p[Len(q) + 1] = x /\ \A k \in 1..Len(q) : p[k] = q[k]
    OBVIOUS
  <2> HIDE DEF p
  <2>2. PICK m, n \in 1..Len(q) + 1 : m < n /\ p[m] = e /\ p[n] = f
    BY <1>3, <2>1 DEF Ahead, p
  <2>3. m \in 1..Len(q) /\ p[m] = q[m]
    BY <1>1, <2>1, <2>2
  <2>4. n = Len(q) + 1
    <3>1. SUFFICES ASSUME n # Len(q) + 1 PROVE FALSE
      OBVIOUS
    <3>2. n \in 1..Len(q) /\ p[n] = q[n]
      BY <1>1, <2>1, <2>2, <3>1
    <3>. QED BY <1>1, <1>3, <2>2, <2>3, <3>2 DEF Ahead
  <2>. QED BY <1>1, <2>1, <2>2, <2>3, <2>4 DEF Range
<1>4. ASSUME q # <<>>, NEW e, NEW f
      PROVE  /\ Ahead(Tail(q), e, f) => Ahead(q, e, f)
             /\ f \in Range(Tail(q)) => Ahead(q, Head(q), f)
  <2> DEFINE p == Tail(q)
  <2>1. /\ Len(q) > 0 /\ DOMAIN p = 1..Len(q) - 1 /\ Head(q) = q[1] /\ \A k \in 1..Len(q) - 1 : p[k] = q[k + 1]
    BY <1>4
  <2> HIDE DEF p
  <2>2. ASSUME Ahead(p, e, f) PROVE Ahead(q, e, f)
    <3>1. PICK m, n \in 1..Len(q) - 1 : m < n /\ p[m] = e /\ p[n] = f
      BY <2>1, <2>2 DEF Ahead
    <3>2. m + 1 \in DOMAIN q /\ n + 1 \in DOMAIN q /\ m + 1 < n + 1 /\ q[m + 1] = e /\ q[n + 1] = f
      BY <1>1, <2>1, <3>1
    <3>. QED BY <3>2 DEF Ahead
  <2>3. ASSUME f \in Range(p) PROVE Ahead(q, Head(q), f)
    <3>1. PICK n \in 1..Len(q) - 1 : p[n] = f
      BY <2>1, <2>3 DEF Range
    <3>2. 1 \in DOMAIN q /\ n + 1 \in DOMAIN q /\ 1 < n + 1 /\ q[1] = Head(q) /\ q[n + 1] = f
      BY <1>1, <2>1, <3>1
    <3>. QED BY <3>2 DEF Ahead
  <2>. QED BY <2>2, <2>3 DEF p
<1>. QED BY <1>2, <1>3, <1>4

\* What a process has told, is bound to tell and has on its channel is known of it.
LEMMA Known ==
  ASSUME IInv, NEW i \in Processes, NEW e \in Events
  PROVE  /\ \A s \in Sockets : Home[s] = i /\ e \in Range(got[s]) => Pc(i, e) # "unsent"
         /\ \A f \in Events : Precedes(i, e, f) => \/ Pc(i, e) # "unsent"
                                                   \/ Ahead(chan[i], e, f)
         /\ ~SentBy(e) => e \notin Range(chan[i]) /\ (Comes(i, e) => Pc(i, e) = "unsent")
         /\ origin[e] \notin Processes =>
              /\ e \notin Range(chan[i]) /\ Pc(i, e) = "unsent"
              /\ \A f \in Events : ~Precedes(i, e, f) /\ ~Precedes(i, f, e)
<1>1. \A s \in Sockets : Home[s] = i /\ e \in Range(got[s]) => Pc(i, e) # "unsent"
  BY DEF IInv, Due
<1>2. \A s \in Sockets : \A f : Before(s, e, f) \/ Before(s, f, e) => e \in Range(got[s])
  BY DEF Before, Range
<1>3. \A f \in Events : Precedes(i, e, f) => Pc(i, e) # "unsent" \/ Ahead(chan[i], e, f)
  BY <1>1, <1>2 DEF Precedes
<1>4. ~SentBy(e) => e \notin Range(chan[i]) /\ (Comes(i, e) => Pc(i, e) = "unsent")
  BY DEF IInv, OnWire, Heard, Comes
<1>5. ASSUME origin[e] \notin Processes
      PROVE  /\ e \notin Range(chan[i]) /\ Pc(i, e) = "unsent"
             /\ \A f \in Events : ~Precedes(i, e, f) /\ ~Precedes(i, f, e)
  <2>1. ~SentBy(e)
    BY <1>5 DEF SentBy
  <2>2. e \notin Range(chan[i]) /\ Pc(i, e) = "unsent"
    BY <1>5, <2>1 DEF IInv, OnWire, Heard
  <2>3. \A f : ~Ahead(chan[i], e, f) /\ ~Ahead(chan[i], f, e)
    BY <2>2 DEF Ahead, Range
  <2>4. loop[i] # e
    BY <1>5 DEF IInv, InLoop
  <2>. QED BY <1>1, <1>2, <2>2, <2>3, <2>4 DEF Precedes
<1>. QED BY <1>1, <1>3, <1>4, <1>5

\* A step that orders no two events anew keeps the order.
LEMMA OrderStays ==
  ASSUME Order,
         \A i \in Processes, e, f \in Events :
           Comes(i, e)' /\ Comes(i, f)' /\ Precedes(i, e, f)' => Comes(i, e) /\ Comes(i, f) /\ Precedes(i, e, f)
  PROVE  Order'
<1>1. SUFFICES ASSUME NEW i \in Processes, NEW j \in Processes, NEW e \in Events, NEW f \in Events,
                      Comes(i, e)', Comes(i, f)', Comes(j, e)', Comes(j, f)',
                      Precedes(i, e, f)', Precedes(j, f, e)'
               PROVE  FALSE
  BY DEF Order
<1>. QED BY <1>1 DEF Order

\* broadcast, its first step: the event was nowhere, and nothing is known of it elsewhere.
LEMMA BroadcastOrders ==
  ASSUME IInv, Busy, Order, NEW i \in Processes, NEW e \in Events, Broadcast(i, e)
  PROVE  Busy' /\ Order'
<1>1. /\ origin[e] = Nowhere /\ origin' = [origin EXCEPT ![e] = i] /\ EmitLocal(i, e)
      /\ UNCHANGED <<sockets, redis, chan, loop, got>> /\ TypeOK
  BY DEF Broadcast, IInv
<1>2. \A j \in Processes, f \in Events : Comes(j, f)' <=> IF f = e THEN j # i ELSE Comes(j, f)
  BY <1>1 DEF Comes, TypeOK
<1>3. \A j \in Processes, f \in Events : ~(j = i /\ f = e) => Pc(j, f)' = Pc(j, f)
  BY <1>1 DEF EmitLocal, Pc, TypeOK
<1>4. \A j \in Processes : Pc(j, e) = "unsent" /\ \A f \in Events : ~Precedes(j, e, f) /\ ~Precedes(j, f, e)
  BY <1>1, Known, NamesAssumption
<1>5. \A j \in Processes, f, g \in Events : ~(j = i /\ f = e) => (Precedes(j, f, g)' <=> Precedes(j, f, g))
  BY <1>1, <1>3 DEF Precedes, Before
<1>6. Order'
  <2>1. ASSUME NEW j \in Processes, NEW f \in Events, NEW g \in Events, Comes(j, f)', Comes(j, g)', Precedes(j, f, g)'
        PROVE  Comes(j, f) /\ Comes(j, g) /\ Precedes(j, f, g)
    <3>1. Precedes(j, f, g)
      BY <1>2, <1>5, <2>1
    <3>2. f # e /\ g # e
      BY <1>4, <3>1
    <3>. QED BY <1>2, <2>1, <3>1, <3>2
  <2>. QED BY <2>1, OrderStays
<1>7. Busy'
  <2>1. \A j \in Processes, f \in Events : Pc(j, f)' = "sending" /\ Comes(j, f)' => f # e
    BY <1>2, <1>3, <1>4
  <2>. QED BY <1>1, <1>2, <1>3, <2>1 DEF Busy
<1>. QED BY <1>6, <1>7

\* A send orders the event behind what the socket has; that the loop had done with before.
LEMMA SendOrders ==
  ASSUME IInv, Busy, Order, NEW i \in Processes, NEW e \in Events, Send(i, e)
  PROVE  Busy' /\ Order'
<1>1. PICK s \in Todo(i, e) :
        /\ sends' = [sends EXCEPT ![i][e].todo = @ \ {s}] /\ Pc(i, e) = "sending" /\ UNCHANGED bus
        /\ got' = [got EXCEPT ![s] = Append(@, e)] \/ UNCHANGED got
  BY DEF Send, Todo, Pc
<1>2. \A j \in Processes, f \in Events : Pc(j, f)' = Pc(j, f)
  BY <1>1 DEF IInv, TypeOK, Emission, Pc
<1>3. UNCHANGED <<chan, loop, origin>>
  BY <1>1 DEF bus
<1>4. s \in Sockets /\ Home[s] = i /\ got \in [Sockets -> Seq(Events)]
  BY <1>1 DEF IInv, Told, TypeOK
<1>5. Busy'
  BY <1>2, <1>3 DEF Busy, Comes
<1>6. ASSUME NEW j \in Processes, NEW f \in Events, NEW g \in Events, Comes(j, f), Comes(j, g), Precedes(j, f, g)'
      PROVE  Precedes(j, f, g)
  <2>1. CASE \E t \in Sockets : Home[t] = j /\ Before(t, f, g)'
    <3>1. PICK t \in Sockets : Home[t] = j /\ Before(t, f, g)'
      BY <2>1
    <3>2. CASE got'[t] = got[t]
      BY <3>1, <3>2 DEF Precedes, Before
    <3>3. CASE got'[t] # got[t]
      <4>1. t = s /\ got'[s] = Append(got[s], e)
        BY <1>1, <1>4, <3>3
      <4>2. Ahead(Append(got[s], e), f, g)
        BY <3>1, <4>1 DEF Before, Ahead
      <4>3. Ahead(got[s], f, g) \/ (f \in Range(got[s]) /\ g = e)
        BY <1>4, <4>2, AheadOf
      <4>4. CASE Ahead(got[s], f, g)
        BY <1>4, <3>1, <4>1, <4>4 DEF Precedes, Ahead, Before
      <4>5. CASE f \in Range(got[s]) /\ g = e
        <5>1. i = j
          BY <1>4, <3>1, <4>1
        <5>2. Pc(i, f) # "unsent" /\ f # e
          BY <1>1, <1>4, <4>5, Known DEF IInv, Due
        <5>3. loop[i] = e
          BY <1>1, <1>6, <4>5, <5>1 DEF Busy
        <5>4. Pc(i, f) # "sending"
          BY <1>6, <5>1, <5>2, <5>3 DEF Busy
        <5>5. Pc(i, f) \in {"unsent", "sending", "sent", "broken"}
          BY DEF IInv, TypeOK, Emission, Pc
        <5>. QED BY <4>5, <5>1, <5>2, <5>3, <5>4, <5>5 DEF Precedes
      <4>. QED BY <4>3, <4>4, <4>5
    <3>. QED BY <3>2, <3>3
  <2>2. CASE ~\E t \in Sockets : Home[t] = j /\ Before(t, f, g)'
    BY <1>2, <1>3, <1>6, <2>2 DEF Precedes
  <2>. QED BY <2>1, <2>2
<1>7. Order'
  BY <1>3, <1>6, OrderStays DEF Comes
<1>. QED BY <1>5, <1>7

\* A published event stands behind all others on every channel, and is known to nobody it comes to.
LEMMA PublishOrders ==
  ASSUME IInv, Busy, Order, NEW i \in Processes, NEW e \in Events, Publish(i, e)
  PROVE  Busy' /\ Order'
<1>1. /\ Pc(i, e) = "sending" /\ origin[e] = i /\ UNCHANGED <<sockets, redis, loop, origin, got>>
      /\ sends' = [sends EXCEPT ![i][e].pc = "sent"]
  BY DEF Publish, Sent, Own, Finish, Pc
<1>2. \A j \in Processes, f \in Events : ~(j = i /\ f = e) => Pc(j, f)' = Pc(j, f)
  BY <1>1 DEF IInv, TypeOK, Emission, Pc
<1>3. \A j \in Processes : chan[j] \in Seq(Events) /\ (chan'[j] = chan[j] \/ chan'[j] = Append(chan[j], e))
  BY DEF Publish, IInv, TypeOK
<1>4. ~SentBy(e) /\ ~Comes(i, e) /\ \A f \in Events : \A j \in Processes : Comes(j, f)' <=> Comes(j, f)
  BY <1>1 DEF SentBy, Comes
<1>5. \A j \in Processes : Comes(j, e) => j # i /\ e \notin Range(chan[j]) /\ Pc(j, e) = "unsent"
  BY <1>4, Known
<1>6. Busy'
  BY <1>1, <1>2, <1>4 DEF Busy
<1>7. ASSUME NEW j \in Processes, NEW f \in Events, NEW g \in Events, Comes(j, f), Comes(j, g), Precedes(j, f, g)'
      PROVE  f # e /\ (g # e => Precedes(j, f, g))
  <2>1. Pc(j, f)' = Pc(j, f)
    BY <1>2, <1>4, <1>7
  <2>2. \A t \in Sockets : Before(t, f, g)' <=> Before(t, f, g)
    BY <1>1 DEF Before
  <2>3. Ahead(chan'[j], f, g) => Ahead(chan[j], f, g) \/ (f \in Range(chan[j]) /\ g = e)
    BY <1>3, AheadOf
  <2>4. g \in Range(chan'[j]) => g \in Range(chan[j]) \/ g = e
    <3>1. Range(Append(chan[j], e)) = Range(chan[j]) \cup {e}
      BY <1>3, Appended
    <3>. QED BY <1>3, <3>1
  <2>5. g # e => Precedes(j, f, g)
    BY <1>1, <1>7, <2>1, <2>2, <2>3, <2>4 DEF Precedes, Ahead
  <2>6. f # e
    <3>1. SUFFICES ASSUME f = e PROVE FALSE
      OBVIOUS
    <3>2. Pc(j, e) = "unsent" /\ e \notin Range(chan[j])
      BY <1>5, <1>7, <3>1
    <3>3. ~Ahead(chan'[j], f, g)
      BY <1>3, <2>3, <3>1, <3>2, AheadOf
    <3>4. \A t \in Sockets : Home[t] = j => ~Before(t, f, g)
      <4>1. \A t \in Sockets : Before(t, f, g) => f \in Range(got[t])
        BY DEF Before, Range
      <4>. QED BY <3>1, <3>2, <4>1, Known
    <3>. QED BY <1>7, <2>1, <2>2, <3>1, <3>2, <3>3, <3>4 DEF Precedes, Ahead
  <2>. QED BY <2>5, <2>6
<1>8. Order'
  <2>1. SUFFICES ASSUME NEW j \in Processes, NEW k \in Processes, NEW f \in Events, NEW g \in Events,
                        Comes(j, f), Comes(j, g), Comes(k, f), Comes(k, g),
                        Precedes(j, f, g)', Precedes(k, g, f)'
                 PROVE  FALSE
    BY <1>4 DEF Order
  <2>2. f # e /\ g # e
    BY <1>7, <2>1
  <2>. QED BY <1>7, <2>1, <2>2 DEF Order
<1>. QED BY <1>6, <1>8

\* The loop takes up the oldest message: what is on the channel comes after it, and what it has told before.
LEMMA ReceiveOrders ==
  ASSUME IInv, Busy, Order, NEW i \in Processes, Receive(i)
  PROVE  Busy' /\ Order'
<1>. PICK e : e = Head(chan[i])
  OBVIOUS
<1>1. /\ loop[i] = "waiting" /\ chan[i] # <<>> /\ chan \in [Processes -> Seq(Events)] /\ chan[i] \in Seq(Events)
      /\ chan' = [chan EXCEPT ![i] = Tail(chan[i])] /\ UNCHANGED <<sockets, redis, origin, got>>
      /\ \/ Own(i, e) /\ UNCHANGED <<loop, sends>>
         \/ ~Own(i, e) /\ loop' = [loop EXCEPT ![i] = e] /\ EmitLocal(i, e)
  BY DEF Receive, IInv, TypeOK
<1>2. e \in Events /\ e \in Range(chan[i]) /\ Range(Tail(chan[i])) \subseteq Range(chan[i])
  BY <1>1, TailOf
<1>3. \A f, g : /\ Ahead(Tail(chan[i]), f, g) => Ahead(chan[i], f, g)
                /\ g \in Range(Tail(chan[i])) => Ahead(chan[i], e, g)
  BY <1>1, AheadOf
<1>4. \A j \in Processes : chan'[j] = IF j = i THEN Tail(chan[i]) ELSE chan[j]
  BY <1>1
<1>5. \A j, f : Comes(j, f)' <=> Comes(j, f)
  BY <1>1 DEF Comes
<1>6. \A f, g : \A s \in Sockets : Before(s, f, g)' <=> Before(s, f, g)
  BY <1>1 DEF Before
<1>9. \A j \in Processes, f, g \in Events : /\ Ahead(chan'[j], f, g) => Ahead(chan[j], f, g)
                                            /\ g \in Range(chan'[j]) => g \in Range(chan[j])
  <2>1. TAKE j \in Processes, f \in Events, g \in Events
  <2>2. CASE j = i
    <3>1. chan'[j] = Tail(chan[i])
      BY <1>4, <2>2
    <3>. QED BY <1>2, <1>3, <2>2, <3>1
  <2>3. CASE j # i
    <3>1. chan'[j] = chan[j]
      BY <1>4, <2>3
    <3>. QED BY <3>1
  <2>. QED BY <2>2, <2>3
<1>7. CASE Own(i, e) /\ UNCHANGED <<loop, sends>>
  <2>1. \A j, f : Pc(j, f)' = Pc(j, f)
    BY <1>7 DEF Pc
  <2>2. ASSUME NEW j \in Processes, NEW f \in Events, NEW g \in Events, Precedes(j, f, g)'
        PROVE  Precedes(j, f, g)
    <3>1. /\ Ahead(chan'[j], f, g) => Ahead(chan[j], f, g)
          /\ g \in Range(chan'[j]) => g \in Range(chan[j])
      BY <1>9
    <3>. QED BY <1>6, <1>7, <2>1, <2>2, <3>1 DEF Precedes, Ahead
  <2>3. Order'
    BY <1>5, <2>2, OrderStays
  <2>. QED BY <1>5, <1>7, <2>1, <2>3 DEF Busy
<1>8. CASE ~Own(i, e) /\ loop' = [loop EXCEPT ![i] = e] /\ EmitLocal(i, e)
  <2>1. \A j \in Processes, f \in Events : ~(j = i /\ f = e) => Pc(j, f)' = Pc(j, f)
    BY <1>8 DEF EmitLocal, Pc, IInv, TypeOK
  <2>2. Pc(i, e)' = "sending"
    <3>1. sends \in [Processes -> [Events -> Emission]] /\ sends' = [sends EXCEPT ![i][e] = Targets(i)]
      BY <1>8 DEF EmitLocal, IInv, TypeOK
    <3>2. sends'[i][e] = Targets(i)
      BY <1>2, <3>1
    <3>3. Targets(i).pc = "sending" /\ Pc(i, e)' = sends'[i][e].pc
      BY DEF Pc, Targets
    <3>. QED BY <3>2, <3>3
  <2>3. \A j \in Processes : loop'[j] = IF j = i THEN e ELSE loop[j]
    BY <1>8 DEF IInv, TypeOK
  <2>4. "waiting" \notin Events
    BY NamesAssumption DEF LoopStates
  <2>5. Busy'
    <3>1. \A f \in Events : Pc(i, f) = "sending" /\ Comes(i, f) => FALSE
      BY <1>1, <2>4 DEF Busy
    <3>. QED BY <1>2, <1>5, <2>1, <2>3, <3>1 DEF Busy
  <2>6. ASSUME NEW j \in Processes, NEW f \in Events, NEW g \in Events, Precedes(j, f, g)'
        PROVE  Precedes(j, f, g)
    <3>4. /\ Ahead(chan'[j], f, g) => Ahead(chan[j], f, g)
          /\ g \in Range(chan'[j]) => g \in Range(chan[j])
      BY <1>9
    <3>1. CASE j # i
      BY <1>6, <2>1, <2>3, <2>6, <3>1, <3>4 DEF Precedes, Ahead
    <3>2. CASE j = i /\ f = e
      <4>1. g \in Range(chan'[i]) => Ahead(chan[i], e, g)
        BY <1>3, <1>4
      <4>. QED BY <1>6, <2>2, <2>6, <3>2, <3>4, <4>1 DEF Precedes, Ahead
    <3>3. CASE j = i /\ f # e
      <4>1. Pc(i, f)' = Pc(i, f) /\ loop'[i] = e
        BY <2>1, <2>3, <3>3
      <4>. QED BY <1>2, <1>6, <2>6, <3>3, <3>4, <4>1 DEF Precedes, Ahead
    <3>. QED BY <3>1, <3>2, <3>3
  <2>7. Order'
    BY <1>5, <2>6, OrderStays
  <2>. QED BY <2>5, <2>7
<1>. QED BY <1>1, <1>7, <1>8

\* The loop is through with an event, or ends for good, or begins: no two events are ordered by that.
LEMMA LoopOrders ==
  ASSUME IInv, Busy, Order, NEW i \in Processes,
         (\E e \in Events : Resume(i, e)) \/ Subscribe(i) \/ LoopEnds(i)
  PROVE  Busy' /\ Order'
<1>1. UNCHANGED <<origin, got>> /\ "waiting" \notin Events /\ "ended" \notin Events
  BY NamesAssumption DEF Resume, Subscribe, LoopEnds, LoopStates
<1>2. \A j \in Processes \ {i} : loop'[j] = loop[j] /\ chan'[j] = chan[j] /\ \A f \in Events : Pc(j, f)' = Pc(j, f)
  BY DEF Resume, Subscribe, LoopEnds, Finish, Pc, IInv, TypeOK
<1>3. loop'[i] \in {"waiting", "ended"} /\ chan'[i] \in {chan[i], <<>>}
  BY DEF Resume, Subscribe, LoopEnds, IInv, TypeOK
<1>4. \A f \in Events : Pc(i, f)' # Pc(i, f) => Pc(i, f) = "sending" /\ Pc(i, f)' # "sending"
  <2>1. CASE \E e \in Events : Resume(i, e)
    BY <2>1 DEF Resume, Sent, Finish, Pc, IInv, TypeOK, Emission
  <2>2. CASE Subscribe(i)
    BY <2>2 DEF Subscribe, Pc
  <2>3. CASE LoopEnds(i)
    BY <2>3 DEF LoopEnds, Listening, Pc, IInv, InLoop, TypeOK, Emission, LoopStates
  <2>. QED BY <2>1, <2>2, <2>3
<1>5. \A f \in Events : Pc(i, f)' = "sending" => ~Comes(i, f)
  <2>1. SUFFICES ASSUME NEW f \in Events, Pc(i, f)' = "sending", Comes(i, f) PROVE FALSE
    OBVIOUS
  <2>2. Pc(i, f) = "sending" /\ loop[i] = f
    BY <1>4, <2>1 DEF Busy
  <2>3. CASE \E e \in Events : Resume(i, e)
    BY <2>1, <2>2, <2>3 DEF Resume, Finish, Pc, IInv, TypeOK, Emission
  <2>4. CASE Subscribe(i)
    BY <2>2, <2>4, NamesAssumption DEF Subscribe, LoopStates
  <2>5. CASE LoopEnds(i)
    BY <1>1, <2>1, <2>2, <2>5 DEF LoopEnds, Pc, IInv, TypeOK, Emission
  <2>. QED BY <2>3, <2>4, <2>5
<1>6. Busy'
  BY <1>1, <1>2, <1>5 DEF Busy, Comes
<1>7. \A f, g : \A s \in Sockets : Before(s, f, g)' <=> Before(s, f, g)
  BY <1>1 DEF Before
<1>8. \A f, g : ~Ahead(<<>>, f, g) /\ f \notin Range(<<>>)
  BY DEF Ahead, Range
<1>9. ASSUME NEW j \in Processes, NEW f \in Events, NEW g \in Events, Precedes(j, f, g)'
      PROVE  Precedes(j, f, g)
  <2>1. CASE j # i
    BY <1>2, <1>7, <1>9, <2>1 DEF Precedes, Ahead
  <2>2. CASE j = i
    <3>1. loop'[i] # g
      BY <1>1, <1>3
    <3>2. Ahead(chan'[i], f, g) => Ahead(chan[i], f, g)
      BY <1>3, <1>8
    <3>3. Pc(i, f)' # "unsent" /\ g \in Range(chan'[i]) => Pc(i, f) # "unsent" /\ g \in Range(chan[i])
      BY <1>3, <1>4, <1>8
    <3>. QED BY <1>7, <1>9, <2>2, <3>1, <3>2, <3>3 DEF Precedes, Ahead
  <2>. QED BY <2>1, <2>2
<1>10. Order'
  BY <1>1, <1>9, OrderStays DEF Comes
<1>. QED BY <1>6, <1>10

\* Where nothing is told and nothing sent, nothing is ordered.
LEMMA NothingMoves ==
  ASSUME Busy, Order, UNCHANGED <<bus, sends, got>>
  PROVE  Busy' /\ Order'
<1>1. UNCHANGED <<chan, loop, origin, sends, got>>
  BY DEF bus
<1>2. \A j, f : Pc(j, f)' = Pc(j, f) /\ (Comes(j, f)' <=> Comes(j, f))
  BY <1>1 DEF Pc, Comes
<1>3. \A j \in Processes, f, g \in Events : Precedes(j, f, g)' <=> Precedes(j, f, g)
  BY <1>1, <1>2 DEF Precedes, Ahead, Before
<1>4. Order'
  BY <1>2, <1>3, OrderStays
<1>. QED BY <1>1, <1>2, <1>4 DEF Busy

\* Events that come over Redis reach the sockets of all processes in one order (_subscriber_loop,
\* broadcast): the order of two events is settled on the channels and no loop changes it.
THEOREM OneOrder == Spec => []RemoteOrder
<1>1. Init => Busy /\ Order
  <2>1. SUFFICES ASSUME Init PROVE Busy /\ Order
    OBVIOUS
  <2>2. \A i \in Processes, e \in Events : ~Comes(i, e)
    BY <2>1, NamesAssumption DEF Init, Comes
  <2>. QED BY <2>2 DEF Busy, Order
<1>2. IInv /\ Busy /\ Order /\ [Next]_vars => Busy' /\ Order'
  <2>1. SUFFICES ASSUME IInv, Busy, Order, [Next]_vars PROVE Busy' /\ Order'
    OBVIOUS
  <2>2. CASE UNCHANGED <<bus, sends, got>>
    BY <2>1, <2>2, NothingMoves
  <2>3. CASE \E s \in Sockets : Accept(s) \/ GoAway(s) \/ Handle(s)
    BY <2>2, <2>3 DEF Accept, GoAway, Handle, Register, HandlerEnds
  <2>4. CASE \E i \in Processes, e \in Events : Broadcast(i, e) \/ Emit(i, e)
    BY <2>1, <2>4, BroadcastOrders, SendOrders, PublishOrders, LoopOrders DEF Emit
  <2>5. CASE \E i \in Processes : Receive(i) \/ Subscribe(i) \/ LoopEnds(i)
    BY <2>1, <2>5, ReceiveOrders, LoopOrders
  <2>. QED BY <2>1, <2>2, <2>3, <2>4, <2>5 DEF Next, vars
<1>3. IInv /\ Order => RemoteOrder
  <2>1. SUFFICES ASSUME IInv, Order, NEW s \in Sockets, NEW t \in Sockets, NEW e \in Events, NEW f \in Events,
                        Remote(s, e), Remote(s, f), Remote(t, e), Remote(t, f), Before(s, e, f), Before(t, f, e)
                 PROVE  FALSE
    BY DEF RemoteOrder
  <2>2. Home[s] \in Processes /\ Home[t] \in Processes
    BY HomeAssumption
  <2>3. Comes(Home[s], e) /\ Comes(Home[s], f) /\ Comes(Home[t], e) /\ Comes(Home[t], f)
    BY <2>1 DEF Remote, Comes, IInv, TypeOK
  <2>4. Precedes(Home[s], e, f) /\ Precedes(Home[t], f, e)
    BY <2>1 DEF Precedes
  <2>. QED BY <2>1, <2>2, <2>3, <2>4 DEF Order
<1>. QED BY <1>1, <1>2, <1>3, Inductive, PTL DEF Spec
=============================================================================
