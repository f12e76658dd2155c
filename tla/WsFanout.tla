------------------------------ MODULE WsFanout ------------------------------
(* Events go to every socket of the process that broadcasts them, one send   *)
(* after the other, and over a Redis channel to the other processes, whose   *)
(* subscriber loops send them to their own sockets.  Between two sends       *)
(* sockets come and go and other broadcasts run.                             *)
(*   ws/manager.py, main.py (cockpit_ws)                                     *)
EXTENDS Naturals, Sequences, SequencesExt

CONSTANTS Processes, Sockets, Events,
          Home   \* Home[s]: the process that socket s is opened to
ASSUME HomeAssumption == Home \in [Sockets -> Processes]

VARIABLES peer,     \* peer[s]: the browser's side of the socket
          handler,  \* handler[s]: where cockpit_ws is with it
          conns,    \* conns[i]: connections["cockpit"] of process i
          redis,    \* redis[i]: process i has a Redis client
          chan,     \* chan[i]: messages its subscription has yet to read
          loop,     \* loop[i]: its subscriber loop: the event it is sending, or a state
          sends,    \* sends[i][e]: the emission of event e by process i
          origin,   \* origin[e]: the process that broadcast e, or none yet
          got       \* got[s]: the events written to socket s, in order
sockets == <<peer, handler, conns>>
bus == <<redis, chan, loop, origin>>
vars == <<sockets, bus, sends, got>>

Nowhere == "nowhere"
LoopStates == {"off", "waiting", "ended"}
ASSUME NamesAssumption == Nowhere \notin Processes /\ Events \cap LoopStates = {}
Emission == [pc : {"unsent", "sending", "sent", "broken"}, todo : SUBSET Sockets, told : SUBSET Sockets]
NoEmission == [pc |-> "unsent", todo |-> {}, told |-> {}]

\* start() gives up on Redis when the ping fails; the subscription follows later.
Init == /\ peer = [s \in Sockets |-> "away"] /\ handler = [s \in Sockets |-> "none"]
        /\ conns = [i \in Processes |-> {}]
        /\ redis \in [Processes -> BOOLEAN]
        /\ chan = [i \in Processes |-> <<>>] /\ loop = [i \in Processes |-> "off"]
        /\ sends = [i \in Processes |-> [e \in Events |-> NoEmission]]
        /\ origin = [e \in Events |-> Nowhere]
        /\ got = [s \in Sockets |-> <<>>]
----------------------------------------------------------------------------
(* Sockets.                                                                *)

\* connect: accept, and only then the registration under the lock.
Accept(s) == /\ handler[s] = "none"
             /\ handler' = [handler EXCEPT ![s] = "accepted"]
             /\ peer' = [peer EXCEPT ![s] = "open"]
             /\ UNCHANGED <<conns, bus, sends, got>>
Register(s) == /\ handler[s] = "accepted"
               /\ handler' = [handler EXCEPT ![s] = "serving"]
               /\ conns' = [conns EXCEPT ![Home[s]] = @ \cup {s}]
               /\ UNCHANGED <<peer, bus, sends, got>>

\* The browser goes away; the process learns it from a receive or from a send.
GoAway(s) == /\ peer[s] = "open"
             /\ peer' = [peer EXCEPT ![s] = "gone"]
             /\ UNCHANGED <<handler, conns, bus, sends, got>>

\* A wrong Disconnected, for the check of Membership: the last socket takes the others with it.
AllDisconnected(s) == [conns EXCEPT ![Home[s]] = {}]

\* receive_text raises, and the handler ends with a disconnect.
Disconnected(s) == [conns EXCEPT ![Home[s]] = @ \ {s}]
HandlerEnds(s) == /\ handler[s] = "serving" /\ peer[s] = "gone"
                  /\ handler' = [handler EXCEPT ![s] = "ended"]
                  /\ conns' = Disconnected(s)
                  /\ UNCHANGED <<peer, bus, sends, got>>
----------------------------------------------------------------------------
(* Emission.                                                               *)

\* _emit_local takes its targets under the lock.
Targets(i) == [pc |-> "sending", todo |-> conns[i], told |-> conns[i]]
EmitLocal(i, e) == sends' = [sends EXCEPT ![i][e] = Targets(i)]

\* broadcast, by a handler of process i.
Broadcast(i, e) == /\ origin[e] = Nowhere
                   /\ origin' = [origin EXCEPT ![e] = i]
                   /\ EmitLocal(i, e)
                   /\ UNCHANGED <<sockets, redis, chan, loop, got>>

\* A wrong Send, for the check of Reaches: the first failure ends the emission.
SendOrStop(i, e) ==
    /\ sends[i][e].pc = "sending"
    /\ \E s \in sends[i][e].todo :
         \/ /\ peer[s] = "open"
            /\ sends' = [sends EXCEPT ![i][e].todo = @ \ {s}]
            /\ got' = [got EXCEPT ![s] = Append(@, e)]
            /\ UNCHANGED conns
         \/ /\ peer[s] = "gone"
            /\ sends' = [sends EXCEPT ![i][e].todo = {}]
            /\ conns' = Disconnected(s)
            /\ UNCHANGED got
    /\ UNCHANGED <<peer, handler, bus>>

\* One send_text; the one that fails disconnects its socket and the next is tried.
Send(i, e) ==
    /\ sends[i][e].pc = "sending"
    /\ \E s \in sends[i][e].todo :
         /\ sends' = [sends EXCEPT ![i][e].todo = @ \ {s}]
         /\ \/ /\ peer[s] = "open"
               /\ got' = [got EXCEPT ![s] = Append(@, e)]
               /\ UNCHANGED conns
            \/ /\ peer[s] = "gone"
               /\ conns' = Disconnected(s)
               /\ UNCHANGED got
    /\ UNCHANGED <<peer, handler, bus>>

Own(i, e) == origin[e] = i
Sent(i, e) == sends[i][e].pc = "sending" /\ sends[i][e].todo = {}
Finish(i, e) == sends' = [sends EXCEPT ![i][e].pc = "sent"]

Listening(j) == loop[j] \notin {"off", "ended"}

\* The broadcast publishes what it has sent, and drops the failure if there is one; Redis hands it to
\* every subscription there is, that of the publisher too.
Publish(i, e) ==
    /\ Sent(i, e) /\ Own(i, e)
    /\ Finish(i, e)
    /\ \/ /\ redis[i]
          /\ chan' = [j \in Processes |-> IF Listening(j) THEN Append(chan[j], e) ELSE chan[j]]
       \/ UNCHANGED chan
    /\ UNCHANGED <<sockets, redis, loop, origin, got>>

\* Wrong versions of Receive, for the checks of AtMostOnce and RemoteOrder: its own messages are
\* not passed over; and each emission is a task of its own, for which the loop does not wait.
ReceiveAll(i) ==
    /\ loop[i] = "waiting" /\ chan[i] # <<>>
    /\ chan' = [chan EXCEPT ![i] = Tail(@)]
    /\ loop' = [loop EXCEPT ![i] = Head(chan[i])]
    /\ EmitLocal(i, Head(chan[i]))
    /\ UNCHANGED <<sockets, redis, origin, got>>
ReceiveOn(i) ==
    /\ loop[i] = "waiting" /\ chan[i] # <<>>
    /\ chan' = [chan EXCEPT ![i] = Tail(@)]
    /\ LET e == Head(chan[i]) IN IF Own(i, e) THEN UNCHANGED sends ELSE EmitLocal(i, e)
    /\ UNCHANGED <<sockets, redis, loop, origin, got>>

\* _subscriber_loop reads one message, passes over those of its own process, and is back only when
\* the emission of the message is through.
Receive(i) ==
    /\ loop[i] = "waiting" /\ chan[i] # <<>>
    /\ chan' = [chan EXCEPT ![i] = Tail(@)]
    /\ LET e == Head(chan[i])
       IN  \/ /\ Own(i, e)
              /\ UNCHANGED <<loop, sends>>
           \/ /\ ~Own(i, e)
              /\ loop' = [loop EXCEPT ![i] = e]
              /\ EmitLocal(i, e)
    /\ UNCHANGED <<sockets, redis, origin, got>>
Resume(i, e) == /\ loop[i] = e /\ Sent(i, e)
                /\ Finish(i, e)
                /\ loop' = [loop EXCEPT ![i] = "waiting"]
                /\ UNCHANGED <<sockets, redis, chan, origin, got>>

\* The subscription begins some time after start(), and messages before it are missed.
Subscribe(i) == /\ redis[i] /\ loop[i] = "off"
                /\ loop' = [loop EXCEPT ![i] = "waiting"]
                /\ UNCHANGED <<sockets, redis, chan, origin, sends, got>>

\* The loop ends for good: a read of the channel raises while it waits (the client stays), or stop()
\* cancels it, in the middle of an emission perhaps, and drops the client.
LoopEnds(i) ==
    /\ Listening(i)
    /\ loop' = [loop EXCEPT ![i] = "ended"]
    /\ chan' = [chan EXCEPT ![i] = <<>>]
    /\ \/ redis' = [redis EXCEPT ![i] = FALSE]
       \/ loop[i] = "waiting" /\ UNCHANGED redis
    /\ sends' = IF loop[i] = "waiting" THEN sends ELSE [sends EXCEPT ![i][loop[i]].pc = "broken"]
    /\ UNCHANGED <<sockets, origin, got>>

Handle(s) == Register(s) \/ HandlerEnds(s)
Emit(i, e) == Send(i, e) \/ Publish(i, e) \/ Resume(i, e)
Next == \/ \E s \in Sockets : Accept(s) \/ GoAway(s) \/ Handle(s)
        \/ \E i \in Processes, e \in Events : Broadcast(i, e) \/ Emit(i, e)
        \/ \E i \in Processes : Receive(i) \/ Subscribe(i) \/ LoopEnds(i)

Spec == Init /\ [][Next]_vars
----------------------------------------------------------------------------
TypeOK == /\ peer \in [Sockets -> {"away", "open", "gone"}]
          /\ handler \in [Sockets -> {"none", "accepted", "serving", "ended"}]
          /\ conns \in [Processes -> SUBSET Sockets]
          /\ redis \in [Processes -> BOOLEAN]
          /\ chan \in [Processes -> Seq(Events)]
          /\ loop \in [Processes -> Events \cup LoopStates]
          /\ sends \in [Processes -> [Events -> Emission]]
          /\ origin \in [Events -> Processes \cup {Nowhere}]
          /\ got \in [Sockets -> Seq(Events)]

\* No socket is written the same event twice, although a process hears its own events from Redis
\* too (_subscriber_loop).
AtMostOnce == \A s \in Sockets : IsInjective(got[s])

\* A socket that is open and served is registered, whatever broadcasts ran since it was, and what
\* is registered is being served by this process: a send that fails takes out its own socket only
\* (connect, disconnect, _emit_local).
Membership ==
    /\ \A s \in Sockets : handler[s] = "serving" /\ peer[s] = "open" => s \in conns[Home[s]]
    /\ \A i \in Processes : \A s \in conns[i] : Home[s] = i /\ handler[s] = "serving"

\* An emission that has run to its end has reached every socket that was registered when it began
\* and is still open, also past sockets that failed (_emit_local).
Reaches == \A i \in Processes, e \in Events :
             sends[i][e].pc = "sent" => \A s \in sends[i][e].told : peer[s] = "open" => e \in Range(got[s])

Before(s, e, f) == \E m, n \in DOMAIN got[s] : m < n /\ got[s][m] = e /\ got[s][n] = f
Remote(s, e) == origin[e] \notin {Nowhere, Home[s]}
\* Events that come over Redis reach all sockets of a process in one order: the loop waits for an
\* emission before it reads the next message (_subscriber_loop).
RemoteOrder == \A s, t \in Sockets, e, f \in Events :
                 /\ Remote(s, e) /\ Remote(s, f) /\ Remote(t, e) /\ Remote(t, f)
                 /\ Before(s, e, f)
                 => ~Before(t, f, e)
=============================================================================
