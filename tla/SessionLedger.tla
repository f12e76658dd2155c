--------------------------- MODULE SessionLedger ---------------------------
(* What the session store promises, in no more than two facts about a token: *)
(* it lives once, and a visit that carries it is let in only while it lives. *)
CONSTANTS Tokens, Visits, Nobody

VARIABLES life,   \* life[t]: "unknown", "live" or "ended"
          visit   \* visit[v]: what the visit asked for and got, or Nobody
vars == <<life, visit>>

Asking(t) == [token |-> t, got |-> "asking"]
In(t) == [token |-> t, got |-> "in"]
Refused(t) == [token |-> t, got |-> "refused"]

Init == /\ life = [t \in Tokens |-> "unknown"]
        /\ visit = [v \in Visits |-> Nobody]

Login(t) == /\ life[t] = "unknown"
            /\ life' = [life EXCEPT ![t] = "live"]
            /\ UNCHANGED visit

\* By logout, or by time: any number of live sessions may end at once, and no other changes.
SomeEnd == /\ life' \in [Tokens -> {"unknown", "live", "ended"}]
           /\ \A t \in Tokens : life'[t] # life[t] => life[t] = "live" /\ life'[t] = "ended"
End == SomeEnd /\ UNCHANGED visit

Ask(v, t) == /\ visit[v] = Nobody
             /\ visit' = [visit EXCEPT ![v] = Asking(t)]
             /\ UNCHANGED life

LetIn(v, t) == /\ visit[v] = Asking(t) /\ life[t] = "live"
               /\ visit' = [visit EXCEPT ![v] = In(t)]
               /\ UNCHANGED life

\* A live session may be refused as well: its user may be inactive.  The refused visit may have been
\* the last that could have kept the session alive.
Refuse(v, t) == /\ visit[v] = Asking(t)
                /\ visit' = [visit EXCEPT ![v] = Refused(t)]
                /\ SomeEnd

Leave(v) == /\ visit[v] # Nobody
            /\ visit' = [visit EXCEPT ![v] = Nobody]
            /\ UNCHANGED life

Next == \/ \E t \in Tokens : Login(t)
        \/ End
        \/ \E v \in Visits, t \in Tokens : Ask(v, t) \/ LetIn(v, t) \/ Refuse(v, t)
        \/ \E v \in Visits : Leave(v)

Spec == Init /\ [][Next]_vars
=============================================================================
