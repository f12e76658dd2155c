-------------------------- MODULE MCAlpacaCockpit --------------------------
(* One symbol entered at 11; tranches of a share. *)
EXTENDS AlpacaCockpit

\* The price goes down to 10, the stop price; or it stands still at 11, where a stop at break-even is
\* crossed and one at 10 is not.
Falling    == {10}
StandStill == {10, 11}
MCEntries == {[side |-> "buy", entry |-> 11, live |-> 11]}
MCTrails  == {1}

OneShare  == {<<1>>}
TwoShares == {<<1, 1>>}
=============================================================================
