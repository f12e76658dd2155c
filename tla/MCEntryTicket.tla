--------------------------- MODULE MCEntryTicket ---------------------------
EXTENDS EntryTicket

\* The session and validity rules tell three times in force apart; a price input counts where its type has one.
Forms == [type : Types, tif : {"day", "ioc", "opg"}, class : Classes, extended : {FALSE},
          otoSide : {"take_profit", "stop_loss"}, limit : Amount, stop : Amount]
MCForms == {f \in Forms : /\ f.type \notin Limited => f.limit = "none"
                          /\ f.type \notin Triggered => f.stop = "none"
                          /\ f.type = "stop_limit" => f.limit = "priced" \/ f.stop \in {f.limit, "priced"}
                          /\ f.class # "oto" => f.otoSide = "stop_loss"}
Thirds == <<33, 33, 34>>
Matrix == {[picked |-> f, side |-> "buy", entry |-> 700, typed |-> 640, protect |-> 600, target |-> t, allocations |-> Thirds] :
             f \in MCForms, t \in BOOLEAN}
Sized == {[picked |-> [Fresh([entry |-> e, lod |-> p]).picked EXCEPT !.limit = "none"], side |-> s, entry |-> e,
           typed |-> e, protect |-> p, target |-> TRUE, allocations |-> a] :
             e \in {37, 300, 700}, p \in {30, 36, 251, 600, 705}, s \in {"buy", "sell"},
             a \in {Thirds, <<Unset, Unset, Unset>>, <<0, 0>>, <<49, 111, 0>>, <<10, 0, 60>>, <<100>>}}
MCTickets == {t \in Matrix : t.picked.class = "simple" => t.target}
               \cup {t \in Sized : t.allocations = Thirds \/ ValidStop(t, t.entry)}
MCAccounts == {[equity |-> 30010, power |-> 120040], [equity |-> 21370, power |-> 1000], [equity |-> 21370, power |-> 0],
               [equity |-> 339100, power |-> 339100]}
MCQuotes == {[entry |-> 700, lod |-> 600]}
=============================================================================
