---------------------------- MODULE MCProcessFlow ----------------------------
(***************************************************************************)
(* A process manager for orders.  Its state counts the events applied, and *)
(* every command and fact carries the count, so that one made in a wrong   *)
(* state shows.  "Placed" has an applier and a handler, "Paid" only a      *)
(* handler, for two commands, and "Noted" only an applier.  A rejected     *)
(* Reserve is compensated by Released, told to another aggregate by a fact *)
(* and handed on; a rejected Ship has no handler.                          *)
(***************************************************************************)
EXTENDS ProcessFlow, TLC

Placed == pack_any("demo", "Placed", 0)
Paid   == pack_any("demo", "Paid", 0)
Noted  == pack_any("demo", "Noted", 0)
Released == pack_any("demo", "Released", 0)

Named(name) == [package |-> "demo", name |-> name]

MCHandlers == {Named("Placed"), Named("Paid")}
MCAppliers == {Named("Placed"), Named("Noted"), Named("Released")}
MCRejectionHandlers == {<<"stock", "Reserve">>}

MCHappenings == {Placed, Paid, Noted}
\* The first workflow twice, the other and the stray events once.
MCUneven == [s \in Workflows \cup {NoCorrelation} |-> IF s = "w1" THEN 2 ELSE 1]

Reserve(state) == [name |-> "Reserve", state |-> state]
Ship(state) == [name |-> "Ship", state |-> state]

MCApplier(state, event) == state + 1
MCHandler(state, event) ==
    IF event = Placed
    THEN [commands |-> <<Reserve(state)>>, facts |-> <<state>>]
    ELSE [commands |-> <<Reserve(state), Ship(state)>>, facts |-> <<>>]
MCRejection(state, key) ==
    [state |-> state + 1, facts |-> <<state>>, pages |-> <<Page(Released)>>,
     notification |-> <<state>>]

MCTarget(command) == [domain |-> "stock", url |-> Url("demo", command.name)]
=============================================================================
