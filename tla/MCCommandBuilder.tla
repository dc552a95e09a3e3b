-------------------------- MODULE MCCommandBuilder --------------------------
(***************************************************************************)
(* Three parts of a client that have nothing to do with each other, in one *)
(* run: the command builder is used, or the calendar is walked, or a       *)
(* client connects and makes a call.  The hexadecimal digits are those a   *)
(* UUID's fixed places need and one more: rand() treats all alike.         *)
(***************************************************************************)
EXTENDS CommandBuilder, Rfc3339, Connecting

MCUrls == {Url("demo", "Create"), Url("demo", "Close")}
MCHexDigits == {"0", "4", "8", "9", "a", "b"}
MCVariants == {"8", "9", "a", "b"}
MCClocks == {[hour |-> 0, minute |-> 0, second |-> 0],
             [hour |-> 10, minute |-> 30, second |-> 1],
             [hour |-> 23, minute |-> 59, second |-> 59]}

MCPolicies == {[min_delay |-> low, max_delay |-> 6, max_attempts |-> n, jitter |-> j] :
                  low \in {1, 2}, n \in 0..4, j \in BOOLEAN}
MCEndpoints == {[scheme |-> "", path |-> TRUE], [scheme |-> "http", path |-> FALSE]}

OnePolicy == method = "none" /\ ~merging /\ policy = [min_delay |-> 1, max_delay |-> 6, max_attempts |-> 0, jitter |-> FALSE]

NothingBuilt == asks = 0 /\ built = Nothing

MCInit == Init /\ Epoch /\ Unconnected
MCNext == \/ days = 0 /\ OnePolicy /\ Next /\ UNCHANGED <<calendar, connecting>>
          \/ NothingBuilt /\ OnePolicy /\ Walk /\ UNCHANGED <<vars, connecting>>
          \/ NothingBuilt /\ days = 0 /\ Connect /\ UNCHANGED <<vars, calendar>>

MCSpec == MCInit /\ [][MCNext]_<<vars, calendar, connecting>>
=============================================================================
