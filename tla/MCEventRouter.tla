---------------------------- MODULE MCEventRouter ----------------------------
(***************************************************************************)
(* Three sorts of registration, each on its own: the event router's chain  *)
(* over two domains, with two event types of one simple name and one of    *)
(* another; the declarations of two classes of aggregates; and upcasters   *)
(* and projectors of a stream that holds three versions of an event.       *)
(***************************************************************************)
EXTENDS EventRouter, Aggregates, ReadSide, TLC

Full(package, name) == [package |-> package, name |-> name]

MCSuffixes == {Full("demo", "Placed"), Full("demo", "Paid")}
MCShortSuffixes == {Full("demo", "Placed"), Full("", "Placed")}
MCUrls == {Url("demo", "Placed"), Url("demo", "Paid"), Url("other", "Placed"), NoUrl}
MCDomains == {"order", "stock", ""}

Open == Url("demo", "Open")
MCTypes == {Full("demo", "Open"), Full("demo", "Close")}
MCRequests == {<<>>, <<NoUrl>>, <<Open>>, <<Url("demo", "Close"), Open>>, <<Url("other", "Open")>>,
               <<[Open EXCEPT !.prefix = "example.org/"]>>, <<Url("angzarr", "Notification")>>}
Prior(next, urls) == Book(next, [i \in DOMAIN urls |-> [event |-> [url |-> urls[i]]]])
MCPriors == {NoBook, Prior(0, <<>>), Prior(3, <<Open, NoUrl, Url("demo", "Close")>>),
             Prior(2, <<Url("demo", "Close"), Url("other", "Open")>>)}

V1 == Url("demo", "OrderCreatedV1")
Other == Url("demo", "CreatedV1")
V2 == Url("demo", "OrderCreatedV2")
V3 == Url("demo", "OrderCreated")
MCEndsIn == "OrderCreatedV1" :> {V1} @@ "CreatedV1" :> {V1, Other} @@ "OrderCreatedV2" :> {V2}
MCMakes == "OrderCreatedV1" :> V2 @@ "CreatedV1" :> V3 @@ "OrderCreatedV2" :> V3
MCProjected == {type_name_from_url(V2), type_name_from_url(V3)}
Stored(url, value) == [url |-> url, value |-> value]
MCEvents == {Stored(V1, "ok"), Stored(Other, "ok"), Stored(V2, "ok"), Stored(V3, "broken"),
             Stored(V3, "private"), Stored(NoUrl, "ok")}

MCInit == Init /\ NothingDeclared /\ NothingRead
MCNext == \/ declared = <<>> /\ NothingRead /\ Next /\ UNCHANGED <<aggregates, readside>>
          \/ script = <<>> /\ NothingRead /\ Declare /\ UNCHANGED <<vars, readside>>
          \/ script = <<>> /\ declared = <<>> /\ Projecting /\ UNCHANGED <<vars, aggregates>>

MCSpec == MCInit /\ [][MCNext]_<<vars, aggregates, readside>>
=============================================================================
