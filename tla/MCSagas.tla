------------------------------ MODULE MCSagas ------------------------------
(***************************************************************************)
(* Commands on their way out of a saga, and rejections on their way back:  *)
(* either a stream is handled or a chain is unwound.  A "Placed" sends one *)
(* command, a "Moved" two, to aggregates of one and the same domain.       *)
(* Two commands share their simple name; one notification does not unpack, *)
(* and others lack a command, its pages, its type or its domain.           *)
(***************************************************************************)
EXTENDS SagaFlow, Unwinding, TLC

Aggregate(domain, root) == [domain |-> domain, root |-> root]
MCTargets == {Aggregate("stock", 1), Aggregate("stock", 2), Aggregate("ship", 1)}
MCHappenings == {"Placed", "Moved", "NoEvent"}
MCSends == "Placed" :> <<Aggregate("ship", 1)>>
           @@ "Moved" :> <<Aggregate("stock", 1), Aggregate("stock", 2)>>
           @@ "NoEvent" :> <<>>

MCRejectionKeys == {<<"stock", [package |-> p, name |-> "Reserve"]>> : p \in {"", "demo", "other"}}

Told(parsed, command, domain, pages) ==
    [parsed |-> parsed, command |-> command, domain |-> domain, pages |-> pages]
MCNotifications ==
    {Told(TRUE, TRUE, "stock", <<Url("demo", "Reserve")>>),
     Told(TRUE, TRUE, "stock", <<Url("other", "Reserve")>>),
     Told(TRUE, TRUE, "", <<Url("demo", "Reserve")>>),
     Told(TRUE, TRUE, "stock", <<NoUrl>>),
     Told(TRUE, TRUE, "stock", <<>>),
     Told(TRUE, FALSE, "", <<>>),
     Told(FALSE, FALSE, "", <<>>)}

OneKind == [c \in Chain |-> "ProcessManager"]

MCSagasInit == NothingSent /\ Built
MCSagasNext ==
    \/ /\ kind = OneKind /\ said = <<>> /\ notification = NoNotification
       /\ Flow /\ UNCHANGED unwinding
    \/ /\ style = "Saga" /\ source = <<>> /\ length = [t \in Targets |-> 0]
       /\ Unwind /\ UNCHANGED sagas

MCSagasSpec == MCSagasInit /\ [][MCSagasNext]_<<sagas, unwinding>>
=============================================================================
