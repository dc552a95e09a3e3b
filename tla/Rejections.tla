----------------------------- MODULE Rejections -----------------------------
(***************************************************************************)
(* Seven ways in which this library answers the Notification that a        *)
(* command was rejected.  They differ in the name they look a handler up   *)
(* under, and in what becomes of the handler's answer.                     *)
(*                                                                         *)
(* A notification is [parsed, domain, pages]: whether it unpacks, and the  *)
(* rejected command's domain and the type URLs of its pages, of which a    *)
(* payload that is no RejectionNotification leaves none.                   *)
(*                                                                         *)
(* A registry maps <<domain, type name>> to what the user's handler        *)
(* answers: the members of RejectionHandlerResponse it fills in, a subset  *)
(* of "events" and "notification".  A response is the set of what it makes *)
(* the coordinator do, with "system_event" for a revocation whose          *)
(* emit_system_revocation is set.                                          *)
(***************************************************************************)
EXTENDS EventBooks

Compensates == {"events"}
Forwards    == {"notification"}
Escalates   == {"system_event"}
Throws      == {"exception"}

NoName == [package |-> "", name |-> ""]

-----------------------------------------------------------------------------
\* What all of them read out of the notification; unpacking may have failed.
rejected(notification) ==
    IF notification.parsed /\ notification.pages # <<>>
    THEN <<notification.domain, type_name_from_url(Head(notification.pages))>>
    ELSE <<"", NoName>>

\* Everything behind the last '.' of a key's type name.
simple(key) == <<key[1], [package |-> "", name |-> key[2].name]>>

extract_rejection_key(notification) == simple(rejected(notification))

\* What the handler says; on_rejected() that nobody overrides says nothing.
given(registry, key) == IF key \in DOMAIN registry THEN registry[key] ELSE {}

\* CommandRouter: forwarding wins over events, and an empty answer is a
\* revocation that asks for nothing.
command_router(registry, notification) ==
    LET key    == extract_rejection_key(notification)
        answer == given(registry, key)
    IN  IF key \notin DOMAIN registry THEN Escalates
        ELSE IF "notification" \in answer THEN Forwards ELSE answer

\* CommandHandlerRouter: events win, and an empty answer escalates.
build_rejection_response(answer) ==
    IF "events" \in answer THEN Compensates
    ELSE IF answer = {} THEN Escalates ELSE answer

command_handler_router(registry, notification) ==
    IF notification.parsed
    THEN build_rejection_response(given(registry, extract_rejection_key(notification)))
    ELSE Throws

\* ProcessManagerRouter: events become process events, all else is dropped.
process_manager_router(registry, notification) ==
    IF notification.parsed
    THEN given(registry, extract_rejection_key(notification)) \cap Compensates
    ELSE Throws

\* Fault: looked up under the simple name, as the routers do.
command_handler_simple(registry, notification) ==
    IF extract_rejection_key(notification) \in DOMAIN registry THEN Compensates ELSE Escalates

\* CommandHandlerBase and the legacy CommandHandler: the name with its package;
\* a handler returns an EventBook and nothing else.
command_handler(registry, notification) ==
    IF rejected(notification) \in DOMAIN registry THEN Compensates ELSE Escalates

\* ProcessManager: the answer itself, or an empty one; there is no revocation.
process_manager(registry, notification) ==
    given(registry, extract_rejection_key(notification))

-----------------------------------------------------------------------------
(***************************************************************************)
(* CompensationContext, for components that answer by hand.                *)
(***************************************************************************)
from_notification(notification) ==
    [has_command |-> notification.parsed /\ notification.command,
     domain |-> notification.domain, pages |-> notification.pages]

\* The type name with its package, or nothing.
rejected_command_type(context) ==
    IF context.has_command /\ context.pages # <<>>
    THEN type_name_from_url(Head(context.pages))
    ELSE NoName

NoKey == <<"", NoName>>

dispatch_key(context) ==
    LET type == rejected_command_type(context)
    IN  IF ~context.has_command \/ context.domain = "" \/ type = NoName
        THEN NoKey ELSE <<context.domain, type>>

delegate_to_framework(flags) == flags
pm_delegate_to_framework == Escalates
emit_compensation_events == Compensates
pm_emit_compensation_events(also_emit) ==
    IF also_emit THEN Compensates \cup Escalates ELSE Compensates

\* An aggregate and a process manager that use them: compensate what is keyed,
\* delegate what is not.
by_hand(registry, notification) ==
    LET key == dispatch_key(from_notification(notification))
    IN  IF key # NoKey /\ key \in DOMAIN registry
        THEN emit_compensation_events ELSE delegate_to_framework(Escalates)

pm_by_hand(registry, notification) ==
    LET key == dispatch_key(from_notification(notification))
    IN  IF key # NoKey /\ key \in DOMAIN registry
        THEN pm_emit_compensation_events("system_event" \in registry[key])
        ELSE pm_delegate_to_framework
=============================================================================
