------------------------------ MODULE Unwinding ------------------------------
(***************************************************************************)
(* A rejected command travels back along the chain of components that led  *)
(* to it, the last one first, each told by a Notification and each built   *)
(* on one of the kinds of Rejections.  A component that forwards passes    *)
(* the notification to the one before it.                                  *)
(*                                                                         *)
(* The coordinator that carries notifications is external.                 *)
(***************************************************************************)
EXTENDS Rejections, FiniteSets

CONSTANTS
    Depth,            \* components in the chain
    RejectionKeys,    \* what handlers may be registered under
    Notifications,    \* what the coordinator may send
    NoNotification,
    MaxRegistrations

ASSUME UnwindingAssumption == /\ Depth \in Nat \ {0} /\ MaxRegistrations \in Nat
                              /\ NoNotification \notin Notifications

VARIABLES
    kind,          \* per component, what it is built on
    registry,      \* per component, its rejection handlers: key -> answer
    said,          \* history: the registrations, in order
    notification,  \* the rejection on its way
    trail          \* the responses so far, hop by hop

unwinding == <<kind, registry, said, notification, trail>>

Chain == 1..Depth
BySimpleName == {"CommandRouter", "CommandHandlerRouter", "ProcessManagerRouter", "ProcessManager"}
ByFullName   == {"CommandHandlerBase", "AggregateByHand", "ProcessManagerByHand"}
Kinds == BySimpleName \cup ByFullName

respond(k, handlers_of, told) ==
    CASE k = "CommandRouter"        -> command_router(handlers_of, told)
      [] k = "CommandHandlerRouter" -> command_handler_router(handlers_of, told)
      [] k = "CommandHandlerBase"   -> command_handler(handlers_of, told)
      [] k = "ProcessManagerRouter" -> process_manager_router(handlers_of, told)
      [] k = "ProcessManager"       -> process_manager(handlers_of, told)
      [] k = "AggregateByHand"      -> by_hand(handlers_of, told)
      [] OTHER                      -> pm_by_hand(handlers_of, told)

\* What a handler can answer is a matter of its type.
Answers(k) ==
    IF k \in BySimpleName THEN SUBSET {"events", "notification"}
    ELSE {Compensates} \cup
         (IF k = "ProcessManagerByHand" THEN {Compensates \cup Escalates} ELSE {})

Built ==
    /\ kind \in [Chain -> Kinds]
    /\ registry = [c \in Chain |-> [key \in {} |-> {}]]
    /\ said = <<>>
    /\ notification = NoNotification
    /\ trail = <<>>

\* A second handler for a key takes the place of the first.
Answer(c, key, answer) ==
    /\ notification = NoNotification
    /\ Len(said) < MaxRegistrations
    /\ registry' = [registry EXCEPT ![c] =
                       [k \in DOMAIN @ \cup {key} |-> IF k = key THEN answer ELSE @[k]]]
    /\ said' = Append(said, [by |-> c, key |-> key, answer |-> answer])
    /\ UNCHANGED <<kind, notification, trail>>

on_rejected(c, key, answer) == kind[c] \in BySimpleName /\ Answer(c, key, answer)
handles_rejection(c, key, answer) == kind[c] \in ByFullName /\ Answer(c, key, answer)

Reject(told) ==
    /\ notification = NoNotification
    /\ notification' = told
    /\ UNCHANGED <<kind, registry, said, trail>>

Settled ==
    \/ Len(trail) = Depth
    \/ trail # <<>> /\ "notification" \notin trail[Len(trail)]

Notify ==
    /\ notification # NoNotification
    /\ ~Settled
    /\ LET c == Len(trail) + 1
       IN  trail' = Append(trail, respond(kind[c], registry[c], notification))
    /\ UNCHANGED <<kind, registry, said, notification>>

Unwind ==
    \/ \E c \in Chain, key \in RejectionKeys :
         \E answer \in Answers(kind[c]) : \/ on_rejected(c, key, answer)
                                          \/ handles_rejection(c, key, answer)
    \/ \E told \in Notifications : Reject(told)
    \/ Notify

UnwindingSpec == Built /\ [][Unwind]_unwinding

-----------------------------------------------------------------------------
FullKey  == rejected(notification)
ShortKey == extract_rejection_key(notification)

\* What component c was last told to answer to a key, as a set of at most one.
AnswerTo(c, key) ==
    LET places == {i \in DOMAIN said : said[i].by = c /\ said[i].key = key}
    IN  {said[i].answer : i \in {j \in places : \A k \in places : k <= j}}

\* The key the component looks up itself.
Declared(c) == AnswerTo(c, IF kind[c] \in ByFullName THEN FullKey ELSE ShortKey)

Named ==
    /\ notification # NoNotification
    /\ notification.parsed /\ notification.command /\ notification.pages # <<>>
    /\ notification.domain # "" /\ type_name_from_url(Head(notification.pages)) # NoName

\* Whatever the components are built on: a rejection passes a component whose
\* handler only forwards, and ends with events at one whose handler only makes
\* events; the handler is the last registered for just this command.  It ends
\* with the framework where there is none under either name, but a ProcessManager
\* then answers with nothing.  (A process manager's router has its own ways.)
EndsWhereDeclared ==
    Named => \A c \in DOMAIN trail : kind[c] # "ProcessManagerRouter" =>
        /\ Declared(c) = {Forwards} => trail[c] = Forwards
        /\ Declared(c) = {Compensates} => trail[c] = Compensates
        /\ Declared(c) = {} /\ AnswerTo(c, ShortKey) = {} =>
              trail[c] = IF kind[c] = "ProcessManager" THEN {} ELSE Escalates

\* "Handlers may return: Events to compensate/fix state, Notification to forward
\* upstream, Both" (handler_traits.hpp:44-47): who returns both gets both.
BothAreGiven ==
    Named => \A c \in DOMAIN trail :
        kind[c] \in BySimpleName /\ Declared(c) = {Compensates \cup Forwards}
            => trail[c] = Compensates \cup Forwards
=============================================================================
