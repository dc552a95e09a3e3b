--------------------------- MODULE CommandHandler ---------------------------
(***************************************************************************)
(* CommandHandlerBase (command_handler.hpp): the aggregate base class.     *)
(*                                                                         *)
(* One instance keeps `state_' and `exists_' as members and answers every  *)
(* ContextualCommand it is given, for whatever aggregate root that command *)
(* names; nothing but the replay at the start of dispatch separates two    *)
(* commands.  What dispatch does is the pair of operators below: the       *)
(* members it leaves, and the response (or exception) it answers with.     *)
(***************************************************************************)
EXTENDS EventBooks, SequencesExt

CONSTANTS
    handlers_,           \* names given to handles()
    appliers_,           \* names given to applies()
    rejection_handlers_, \* <<domain, name>> given to handles_rejection()
    Factory,             \* what state_factory_() returns
    Applier(_, _),       \* the user's appliers: state, event -> state
    Method(_, _, _),     \* the user's methods: state, exists, command -> event
    Compensate(_, _),    \* the user's rejection handlers: state, key -> book
    EventAnys            \* what methods can return; another value is a throw

\* PackFrom gives every event a type URL.
ASSUME EventsAssumption == \A event \in EventAnys : event.url # NoUrl

-----------------------------------------------------------------------------
(***************************************************************************)
(* Responses.  An exception leaves dispatch without a response.            *)
(***************************************************************************)
Events(book) == [kind |-> "events", book |-> book]
Revocation   == [kind |-> "revocation", book |-> NoBook]
Throws(what) == [kind |-> what, book |-> NoBook]

InvalidArgument == Throws("InvalidArgumentError")
CommandRejected == Throws("CommandRejectedError")

-----------------------------------------------------------------------------
(***************************************************************************)
(* Replaying the prior events into the members.                            *)
(***************************************************************************)
\* Fault: the second of dispatch's assignments forgotten.
reset_state(members) == [members EXCEPT !.state = Factory]

\* dispatch's first two assignments: whatever the members hold is dropped.
reset(members) == [state |-> Factory, exists |-> FALSE]

\* An event type without an applier leaves the state alone.
apply_event(state, event) ==
    IF type_name_from_url(event.url) \in appliers_ THEN Applier(state, event) ELSE state

\* Fault: an event nobody applies does not make the aggregate exist.
replay_applied(members, page) ==
    IF has_event(page) /\ type_name_from_url(page.event.url) \in appliers_
    THEN [state |-> apply_event(members.state, page.event), exists |-> TRUE]
    ELSE members

\* exists_ is set by any event page, whether an applier took it or not.
replay_page(members, page) ==
    IF has_event(page)
    THEN [members EXCEPT !.state = apply_event(@, page.event), !.exists = TRUE]
    ELSE members

replay(members, book) == FoldLeft(replay_page, members, book.pages)

\* Faults: no reset at all; none when there is nothing to replay.
rebuilt_onto(members, book) == replay(members, book)
rebuilt_if_any(members, book) ==
    IF book.pages = <<>> THEN members ELSE replay(reset(members), book)

\* The members after dispatch has replayed `book'.
rebuilt(members, book) == replay(reset(members), book)

-----------------------------------------------------------------------------
(***************************************************************************)
(* A rejection notification is looked up under the rejected command's      *)
(* domain and its type name as the URL has it, package included.           *)
(***************************************************************************)
rejection_key(notification) ==
    IF notification.pages = <<>>
    THEN <<"", [package |-> "", name |-> ""]>>
    ELSE <<notification.domain, type_name_from_url(Head(notification.pages))>>

dispatch_rejection(members, notification) ==
    LET key == rejection_key(notification)
    IN  IF key \in rejection_handlers_
        THEN Events(Compensate(members.state, key))
        ELSE Revocation

-----------------------------------------------------------------------------
(***************************************************************************)
(* The answer to a command once the members are rebuilt.  `urls' holds the *)
(* type URLs of the command's pages; only the first page is looked at.     *)
(***************************************************************************)
execute(members, seq, url) ==
    LET event == Method(members.state, members.exists, url)
    IN  IF event \in EventAnys THEN Events(new_event_book(event, seq))
                               ELSE CommandRejected

respond(members, seq, command) ==
    LET url == Head(command.urls)
    IN  IF command.urls = <<>> \/ url = NoUrl
        THEN InvalidArgument
        ELSE IF type_url_matches(url, NotificationType)
        THEN dispatch_rejection(members, command.notification)
        ELSE IF type_name_from_url(url) \in handlers_
        THEN execute(members, seq, url)
        ELSE InvalidArgument

\* What one call of dispatch answers, from the members it finds.
dispatch(members, book, command) ==
    respond(rebuilt(members, book), next_sequence(book), command)
=============================================================================
