--------------------------- MODULE ProcessManager ---------------------------
(***************************************************************************)
(* ProcessManager<StateT> (process_manager.hpp): the base class of a       *)
(* component that follows a workflow across domains.                       *)
(*                                                                         *)
(* One instance keeps `state_', `exists_' and `facts_' as members and      *)
(* serves every workflow.  A dispatch is a walk over the pages of the      *)
(* trigger book that a rejection notification, or an exception from user   *)
(* code, ends early; the walk is a fold over the record `run'.             *)
(***************************************************************************)
EXTENDS EventBooks, SequencesExt

CONSTANTS
    handlers,            \* event names with ANGZARR_REACTS_TO
    appliers,            \* event names with ANGZARR_APPLIES
    rejection_handlers,  \* <<domain, simple name>> with ANGZARR_REJECTED
    create_empty_state,
    Applier(_, _),       \* state, event -> state
    Handler(_, _),       \* state, event -> [commands, facts], two sequences
    Rejection(_, _),     \* state, key -> [state, facts, pages, notification]
    NoCorrelation        \* the empty correlation id

\* Nothing is registered under the empty name, that of a page without event.
ASSUME NameAssumption == type_name_from_url(NoUrl) \notin handlers \cup appliers

-----------------------------------------------------------------------------
apply(state, event) ==
    IF type_name_from_url(event.url) \in appliers THEN Applier(state, event) ELSE state

\* Unlike an aggregate's, this exists_ is set only by an event with an applier.
rebuild_page(members, page) ==
    IF has_event(page) /\ type_name_from_url(page.event.url) \in appliers
    THEN [members EXCEPT !.state = apply(@, page.event), !.exists = TRUE]
    ELSE members

\* Fault: the state of the dispatch before is built upon.
rebuild_onto(members, prior) ==
    FoldLeft(rebuild_page, [members EXCEPT !.exists = FALSE], prior.pages)

rebuild_state(members, prior) ==
    FoldLeft(rebuild_page,
             [state |-> create_empty_state, exists |-> FALSE, facts |-> members.facts],
             prior.pages)

\* Fault: facts are cleared by nobody.
keep_facts(members) == members

clear_facts(members) ==
    [state |-> members.state, exists |-> members.exists, facts |-> <<>>]

-----------------------------------------------------------------------------
\* Fault: the key as CommandHandlerBase forms it, package included.
qualified_key(notification) ==
    IF notification.pages = <<>>
    THEN <<"", "">>
    ELSE LET url == Head(notification.pages)
         IN  <<notification.domain, url.package \o "." \o url.name>>

\* Package dropped: handlers are registered under the message's simple name.
rejection_key(notification) ==
    IF notification.pages = <<>>
    THEN <<"", "">>
    ELSE <<notification.domain, Head(notification.pages).name>>

\* RejectionHandlerResponse: the pages of the compensating EventBook and the
\* notification handed on, each perhaps none.
NoResponse == [pages |-> <<>>, notification |-> <<>>]

Unanswered(state) ==
    [state |-> state, facts |-> <<>>, pages |-> <<>>, notification |-> <<>>]

\* Fault: the rejection handler is given a new state.
dispatch_rejection_anew(state, notification) ==
    LET key == rejection_key(notification)
    IN  IF key \in rejection_handlers THEN Rejection(create_empty_state, key)
        ELSE Unanswered(state)

\* The handler may change the state, emit facts and answer; without a handler
\* the answer is an empty response.
dispatch_rejection(state, notification) ==
    LET key == rejection_key(notification)
    IN  IF key \in rejection_handlers THEN Rejection(state, key) ELSE Unanswered(state)

-----------------------------------------------------------------------------
\* Where user code throws: in an applier while the prior book is replayed, or
\* in the applier, the handler or the rejection handler of a page of the trigger.
Throws(stage, page) == [stage |-> stage, page |-> page]
NoThrow == Throws("none", 0)

\* Fault: the handler before the applier.
react_first(run, event, thrown) ==
    LET effect == Handler(run.members.state, event)
        applied == [run EXCEPT !.members.state = apply(@, event)]
    IN  IF type_name_from_url(event.url) \notin handlers THEN applied
        ELSE [applied EXCEPT !.members.facts = @ \o effect.facts,
                             !.commands = @ \o effect.commands]

\* The applier first, then the handler.  One that throws leaves in the members
\* what was done before, the facts it emitted included; what an applier wrote
\* of the state before it threw is left out: the next dispatch rebuilds it.
react(run, event, thrown) ==
    LET name    == type_name_from_url(event.url)
        state   == apply(run.members.state, event)
        effect  == Handler(state, event)
        applied == [run EXCEPT !.members.state = state]
    IN  IF name \in appliers /\ thrown = Throws("applier", run.page)
        THEN [run EXCEPT !.end = "exception"]
        ELSE IF name \notin handlers THEN applied
        ELSE IF thrown = Throws("handler", run.page)
        THEN [applied EXCEPT !.members.facts = @ \o effect.facts, !.end = "exception"]
        ELSE [applied EXCEPT !.members.facts = @ \o effect.facts,
                             !.commands = @ \o effect.commands]

\* A notification ends the walk, with the rejection handler's answer.
notified(run, notification, thrown) ==
    LET answer == dispatch_rejection(run.members.state, notification)
        broken == /\ rejection_key(notification) \in rejection_handlers
                  /\ thrown = Throws("rejection", run.page)
    IN  [run EXCEPT !.members.state = answer.state,
                    !.members.facts = @ \o answer.facts,
                    !.response = [pages |-> answer.pages,
                                  notification |-> answer.notification],
                    !.end = IF broken THEN "exception" ELSE "rejection"]

\* One turn of dispatch's loop.
visit(run, page, thrown) ==
    LET here == [run EXCEPT !.page = @ + 1]
    IN  IF run.end # "commands" THEN run
        ELSE IF ~has_event(page) THEN here
        ELSE IF type_url_matches(page.event.url, NotificationType)
        THEN notified(here, page.event.value, thrown)
        ELSE react(here, page.event, thrown)

Starting(members) ==
    [members |-> members, page |-> 0, commands |-> <<>>, response |-> NoResponse,
     end |-> "commands"]

\* An applier threw over the prior book: the facts of before are still there.
rebuild_broken(members, prior, page) ==
    [Starting(rebuild_state(members, Book(0, SubSeq(prior.pages, 1, page - 1))))
        EXCEPT !.end = "exception"]

\* Fault: a book without a correlation id is handled like any other.
dispatch_any(members, correlation_id, book, prior, thrown) ==
    LET step(run, page) == visit(run, page, thrown)
    IN  FoldLeft(step, Starting(clear_facts(rebuild_state(members, prior))), book.pages)

dispatch(members, correlation_id, book, prior, thrown) ==
    LET step(run, page) == visit(run, page, thrown)
        start == Starting(clear_facts(rebuild_state(members, prior)))
    IN  IF thrown.stage = "rebuild"
        THEN rebuild_broken(members, prior, thrown.page)
        ELSE IF correlation_id = NoCorrelation THEN start
        ELSE FoldLeft(step, start, book.pages)

-----------------------------------------------------------------------------
\* DispatchResult: a rejection's answer has no commands, but keeps the facts.
DispatchResult(run) ==
    [commands |-> IF run.end = "commands" THEN run.commands ELSE <<>>,
     facts |-> run.members.facts,
     response |-> run.response]
=============================================================================
