----------------------------- MODULE Aggregates -----------------------------
(***************************************************************************)
(* The four ways this library has of writing an aggregate: CommandRouter,  *)
(* CommandHandlerBase, the legacy CommandHandler, and CommandHandlerRouter *)
(* with a StateRouter.  Classes of aggregates declare methods for command  *)
(* types and appliers for event types; a declaration goes into each way's  *)
(* own tables, and afterwards commands are dispatched.                     *)
(*                                                                         *)
(* A method or an applier is known by the place of its declaration, and a  *)
(* state by the appliers that made it, in order.                           *)
(***************************************************************************)
EXTENDS EventBooks

CONSTANTS
    Classes,         \* aggregates with one and the same state type
    Rebuilding,      \* those whose CommandRouter was made with a rebuild function
    Types,           \* command types, and event types
    Requests,        \* command books: sequences of type URLs
    Priors,          \* prior event books
    Undeclared,      \* no method
    MaxDeclarations

ASSUME AggregatesAssumption == /\ MaxDeclarations \in Nat
                               /\ Undeclared \notin Nat
                               /\ Rebuilding \subseteq Classes
                               /\ NotificationType \notin Types
                               /\ type_name_from_url(NoUrl) \notin Types

VARIABLES
    declared,  \* history: the declarations, in order
    listed,    \* CommandRouter::handlers_, per class a list
    tables,    \* handlers_ and appliers_ of CommandHandlerBase, per class
    statics,   \* handlers() and appliers() of CommandHandler, for all classes
    stateful   \* appliers_ of the StateRouter, per class

aggregates == <<declared, listed, tables, statics, stateful>>

NoTable == [t \in Types |-> Undeclared]
NoTables == [methods |-> NoTable, appliers |-> NoTable]

NothingDeclared ==
    /\ declared = <<>>
    /\ listed = [c \in Classes |-> <<>>]
    /\ tables = [c \in Classes |-> NoTables]
    /\ statics = NoTables
    /\ stateful = [c \in Classes |-> NoTable]

-----------------------------------------------------------------------------
Place == Len(declared) + 1

Note(class, part, type) ==
    /\ Len(declared) < MaxDeclarations
    /\ declared' = Append(declared, [class |-> class, part |-> part, type |-> type])

\* on() appends; handles() and register_handler() overwrite.
on_command(class, type) ==
    listed' = [listed EXCEPT ![class] = Append(@, [type |-> type, method |-> Place])]

\* Fault: the static tables keep the first entry.
register_handler_first(type) ==
    statics' = [statics EXCEPT !.methods[type] = IF @ = Undeclared THEN Place ELSE @]

register_handler(type) == statics' = [statics EXCEPT !.methods[type] = Place]
register_applier(type) == statics' = [statics EXCEPT !.appliers[type] = Place]

handles(class, type) ==
    /\ Note(class, "methods", type)
    /\ tables' = [tables EXCEPT ![class].methods[type] = Place]
    /\ on_command(class, type) /\ register_handler(type)
    /\ UNCHANGED stateful

applies(class, type) ==
    /\ Note(class, "appliers", type)
    /\ tables' = [tables EXCEPT ![class].appliers[type] = Place]
    /\ register_applier(type)
    /\ stateful' = [stateful EXCEPT ![class][type] = Place]
    /\ UNCHANGED listed

Declare == \E class \in Classes, type \in Types : handles(class, type) \/ applies(class, type)

AggregatesSpec == NothingDeclared /\ [][Declare]_aggregates

-----------------------------------------------------------------------------
Lookup(table, name) == IF name \in Types THEN table[name] ELSE Undeclared

\* rebuild_state, init and with_event_book: every page with an event meets its
\* applier, those without one leave the state alone.
rebuilt_by(appliers_of, book) ==
    Where([i \in DOMAIN book.pages |->
              IF has_event(book.pages[i])
              THEN Lookup(appliers_of, type_name_from_url(book.pages[i].event.url))
              ELSE Undeclared],
          LAMBDA applier : applier # Undeclared)

Ends(how) == [end |-> how, method |-> Undeclared, state |-> <<>>, seq |-> 0]

\* What dispatch does once it has found, or not found, a method.
answer(request, method, state, prior) ==
    IF request = <<>> \/ Head(request) = NoUrl THEN Ends("No command pages")
    ELSE IF type_url_matches(Head(request), NotificationType) THEN Ends("dispatch_rejection")
    ELSE IF method = Undeclared THEN Ends("Unknown command type")
    ELSE [end |-> "ran", method |-> method, state |-> state, seq |-> next_sequence(prior)]

Url0(request) == IF request = <<>> THEN NoUrl ELSE Head(request)

matching(class, url) == Where(listed[class], LAMBDA entry : type_url_matches(url, entry.type))

\* CommandRouter: the first that matches.  Its rebuild function is a StateRouter;
\* without one get_state throws before the request is looked at.
router_dispatch(class, request, prior) ==
    LET found == matching(class, Url0(request))
    IN  IF class \notin Rebuilding THEN Ends("get_state")
        ELSE answer(request, IF found = <<>> THEN Undeclared ELSE Head(found).method,
                    rebuilt_by(stateful[class], prior), prior)

base_dispatch(class, request, prior) ==
    answer(request, Lookup(tables[class].methods, type_name_from_url(Url0(request))),
           rebuilt_by(tables[class].appliers, prior), prior)

rebuild_state(prior) == rebuilt_by(statics.appliers, prior)

legacy_dispatch(class, request, prior) ==
    answer(request, Lookup(statics.methods, type_name_from_url(Url0(request))),
           rebuild_state(prior), prior)

\* Fault: the handler is given a new state and not the one rebuilt.
component_dispatch_fresh(class, request, prior) ==
    answer(request, Lookup(tables[class].methods, type_name_from_url(Url0(request))),
           rebuilt_by(stateful[class], NoBook), prior)

\* CommandHandlerRouter keeps no methods: its handler chooses by itself, here as
\* the base class would, and what the router adds is the state and the order.
component_dispatch(class, request, prior) ==
    answer(request, Lookup(tables[class].methods, type_name_from_url(Url0(request))),
           rebuilt_by(stateful[class], prior), prior)

\* What is announced to the coordinator, which sends nothing else.
descriptor(class) == {t \in Types : tables[class].methods[t] # Undeclared}
legacy_descriptor == {t \in Types : statics.methods[t] # Undeclared}

-----------------------------------------------------------------------------
(***************************************************************************)
(* Properties, told by the declarations alone.                             *)
(***************************************************************************)
By(class, part, type) ==
    {i \in DOMAIN declared : /\ declared[i].class \in class
                             /\ declared[i].part = part /\ declared[i].type = type}

FirstOf(places) == IF places = {} THEN Undeclared
                   ELSE CHOOSE i \in places : \A j \in places : i <= j
LastOf(places) == IF places = {} THEN Undeclared
                  ELSE CHOOSE i \in places : \A j \in places : i >= j

State(class, prior) ==
    Where([i \in DOMAIN prior.pages |->
              LastOf(By(class, "appliers", type_name_from_url(prior.pages[i].event.url)))],
          LAMBDA place : place # Undeclared)

\* The three classes that keep methods differ in which of several declarations
\* counts: CommandRouter takes the class's first, only for the usual prefix and
\* only with a rebuild function, CommandHandlerBase its last, the legacy
\* CommandHandler the last of any class with this state.  And a class announces
\* just the commands it runs, a legacy class everybody's.
RunsAsDeclared ==
    \A class \in Classes, request \in Requests, prior \in Priors :
        LET url   == Url0(request)
            name  == type_name_from_url(url)
            first == IF url.prefix = GoogleApis THEN FirstOf(By({class}, "methods", name))
                     ELSE Undeclared
            last(classes) == LastOf(By(classes, "methods", name))
        IN  /\ router_dispatch(class, request, prior)
                 = IF class \in Rebuilding
                   THEN answer(request, first, State({class}, prior), prior)
                   ELSE Ends("get_state")
            /\ base_dispatch(class, request, prior)
                 = answer(request, last({class}), State({class}, prior), prior)
            /\ legacy_dispatch(class, request, prior)
                 = answer(request, last(Classes), State(Classes, prior), prior)
            /\ base_dispatch(class, request, prior).end = "ran" <=> name \in descriptor(class)
            /\ legacy_dispatch(class, request, prior).end = "ran" <=> name \in legacy_descriptor

\* No two declarations compete, neither in one class nor across classes.
Unambiguous ==
    \A i, j \in DOMAIN declared :
        i # j => declared[i].part # declared[j].part \/ declared[i].type # declared[j].type

\* A class whose declarations compete with nobody's behaves the same whichever
\* way it is written: the same method, in the same state, with the same sequence,
\* or the same refusal.  CommandRouter only where it has a rebuild function and
\* the URL the usual prefix; CommandHandlerRouter whenever its handler chooses the
\* method the base class would; the legacy class where no other class declares.
WaysAgree ==
    Unambiguous => \A class \in Classes, request \in Requests, prior \in Priors :
        LET theirs == base_dispatch(class, request, prior)
        IN  /\ component_dispatch(class, request, prior) = theirs
            /\ class \in Rebuilding /\ Url0(request).prefix = GoogleApis =>
                   router_dispatch(class, request, prior) = theirs
            /\ (\A i \in DOMAIN declared : declared[i].class = class) =>
                   legacy_dispatch(class, request, prior) = theirs
=============================================================================
