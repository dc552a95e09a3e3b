----------------------------- MODULE EventRouter -----------------------------
(***************************************************************************)
(* EventRouter (router.hpp): one table of event handlers for sagas,        *)
(* process managers and projectors, filled by a fluent chain of domain(),  *)
(* prepare() and on() calls.                                               *)
(*                                                                         *)
(* The chain is a program: what on() and prepare() mean depends on the     *)
(* domain() calls before them, and a domain may be left and entered again. *)
(* A handler is known by the place of its call in the chain, which the     *)
(* history `script' keeps; commands and covers a handler returns are       *)
(* abstracted to the call of it.                                           *)
(***************************************************************************)
EXTENDS EventBooks, FiniteSets

CONSTANTS
    Domains,   \* names given to domain()
    EventNames,  \* event type names given to on() and prepare()
    Urls,      \* type URLs of the events dispatched
    NoDomain,  \* the empty name: current_domain_ at first, a book without cover
    MaxCalls   \* calls in a chain

ASSUME RouterAssumption == /\ MaxCalls \in Nat
                           /\ \A type \in EventNames :
                                 type = [package |-> type.package, name |-> type.name]

VARIABLES
    current_domain,    \* domain the next on() or prepare() is for
    handlers,          \* per domain, a list of [suffix, handler]
    prepare_handlers,  \* per domain, a map from suffix to handler
    script             \* every call so far

vars == <<current_domain, handlers, prepare_handlers, script>>

NoHandler == 0
Here == Len(script) + 1
Says(call, name) == script' = Append(script, [call |-> call, name |-> name])

Init ==
    /\ current_domain = NoDomain
    /\ handlers = [d \in {} |-> <<>>]
    /\ prepare_handlers = [d \in {} |-> <<>>]
    /\ script = <<>>

-----------------------------------------------------------------------------
opened(table, name, empty) ==
    [d \in DOMAIN table \cup {name} |-> IF d \in DOMAIN table THEN table[d] ELSE empty]

\* Fault: a domain entered again starts empty.
domain_anew(name) ==
    /\ current_domain' = name
    /\ handlers' = [d \in DOMAIN handlers \cup {name} |-> IF d = name THEN <<>> ELSE handlers[d]]
    /\ prepare_handlers' = opened(prepare_handlers, name, [t \in {} |-> NoHandler])
    /\ Says("domain", name)

domain(name) ==
    /\ current_domain' = name
    /\ handlers' = opened(handlers, name, <<>>)
    /\ prepare_handlers' = opened(prepare_handlers, name, [t \in {} |-> NoHandler])
    /\ Says("domain", name)

\* Fault: the first prepare handler of a type is kept.
prepare_first(suffix) ==
    /\ prepare_handlers' =
         IF current_domain = NoDomain \/ suffix \in DOMAIN prepare_handlers[current_domain]
         THEN prepare_handlers
         ELSE [prepare_handlers EXCEPT ![current_domain] = opened(@, suffix, Here)]
    /\ Says("prepare", suffix)
    /\ UNCHANGED <<current_domain, handlers>>

\* A map: a later handler replaces an earlier one.  Without a domain it throws.
prepare(suffix) ==
    /\ prepare_handlers' =
         IF current_domain = NoDomain
         THEN prepare_handlers
         ELSE [prepare_handlers EXCEPT ![current_domain] =
                 [t \in DOMAIN @ \cup {suffix} |-> IF t = suffix THEN Here ELSE @[t]]]
    /\ Says("prepare", suffix)
    /\ UNCHANGED <<current_domain, handlers>>

\* A list: a later handler is added behind.  Without a domain it throws.
on(suffix) ==
    /\ handlers' =
         IF current_domain = NoDomain
         THEN handlers
         ELSE [handlers EXCEPT ![current_domain] =
                 Append(@, [suffix |-> suffix, handler |-> Here])]
    /\ Says("on", suffix)
    /\ UNCHANGED <<current_domain, prepare_handlers>>

Next ==
    /\ Len(script) < MaxCalls
    /\ \/ \E name \in Domains : domain(name)
       \/ \E suffix \in EventNames : prepare(suffix) \/ on(suffix)

Spec == Init /\ [][Next]_vars

-----------------------------------------------------------------------------
\* The first entry of the source domain's list that matches.
handler_for(source, url) ==
    LET list == IF source \in DOMAIN handlers THEN handlers[source] ELSE <<>>
        hits == {i \in DOMAIN list : type_url_matches(url, list[i].suffix)}
    IN  IF hits = {} THEN NoHandler
        ELSE list[CHOOSE i \in hits : \A j \in hits : i <= j].handler

\* At most one suffix equals the type's full name.
prepare_for(source, url) ==
    LET map == IF source \in DOMAIN prepare_handlers THEN prepare_handlers[source]
               ELSE [t \in {} |-> NoHandler]
        hits == {t \in DOMAIN map : type_url_matches(url, t)}
    IN  IF hits = {} THEN NoHandler ELSE map[CHOOSE t \in hits : TRUE]

\* The calls a walk over a book makes, from the handler chosen for each page.
Calls(chosen) ==
    Where([i \in DOMAIN chosen |-> [handler |-> chosen[i], page |-> i]],
          LAMBDA call : call.handler # NoHandler)

dispatch(source, pages) ==
    Calls([i \in DOMAIN pages |-> handler_for(source, pages[i])])

prepare_destinations(source, pages) ==
    Calls([i \in DOMAIN pages |-> prepare_for(source, pages[i])])

\* Fault: every domain named, whether anything is handled there or not.
subscriptions_named ==
    [d \in DOMAIN handlers |-> {handlers[d][i].suffix : i \in DOMAIN handlers[d]}]

subscriptions ==
    [d \in {d \in DOMAIN handlers : handlers[d] # <<>>} |->
        {handlers[d][i].suffix : i \in DOMAIN handlers[d]}]

-----------------------------------------------------------------------------
(***************************************************************************)
(* Properties.  The chain as its author reads it: a registration belongs   *)
(* to the domain named last before it.                                     *)
(***************************************************************************)
Sources == Domains \cup {NoDomain}
Books == {<<url>> : url \in Urls} \cup {<<a, b>> : a, b \in Urls}

DomainOf(i) ==
    LET named == {j \in 1..(i - 1) : script[j].call = "domain"}
    IN  IF named = {} THEN NoDomain
        ELSE script[CHOOSE j \in named : \A k \in named : k <= j].name

Registered(call, source, url) ==
    {i \in DOMAIN script : /\ script[i].call = call
                           /\ source # NoDomain /\ DomainOf(i) = source
                           /\ type_url_matches(url, script[i].name)}

FirstOn(source, url) ==
    LET places == Registered("on", source, url)
    IN  IF places = {} THEN NoHandler ELSE CHOOSE i \in places : \A j \in places : i <= j

LastPrepare(source, url) ==
    LET places == Registered("prepare", source, url)
    IN  IF places = {} THEN NoHandler ELSE CHOOSE i \in places : \A j \in places : j <= i

\* Each page of a book calls the handler the chain names first for its domain
\* and type, and that one only, in page order.
HandledAsDeclared ==
    \A source \in Sources, pages \in Books :
        dispatch(source, pages) = Calls([i \in DOMAIN pages |-> FirstOn(source, pages[i])])

\* Destinations are asked for by the handler the chain names last.
PreparedAsDeclared ==
    \A source \in Sources, pages \in Books :
        prepare_destinations(source, pages) =
            Calls([i \in DOMAIN pages |-> LastPrepare(source, pages[i])])

\* What a component subscribes to is what it handles: no event is delivered to
\* be dropped, and none that has a handler is withheld.  A domain of which it
\* handles nothing is not named at all, which could be read as all of it.
SubscribedIsHandled ==
    \A source \in Sources :
        /\ source \in DOMAIN subscriptions => subscriptions[source] # {}
        /\ \A suffix \in EventNames :
              (source \in DOMAIN subscriptions /\ suffix \in subscriptions[source])
                  <=> dispatch(source, <<Url(suffix.package, suffix.name)>>) # <<>>

\* "Routes based on source domain and event type suffix" (router.hpp:314): an
\* event is handled when a handler was registered for the end of its type name.
RoutedBySuffix ==
    \A i \in DOMAIN script, url \in Urls :
        /\ script[i].call = "on"
        /\ DomainOf(i) # NoDomain
        /\ script[i].name.name = url.name
        /\ script[i].name.package \in {"", url.package}
        => dispatch(DomainOf(i), <<url>>) # <<>>
=============================================================================
