------------------------------ MODULE ReadSide ------------------------------
(***************************************************************************)
(* How stored events become projections: the store hands the pages of a    *)
(* stream to an upcaster service, which brings old versions up to date,    *)
(* and the coordinator hands what comes out to a projector, in books cut   *)
(* anywhere.  The projector is a Projector behind a ProjectorRouter, and   *)
(* next to it a CloudEventsRouter with the same registrations.             *)
(*                                                                         *)
(* A handler is known by the place of its registration.  An upcaster is    *)
(* registered for an ending of type URLs: an ending is a model value, and  *)
(* EndsIn says which URLs end in it.  A payload may not parse ("broken"),  *)
(* and of one that does a CloudEvents handler may make nothing ("private").*)
(***************************************************************************)
EXTENDS EventBooks, SequencesExt

CONSTANTS
    Endings,        \* suffixes given to UpcasterRouter::on
    EndsIn,         \* ending -> the type URLs it matches
    Makes,          \* ending -> the type URL its handler makes
    Projected,      \* event types given to the projectors
    Events,         \* what may be stored: Anys, and NoUrl for no event
    SourceDomains,  \* names given to ProjectorRouter::domain
    MaxUpcasters, MaxProjectors, MaxStored, MaxCut

ASSUME ReadAssumption == /\ MaxUpcasters \in Nat /\ MaxProjectors \in Nat
                         /\ MaxStored \in Nat /\ MaxCut \in Nat
                         /\ \A ending \in Endings : Makes[ending] # NoUrl
                         /\ \A event \in Events :
                               event = [url |-> event.url, value |-> event.value]

VARIABLES
    upcasters,   \* UpcasterRouter::handlers_
    projectors,  \* history: the types registered, in order
    boxed,       \* handlers() of Projector and handlers_ of CloudEventsRouter
    domains,     \* domains_ of ProjectorRouter
    stored,      \* per domain, the pages of its stream
    seen,        \* per domain, how many were projected
    shown,       \* per domain, every Projection made
    cloud        \* per domain, every CloudEvent made

readside == <<upcasters, projectors, boxed, domains, stored, seen, shown, cloud>>

NothingRead ==
    /\ upcasters = <<>> /\ projectors = <<>> /\ domains = {}
    /\ boxed = [type \in {} |-> 0]
    /\ stored = [d \in SourceDomains |-> <<>>]
    /\ seen = [d \in SourceDomains |-> 0]
    /\ shown = [d \in SourceDomains |-> <<>>]
    /\ cloud = [d \in SourceDomains |-> <<>>]

Started == \E d \in SourceDomains : stored[d] # <<>>

-----------------------------------------------------------------------------
on_ending(ending) ==
    /\ ~Started /\ Len(upcasters) < MaxUpcasters
    /\ upcasters' = Append(upcasters, ending)
    /\ UNCHANGED <<projectors, boxed, domains, stored, seen, shown, cloud>>

register_projector_handler(type) ==
    /\ ~Started /\ Len(projectors) < MaxProjectors
    /\ projectors' = Append(projectors, type)
    /\ boxed' = [t \in DOMAIN boxed \cup {type} |->
                    IF t = type THEN Len(projectors') ELSE boxed[t]]
    /\ UNCHANGED <<upcasters, domains, stored, seen, shown, cloud>>

project_domain(d) ==
    /\ ~Started /\ domains' = domains \cup {d}
    /\ UNCHANGED <<upcasters, projectors, boxed, stored, seen, shown, cloud>>

\* A page with a header and a timestamp.
Store(d, event) ==
    /\ Len(stored[d]) < MaxStored
    /\ stored' = [stored EXCEPT ![d] = Append(@,
                    [sequence |-> Len(@), created_at |-> TRUE, event |-> event])]
    /\ UNCHANGED <<upcasters, projectors, boxed, domains, seen, shown, cloud>>

-----------------------------------------------------------------------------
Matching(url) == Where(upcasters, LAMBDA ending : url \in EndsIn[ending])

\* The new page has the old one's sequence and timestamp and nothing else of it.
upcast_page(page) ==
    LET found == Matching(page.event.url)
    IN  IF ~has_event(page) \/ found = <<>> THEN page
        ELSE [page EXCEPT !.event.url = Makes[Head(found)]]

\* Faults: the new page has no sequence; the last match decides.
upcast_unplaced(pages) ==
    [i \in DOMAIN pages |->
        LET page == upcast_page(pages[i])
        IN  IF page = pages[i] THEN page ELSE [page EXCEPT !.sequence = 0]]
upcast_last(pages) ==
    [i \in DOMAIN pages |->
        LET found == Matching(pages[i].event.url)
        IN  IF ~has_event(pages[i]) \/ found = <<>> THEN pages[i]
            ELSE [pages[i] EXCEPT !.event.url = Makes[Last(found)]]]

upcast(pages) == [i \in DOMAIN pages |-> upcast_page(pages[i])]

IsBoxed(page) == has_event(page) /\ type_name_from_url(page.event.url) \in DOMAIN boxed
Boxes(page) == [by |-> boxed[type_name_from_url(page.event.url)], value |-> page.event.value]
Tells(page) == page.event.value \notin {"broken", "private"}

project(pages) ==
    LET kept == Where(pages, IsBoxed) IN [i \in DOMAIN kept |-> Boxes(kept[i])]

\* CloudEventsRouter leaves out what does not unpack, and what its handler
\* returns nothing for.
project_cloud(pages) ==
    LET kept == Where(pages, LAMBDA page : IsBoxed(page) /\ Tells(page))
    IN  [i \in DOMAIN kept |-> Boxes(kept[i])]

\* The store is read, the upcaster answers, and a book goes to both projectors.
\* ProjectorRouter refuses books of a domain it does not know.
Project(d, n) ==
    /\ d \in domains
    /\ seen[d] + n <= Len(stored[d])
    /\ LET pages == upcast(SubSeq(stored[d], seen[d] + 1, seen[d] + n))
       IN  /\ shown' = [shown EXCEPT ![d] = @ \o project(pages)]
           /\ cloud' = [cloud EXCEPT ![d] = @ \o project_cloud(pages)]
    /\ seen' = [seen EXCEPT ![d] = @ + n]
    /\ UNCHANGED <<upcasters, projectors, boxed, domains, stored>>

Projecting ==
    \/ \E ending \in Endings : on_ending(ending)
    \/ \E type \in Projected : register_projector_handler(type)
    \/ \E d \in SourceDomains :
         \/ project_domain(d)
         \/ \E event \in Events : Store(d, event)
         \/ \E n \in 1..MaxCut : Project(d, n)

ReadSpec == NothingRead /\ [][Projecting]_readside

-----------------------------------------------------------------------------
\* What an event is in the end, told by the registrations: the handler of the
\* first ending that matches makes it new, once, and then the last one that was
\* registered for its type projects it.
CurrentUrl(event) ==
    LET hits == {i \in DOMAIN upcasters : event.url \in EndsIn[upcasters[i]]}
    IN  IF event.url = NoUrl \/ hits = {} THEN event.url
        ELSE Makes[upcasters[CHOOSE i \in hits : \A j \in hits : i <= j]]

ProjectsAs(event) ==
    LET places == {i \in DOMAIN projectors : projectors[i] = type_name_from_url(CurrentUrl(event))}
    IN  IF CurrentUrl(event) = NoUrl \/ places = {} THEN <<>>
        ELSE <<[by |-> CHOOSE i \in places : \A j \in places : i >= j, value |-> event.value]>>

\* However the stream is cut into books, and with old and new versions mixed in
\* it, every event is projected as what it is today, once and in order.  The
\* cloud events are the projections of what can be read and is not kept private:
\* an event that is left out costs no other.
EachProjectedOnce ==
    \A d \in SourceDomains :
        /\ shown[d] = FlattenSeq([i \in 1..seen[d] |-> ProjectsAs(stored[d][i].event)])
        /\ cloud[d] = Where(shown[d], LAMBDA p : p.value \notin {"broken", "private"})

\* Upcasting what was upcast changes nothing if no handler makes what another,
\* or itself, takes; and every page keeps its place and its time.
UpcastIsStable ==
    \A d \in SourceDomains :
        LET once == upcast(stored[d])
        IN  /\ \A i \in DOMAIN once : /\ once[i].sequence = i - 1 /\ once[i].created_at
                                      /\ has_event(once[i]) <=> has_event(stored[d][i])
            /\ (\A i, j \in DOMAIN upcasters : Makes[upcasters[i]] \notin EndsIn[upcasters[j]])
                  => upcast(once) = once
=============================================================================
