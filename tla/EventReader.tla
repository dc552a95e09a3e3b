----------------------------- MODULE EventReader -----------------------------
(***************************************************************************)
(* A reader and the event store.  Writers append events of several roots   *)
(* and workflows; the reader describes queries with one QueryBuilder that  *)
(* it keeps, and runs them with QueryClient: get_event_book / get_pages in *)
(* one answer, get_events as a stream that may break between two books.    *)
(* It also walks through the events of a root in pages.                    *)
(*                                                                         *)
(* The query service is external: it is modelled by what builder.hpp says  *)
(* of the parts of a query.                                                *)
(***************************************************************************)
EXTENDS QueryBuilder, FiniteSets, Sequences

CONSTANTS
    Roots,        \* aggregate roots of the domain
    Flows,        \* correlation ids
    Editions,     \* names of editions
    Careful,      \* the reader asks by sequence on a builder only after it is
                  \* done asking by time
    AsDocumented, \* it pages the way range_to's comment shows: 100-200, 200-300
    MaxEvents,    \* events ever recorded
    MaxAsks,      \* setter calls
    PageSize      \* sequences in a page of range_to()

ASSUME ReaderAssumption == /\ MaxEvents \in Nat /\ MaxAsks \in Nat
                           /\ PageSize \in Nat \ {0}
                           /\ Careful \in BOOLEAN /\ AsDocumented \in BOOLEAN
                           /\ NotSet \notin Roots \cup Flows \cup Editions \cup Nat

VARIABLES
    log,      \* recorded events, [root, flow], in the order of their times
    builder,  \* the reader's QueryBuilder
    asked,    \* what the reader asked for last, as it would say it
    asks,     \* setter calls so far
    stream,   \* the get_events in progress; `due' is what matched at its start
    result,   \* what the last finished query handed to the reader
    pages     \* per root: next sequence to page from, events got, got twice

reading == <<log, builder, asked, asks, stream, result, pages>>

-----------------------------------------------------------------------------
(* The store.  An event is known by its place, which is also its time. *)

sequence(place) == Cardinality({i \in 1..(place - 1) : log[i].root = log[place].root})

InWindow(window, place) ==
    CASE window.by = "nothing"  -> TRUE
      [] window.by = "range"    -> /\ window.from <= sequence(place)
                                   /\ window.to # NotSet => sequence(place) <= window.to
      [] window.by = "sequence" -> sequence(place) <= window.to
      [] window.by = "time"     -> place <= window.to

\* Events that answer a query.
Selected(query) ==
    {i \in DOMAIN log : /\ query.root # NotSet => log[i].root = query.root
                        /\ query.correlation_id # NotSet => log[i].flow = query.correlation_id
                        /\ InWindow(query.window, i)}

OfRoot(events, r) == {i \in events : log[i].root = r}

NoStream == [open |-> FALSE, query |-> build(NewBuilder), left |-> {}, got |-> {}, due |-> {}]
NoResult == [kind |-> "none", events |-> {}, due |-> {}]

NothingAsked ==
    /\ log = <<>>
    /\ builder = NewBuilder
    /\ asked = [root |-> NotSet, correlation_id |-> NotSet, edition |-> NotSet, window |-> All]
    /\ asks = 0
    /\ stream = NoStream
    /\ result = NoResult
    /\ pages = [r \in Roots |-> [next |-> 0, got |-> {}, twice |-> {}]]

Record(r, f) ==
    /\ Len(log) < MaxEvents
    /\ log' = Append(log, [root |-> r, flow |-> f])
    /\ UNCHANGED <<builder, asked, asks, stream, result, pages>>

-----------------------------------------------------------------------------
(* Describing a query: the builder's member, and what the reader means. *)

Ask(new, meant) ==
    /\ asks < MaxAsks
    /\ ~stream.open
    /\ asks' = asks + 1
    /\ builder' = new
    /\ asked' = meant
    /\ result' = NoResult
    /\ UNCHANGED <<log, stream, pages>>

WithRoot(r) ==
    Ask(with_root(builder, r), [asked EXCEPT !.root = r, !.correlation_id = NotSet])

ByCorrelationId(f) ==
    Ask(by_correlation_id(builder, f), [asked EXCEPT !.correlation_id = f, !.root = NotSet])

WithEdition(e) == Ask(with_edition(builder, e), [asked EXCEPT !.edition = e])

\* The lower bounds a reader uses: where it stands in a root's events.
Lowers == {pages[r].next : r \in Roots}

FromRange(lower) == Ask(range(builder, lower), [asked EXCEPT !.window = Between(lower, NotSet)])

\* Both bounds are inclusive.
UpperOf(lower) == IF AsDocumented THEN lower + PageSize ELSE lower + PageSize - 1

FromRangeTo(lower) ==
    Ask(range_to(builder, lower, UpperOf(lower)),
        [asked EXCEPT !.window = Between(lower, UpperOf(lower))])

AsOfSequence(seq) ==
    Ask(as_of_sequence(builder, seq), [asked EXCEPT !.window = Until("sequence", seq)])

AsOfTime(time) ==
    /\ Careful => builder.temporal_sequence = NotSet
    /\ Ask(as_of_time(builder, time), [asked EXCEPT !.window = Until("time", time)])

-----------------------------------------------------------------------------
(* Running it. *)

\* The answer to a range that starts where the reader stands is its next page.
\* Behind a full page the documented reader goes on at the bound it shares with
\* the next one, any other behind the last event it got.
Behind(events) ==
    LET end == asked.window.from + Cardinality(events)
    IN  IF AsDocumented /\ end - 1 = asked.window.to THEN asked.window.to ELSE end

Paged(events) ==
    LET r == asked.root
        isPage == r # NotSet /\ asked.window.by = "range" /\ asked.window.from = pages[r].next
    IN  IF ~isPage THEN pages
        ELSE [pages EXCEPT ![r] = [next |-> Behind(events),
                                   got |-> @.got \cup events,
                                   twice |-> @.twice \cup (@.got \cap events)]]

\* get_event_book, and get_pages, which is it without the cover.  One book is
\* the answer about one root.  A failed call throws, and hands over nothing.
GetEventBook ==
    /\ ~stream.open
    /\ asked.root # NotSet
    /\ LET events == Selected(build(builder))
       IN  \/ /\ result' = [kind |-> "book", events |-> events, due |-> Selected(asked)]
              /\ pages' = Paged(events)
           \/ result' = NoResult /\ UNCHANGED pages
    /\ UNCHANGED <<log, builder, asked, asks, stream>>

\* get_events: a book for each root that has events to show.
GetEvents ==
    /\ ~stream.open
    /\ stream' = [open |-> TRUE, query |-> build(builder), left |-> Roots,
                  got |-> {}, due |-> Selected(asked)]
    /\ result' = NoResult
    /\ UNCHANGED <<log, builder, asked, asks, pages>>

\* reader->Read(&book): the store reads a root's events when it sends them.
Read(r) ==
    /\ stream.open
    /\ r \in stream.left
    /\ stream' = [stream EXCEPT !.left = @ \ {r},
                                !.got = @ \cup OfRoot(Selected(stream.query), r)]
    /\ UNCHANGED <<log, builder, asked, asks, result, pages>>

\* Fault: the status Finish() returns is not looked at.
FinishAnyway ==
    /\ stream.open
    /\ stream' = NoStream
    /\ result' = [kind |-> "books", events |-> stream.got, due |-> stream.due]
    /\ UNCHANGED <<log, builder, asked, asks, pages>>

\* Read() returned false: Finish() tells the end of the books from a break,
\* after which GrpcError is thrown and the books read so far are dropped.
Finish ==
    /\ stream.open
    /\ stream' = NoStream
    /\ result' = IF stream.left = {}
                 THEN [kind |-> "books", events |-> stream.got, due |-> stream.due]
                 ELSE NoResult
    /\ UNCHANGED <<log, builder, asked, asks, pages>>

Reading ==
    \/ \E r \in Roots, f \in Flows : Record(r, f)
    \/ \E r \in Roots : WithRoot(r) \/ Read(r)
    \/ \E f \in Flows : ByCorrelationId(f)
    \/ \E e \in Editions : WithEdition(e)
    \/ \E lower \in Lowers : FromRange(lower) \/ FromRangeTo(lower)
    \/ \E point \in 0..MaxEvents : AsOfSequence(point) \/ AsOfTime(point)
    \/ GetEventBook \/ GetEvents \/ Finish

ReadingSpec == NothingAsked /\ [][Reading]_reading

-----------------------------------------------------------------------------
\* However the setters were mixed before, the query built is the one asked for
\* last: one address, one window, no part of an earlier question.
AskedLast == build(builder) = asked

\* The reader gets either nothing or everything: what matched when it asked is
\* there, and nothing is that does not match.
WholeAnswer ==
    result.kind # "none" => /\ result.due \subseteq result.events
                            /\ result.events \subseteq Selected(asked)

\* "Use for pagination: fetch events 100-200, then 200-300" (builder.hpp:291):
\* no event comes on two pages.
NoEventTwice == \A r \in Roots : pages[r].twice = {}

\* A reader that goes on behind the last event it got meets, page after page,
\* every event of a root once and misses none before the place where it stands.
PagesMeetEachOnce ==
    /\ NoEventTwice
    /\ \A r \in Roots :
          pages[r].got = {i \in OfRoot(DOMAIN log, r) : sequence(i) < pages[r].next}
=============================================================================
