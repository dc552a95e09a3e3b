------------------------------ MODULE SagaFlow ------------------------------
(***************************************************************************)
(* A saga turns events of a source stream into commands for other          *)
(* aggregates.  The coordinator cuts pages off the stream, fetches books   *)
(* of the aggregates that the saga asks for, and hands both over.  The     *)
(* saga may stamp each command with the sequence it expects its target to  *)
(* be at, and the target refuses a command that was overtaken.             *)
(*                                                                         *)
(* A saga is written in one of four styles, which differ in the pages they *)
(* look at, in where a sequence comes from, and in whether facts get out.  *)
(* A command is known by the page it was made of and its place among the   *)
(* commands of that page.                                                  *)
(*                                                                         *)
(* The coordinator and the targets are external.                           *)
(***************************************************************************)
EXTENDS EventBooks, SequencesExt

CONSTANTS
    Targets,       \* aggregates: [domain, root]
    Happenings,    \* events of the source stream, and pages without an event
    Sends,         \* happening -> the targets of its handler's commands, in order
    NoEvent,       \* a page without an event
    OutputDomain,  \* output_domain() of the Saga class
    Unset,         \* no sequence, no root
    MaxSource,     \* pages of the source stream
    MaxBatch,      \* pages of one source book
    MaxLength,     \* events of a target
    MaxExceptions  \* exceptions user code throws

ASSUME SagaAssumption == /\ Sends \in [Happenings -> Seq(Targets)]
                         /\ NoEvent \in Happenings /\ Sends[NoEvent] = <<>>
                         /\ MaxSource \in Nat /\ MaxBatch \in Nat
                         /\ MaxLength \in Nat /\ MaxExceptions \in Nat
                         /\ Unset \notin Nat

VARIABLES
    style,       \* how the saga is written
    source,      \* the source stream
    handled,     \* how many of its pages were handled
    cut,         \* how many more the book being handled has, 0 for no book
    fetched,     \* the books fetched for it, in order
    length,      \* per target, how many events it has
    outbox,      \* commands on their way
    facts,       \* facts_ of the one instance: per page, how many
    returned,    \* history: every command handed to the coordinator, in order
    injected,    \* history: per page, how often its facts were
    exceptions

sagas == <<style, source, handled, cut, fetched, length, outbox, facts, returned, injected,
          exceptions>>

Styles == {"Saga", "EventRouter", "SagaRouter", "ProcessManagerRouter"}
Positions == 1..MaxSource
None == [p \in Positions |-> 0]

NothingSent ==
    /\ style \in Styles
    /\ source = <<>> /\ handled = 0 /\ cut = 0 /\ fetched = <<>>
    /\ length = [t \in Targets |-> 0]
    /\ outbox = {} /\ returned = <<>> /\ exceptions = 0
    /\ facts = None /\ injected = None

-----------------------------------------------------------------------------
(***************************************************************************)
(* Which pages are looked at.                                              *)
(***************************************************************************)
\* Fault: the walk ends at a page without an event.
all_pages_to_blank == {p \in handled + 1 .. handled + cut :
                          \A q \in handled + 1 .. p : source[q] # NoEvent}

all_pages == {p \in handled + 1 .. handled + cut : source[p] # NoEvent}

last_page == {handled + cut}

Visited == IF style \in {"Saga", "EventRouter"} THEN all_pages ELSE last_page

\* The two routers refuse a book whose last page has no event.
Malformed == \E p \in Visited : source[p] = NoEvent

Prepared == UNION {Range(Sends[source[p]]) : p \in Visited}

(***************************************************************************)
(* Where a sequence comes from.  A fetched book says how long its target   *)
(* is.  Its view: a target without events may have no book at all,         *)
(* "absent"; a snapshot may hide all pages, "hidden"; the last page may    *)
(* lack its header, "headless", or have it, "headed".                      *)
(***************************************************************************)
Views == {"absent", "hidden", "headless", "headed"}

Of(domain) == {i \in DOMAIN fetched : /\ fetched[i].view # "absent"
                                      /\ fetched[i].target.domain = domain}
FetchedDomains == {fetched[i].target.domain : i \in {j \in DOMAIN fetched : fetched[j].view # "absent"}}

\* Fault: the sequence of the last page for the next one.
last_sequence_shown(book) == IF book.view = "headed" THEN book.next - 1 ELSE 1

\* SagaContext: one more than the last page's, 1 where there is none or it has
\* no header.
get_sequence(book) == IF book.view = "headed" THEN book.next ELSE 1

\* Destinations: one book for each domain.  ProcessManagerRouter takes the last;
\* to SagaRouter the framework hands an entry it made of any of them.
Destinations ==
    {of \in [FetchedDomains -> DOMAIN fetched] :
        \A domain \in FetchedDomains :
            /\ of[domain] \in Of(domain)
            /\ style = "ProcessManagerRouter" => \A j \in Of(domain) : j <= of[domain]}

sequence_for(destinations, domain) == fetched[destinations[domain]].next

OwnBook(t) == fetched[CHOOSE i \in DOMAIN fetched : fetched[i].target = t]

Stamp(destinations, t) ==
    IF style = "EventRouter" THEN get_sequence(OwnBook(t)) ELSE sequence_for(destinations, t.domain)

\* stamp_command throws when the domain has no entry.
Unstampable == style \in {"SagaRouter", "ProcessManagerRouter"}
               /\ \E t \in Prepared : Of(t.domain) = {}

\* The sequence is beyond doubt: the target's book shows its last page's, or it
\* is the one book of its domain.
Clear(t) == IF style = "EventRouter" THEN OwnBook(t).view = "headed"
            ELSE OwnBook(t).view # "absent" /\ Cardinality(Of(t.domain)) = 1

-----------------------------------------------------------------------------
CommandsOf(p) == [i \in DOMAIN Sends[source[p]] |-> [page |-> p, place |-> i]]

\* The commands of the pages visited, page after page.
Commands ==
    FlattenSeq([i \in 1..cut |-> IF handled + i \in Visited THEN CommandsOf(handled + i)
                                 ELSE <<>>])

\* The Saga class packs a command for its output domain, without a root and
\* without a sequence; in the other styles the handler addresses and stamps it.
pack(destinations, command) ==
    LET t == Sends[source[command.page]][command.place]
    IN  IF style = "Saga"
        THEN [command |-> command, target |-> [domain |-> OutputDomain, root |-> Unset],
              sequence |-> Unset, based |-> Unset, clear |-> FALSE]
        ELSE [command |-> command, target |-> t, sequence |-> Stamp(destinations, t),
              based |-> OwnBook(t).next, clear |-> Clear(t)]

Once(pages) == [p \in Positions |-> IF p \in pages THEN 1 ELSE 0]
Plus(f, g) == [p \in Positions |-> f[p] + g[p]]

-----------------------------------------------------------------------------
Happen(happening) ==
    /\ Len(source) < MaxSource
    /\ source' = Append(source, happening)
    /\ UNCHANGED <<style, handled, cut, fetched, length, outbox, facts, returned, injected,
                   exceptions>>

\* Somebody else's command is accepted by a target.
Write(t) ==
    /\ length[t] < MaxLength
    /\ length' = [length EXCEPT ![t] = @ + 1]
    /\ UNCHANGED <<style, source, handled, cut, fetched, outbox, facts, returned, injected,
                   exceptions>>

HandOver(n) ==
    /\ cut = 0 /\ handled + n <= Len(source)
    /\ cut' = n /\ fetched' = <<>>
    /\ UNCHANGED <<style, source, handled, length, outbox, facts, returned, injected,
                   exceptions>>

Fetch(t, view) ==
    /\ cut > 0 /\ t \in Prepared
    /\ \A i \in DOMAIN fetched : fetched[i].target # t
    /\ view = "absent" => length[t] = 0
    /\ view \in {"headless", "headed"} => length[t] > 0
    /\ fetched' = Append(fetched, [target |-> t, view |-> view, next |-> length[t]])
    /\ UNCHANGED <<style, source, handled, cut, length, outbox, facts, returned, injected,
                   exceptions>>

Ready == cut > 0 /\ \A t \in Prepared : \E i \in DOMAIN fetched : fetched[i].target = t

\* A dispatch that returns: its commands go out with it.
Returns(destinations) ==
    /\ Ready /\ ~Malformed /\ ~Unstampable
    /\ returned' = returned \o Commands
    /\ outbox' = outbox \cup {pack(destinations, Commands[i]) : i \in DOMAIN Commands}
    /\ handled' = handled + cut /\ cut' = 0 /\ fetched' = <<>>
    /\ UNCHANGED <<style, source, length, exceptions>>

\* Fault: facts_ is not cleared first.
DispatchUncleared(destinations) ==
    /\ Returns(destinations)
    /\ facts' = IF style = "Saga" THEN Plus(facts, Once(Visited)) ELSE facts
    /\ injected' = IF style = "Saga" THEN Plus(injected, facts') ELSE injected

\* dispatch clears facts_ and returns what the handlers left there.  The other
\* styles have handlers that return facts, which their response has no field for.
Dispatch(destinations) ==
    /\ Returns(destinations)
    /\ facts' = IF style = "Saga" THEN Once(Visited) ELSE facts
    /\ injected' = IF style = "Saga" THEN Plus(injected, Once(Visited)) ELSE injected

\* Nothing is answered, and the coordinator hands pages over again.  What the
\* handlers before the one that threw left in facts_ stays there.
DispatchThrows ==
    /\ Ready
    /\ \/ (Malformed \/ Unstampable) /\ UNCHANGED <<facts, exceptions>>
       \/ /\ exceptions < MaxExceptions /\ exceptions' = exceptions + 1
          /\ \E broken \in Visited :
               facts' = IF style = "Saga" THEN Once({p \in Visited : p <= broken}) ELSE facts
    /\ cut' = 0 /\ fetched' = <<>>
    /\ UNCHANGED <<style, source, handled, length, outbox, returned, injected>>

\* The target takes a command that carries its next sequence, and no other.  What
\* becomes of one without a sequence and a root is up to the coordinator.
Deliver(packed) ==
    /\ outbox' = outbox \ {packed}
    /\ \/ /\ packed.sequence # Unset
          /\ length' = IF packed.sequence = length[packed.target]
                       THEN [length EXCEPT ![packed.target] = @ + 1] ELSE length
       \/ /\ packed.sequence = Unset
          /\ \/ length' = length
             \/ \E t \in Targets : /\ t.domain = packed.target.domain
                                   /\ length' = [length EXCEPT ![t] = @ + 1]
    /\ UNCHANGED <<style, source, handled, cut, fetched, facts, returned, injected,
                   exceptions>>

Flow ==
    \/ \E happening \in Happenings : Happen(happening)
    \/ \E t \in Targets : Write(t)
    \/ \E n \in 1..MaxBatch : HandOver(n)
    \/ \E t \in Targets, view \in Views : Fetch(t, view)
    \/ \E destinations \in Destinations : Dispatch(destinations)
    \/ DispatchThrows
    \/ \E packed \in outbox : Deliver(packed)

FlowSpec == NothingSent /\ [][Flow]_sagas

-----------------------------------------------------------------------------
\* "Dispatch all events to handlers" (saga.hpp:96, router.hpp:313): however the
\* stream is cut and whatever throws, the commands returned so far are those of
\* all pages handled so far, each once, in the order of the pages.  The styles
\* that look at one page of a book return, in that order, those of some pages.
EveryEventOnce ==
    \E answered \in SUBSET (1..handled) :
        /\ style \in {"Saga", "EventRouter"} => answered = 1..handled
        /\ returned = FlattenSeq([p \in 1..handled |-> IF p \in answered THEN CommandsOf(p)
                                                       ELSE <<>>])

\* A fact gets out when its event is answered or not at all: none is left over
\* from a dispatch that threw, and only the Saga class gets any out.
FactsWithTheirEvent ==
    \A p \in Positions :
        injected[p] = IF style = "Saga" /\ p <= handled /\ source[p] # NoEvent THEN 1 ELSE 0

\* A command whose sequence is beyond doubt is taken exactly when its target
\* has not moved since its book was fetched.
TakenUnlessOvertaken ==
    [][\A packed \in outbox \ outbox' : packed.clear =>
          (length' # length <=> length[packed.target] = packed.based)]_sagas
=============================================================================
