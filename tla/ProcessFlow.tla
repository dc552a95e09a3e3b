----------------------------- MODULE ProcessFlow -----------------------------
(***************************************************************************)
(* A process manager at work.  Events of several workflows happen; the     *)
(* coordinator hands them over in trigger books of one or more pages, with *)
(* the workflow's earlier events as the prior book, and, when the answer   *)
(* comes, sends the commands out, injects the facts, records compensating  *)
(* events and hands notifications on.  A command may be rejected: the      *)
(* rejection comes back as a Notification page.  User code may throw       *)
(* anywhere; the coordinator, which got no answer, hands the pages over    *)
(* again, perhaps cut into other books.                                    *)
(*                                                                         *)
(* The coordinator is external: it is modelled from what dispatch takes    *)
(* and returns.  It advances a workflow when, and only when, it got an     *)
(* answer for the book.                                                    *)
(***************************************************************************)
EXTENDS ProcessManager

CONSTANTS
    Workflows,     \* correlation ids
    Happenings,    \* the events the outside world may record
    Target(_),     \* command -> [domain, url], where it goes
    MaxHappenings, \* of them, per stream
    MaxBatch,      \* pages of one trigger book
    MaxExceptions  \* exceptions user code throws

ASSUME FlowAssumption == /\ MaxHappenings \in [Workflows \cup {NoCorrelation} -> Nat]
                         /\ MaxBatch \in Nat \ {0}
                         /\ MaxExceptions \in Nat
                         /\ NoCorrelation \notin Workflows
                         /\ \A event \in Happenings :
                               ~type_url_matches(event.url, NotificationType)

VARIABLES
    members,     \* state_, exists_ and facts_ of the one instance
    arriving,    \* per stream, pages recorded and not yet handled
    taken,       \* history: per stream, the pages that answered walks took
    book,        \* per stream, the prior book: events handled, compensations
    issued,      \* per stream, every command sent out, in order
    injected,    \* per stream, every fact injected, in order
    forwarded,   \* per stream, every notification handed on, in order
    undecided,   \* per stream, the places in `issued' no aggregate answered yet
    happened,    \* per stream, how many happenings there were
    exceptions,  \* how many exceptions there were
    mixed        \* history: a notification shared its book with other pages

vars == <<members, arriving, taken, book, issued, injected, forwarded, undecided,
          happened, exceptions, mixed>>

\* Events that carry no correlation id form a stream of their own.
Streams == Workflows \cup {NoCorrelation}

Page(event) == [event |-> event]

RejectionOf(command) ==
    pack_any(NotificationType.package, NotificationType.name,
             [domain |-> Target(command).domain, pages |-> <<Target(command).url>>])

IsRejection(page) == type_url_matches(page.event.url, NotificationType)

Nothing == [s \in Streams |-> <<>>]

Init ==
    /\ members = [state |-> create_empty_state, exists |-> FALSE, facts |-> <<>>]
    /\ arriving = Nothing
    /\ taken = Nothing
    /\ book = Nothing
    /\ issued = Nothing
    /\ injected = Nothing
    /\ forwarded = Nothing
    /\ undecided = [s \in Streams |-> {}]
    /\ happened = [s \in Streams |-> 0]
    /\ exceptions = 0
    /\ mixed = FALSE

-----------------------------------------------------------------------------
Happen(s) ==
    /\ happened[s] < MaxHappenings[s]
    /\ happened' = [happened EXCEPT ![s] = @ + 1]
    /\ \E event \in Happenings : arriving' = [arriving EXCEPT ![s] = Append(@, Page(event))]
    /\ UNCHANGED <<members, taken, book, issued, injected, forwarded, undecided,
                   exceptions, mixed>>

\* Books the coordinator may cut off the head of a stream.
TriggerBooks(s) ==
    LET lengths == {n \in 1..MaxBatch : n <= Len(arriving[s])}
    IN  {SubSeq(arriving[s], 1, n) : n \in lengths}

IsMixed(pages) == Len(pages) > 1 /\ \E i \in DOMAIN pages : IsRejection(pages[i])

\* A walk takes the pages before the first notification, and that one.
Stop(pages) == Min({i \in DOMAIN pages : IsRejection(pages[i])} \cup {Len(pages) + 1})
Before(pages) == SubSeq(pages, 1, Stop(pages) - 1)
Ending(pages) == IF Stop(pages) \in DOMAIN pages THEN <<pages[Stop(pages)]>> ELSE <<>>
Reached(pages) == Before(pages) \o Ending(pages)

Dispatched(s, pages, thrown) ==
    dispatch(members, s, Book(0, pages), Book(0, book[s]), thrown)

\* dispatch returned: its whole result takes effect, and the book is handled.
Answered(s) ==
    \E pages \in TriggerBooks(s) :
        LET run    == Dispatched(s, pages, NoThrow)
            result == DispatchResult(run)
            heard  == s \in Workflows
        IN  /\ members' = run.members
            /\ arriving' = [arriving EXCEPT ![s] = SubSeq(@, Len(pages) + 1, Len(@))]
            /\ taken' = IF heard THEN [taken EXCEPT ![s] = @ \o Reached(pages)] ELSE taken
            /\ book' = IF heard
                       THEN [book EXCEPT ![s] = @ \o Before(pages) \o result.response.pages]
                       ELSE book
            /\ issued' = [issued EXCEPT ![s] = @ \o result.commands]
            /\ injected' = [injected EXCEPT ![s] = @ \o result.facts]
            /\ forwarded' = [forwarded EXCEPT ![s] = @ \o result.response.notification]
            /\ undecided' = [undecided EXCEPT ![s] =
                                @ \cup (DOMAIN issued'[s] \ DOMAIN issued[s])]
            /\ mixed' = (mixed \/ IsMixed(pages))
            /\ UNCHANGED <<happened, exceptions>>

\* User code threw: the members keep what dispatch left there.
Failed(s) ==
    /\ exceptions < MaxExceptions
    /\ \E pages \in TriggerBooks(s) :
         \/ \E stage \in {"applier", "handler", "rejection"}, i \in DOMAIN pages :
              LET run == Dispatched(s, pages, Throws(stage, i))
              IN  run.end = "exception" /\ members' = run.members
         \/ \E i \in DOMAIN book[s] :
              /\ type_name_from_url(book[s][i].event.url) \in appliers
              /\ members' = Dispatched(s, pages, Throws("rebuild", i)).members
    /\ exceptions' = exceptions + 1
    /\ UNCHANGED <<arriving, taken, book, issued, injected, forwarded, undecided,
                   happened, mixed>>

\* The aggregate the command went to records its events, or rejects it.
Decide(s, place) ==
    /\ undecided' = [undecided EXCEPT ![s] = @ \ {place}]
    /\ \/ UNCHANGED arriving
       \/ arriving' = [arriving EXCEPT ![s] = Append(@, Page(RejectionOf(issued[s][place])))]
    /\ UNCHANGED <<members, taken, book, issued, injected, forwarded, happened,
                   exceptions, mixed>>

Next ==
    \E s \in Streams : \/ Happen(s)
                       \/ Answered(s)
                       \/ Failed(s)
                       \/ \E place \in undecided[s] : Decide(s, place)

Spec == Init /\ [][Next]_vars

-----------------------------------------------------------------------------
(***************************************************************************)
(* Properties.  What a workflow should do is a function of the pages taken *)
(* from it, each handled alone: an event in the state that all before it   *)
(* and itself have built, a rejection, whose handler is found under the    *)
(* domain and the simple name, in the state all before it have built.      *)
(*                                                                         *)
(* A notification ends the walk over its book.  The pages behind it are    *)
(* not taken, and the commands of those before it are dropped; facts,      *)
(* compensations and what is handed on are not.  So of commands the        *)
(* equality is said where no notification shared its book (`mixed' is      *)
(* FALSE), and NothingInvented says what is left when one did.             *)
(***************************************************************************)
StateOf(pages) ==
    FoldLeft(LAMBDA state, page : apply(state, page.event), create_empty_state, pages)

RejectedKey(event) == <<event.value.domain, Head(event.value.pages).name>>

Blank == [book |-> <<>>, commands |-> <<>>, facts |-> <<>>, forwarded |-> <<>>]

Reaction(alone, page) ==
    LET longer == Append(alone.book, page)
        effect == Handler(StateOf(longer), page.event)
    IN  IF type_name_from_url(page.event.url) \in handlers
        THEN [alone EXCEPT !.book = longer,
                           !.commands = @ \o effect.commands,
                           !.facts = @ \o effect.facts]
        ELSE [alone EXCEPT !.book = longer]

Compensation(alone, page) ==
    LET answer == Rejection(StateOf(alone.book), RejectedKey(page.event))
    IN  IF RejectedKey(page.event) \in rejection_handlers
        THEN [alone EXCEPT !.book = @ \o answer.pages,
                           !.facts = @ \o answer.facts,
                           !.forwarded = @ \o answer.notification]
        ELSE alone

Turn(alone, page) ==
    IF IsRejection(page) THEN Compensation(alone, page) ELSE Reaction(alone, page)

\* The book, commands, facts and notifications of the pages taken, one by one.
Alone(s) == FoldLeft(Turn, Blank, taken[s])

\* `part' is left when some elements of `whole' are struck out.
Within(part, whole) ==
    \E kept \in SUBSET DOMAIN whole : part = Picked(whole, kept)

\* However pages are cut into books, whatever user code throws and whatever
\* other workflows the instance serves in between, the commands a workflow
\* sends are those of handling its pages one by one, each once, in order.
CommandsAsOneByOne == ~mixed => \A s \in Streams : issued[s] = Alone(s).commands

\* The same of facts, those that rejection handlers emit included, and also
\* where books are mixed: they travel in a member and not in the return value,
\* and no fact of a dispatch that threw, or of another workflow, is injected.
FactsAsOneByOne == \A s \in Streams : injected[s] = Alone(s).facts

\* Every rejection taken is answered once, in order, by the handler found for
\* the domain and simple name of the rejected command, in the state the pages
\* before it have built: so the book holds the handlers' compensations where
\* the rejections came, and what they hand on is handed on.
RejectionsAsOneByOne ==
    \A s \in Streams : book[s] = Alone(s).book /\ forwarded[s] = Alone(s).forwarded

\* A process manager does nothing about events outside any workflow.
UncorrelatedIsInert == issued[NoCorrelation] = <<>> /\ injected[NoCorrelation] = <<>>

\* With notifications in the same book as events, commands may be missing, but
\* none is made up, doubled, out of order or made in a wrong state.
NothingInvented == \A s \in Streams : Within(issued[s], Alone(s).commands)
=============================================================================
