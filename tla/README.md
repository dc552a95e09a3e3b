# Verification of the Angzarr C++ client library

TLA+ modules, TLC configurations and TLAPS proofs about `angzarr-client-cpp`, a C++20 library, mostly
header-only, with which applications write the parts of an event-sourced system: aggregates (command
handlers), sagas, process managers and projectors, and with which other programs send commands and read
events. The coordinator that calls these parts, the event store and the query service are other programs,
reached over gRPC; they are modelled only as far as this code relies on them, and are marked external in
`PROJECT.json`.

Paths such as `router.hpp:316` are below `src/include/angzarr/`.

## 1. Inventory

| Part | State it keeps | Operations | What is hard about it |
|---|---|---|---|
| Helpers (`helpers.hpp`) | none | `next_sequence`, `type_url_matches`, `type_name_from_url`, `pack_any`, `new_event_book` | a book may be absent, empty or hold only what is behind a snapshot |
| `CommandHandlerBase` (`command_handler.hpp` 57-292) | `state_`, `exists_`; tables of methods, appliers, rejection handlers | `dispatch`: replay, then a method, an exception or `dispatch_rejection` | one instance serves all aggregate roots; state must not leak between commands |
| legacy `CommandHandler` (303-455) | static registries | `dispatch` | the same, with registries shared by all instances |
| Clients (`client.hpp`) | a stub | `handle`, `handle_sync`, `get_event_book`, `get_events`, speculative calls, `connect` | statuses, broken connections, repeated sends, streams that end early, calls without a deadline |
| `CommandBuilder`, `QueryBuilder` (`builder.hpp`) | optional members, one per setter | setters, `build`, `execute`, `get_*`; `generate_uuid`, `parse_rfc3339` | setters in any order on an object that is used again |
| `ProcessManager` (`process_manager.hpp`) | `state_`, `exists_`, `facts_`; three tables | `dispatch`, `emit_fact`, `dispatch_rejection` | facts travel in a member, handlers throw, books are cut anywhere, one instance serves all workflows |
| `EventRouter` (`router.hpp` 214-353) | current domain, two tables | `domain`, `prepare`, `on`, `subscriptions`, `prepare_destinations`, `dispatch` | the meaning of a call depends on the calls before it |
| `CommandRouter` (`router.hpp` 25-194) | tables of handlers and rejection handlers | `dispatch` | notifications, compensation, what is emitted when nobody handles a rejection |
| `CommandHandlerRouter`, `SagaRouter`, `ProcessManagerRouter`, `ProjectorRouter` (`component_router.hpp`), `StateRouter` and handler interfaces (`handler_traits.hpp`) | a handler, a state table, domains | `dispatch`, `prepare_destinations`, `rebuild_state` | the same jobs as above in a second way, with other choices |
| `Saga`, `Projector` (`saga.hpp`, `projector.hpp`) | static tables | `dispatch`, `execute`, `prepare` | registries shared by all instances of a class |
| `CompensationContext` (`compensation.hpp`) | parsed notification | `from_notification`, delegation helpers | type names with and without packages |
| `Destinations`, `SagaContext` | sequences by domain, or by domain and root | `stamp_command`, `get_sequence` | two aggregates of one domain, a destination that is missing |
| `UpcasterRouter`, `CloudEventsRouter` | a list, a table of handlers | `upcast`, `project` | first match, order, pages that nobody transforms |
| `ExponentialBackoffRetry` (`retry.hpp`) | bounds | `execute`, `compute_delay` | last attempt, zero attempts, the cap |
| Errors, validation, macros, descriptors | none | predicates, guards, registrations | - |

How they interact: an application reads a book with `QueryClient`, takes `next_sequence` of it, describes a
command with `CommandBuilder` and sends it with `CommandHandlerClient`. The coordinator loads the
aggregate's prior events, hands command and events to `CommandHandlerBase::dispatch` as one
`ContextualCommand`, and records the events of the answer. Recorded events reach sagas, process managers and
projectors as books; their routers find handlers by source domain and type, and the commands they return go
out through the coordinator. A command that an aggregate rejects comes back as a `Notification` to the
aggregate or process manager that caused it, which may answer with compensating events. Components share no
memory. Inside one component, user handlers are callbacks that may throw and that reach the instance's
members. The library starts no threads: interleavings come from several clients and calls, from an instance
that serves many roots, and from messages that are lost or sent again.

What makes each part correct, in a sentence:

- *Command path*: every recorded event is the aggregate's decision on exactly the events before it, no
  retry records a book twice, and the status a caller sees is true of the log for ever.
- *Process manager*: however events are cut into books and whatever throws, a workflow's commands and facts
  are those of handling its pages one by one, and each rejection is answered once, in the state of that moment.
- *Event router*: after any chain of registrations an event goes to the handler which the chain, read from
  the top, names first for its domain and type, and subscriptions agree with that.
- *Builders*: what is built is what was said last, and no more.
- *Query client*: an answer is whole or it is an exception.
- *Aggregates*: however one is written, the method declared for a command runs in the state that the
  declared appliers make of the prior events; the ways agree where no two declarations compete.
- *Rejections*: a rejected command is compensated, forwarded or left to the framework as the handler says that
  was registered for it.
- *Sagas*: each event's commands go out once, in order, with its facts; a stamped command is refused only when
  its target was overtaken.
- *Upcaster and projectors*: every event is projected as what it is today, once, in order.
- *Retry*: `execute` says what the last attempt said, returns only after a success, and backs off.

The full list of hazards, each at its line, with the properties that watch it, is in `PROJECT.json`.

## 2. Modules

```
EventBooks ── CommandHandler ── CommandPath ── MCCommandPath
    │                              ├─ SequencedLog (abstract, by INSTANCE)
    │                              └─ CommandPathProofs
    ├── ProcessManager ── ProcessFlow ── MCProcessFlow, ProcessFlowProofs
    ├── Rejections ── Unwinding ─┬─ MCSagas
    ├── SagaFlow ────────────────┴─ SagasProofs
    ├── EventRouter ─┐
    ├── Aggregates ──┼─ MCEventRouter
    ├── ReadSide ────┴─ RegistrationProofs
    └── CommandBuilder ─┐
Rfc3339 ────────────────┼─ MCCommandBuilder
Connecting ─────────────┴─ ClientProofs
QueryBuilder ── EventReader ── MCEventReader, EventReaderProofs
MCFlowsAndReaders: MCProcessFlow and MCEventReader in one run
MCBuildersAndSagas: MCCommandBuilder and MCSagas in one run
SequenceFacts, FoldFacts: lemmas on sequences and folds that the proofs share
```

Operators that begin with a comment "Fault:" are plausible mistakes in the definition that follows them.
No specification uses them; they serve to show that a property notices the mistake (`mutants` in
`PROJECT.json`).

**EventBooks** holds what a type URL, an event page and a book are, and the helpers on them. A type URL is a
record of prefix, package and simple name. That is as much of the text as the code tells apart; what matters
is that `type_name_from_url` keeps the package and that `type_url_matches` wants the whole name. A book is
absent, or has pages and the `next_sequence` which the framework computed. `Picked` and `Where` are the loops
that `continue` past some pages; they say what `SelectSeq` says, as a recursive function that can be proved about.

**CommandHandler** is `CommandHandlerBase::dispatch` as two operators on the members: `rebuilt`, what they
hold once the prior book is replayed, and `dispatch`, what is answered. The user's factory, appliers and
methods are constants; a value outside `EventAnys` is an exception thrown by a method.

**CommandPath** composes it with applications, clients, coordinator and store. State: the log per root,
what a snapshot hides of it, the instance's members, where each application thread is, and every call ever
made with the stage it reached. `Prepare` is `get_event_book` and `CommandBuilder::build`; `Send` is
`handle` or `handle_sync`, the first time and after a connection error; `Receive`, `Disconnect` and `GiveUp`
end the call in the three ways the caller can see. `Accept`, `Load`, `Record`, `Lose` and `TakeSnapshot` are
the coordinator; `Dispatch` runs the aggregate between `Load` and `Record`, so that any other call may get
between them. The coordinator may compare sequences (`Locking`), which `with_sequence` documents, or merge,
as `MERGE_COMMUTATIVE` asks, which is `CommandBuilder`'s default. A command book is known by its client and
number: applications in this model give their own correlation ids. `Creations` names the events that methods
make only behind `require_not_exists`.

**SequencedLog** is the abstract promise: a book takes effect in one atomic step, as the decision on
everything recorded, while the aggregate is at the sequence the book names, or not at all.

**ProcessManager** is `dispatch` as a walk over the pages of the trigger, with the members it leaves behind
and the way it ends (returned, stopped at a notification, exception). A rejection handler may change the state,
emit facts and fill in either part of `RejectionHandlerResponse`; appliers, handlers and rejection handlers may
throw, and an applier also while the prior book is replayed, before the facts are cleared (`rebuild_broken`).
Appliers emit no facts: they are given the state to write to, and what one wrote before it threw is left out,
as every dispatch begins with a new state. **ProcessFlow** puts it to work: workflows record events, the
coordinator cuts books (`TriggerBooks`), `Answered` is a dispatch whose result takes effect, `Failed` one that
threw and left its marks in the members, `Decide` the target aggregate that accepts or rejects a command. A
command that waits for its answer is known by its place among those issued, since a workflow may well send the
same command twice. The prior book of a workflow (`book`) is what it has handled and compensated so far, and
`taken` the pages that answered walks have looked at; that the coordinator records events a book is made of,
and takes a book as handled once it got an answer, is its own choice, which `dispatch` leaves it.

**EventRouter** keeps the two tables and the domain named last, and as history the chain of calls itself. A
handler is the place of its call in the chain, which makes "which handler ran" visible without modelling
what handlers do.

**QueryBuilder** is the builder, setter by setter. **EventReader** is a reader that keeps one builder, asks
and asks again, runs queries as one answer or as a stream, and walks through a root's events in pages while
others append, behind the last event it got or, `AsDocumented`, the way `range_to`'s comment shows. `asked` is what
the reader means, kept apart from the builder's members.

**CommandBuilder** is the other builder, with `generate_uuid` place by place, since its loop depends on what
each place holds.

**Rfc3339** compares `parse_rfc3339`, which gives `as_of_time` its instant, with a calendar walked one day at
a time. Days and seconds of the day are kept apart: the code adds them up in an `int64_t`, which TLC's
integers could not hold.

**Aggregates** is the four ways of writing an aggregate (`CommandRouter`, `CommandHandlerBase`, the legacy
`CommandHandler`, and `CommandHandlerRouter` with a `StateRouter`) side by side. One declaration goes into
the tables of all four, lists here and maps there, per object here and in a static there; dispatch is an
operator per way over those tables, since it changes nothing that lasts. A method is known by the place of its
declaration and a state by the appliers that made it, so that answers can be compared. `Rebuilding` are the classes
whose `CommandRouter` was given a rebuild function; without one every dispatch of it throws. `CommandHandler`
keeps the members of one class and what survives in them; `Aggregates` what is looked up in which table.

**Rejections** is what the library makes of the `Notification` that a command was rejected, once per class:
`CommandRouter`, `CommandHandlerRouter`, `ProcessManagerRouter`, `CommandHandlerBase` with the legacy class,
`ProcessManager`, and the two components that answer by hand with `CompensationContext`. Each is an operator
from the registry and the notification to the response, a set of what it makes the coordinator do. **Unwinding**
strings them together: a chain of components, each built on any of the seven, handlers registered in any order,
one rejection, which travels back for as long as it is forwarded. What is forwarded is the notification itself:
`RejectionHandlerResponse::with_notification` may be given any, and handlers here pass on what they were told.

**SagaFlow** is a stream of events, the coordinator that cuts books off it and fetches the books of the targets,
one saga written in one of four styles (`Saga`, `EventRouter` with `SagaContext`, `SagaRouter` and
`ProcessManagerRouter` with `Destinations`) and the targets, which others write to as well. The styles differ in
`Visited`, the pages they look at, and in `Stamp`, the source of a sequence. A view says what a fetched book shows
of its target: nothing at all, no pages, a last page without a header, or all. What reaches the handlers matters,
what they compute does not: `Sends` says whom an event's commands are for, and `returned` is every command handed
to the coordinator, known by its page and its place. `Saga` packs a command for its output domain without a root
and a sequence, and what becomes of it is up to the coordinator. `SagaRouter` is handed its `Destinations`, which
the framework made of any of a domain's books.

**ReadSide** is the way of a stored event through `UpcasterRouter`, `ProjectorRouter` with `Projector`, and
`CloudEventsRouter`, with registrations before and books cut anywhere. An upcaster's suffix is a model value
that `EndsIn` gives its URLs: the code compares endings of texts, and endings overlap.

**Connecting** is `ExponentialBackoffRetry::execute` around connecting and one call, with the table of which
service method each client method calls (`Rpcs`) and the sync modes it may be sent with (`Modes`): `handle_command`
sends whatever mode it was given, and only a command whose caller waits is known to be recorded when the answer is
OK. The connection may break before or after the coordinator took the command up, `Process` gets to it later, and
the coordinator compares sequences, so that it records the command once, or merges, the builder's default, so that
it records every arrival.
`doublings`, for `std::pow(2, attempt)`, and the rounding of jitter are computed in integers: delays are whole
milliseconds, and the cap keeps doubles exact.

The modules that one MC module puts together (`MCCommandBuilder`, `MCEventRouter`, `MCSagas`, and of these
`MCFlowsAndReaders` and `MCBuildersAndSagas`) are systems of which only one moves in any behaviour; they share a run
and nothing else.

## 3. Runs

| Run | Bounds | What it shows |
|---|---|---|
| `CommandPath` | 2 applications, 1 root, 1 book each, 2 sends per book, both modes, a URL without a handler | types; no book recorded twice; OK means recorded; a refusal is final; a conflict is real |
| `CommandPathRoots` | 1 application, 2 roots, 3 books, 1 send each | implements `SequencedLog`; nothing of one root reaches a decision about the other through the shared members; `exists()` keeps a second Create out |
| `CommandPathSnapshots` | 2 applications, 1 send, both modes, snapshots | the precomputed `next_sequence` keeps conflicts real when pages are hidden |
| `CommandPathExists` | 1 application, snapshots | *violated*: see Findings |
| `FlowsAndReaders`, flows | 2 workflows and the uncorrelated stream, events of 3 kinds (one workflow 2, the others 1), books of 1-3 pages that may mix notifications and events, rejection handlers that compensate, emit facts and forward, 1 exception anywhere | commands, facts, compensations and forwarded notifications as one by one, in order, even after an exception left facts in the member; a notification that shares its book with events may cost commands and invents none; uncorrelated events are inert |
| `FlowsAndReaders`, readers | 2 roots, 2 flows, 3 events, 3 setter calls, pages of 2 | the query says what was asked; answers are whole; paging meets each event once |
| `EventRouter` | all chains of up to 5 calls, 2 domains, 2 types, books of 1-2 pages; all sequences of 4 declarations of 2 classes with 2 types, 7 requests, 4 prior books; 2 of 3 upcasters, 2 projectors, 3 stored events, books of 1-2 pages | dispatch and destinations as declared, subscriptions agree; aggregates run and announce what was declared, the ways agree where nothing competes; events are projected as what they are today, once, and upcasting is stable |
| `EventRouterSuffix` | chains of up to 3 calls with simple names | *violated*: see Findings |
| `BuildersAndSagas`, builders | 4 setter calls; every day from 1970 to 2101; 16 policies of up to 4 attempts, 10 client methods | a book says what was said last, and is refused only when incomplete; UTC times are exact; `execute` ends truthfully, backs off, and what is recorded fits what the caller was told |
| `BuildersAndSagas`, sagas | a stream of 3 events, books of 1-2 pages, 3 targets of which 2 share a domain, 1 exception, 4 styles; chains of 2 components of 7 kinds, 2 registrations, 3 keys, 7 notifications, readable or not | each event's commands go out once and in order, its facts with them; a clear command is refused only when overtaken; a rejection ends where declared |
| `SagasBoth` | as the sagas above | *violated*: see Findings |
| `EventReaderAsOf` | 1 root, 2 setter calls | *violated*: see Findings |
| `EventReaderPages` | 1 root, 3 events, pages of 1 as documented | *violated*: see Findings |
| `CommandBuilderUuid` | 3 setter calls | *violated*: see Findings |

Why these bounds are enough to meet the interesting cases. Two applications are the fewest that can overtake each
other between looking, deciding and recording, and two sends the fewest for a late first attempt to arrive after
its retry was answered. One application is enough for concurrency too: it may give up on a call that is still under
way and start another. Three books over two roots let the shared instance reach a state on one root that would show
in a decision about the other. In the process flow, two events that each cause commands, a page cut that may fall
anywhere, one exception in any callback, and a rejection of each command, produce every order of leftovers and
notifications, and the kind without an applier sends equal commands twice; the second workflow and the stray events
are there to receive what the first left behind. Five calls are a domain with a handler, another domain, the first
again, and one more registration. Four declarations are two of a type for each of two classes, or methods and
appliers of both; the requests hold an empty book, an empty URL, a foreign package and a foreign prefix. The
upcasters overlap in their endings, and one makes what another takes. Two targets in one domain and one alone in
its own are all that `Destinations` tells apart, with events that send one command, two and none. Chains of two
components have every kind forward to every other; longer ones are the theorems' business. Delays from 1 and 2 ms
with a cap of 6 ms grow, meet the cap off a power of two, and are cut by jitter to zero. Three events with pages of
two give a full page, a part page and a page that grows. 2101 lies behind a century without, and 2000 is a century
with, a leap day.

Deadlock checking is off where a bounded system comes to its end: all books sent, all events handled, a
chain complete, the last day reached, a rejection settled, a call made.

*Fairness and liveness.* No run assumes fairness, and no property is a liveness property. What would have to
happen in the end depends on programs outside this repository: `handle` and `handle_sync` set no deadline
(`client.hpp:253`, `client.hpp:278`) and channels have no keepalive, so that nothing in this code makes a call
return whose answer is lost; and that an accepted asynchronous command is "guaranteed to be processed" is the
coordinator's promise. A liveness property would hold only under a fairness that assumes as much. What this code
does by itself, dispatching a book or making a bounded number of attempts, are loops over what they are given.

## 4. Proofs

All proofs hold for every value of the constants that satisfies the modules' named assumptions. Apart from bounds
in `Nat`, these say what the code gives: a type name is made of a package and a name (`RouterAssumption`);
nothing is registered under the empty name, whether tables are filled with full names or, by the macros, with
simple ones (`NameAssumption`, `AggregatesAssumption`); an event is no `Notification` and lies in no Any without a
URL, since `PackFrom` gives one (`EventsAssumption`, `FlowAssumption`, `ReadAssumption`, `UrlsAssumption`); events
are Anys, and a time of day three integers (`ReadAssumption`, `CalendarAssumption`).

Recursive definitions are recursive functions and folds throughout. What they compute is proved by induction over
the numbers below a length: `SequenceFacts` derives induction from the least element of a set of numbers
(`Induction`, `InductionUpTo`), shows that the function inside `Picked` and `FlattenSeq` exists and what it does
with one element more, none, or a concatenation; `FoldFacts` does the same for `FoldLeft` over any `Step`,
a fold over a concatenation included (`FoldConcat`), and is instantiated once per loop of the code.

**CommandPathProofs.** The chain of inductive invariants:

- `Base` = `TypeOK` and `Answered` (a decided call holds exactly one page). Types alone are not inductive:
  `Record` takes the head of the answer.
- `Sequences`: what a client, a book or a call knows of a log is never ahead of it (`LogGrows`, `InStep`).
  From it `ConflictsAreReal`, with or without locking and snapshots.
- `Histories`: the book a call loaded is a prefix of the log, and its answer the decision on that prefix.
  `DispatchForgets`, that `dispatch` does not depend on the members it finds, is where the reset at the start
  of dispatch enters. From it `Serializable` (`DecidedOnHistory`), without snapshots, even when nothing
  compares sequences: the stamp and the store's free-slot rule suffice. No run repeats that case.
- `HistoryMakesExist`: replaying any history with an event in it sets `exists_`. With `Histories`, and the
  hypothesis that the methods make a creation of no aggregate that exists (`CreationsRequireNotExists`),
  `CreatedAtMostOnce`: a creation is the first event of its log. The run `CommandPathExists` shows that its
  other hypothesis, no snapshots, cannot be dropped.
- `Identities` and `Slots`: calls for the same client and number carry the same book, and a recorded book
  occupies exactly the slot of its sequence. From them `RecordedAtMostOnce` and `OkMeansRecorded`, with the
  sequence check, snapshots or not.
- `Refusals`: a refused book's slot, once filled, is filled by another book, because the same decision on
  the same history refuses again. From it `RefusalsAreFinal`, with the check and without snapshots.
- `CommandsAreAtomic`: the refinement. `Record` maps to `Commit`, `Send` to `Issue`, all else to a stutter.

"Without snapshots" is not a convenience: with them the aggregate decides on pages that start in the middle
of the history, and the code restores nothing from the snapshot (see Findings).

**ProcessFlowProofs.** `StrayEventsAreInert`: whatever the handlers, events without a correlation id cause
neither commands nor facts. The other theorems share one hypothesis, that handlers and rejection handlers return
sequences (`AnswersAreSequences`). `Alone` is what the pages taken from a workflow come to when each is handled by
itself, a fold of `Turn`; the invariant says of every workflow that its book, facts and forwarded notifications are
`Alone`'s, and its commands too, or, once a notification shared a book, some of them. Nothing is said of the members:
`rebuild_state` and `clear_facts` make a dispatch independent of what the one before left there, after an exception
too. `WalkTurn`: a walk that has not ended and visits a page gains what `Turn` gives for it; `WalkStop`: one that
ended stays as it is; so a walk over a book gathers the fold of `Turn` over the pages it reached (`Gathers`), and an
answered dispatch extends the stream's fold by it (`Stream`, with `FoldConcat`). Where a notification ended the walk
the commands are dropped, and the rest is `Turn`'s nonetheless: so `FactsOneByOne` and `RejectionsOneByOne` need no
guard, `CommandsOneByOne` needs `~mixed`, and `NothingIsInvented` says what is left of commands without it. All hold
for books of every length, any number of workflows and exceptions.

**RegistrationProofs.** *Event routers*: `ChainOK` (the chain's shape, and that the current domain is the one named
last), `ListsOK` (each entry of a list stands for one call, in the order of the chain, and each call made for the
domain has an entry) and `MapsOK` (each map entry is the last such call) are inductive together. From them
`ChainsAreObeyed` (handlers), `PreparationsAreObeyed` (destinations) and `SubscriptionsAreHandled`. *Aggregates*:
`DeclaredOK`, `LastsOK` (each map holds the last declaration for a name, of a class or of all classes) and
`FirstsOK` (a list keeps the declarations of its class in order, so that its first match is the first declared).
From them `DeclarationsAreObeyed`, which speaks of the three classes that keep methods, and from this and
`Unambiguous`, where first and last are one, `WaysAgreeWithoutRivals`: `CommandRouter` agrees where it has a
rebuild function and a URL has the usual prefix, the legacy class where no other class of its state declares
anything, and `CommandHandlerRouter`, whose handler chooses the method, where it chooses the one the base class
would, so that of it only the state is proved. *Reading*: `StreamsOK` (stored pages carry their place), `BoxesOK`
(a handler's table holds the last registration) and `ProjectedOK` (what was shown is what was seen, projected page
by page); a book seen later appends its own projections (`FlattenConcat`), and what cannot be parsed is struck out
of both sides. From them `EveryEventIsProjected` and `UpcastingIsStable`.

**SagasProofs.** `EveryEventOnce` and `FactsWithTheirEvent` are inductive once it is known that the book
being handled lies inside the stream and that only handled pages ended a book (`Bounded`); commands returned with one
book more are those of its visited pages behind those of the pages before (`FlattenConcat`, `FlattenIn`).
`Trustworthy`: a command in the outbox that is `clear` carries the sequence its target had when its book was fetched;
this is where `Destinations`' one entry per domain enters. From them `CommandsOnce`, `FactsOnce` and, for any step,
`RefusedOnlyIfOvertaken`. The only assumptions are bounds in `Nat` and that a blank page sends nothing. For
rejections, `Agrees`: what a registry holds for a key is what the last registration for that key says, and is an
answer its kind's handlers can give; `Hops`: each response so far is the class's response to the one notification.
With a lemma per class on what it makes of an answer, `RejectionsEndWhereDeclared` follows, for chains of every
length.

**EventReaderProofs.** `Shape` and `InForce` relate the builder's flags and leftovers to what was asked.
`BuilderSaysWhatWasAsked` needs the hypothesis `Careful`, that the reader never calls `as_of_time` on a builder on
which it has called `as_of_sequence`; the run `EventReaderAsOf` shows that it cannot be dropped. `StreamOwes` says
that what matched when a stream began is got or still to come; with it, `AnswersAreWhole`. `Dense` says that the
sequences of a root's events are all numbers below their count, each once, so that a page of them moves the reader
exactly behind its last event; with `Standing`, where the reader stands and what it has got,
`PagesAreDisjointAndComplete`. It too needs `Careful`: a stale window would answer another page; and it excludes
`AsDocumented`, under which the run `EventReaderPages` meets an event twice.

**ClientProofs.** `Held` relates each member of the command builder to what was asked of it, the flag of the
sequence and the default strategy included; `BooksSayWhatWasAsked` follows for any number of calls and builds.
`TimesAreExact`: the calendar, walked a day at a time, is at every date where the two loops of `parse_rfc3339` put
it (`CalendarInv`). The loop over years is tied to the walk by `YearsAreCounted`, the loop over months by
`MonthsAreCounted`, leap days and all; the run walks to 2101, the theorem to any year. For `execute`, `Told` ties
`phase` to the number of outcomes, that all but the last failed, and what is recorded or pending to the sync mode
and to whether some attempt was UNAVAILABLE; from it `ExecuteTellsTheTruth` and `SuccessMeansRecorded`, for any set
of policies, merging coordinators and such as compare, a `max_attempts` below zero included. `Slept` ties each
delay to its attempt; that jitter takes at most half, and that `doublings` doubles, makes `WaitsLonger` of it.

Every property of a passing run is a theorem, under the hypotheses named above. The violations of section 5 are
model-checked only.

## 5. Findings

1. `CommandPathExists`: `exists()` and the state are computed from the pages of the prior book only; its
   snapshot is never read. An aggregate all of whose events lie behind a snapshot does not exist for its
   methods, and a second Create is recorded (`command_handler.hpp:165`, `helpers.hpp:66`).
2. `EventRouterSuffix`: "event type suffix" (`router.hpp:314`) is in fact the full type name; handlers
   registered as in the example of the class comment never run for events in a package.
3. `EventReaderAsOf`: `as_of_time` after `as_of_sequence` still builds a query for the sequence
   (`builder.hpp:332`, `builder.hpp:366`).
4. `CommandBuilderUuid`: `generate_uuid` fills only its version and variant digits, since its loop skips
   every place that holds a hyphen and all do: there are four different ids (`builder.hpp:194`).
5. `EventReaderPages`: paging with `range_to` as its comment shows, "100-200, then 200-300" (`builder.hpp:291`),
   fetches the event on the shared bound twice, since both bounds are inclusive.
6. `SagasBoth`: of an answer with "both" events and a notification (`handler_traits.hpp:44-47`) one is dropped, and
   not the same one everywhere (`router.hpp:162`, `component_router.hpp:198`, `component_router.hpp:548`).

Noticed and not run, each at its line:

- *Queries.* `parse_rfc3339` accepts an offset behind a timestamp and ignores it (`builder.hpp:441`).
- *Rejections.* A rejection handler registered by simple name, as in the examples of `command_handler.hpp:41`,
  `macros.hpp:24` and `macros.hpp:76`, is never found in `CommandHandlerBase` for a command that has a package
  (`command_handler.hpp:265`), nor by hand with `dispatch_key`, since `rejected_command_type` returns the package too,
  unlike its comment (`compensation.hpp:104`); the other classes look up the simple name. It is finding 2 once more,
  for commands. An empty answer is commented with "framework handles" (`handler_traits.hpp:55`), and each class makes
  something else of it: `CommandHandlerRouter` a system revocation (`component_router.hpp:208`), `CommandRouter` a
  revocation that asks for nothing (`router.hpp:174`), `ProcessManager` and `ProcessManagerRouter` an answer with
  nothing in it (`process_manager.hpp:260`, `component_router.hpp:547`), which is also `ProcessManager`'s answer where
  there is no handler. A notification ends `ProcessManager::dispatch`: the commands of earlier pages of the book are
  dropped, and later pages passed over (`process_manager.hpp:100`). An exception while the prior book is replayed
  leaves the facts of the dispatch before in place, as they are cleared afterwards (`process_manager.hpp:81`).
- *Registrations.* The legacy macros register simple names, which dispatch never finds for packaged types.
  The static tables of `Saga`, `Projector` and `CommandHandler` belong to the template's arguments or the base class
  and are shared by all classes built on them; their descriptors list others' types.
  `ProcessManager::descriptor` announces nothing.
- *Sagas.* `SagaRouter` and `ProcessManagerRouter` look at the last page only and drop the events that
  handlers return as facts. `ProcessManagerRouter::prepare_destinations` calls a method `prepare` that no
  interface declares (`component_router.hpp:474`). `Destinations` has one sequence per domain: of two
  targets of a domain, one command carries the other's. `SagaContext` returns 1 for a target without events,
  whose first sequence is 0 (`saga_context.cpp:30`). `Saga` ignores the destinations it is handed.
- *Upcaster.* Chains of versions are not followed in one pass, a new page keeps the sequence and the
  time and nothing else of the old one, and a suffix matches every type whose name ends in it.
- *Clients.* No call has a deadline and no channel a keepalive. `max_attempts` of zero or less leaves a client
  without a channel (`client.hpp:88`); connecting never fails, since channels connect lazily; every error is tried
  again, a refusal too; jitter on a delay of 1 ms sleeps 0 ms; `handle_sync` sets no cascade error mode, `handle`
  does.
- `CommandRejectedError::invalid_argument` answers `is_precondition_failed()` with true (`errors.hpp`).

`SagaFlow` and `Unwinding` state their properties around these: `EveryEventOnce` demands every page only of the
styles that look at every page, `TakenUnlessOvertaken` speaks of commands whose sequence is beyond doubt (`Clear`),
and `EndsWhereDeclared` of handlers with one answer, leaving `ProcessManagerRouter` out.

## 6. Not modelled

- *Errors, validation, macros, version, umbrella headers, empty translation units, build*: no
  state and no decisions beyond a comparison.
- *`from_env`* beyond its choice of an endpoint; channel credentials.
- *Handler interfaces* of `handler_traits.hpp`: pure virtual functions that users write; their defaults are modelled.
- *`ProcessManagerRouter::prepare_destinations`*, which no handler can be given to (see Findings).
- *Subjects, types and extensions of CloudEvents*: layout.
- *Offsets, dates no calendar has, and years before 1970*, which `parse_rfc3339` accepts; for a month above 13 it
  reads behind an array.
- *Edits of the registrations after the first dispatch* of aggregates and process managers: the tables are
  filled in constructors, and are constants here.

## 7. Plan

Done: the command path, the process manager, the routers, the builders and the query client; rejections in
all classes, sagas with their destinations, the read side, retry and connecting. Left, in order of worth:

1. **Composition**: rejected commands of `SagaFlow` as the notifications of `Unwinding`, and `ReadSide` fed
   by the log of `CommandPath`.
2. **An abstract compensation protocol** which `Unwinding` implements where `Named` holds.
3. **Proofs**: the builder of `CommandPath` related to `CommandBuilder`'s, so that `BooksSayWhatWasAsked`
   feeds the command path, and the theorems of the compositions above.
4. **Calendar**: what `parse_rfc3339` makes of dates no calendar has, once it is decided what it should.
