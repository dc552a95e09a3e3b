----------------------------- MODULE CommandPath -----------------------------
(***************************************************************************)
(* The way of a command through the system: an application reads the       *)
(* aggregate's sequence (QueryClient), builds a command book for it        *)
(* (CommandBuilder) and sends it (CommandHandlerClient); the coordinator   *)
(* loads the prior events, lets the aggregate decide (CommandHandlerBase)  *)
(* and records what it decided.  Any number of these are under way at      *)
(* once, connections break, and a caller whose connection broke does not   *)
(* know what happened and may send the same book again.                    *)
(*                                                                         *)
(* The coordinator and the event store are not in this repository.  They   *)
(* are modelled from what the library asks of them: prior events and a     *)
(* precomputed next_sequence in each ContextualCommand, the sequence check *)
(* that CommandBuilder.with_sequence documents, and a store that gives one *)
(* sequence number to one event.                                           *)
(***************************************************************************)
EXTENDS CommandHandler

CONSTANTS
    Clients,     \* application threads, each with a client of its own
    Roots,       \* aggregate roots of the one domain
    Urls,        \* command type URLs the applications use
    SyncModes,   \* subset of {"async", "simple"}: handle() and handle_sync()
    MaxBooks,    \* command books one application builds
    MaxTries,    \* times it sends one book
    Locking,     \* the coordinator compares the book's sequence; if not, it
                 \* merges (MERGE_COMMUTATIVE, CommandBuilder's default)
    Snapshots,   \* the coordinator snapshots aggregates
    Creations,   \* events the methods make only where exists() is false
    NoCommand    \* what an application holds before it built a book

ASSUME BoundsAssumption == MaxBooks \in Nat /\ MaxTries \in Nat
ASSUME ModesAssumption == /\ SyncModes \subseteq {"async", "simple"}
                          /\ Locking \in BOOLEAN
                          /\ Snapshots \in BOOLEAN
\* Applications send commands; notifications come from the coordinator.
ASSUME UrlsAssumption ==
    \A url \in Urls : ~type_url_matches(url, NotificationType)

VARIABLES
    log,      \* event store: per root, the recorded pages
    snapped,  \* per root, how many of them a snapshot stands for
    members,  \* state_ and exists_ of the one CommandHandlerBase instance
    client,   \* per application thread, where it is
    calls     \* every HandleCommand call made so far, and how far it got

vars == <<log, snapped, members, client, calls>>

-----------------------------------------------------------------------------
\* A command book; client and number stand for the correlation id.
CommandBooks == [client : Clients, number : 1..MaxBooks, root : Roots,
                 sequence : Nat, url : Urls]

\* CommandBuilder.build with type, payload and sequence set: one page.
build(c, n, root, seq, url) ==
    [client |-> c, number |-> n, root |-> root, sequence |-> seq, url |-> url]

\* The command as dispatch sees it.
Contextual(command) ==
    [urls |-> <<command.url>>, notification |-> [domain |-> "", pages |-> <<>>]]

\* What the store keeps of an event it records for a command.
Pages == [sequence : Nat, event : EventAnys, by : CommandBooks]

Recorded(page, command) ==
    [sequence |-> page.sequence, event |-> page.event, by |-> command]

\* The store's book of an aggregate: a snapshot hides the pages it stands for,
\* and an aggregate without events has an empty book or no book at all.
StoredBook(history, hidden) ==
    Book(Len(history), SubSeq(history, hidden + 1, Len(history)))

Stored(root) == {StoredBook(log[root], snapped[root])}
                    \cup {book \in {NoBook} : log[root] = <<>>}

-----------------------------------------------------------------------------
NoAnswer == Throws("nothing")

\* One HandleCommand call, as it leaves the client.  (`seen' is not in the
\* code: the events recorded when the application looked.)
Request(command, try, mode, seen) ==
    [command |-> command, try |-> try, mode |-> mode, seen |-> seen,
     stage |-> "sent", book |-> NoBook, answer |-> NoAnswer, status |-> "none"]

Again(call) == Request(call.command, call.try, call.mode, call.seen)

\* The call client c is waiting for.
OwnCall(c, call) == /\ call.command = client[c].command
                    /\ call.try = client[c].try

Becomes(call, next) == calls' = (calls \ {call}) \cup {next}

Ends(call, status) ==
    Becomes(call, [Again(call) EXCEPT !.stage = "done", !.status = status])

Init ==
    /\ log = [root \in Roots |-> <<>>]
    /\ snapped = [root \in Roots |-> 0]
    /\ members = [state |-> Factory, exists |-> FALSE]
    /\ client = [c \in Clients |-> [pc |-> "idle", built |-> 0, try |-> 0,
                                    mode |-> "none", seen |-> 0, command |-> NoCommand]]
    /\ calls = {}

-----------------------------------------------------------------------------
(***************************************************************************)
(* The application and its clients.                                        *)
(***************************************************************************)
\* get_event_book, then a builder with_sequence(next_sequence(book)).  By the
\* time the book is sent, the sequence may be stale.
Prepare(c) ==
    /\ client[c].pc = "idle"
    /\ client[c].built < MaxBooks
    /\ \E root \in Roots, url \in Urls, mode \in SyncModes : \E book \in Stored(root) :
         client' = [client EXCEPT ![c] =
             [pc |-> "ready", built |-> @.built + 1, try |-> 0, mode |-> mode,
              seen |-> Len(log[root]),
              command |-> build(c, @.built + 1, root, next_sequence(book), url)]]
    /\ UNCHANGED <<log, snapped, members, calls>>

\* Fault: a retry builds the command again, for the sequence of the moment.
SendRebuilt(c) ==
    LET now == Len(log[client[c].command.root])
        command == [client[c].command EXCEPT !.sequence = now]
    IN  /\ client[c].pc \in {"ready", "unavailable"}
        /\ client[c].try < MaxTries
        /\ client' = [client EXCEPT ![c].pc = "waiting", ![c].try = @ + 1,
                                    ![c].command = command]
        /\ calls' = calls \cup {Request(command, client[c].try + 1, client[c].mode, now)}
        /\ UNCHANGED <<log, snapped, members>>

\* handle (asynchronous) or handle_sync: the first call, or, after a GrpcError
\* that is a connection error, another one with the same command book.
Send(c) ==
    /\ client[c].pc \in {"ready", "unavailable"}
    /\ client[c].try < MaxTries
    /\ client' = [client EXCEPT ![c].pc = "waiting", ![c].try = @ + 1]
    /\ calls' = calls \cup {Request(client[c].command, client[c].try + 1,
                                    client[c].mode, client[c].seen)}
    /\ UNCHANGED <<log, snapped, members>>

\* The status came back: the call returns or throws GrpcError.  An
\* asynchronous call is answered once the coordinator has accepted it.
Receive(c) ==
    /\ client[c].pc = "waiting"
    /\ \E call \in calls :
         /\ OwnCall(c, call)
         /\ \/ call.stage = "done"
            \/ call.mode = "async" /\ call.stage \in {"accepted", "loaded", "decided"}
    /\ client' = [client EXCEPT ![c].pc = "idle"]
    /\ UNCHANGED <<log, snapped, members, calls>>

\* The connection broke: GrpcError(UNAVAILABLE), whatever became of the call.
Disconnect(c) ==
    /\ client[c].pc = "waiting"
    /\ client' = [client EXCEPT ![c].pc = "unavailable"]
    /\ UNCHANGED <<log, snapped, members, calls>>

\* The application stops trying and goes on to other work.
GiveUp(c) ==
    /\ client[c].pc = "unavailable"
    /\ client' = [client EXCEPT ![c].pc = "idle"]
    /\ UNCHANGED <<log, snapped, members, calls>>

-----------------------------------------------------------------------------
(***************************************************************************)
(* The coordinator (external), and the aggregate it calls.                 *)
(***************************************************************************)
\* A request that never arrives, or a call whose coordinator or aggregate died.
Lose(call) ==
    /\ call.stage \in {"sent", "accepted", "loaded", "decided"}
    /\ Becomes(call, [Again(call) EXCEPT !.stage = "lost"])
    /\ UNCHANGED <<log, snapped, members, client>>

Accept(call) ==
    /\ call.stage = "sent"
    /\ Becomes(call, [call EXCEPT !.stage = "accepted"])
    /\ UNCHANGED <<log, snapped, members, client>>

\* Read the prior events; refuse a book made for another sequence.
Load(call) ==
    /\ call.stage = "accepted"
    /\ \E book \in Stored(call.command.root) :
         IF Locking /\ call.command.sequence # next_sequence(book)
         THEN Ends(call, "conflict")
         ELSE Becomes(call, [call EXCEPT !.stage = "loaded", !.book = book])
    /\ UNCHANGED <<log, snapped, members, client>>

\* CommandHandlerBase.dispatch on the loaded book, by the one instance.
Dispatch(call) ==
    /\ call.stage = "loaded"
    /\ members' = rebuilt(members, call.book)
    /\ LET answer == dispatch(members, call.book, Contextual(call.command))
       IN  IF answer.kind = "events"
           THEN Becomes(call, [call EXCEPT !.stage = "decided", !.answer = answer])
           ELSE Ends(call, answer.kind)
    /\ UNCHANGED <<log, snapped, client>>

\* Fault: a taken slot is reported as success.
RecordSilent(call) ==
    LET root == call.command.root
        page == Head(call.answer.book.pages)
    IN  /\ call.stage = "decided"
        /\ log' = IF page.sequence = Len(log[root])
                  THEN [log EXCEPT ![root] = Append(@, Recorded(page, call.command))]
                  ELSE log
        /\ Ends(call, "ok")
        /\ UNCHANGED <<snapped, members, client>>

\* The store records the event if its sequence number is still free.
Record(call) ==
    LET root == call.command.root
        page == Head(call.answer.book.pages)
    IN  /\ call.stage = "decided"
        /\ IF page.sequence = Len(log[root])
           THEN /\ log' = [log EXCEPT ![root] = Append(@, Recorded(page, call.command))]
                /\ Ends(call, "ok")
           ELSE /\ Ends(call, "conflict")
                /\ UNCHANGED log
        /\ UNCHANGED <<snapped, members, client>>

TakeSnapshot(root) ==
    /\ Snapshots
    /\ snapped[root] < Len(log[root])
    /\ snapped' = [snapped EXCEPT ![root] = Len(log[root])]
    /\ UNCHANGED <<log, members, client, calls>>

-----------------------------------------------------------------------------
Application(c) == Prepare(c) \/ Send(c) \/ Receive(c) \/ Disconnect(c) \/ GiveUp(c)

Serve(call) == Accept(call) \/ Load(call) \/ Dispatch(call) \/ Record(call)

Next == \/ \E c \in Clients : Application(c)
        \/ \E call \in calls : Serve(call) \/ Lose(call)
        \/ \E root \in Roots : TakeSnapshot(root)

\* No fairness: a call carries no deadline and its channel no keepalive, so that
\* nothing in the code makes a call whose answer is lost ever return.
Spec == Init /\ [][Next]_vars

-----------------------------------------------------------------------------
(***************************************************************************)
(* What one undisturbed run of the aggregate decides for a command, given  *)
(* everything recorded before it.  SequencedLog says that this, taken in   *)
(* one step, is what every command does.                                   *)
(***************************************************************************)
Decision(history, command) ==
    LET answer == dispatch([state |-> Factory, exists |-> FALSE],
                           Book(Len(history), history), Contextual(command))
    IN  IF answer.kind = "events" THEN {Recorded(Head(answer.book.pages), command)} ELSE {}

Promise == INSTANCE SequencedLog
             WITH Books <- CommandBooks,
                  issued <- {call.command : call \in calls}

-----------------------------------------------------------------------------
(***************************************************************************)
(* Properties.                                                             *)
(***************************************************************************)
Stages   == {"sent", "lost", "accepted", "loaded", "decided", "done"}
Statuses == {"none", "ok", "conflict", "InvalidArgumentError", "CommandRejectedError"}

LoadedBooks == {NoBook} \cup [present : {TRUE}, next_sequence : Nat, pages : Seq(Pages)]
AnswerPages == [sequence : Nat, event : EventAnys]
Answers == [kind : {"nothing", "events"},
            book : {NoBook} \cup [present : {TRUE}, next_sequence : {0}, pages : Seq(AnswerPages)]]

Calls == [command : CommandBooks, try : 1..MaxTries, mode : SyncModes, seen : Nat,
          stage : Stages, book : LoadedBooks, answer : Answers, status : Statuses]

\* Types of every variable but `members', whose state is the user's.
TypeOK ==
    /\ log \in [Roots -> Seq(Pages)]
    /\ snapped \in [Roots -> Nat]
    /\ client \in [Clients -> [pc : {"idle", "ready", "waiting", "unavailable"},
                               built : 0..MaxBooks, try : 0..MaxTries,
                               mode : SyncModes \cup {"none"}, seen : Nat,
                               command : CommandBooks \cup {NoCommand}]]
    /\ \A c \in Clients : client[c].pc # "idle" =>
          client[c].command \in CommandBooks /\ client[c].mode \in SyncModes
    /\ calls \subseteq Calls

\* Every recorded event is what the aggregate decides, alone, on exactly the
\* events recorded before it, and carries the sequence number of its place:
\* commands interleaved in any way leave a log that some serial order explains.
DecidedOnHistory ==
    \A root \in Roots : \A i \in DOMAIN log[root] :
        /\ log[root][i] \in Decision(SubSeq(log[root], 1, i - 1), log[root][i].by)
        /\ log[root][i].sequence = i - 1

\* An aggregate that has prior events is not created again: exists() told the
\* method so ("Check if the aggregate exists (has prior events)").
NoSecondCreate ==
    \A root \in Roots : \A i \in DOMAIN log[root] : i > 1 => log[root][i].event \notin Creations

\* However often a book is sent again after a broken connection, and whatever
\* became of the earlier calls, it is recorded at most once (with_sequence).
AtMostOnce ==
    \A r1, r2 \in Roots : \A i \in DOMAIN log[r1], j \in DOMAIN log[r2] :
        /\ log[r1][i].by.client = log[r2][j].by.client
        /\ log[r1][i].by.number = log[r2][j].by.number
        => r1 = r2 /\ i = j

\* A synchronous call answered OK is in the log at the place its book named,
\* and stays there (handle_sync: "blocks until ... events are persisted").
OkIsRecorded ==
    \A call \in calls : call.status = "ok" =>
        \E i \in DOMAIN log[call.command.root] :
            /\ i = call.command.sequence + 1
            /\ log[call.command.root][i].by = call.command

\* What the aggregate refused once it has refused for good: no other call for
\* the same book, earlier, later or still under way, gets it recorded.
RefusalIsFinal ==
    \A call \in calls : call.status \in {"InvalidArgumentError", "CommandRejectedError"} =>
        \A i \in DOMAIN log[call.command.root] : log[call.command.root][i].by # call.command

\* A conflict is never spurious: since the application looked at the aggregate,
\* another book, or an earlier call for this one, has been recorded.
ConflictMeansOvertaken ==
    \A call \in calls : call.status = "conflict" =>
        Len(log[call.command.root]) > call.seen

\* The promise of with_sequence: each command one atomic step of SequencedLog.
AtomicPromise == Promise!Spec
=============================================================================
